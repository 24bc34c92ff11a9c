-------------------------- MODULE MCAlertEpisodes --------------------------
(***************************************************************************)
(* Finite instances of AlertEpisodes.                                      *)
(***************************************************************************)
EXTENDS AlertEpisodes, TLC

CONSTANTS ana, ben

\* Nobody configured, or two recipients.
MCCrewLists == {<<>>, <<ana, ben>>}
MCCrew == {<<ana, ben>>}

Symmetry == Permutations(Paths)
=============================================================================
