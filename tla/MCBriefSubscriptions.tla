------------------------ MODULE MCBriefSubscriptions ------------------------
(* Model values and initial stores for the runs of BriefSubscriptions.     *)
EXTENDS BriefSubscriptions, TLC

CONSTANTS m1, m2

MCMembers == {m1, m2}
MCOne == {m1}

Subscribed(set) == [m \in Members |-> IF m \in set THEN NewEntry ELSE NoEntry]

\* Everybody is subscribed, and nothing has been sent.
MCAll == {Subscribed(Members)}

\* One is subscribed and the other is not.
MCHalf == {Subscribed({m1})}

\* As MCAll, or from before the process last stopped: compile 1 was sent.
MCOlder ==
  {Subscribed(Members),
   [m \in Members |-> IF m = m1 THEN [day |-> 1, floor |-> 1] ELSE NewEntry]}

MCSymmetry == Permutations(Members)
=============================================================================
