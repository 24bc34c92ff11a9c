---------------------------- MODULE ClosestNode ----------------------------
(***************************************************************************)
(* What the search for a service node promises (the comment on             *)
(* discoverClosestNode in plugin/discovery.js): of the nodes heard during a*)
(* search at most one is chosen, once, and none heard by then was closer.  *)
(***************************************************************************)
EXTENDS Integers

CONSTANTS Nodes, Hops, NoNode

VARIABLES
  best,     \* for each node, the fewest hops it was heard at; Unheard
  chosen    \* the node chosen, or NoNode

vars == <<best, chosen>>

Unheard == -1
Heard(n) == best[n] # Unheard

\* The closest of the nodes heard; more than one may be.
Closest(n) == Heard(n) /\ \A o \in Nodes : Heard(o) => best[n] <= best[o]

Init ==
  /\ best = [n \in Nodes |-> Unheard]
  /\ chosen = NoNode

Hear(n, h) ==
  /\ best' = [best EXCEPT ![n] = IF Heard(n) /\ best[n] <= h THEN best[n] ELSE h]
  /\ UNCHANGED chosen

Choose(n) ==
  /\ chosen = NoNode
  /\ Closest(n)
  /\ chosen' = n
  /\ UNCHANGED best

\* A search ends with the session, and the next session's starts afresh.
Restart ==
  /\ best' = [n \in Nodes |-> Unheard]
  /\ chosen' = NoNode

Next ==
  \/ \E n \in Nodes, h \in Hops : Hear(n, h)
  \/ \E n \in Nodes : Choose(n)
  \/ Restart

Spec == Init /\ [][Next]_vars
=============================================================================
