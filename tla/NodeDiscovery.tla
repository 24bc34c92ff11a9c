--------------------------- MODULE NodeDiscovery ---------------------------
(***************************************************************************)
(* The search for the closest propagation or federation node on the mesh   *)
(* (discoverClosestNode in plugin/discovery.js).                           *)
(*                                                                         *)
(* Announces of matching nodes come in any order and at any distance, a    *)
(* node more than once and over several routes.  The first one starts the  *)
(* grace timer; when that fires the closest node so far is handed to       *)
(* onSelect and the listener goes.  The caller may detach at any moment.   *)
(*                                                                         *)
(* An announce without a hop count is one at Far hops (Infinity in the     *)
(* code).  Announces of other aspects are ignored by the listener and are  *)
(* not represented.                                                        *)
(***************************************************************************)
EXTENDS Integers

CONSTANTS
  Nodes,    \* destination hashes announced on the aspects looked for
  Far,      \* the hop count of an announce that carries none
  NoNode    \* no node

ASSUME FarAssumption == Far \in Nat
ASSUME NoNodeAssumption == NoNode \notin Nodes

Hops == 0..Far

VARIABLES
  listening,  \* the announce listener is attached (not detached)
  closest,    \* the running candidate and its distance; Nobody before the first
  grace,      \* the grace timer is armed
  selected,   \* the node handed to onSelect, or NoNode
  best        \* history: the fewest hops each node was heard at while listening

discoveryVars == <<listening, closest, grace, selected, best>>

Nobody == [hex |-> NoNode, hops |-> Far]
Candidate == [hex : Nodes, hops : Hops]

Unheard == -1
HeardAt(n, h) ==
  [best EXCEPT ![n] = IF best[n] # Unheard /\ best[n] <= h THEN best[n] ELSE h]

DiscoveryInit ==
  /\ listening = FALSE
  /\ closest = Nobody
  /\ grace = FALSE
  /\ selected = NoNode
  /\ best = [n \in Nodes |-> Unheard]

\* discoverClosestNode is called: a new search, with nothing heard yet.
Listen ==
  /\ listening' = TRUE
  /\ closest' = Nobody
  /\ grace' = FALSE
  /\ selected' = NoNode
  /\ best' = [n \in Nodes |-> Unheard]

\* Faulty variant: the announce heard last wins.
LaterOne(n, h) == TRUE

\* Ties keep the first seen; any node beats nobody, even at Far.
Closer(n, h) == closest = Nobody \/ h < closest.hops

\* onAnnounce.
Hear(n, h) ==
  /\ listening
  /\ best' = HeardAt(n, h)
  /\ IF Closer(n, h)
       THEN closest' = [hex |-> n, hops |-> h] /\ grace' = TRUE
       ELSE UNCHANGED <<closest, grace>>
  /\ UNCHANGED <<listening, selected>>

\* finish: the grace timer fires; the search detaches, then selects.
Finish ==
  /\ grace
  /\ listening' = FALSE
  /\ grace' = FALSE
  /\ selected' = closest.hex
  /\ UNCHANGED <<closest, best>>

\* detach, as called by stop(): the listener and the timer go, if they are still
\* there, and nobody holds on to what the search has found.
Detach ==
  /\ listening' = FALSE
  /\ closest' = Nobody
  /\ grace' = FALSE
  /\ selected' = NoNode
  /\ best' = [n \in Nodes |-> Unheard]

DiscoveryNext ==
  \/ Listen
  \/ \E n \in Nodes, h \in Hops : Hear(n, h)
  \/ Finish
  \/ Detach

DiscoverySpec == DiscoveryInit /\ [][DiscoveryNext]_discoveryVars

-----------------------------------------------------------------------------
\* Every variable of the search keeps its type.
DiscoveryTypeOK ==
  /\ listening \in BOOLEAN
  /\ closest \in Candidate \cup {Nobody}
  /\ grace \in BOOLEAN
  /\ selected \in Nodes \cup {NoNode}
  /\ best \in [Nodes -> Hops \cup {Unheard}]

\* The search keeps what the comment on discoverClosestNode promises: "calling
\* onSelect(hex, hops) exactly once and then detaching" with the closest of the
\* candidates heard, over every order and repetition of the announces.
Promise == INSTANCE ClosestNode WITH chosen <- selected
SelectsClosestOnce == Promise!Spec
=============================================================================
