--------------------------- MODULE AnnounceHealth ---------------------------
(***************************************************************************)
(* What this node knows of its crew (plugin/announce-health.js and the     *)
(* persistence of plugin/storage.js): the ratchet key and the path of a    *)
(* member, learnt from its announces only, kept in memory by the transport *)
(* and on disk by the persistor.                                           *)
(*                                                                         *)
(* What is encrypted to a key the member has replaced is dropped by it     *)
(* silently.  Announces may be lost for hours; a sweep asks for the path   *)
(* of a member not heard for that long, and the answer is an announce.     *)
(* Time is in ticks of the sweep's interval.  The members, the mesh and    *)
(* the persistor are not the plugin's.                                     *)
(***************************************************************************)
EXTENDS Integers

CONSTANTS
  N,               \* bound: how many crew members are configured, at most
  StaleAfter,      \* staleAfterMs
  RerequestEvery,  \* rerequestEveryMs
  Scenarios        \* how many members are configured, who of them is in reach at first,
                   \* of whose boats we see what they show of ours, the interval of
                   \* telemetry in ticks, the readings of the bus; and bounds: new keys
                   \* of members, stores and requests that fail, restarts, members that
                   \* come into or leave reach, changes on the bus, answers with an
                   \* announce from before; a behaviour has one of them

Bounds == {"rotations", "failures", "restarts", "moves", "changes", "olds"}

ASSUME HealthAssumption ==
  /\ N \in Nat /\ StaleAfter \in Nat /\ RerequestEvery \in Nat
  /\ \A s \in Scenarios :
       /\ s.crew \in 1..N /\ s.reach \subseteq 1..N /\ s.boats \subseteq 1..N
       /\ s.interval \in Nat \ {0} /\ s.bounds \in [Bounds -> Nat]

VARIABLES
  scenario,
  reach,      \* the members the mesh has a way to
  current,    \* members whose present key is in memory
  saved,      \* ... and on disk
  storing,    \* <<m, c>>: a store of m's announce is under way, c: whether with m's present key
  unsaved,    \* history: members whose present key the disk may miss, since the restart: its
              \* store failed, or began while that of an announce from before was under way
  heard,      \* of each member: t - heardAt, as far as it matters
  requested,  \* of each member: t - requestedAt, as far as it matters
  asked,      \* members a path request for whom is under way
  left        \* bounds: what is left of the scenario

keyVars == <<current, saved, storing, unsaved>>
sweepVars == <<heard, requested, asked>>
healthVars == <<scenario, reach, keyVars, sweepVars>>

\* The crew, in the order of its configuration, and the places there are for it.
Slots == 1..N
Members == 1..scenario.crew

Never == StaleAfter + 1

Spend(b) == left[b] > 0 /\ left' = [left EXCEPT ![b] = @ - 1]

HealthInit ==
  /\ scenario \in Scenarios /\ left = scenario.bounds
  /\ reach = scenario.reach
  /\ current \in SUBSET Members /\ saved = current
  /\ storing = {} /\ unsaved = {}
  /\ heard = [m \in Slots |-> Never]
  /\ requested = [m \in Slots |-> RerequestEvery]
  /\ asked = {}

-----------------------------------------------------------------------------
(* The members, and the mesh *)

\* The member replaces its key.
Rotate(m) ==
  /\ Spend("rotations")
  /\ current' = current \ {m} /\ saved' = saved \ {m}
  /\ storing' = (storing \ {<<m, "present">>})
                  \cup (IF <<m, "present">> \in storing THEN {<<m, "old">>} ELSE {})
  /\ UNCHANGED <<scenario, reach, unsaved, sweepVars>>

Move(m) ==
  /\ Spend("moves")
  /\ reach' = IF m \in reach THEN reach \ {m} ELSE reach \cup {m}
  /\ UNCHANGED <<scenario, keyVars, sweepVars>>

\* The request, or what answers it, is lost.
Unanswered(m) ==
  /\ m \in asked
  /\ asked' = asked \ {m}
  /\ UNCHANGED <<scenario, reach, keyVars, heard, requested, left>>

-----------------------------------------------------------------------------
(* What the plugin does *)

\* What a store of m's announce that begins, or fails, says of the disk.
Saving(m, key) ==
  unsaved' = IF key = "old" THEN unsaved
             ELSE IF <<m, "old">> \in storing THEN unsaved \cup {m} ELSE unsaved \ {m}

\* A mutant: only the first announce since the start, or since the member went stale, is
\* stored.
IngestOnce(m, key) ==
  /\ current' = IF key = "present" THEN current \cup {m} ELSE current
  /\ storing' = IF heard[m] > StaleAfter THEN storing \cup {<<m, key>>} ELSE storing
  /\ heard' = [heard EXCEPT ![m] = 0]
  /\ Saving(m, key)

\* The transport has taken in an announce, with the present key or with one from before
\* it was replaced; onAnnounce, of the watchdog and of watchAnnounces: the time is noted,
\* and a store begun that nothing waits for, nor orders with those before it.  Stores of
\* one member and key are taken as one, which ends with the last of them.
Ingest(m, key) ==
  /\ current' = IF key = "present" THEN current \cup {m} ELSE current
  /\ storing' = storing \cup {<<m, key>>}
  /\ heard' = [heard EXCEPT ![m] = 0]
  /\ Saving(m, key)

\* An announce of the member's own, which any node may lose.
Announced(m) ==
  /\ m \in reach
  /\ Ingest(m, "present")
  /\ UNCHANGED <<scenario, reach, saved, requested, asked, left>>

\* The answer to a request: from the member, or an older announce from a node between.
Answered(m) ==
  /\ m \in asked \cap reach
  /\ Ingest(m, "present")
  /\ asked' = asked \ {m}
  /\ UNCHANGED <<scenario, reach, saved, requested, left>>

AnsweredOld(m) ==
  /\ m \in asked \ current /\ Spend("olds")
  /\ Ingest(m, "old")
  /\ asked' = asked \ {m}
  /\ UNCHANGED <<scenario, reach, saved, requested>>

\* The store ends; its failure is only logged.
Stored(m, c) ==
  /\ <<m, c>> \in storing
  /\ storing' = storing \ {<<m, c>>}
  /\ \/ /\ saved' = IF c = "present" THEN saved \cup {m} ELSE saved \ {m}
        /\ UNCHANGED <<unsaved, left>>
     \/ /\ Spend("failures")
        /\ unsaved' = IF c = "present" THEN unsaved \cup {m} ELSE unsaved
        /\ UNCHANGED saved
  /\ UNCHANGED <<scenario, reach, current, sweepVars>>

\* A mutant: a member whose key is known is not asked.
DueUnknown == {m \in Members \ current : heard[m] > StaleAfter /\ requested[m] >= RerequestEvery}

\* sweep: the members not heard for long, and not asked for shortly before; a request
\* that cannot be sent counts as one.
Due == {m \in Members : heard[m] > StaleAfter /\ requested[m] >= RerequestEvery}
Sweep ==
  /\ Due # {}
  /\ requested' = [m \in Slots |-> IF m \in Due THEN 0 ELSE requested[m]]
  /\ \/ asked' = asked \cup Due /\ UNCHANGED left
     \/ \E m \in Due : asked' = asked \cup (Due \ {m}) /\ Spend("failures")
  /\ UNCHANGED <<scenario, reach, keyVars, heard>>

\* The process ends and starts again, with what is on disk.
HealthRestart ==
  /\ current' = saved
  /\ storing' = {} /\ unsaved' = {}
  /\ heard' = [m \in Slots |-> Never]
  /\ requested' = [m \in Slots |-> RerequestEvery]
  /\ asked' = {}
  /\ UNCHANGED <<scenario, reach, saved>>

Older(a, most) == IF a < most THEN a + 1 ELSE a

\* A mutant: every sweep of a stale member counts as a request, sent or not.
HealthTickRenewing ==
  /\ heard' = [m \in Slots |-> Older(heard[m], Never)]
  /\ requested' = [m \in Slots |-> IF heard[m] > StaleAfter THEN 0 ELSE Older(requested[m], RerequestEvery)]
  /\ UNCHANGED <<scenario, reach, keyVars, asked>>

\* The ages grow.
HealthTick ==
  /\ heard' = [m \in Slots |-> Older(heard[m], Never)]
  /\ requested' = [m \in Slots |-> Older(requested[m], RerequestEvery)]
  /\ UNCHANGED <<scenario, reach, keyVars, asked>>
=============================================================================
