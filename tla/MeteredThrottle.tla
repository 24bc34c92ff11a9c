-------------------------- MODULE MeteredThrottle --------------------------
(***************************************************************************)
(* The throttle of foreign traffic on a metered uplink (plugin/traffic.js):*)
(* the tracker a session keeps of the uplink, with its grace time, and the *)
(* filter of a router's propagation node, which a committed change sets.   *)
(* The operators are what the tracker does; PluginLifecycle has the        *)
(* sessions that call them.                                                *)
(*                                                                         *)
(* An uplink is "metered" or it is "free": every other state, and none, is *)
(* not metered (isMeteredState).  A timer of the tracker is never pending  *)
(* for the state already committed, so its direction need not be kept.     *)
(* Timers fire on time: the clock waits for them.  The setting that turns  *)
(* the throttle off is on, its default; with it off no filter is ever set. *)
(***************************************************************************)
EXTENDS Integers

CONSTANTS
  MaxSessions,  \* bound: how often the plugin is started
  Grace         \* the hysteresis window, in ticks of the clock

ASSUME SessionsAssumption == MaxSessions \in Nat \ {0}
ASSUME GraceAssumption == Grace \in Nat \ {0}

Sessions == 1..MaxSessions   \* each with a tracker and a router of its own

VARIABLES
  uplink,     \* the state on the bus, as the tracker reads it
  held,       \* history: for how long it has been that, up to Grace + 1
  committed,  \* per session: the tracker's metered, "unknown" before the first
  pending,    \* per session: time left of the tracker's timer, or Unarmed
  filter      \* per router: what the ingestFilter of its node is set for

meteredVars == <<uplink, held, committed, pending, filter>>

Uplinks == {"metered", "free"}
Other(u) == IF u = "metered" THEN "free" ELSE "metered"
Unarmed == -1

MeteredTypeOK ==
  /\ uplink \in Uplinks
  /\ held \in 0..(Grace + 1)
  /\ committed \in [Sessions -> Uplinks \cup {"unknown"}]
  /\ pending \in [Sessions -> 0..Grace \cup {Unarmed}]
  /\ filter \in [Sessions -> Uplinks \cup {"no node"}]

MeteredInit ==
  /\ uplink \in Uplinks
  /\ held = Grace + 1
  /\ committed = [k \in Sessions |-> "unknown"]
  /\ pending = [k \in Sessions |-> Unarmed]
  /\ filter = [k \in Sessions |-> "no node"]

(***************************************************************************)
(* observe by a tracker that has seen the uplink before: a repeat of the   *)
(* committed state ends the timer, the other state starts it unless it     *)
(* already runs.                                                           *)
(***************************************************************************)
\* Faulty variants: a flip back leaves the timer; each repeat starts it anew.
TimerWithoutReversal(k, u) ==
  IF committed[k] = u \/ pending[k] # Unarmed THEN pending[k] ELSE Grace
TimerWithoutArmedCheck(k, u) == IF committed[k] = u THEN Unarmed ELSE Grace

Timer(k, u) ==
  IF committed[k] = u THEN Unarmed
  ELSE IF pending[k] # Unarmed THEN pending[k]
  ELSE Grace

\* The bus publishes u, new or repeated, and the trackers in K observe it.
Published(K, u) ==
  /\ uplink' = u
  /\ held' = IF u = uplink THEN held ELSE 0
  /\ pending' = [k \in Sessions |-> IF k \in K THEN Timer(k, u) ELSE pending[k]]
  /\ UNCHANGED <<committed, filter>>

\* The first observation is adopted: no transition, no timer.
Adopted(k) ==
  /\ committed' = [committed EXCEPT ![k] = uplink]
  /\ UNCHANGED <<uplink, held, pending, filter>>

\* Time passes, unless a timer is due.
Elapsed ==
  /\ \A k \in Sessions : pending[k] # 0
  /\ held' = IF held > Grace THEN held ELSE held + 1
  /\ pending' = [k \in Sessions |->
       IF pending[k] = Unarmed THEN Unarmed ELSE pending[k] - 1]
  /\ UNCHANGED <<uplink, committed, filter>>

\* commit when the grace time is over, and applyMeteredPolicy on the propagation
\* node of router r, if it has one.
Committed(k, r) ==
  /\ pending[k] = 0
  /\ pending' = [pending EXCEPT ![k] = Unarmed]
  /\ committed' = [committed EXCEPT ![k] = Other(@)]
  /\ filter' = [j \in Sessions |->
       IF j = r /\ filter[j] # "no node" THEN Other(committed[k]) ELSE filter[j]]
  /\ UNCHANGED <<uplink, held>>

\* enablePropagation on router r with the policy for u.
NodeEnabled(r, u) ==
  /\ filter' = [filter EXCEPT ![r] = u]
  /\ UNCHANGED <<uplink, held, committed, pending>>

\* dispose of the trackers in K.
Disposed(K) ==
  /\ pending' = [k \in Sessions |-> IF k \in K THEN Unarmed ELSE pending[k]]
  /\ UNCHANGED <<uplink, held, committed, filter>>

=============================================================================
