--------------------------- MODULE CrewTelemetry ---------------------------
(***************************************************************************)
(* Telemetry to the crew (sendTelemetryToCrew and its timers in            *)
(* plugin/index.js, the deliverer of plugin/messaging.js, the time limit   *)
(* of plugin/recovery.js), with what it depends on, the crew's present keys   *)
(* (AnnounceHealth), and what becomes of it: what another boat that runs   *)
(* this plugin shows of ours (plugin/inbound.js).                          *)
(*                                                                         *)
(* A round packs one snapshot and delivers it to one member after the      *)
(* other, each delivery limited in time.  Nothing keeps the rounds apart:  *)
(* the timer starts one at each interval, and so does readiness, or the    *)
(* timer that stands in for it.  Rounds do not meet; those that are alike  *)
(* are taken as one.  An action is the code between two awaits.            *)
(***************************************************************************)
EXTENDS AnnounceHealth, Snapshot

CONSTANTS
  SendTimeout,  \* of a delivery, in ticks
  Oldest        \* bound: ages of snapshots are told apart up to here

ASSUME TelemetryAssumption ==
  /\ SendTimeout \in Nat /\ Oldest \in Nat /\ N * SendTimeout < Oldest
  /\ \A s \in Scenarios : \A b \in s.readings :
       DOMAIN b \subseteq Quantities /\ \A q \in DOMAIN b : b[q] \in Int

VARIABLES
  bus,     \* the present reading
  kick,    \* fireWhenReady: what it still waits for
  next,    \* ticks until the timer's next round
  rounds,  \* <<m, t, p, s>>: a round delivers to m, within t ticks, the snapshot s, which
           \* it packed p ticks ago
  wire,    \* <<m, s>>: snapshot s may yet arrive at the boat of m
  shown    \* what that boat shows of ours, of each m

timerVars == <<kick, next>>
otherVars == <<wire, shown>>
vars == <<healthVars, left, bus, timerVars, rounds, otherVars>>

Init ==
  /\ HealthInit
  /\ bus \in scenario.readings
  /\ kick = "both" /\ next = scenario.interval
  /\ rounds = {} /\ wire = {} /\ shown = [m \in Slots |-> <<>>]

-----------------------------------------------------------------------------
(* Rounds *)

\* A mutant: no time limit.
DeliveryUnlimited(m, p, s) == <<m, -1, p, s>>

\* The call of the deliverer, with its time limit.
Delivery(m, p, s) == <<m, SendTimeout, p, s>>

\* sendTelemetryToCrew: a round, if there is something to report.
SendOnce == rounds' = IF Reports(bus) THEN rounds \cup {Delivery(1, 0, Packed(bus))} ELSE rounds

\* The delivery is done, has failed, or is given up while it may still go on; the next
\* member is served in any case.
Proceed(r) ==
  /\ wire' \in {wire, wire \cup (IF r[1] \in scenario.boats THEN {<<r[1], r[4]>>} ELSE {})}
  /\ rounds' = (rounds \ {r}) \cup
                 (IF r[1] < scenario.crew THEN {Delivery(r[1] + 1, r[3], r[4])} ELSE {})

Settle(r) ==
  /\ Proceed(r)
  /\ UNCHANGED <<healthVars, left, bus, timerVars, shown>>

\* withTimeout.
TimeOut(r) ==
  /\ r[2] = 0
  /\ Proceed(r)
  /\ UNCHANGED <<healthVars, left, bus, timerVars, shown>>

-----------------------------------------------------------------------------
(* What starts them *)

TimerFires ==
  /\ next = 0 /\ next' = scenario.interval
  /\ SendOnce
  /\ UNCHANGED <<healthVars, left, bus, kick, otherVars>>

\* fireWhenReady: whichever comes first starts the first round.  Readiness that comes
\* second starts another one, as nothing records that the timer has fired.
FallbackFires ==
  /\ kick = "both" /\ kick' = "readiness"
  /\ SendOnce
  /\ UNCHANGED <<healthVars, left, bus, next, otherVars>>

Ready ==
  /\ kick \in {"both", "readiness"} /\ kick' = "nothing"
  /\ SendOnce
  /\ UNCHANGED <<healthVars, left, bus, next, otherVars>>

-----------------------------------------------------------------------------
(* Another boat *)

\* handleInboundTelemetry there: a delta of what the snapshot has values for.
\* Snapshots may overtake one another; a repeated one is dropped before this.
Arrive(m, s) ==
  /\ <<m, s>> \in wire
  /\ wire' = wire \ {<<m, s>>}
  /\ shown' = [shown EXCEPT ![m] = Updated(@, Values(Decoded(s)))]
  /\ UNCHANGED <<healthVars, left, bus, timerVars, rounds>>

-----------------------------------------------------------------------------
(* The rest *)

\* What is published on the bus, or expires.
Publish(b) ==
  /\ b # bus /\ Spend("changes") /\ bus' = b
  /\ UNCHANGED <<healthVars, timerVars, rounds, otherVars>>

Others == UNCHANGED <<bus, timerVars, rounds, otherVars>>

\* The process ends and starts again, with what is on disk.
Restart ==
  /\ Spend("restarts")
  /\ HealthRestart
  /\ kick' = "both" /\ next' = scenario.interval
  /\ rounds' = {}
  /\ UNCHANGED <<bus, otherVars>>

\* The timers of rounds and of deliveries are on time: no tick passes while one is due.
Tick ==
  /\ next > 0 /\ \A r \in rounds : r[2] # 0
  /\ HealthTick
  /\ next' = next - 1
  /\ rounds' = {<<r[1], IF r[2] > 0 THEN r[2] - 1 ELSE r[2], Older(r[3], Oldest), r[4]>> : r \in rounds}
  /\ UNCHANGED <<left, bus, kick, otherVars>>

Next ==
  \/ \E r \in rounds : Settle(r) \/ TimeOut(r)
  \/ TimerFires \/ FallbackFires \/ Ready
  \/ \E b \in scenario.readings : Publish(b)
  \/ \E w \in wire : Arrive(w[1], w[2])
  \/ \E m \in Members : /\ \/ Rotate(m) \/ Move(m) \/ Unanswered(m)
                           \/ Announced(m) \/ Answered(m) \/ AnsweredOld(m)
                           \/ \E c \in {"present", "old"} : Stored(m, c)
                        /\ Others
  \/ Sweep /\ Others
  \/ Restart \/ Tick

Spec == Init /\ [][Next]_vars

\* Timers go off; of the answers of a member that is asked again and again one arrives;
\* the persistor's stores end.
Fairness ==
  /\ WF_vars(Tick) /\ WF_vars(TimerFires) /\ WF_vars(Sweep /\ Others)
  /\ WF_vars(\E r \in rounds : TimeOut(r))
  /\ \A m \in Slots :
       /\ SF_vars(m \in Members /\ Answered(m) /\ Others)
       /\ \A c \in {"present", "old"} : WF_vars(m \in Members /\ Stored(m, c) /\ Others)

FairSpec == Spec /\ Fairness

-----------------------------------------------------------------------------
(* Properties *)

\* What may be on the wire.
Snapshots == {Packed(b) : b \in {r \in scenario.readings : Reports(r)}}

TypeOK ==
  /\ scenario \in Scenarios /\ reach \subseteq Slots
  /\ current \subseteq Slots /\ saved \subseteq Slots
  /\ storing \subseteq Slots \X {"present", "old"} /\ unsaved \subseteq Slots
  /\ heard \in [Slots -> 0..Never] /\ requested \in [Slots -> 0..RerequestEvery]
  /\ asked \subseteq Slots
  /\ left \in [Bounds -> Nat]
  /\ bus \in scenario.readings /\ kick \in {"both", "readiness", "nothing"}
  /\ next \in 0..scenario.interval
  /\ rounds \subseteq Slots \X (0..SendTimeout) \X (0..Oldest) \X Snapshots
  /\ wire \subseteq Slots \X Snapshots
  /\ DOMAIN shown = Slots /\ \A m \in Slots : DOMAIN shown[m] \subseteq Quantities \ {"text"}

\* index.js:934, "A hung stream write ... must never wedge the telemetry loop": whichever
\* members' deliveries hang, and however many rounds overlap, the k-th member is being sent
\* nothing older than k times the limit of one delivery; so every round ends.
SnapshotsFresh == \A r \in rounds : r[3] <= r[1] * SendTimeout

\* storage.js:43, "so a restart can still reach it": the present key of a member is on disk
\* once it is in memory, but for its store being under way, or having failed, or having begun
\* while one of an announce from before was under way, which may end last (storage.js:80,
\* nothing orders them); through new keys, old announces and restarts.
KeysOutliveRestarts ==
  \A m \in current \ saved : <<m, "present">> \in storing \/ m \in unsaved

\* storage.js:43 again: these exceptions end.  The present keys of a crew that stays in
\* reach come to be on disk and stay there, whichever stores failed or ended late, since
\* a member that is not heard of any more is asked, its key known or not.
KeysComeToDisk == <>[](Members \subseteq reach) => <>[](Members \subseteq saved)

\* index.js:1647, "Keep crew delivery alive without restarts": a member that stays in reach
\* is again and again sent a snapshot encrypted with its present key, although announces
\* are lost, answers come from before, keys change, stores and requests fail, and the
\* deliveries to another member hang.
DeliveryHeals ==
  \A m \in Slots :
    m \in Members /\ <>[](m \in reach /\ Reports(bus)) => []<>(m \in current /\ \E r \in rounds : r[1] = m)

\* A view shows the reading b, to half the wire's unit.
Near(x, y) == 2 * (x - y) \in -Grain..Grain

LocationOf(view, b) ==
  /\ Located \subseteq DOMAIN view /\ "position" \in DOMAIN b
  /\ \A q \in Located : Near(view[q], IF q \in DOMAIN b THEN b[q] ELSE 0)

ChargeOf(view, b) == "charge" \in DOMAIN b /\ Near(view["charge"], b["charge"])

OfMoments(view) ==
  /\ DOMAIN view \cap Located # {} => \E b \in scenario.readings : LocationOf(view, b)
  /\ "charge" \in DOMAIN view => \E b \in scenario.readings : ChargeOf(view, b)

\* telemetry.js:471, "exact inverses": where another boat shows ours, and how it shows it
\* moving, is of one moment, in which the bus had a position, to half the wire's unit, and
\* zero for what the bus did not have; so is its charge, perhaps of another moment;
\* whatever overtakes what, changes, or is withdrawn meanwhile.
ShownIsReported == \A m \in Slots : OfMoments(shown[m])
=============================================================================
