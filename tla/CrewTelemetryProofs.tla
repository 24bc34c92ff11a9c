------------------------ MODULE CrewTelemetryProofs ------------------------
(***************************************************************************)
(* Proofs about the crew's keys and the telemetry sent to them, for crews  *)
(* of any size and any limits: the type invariant, the age of snapshots,   *)
(* and what is on disk.                                                    *)
(***************************************************************************)
EXTENDS CrewTelemetry, TLAPS

\* What a round sends is as old as the limits of the deliveries so far allow, less what
\* the present one has left.
Aged == \A r \in rounds : r[3] + r[2] <= r[1] * SendTimeout

\* Where an announce from before is being stored beside a present key in memory, the
\* store of that key began meanwhile.
OldStores == \A m \in current : <<m, "old">> \in storing => m \in unsaved

IInv == TypeOK /\ Aged /\ OldStores /\ KeysOutliveRestarts

KeyActions(m) ==
  \/ Rotate(m) \/ Move(m) \/ Unanswered(m) \/ Announced(m) \/ Answered(m) \/ AnsweredOld(m)
  \/ \E c \in {"present", "old"} : Stored(m, c)

-----------------------------------------------------------------------------
(* Types *)

LEMMA TypeInitial == Init => TypeOK
<1> SUFFICES ASSUME Init PROVE TypeOK
  OBVIOUS
<1>1. /\ scenario.crew \in 1..N /\ scenario.reach \subseteq 1..N /\ scenario.interval \in Nat
      /\ left \in [Bounds -> Nat]
  BY HealthAssumption DEF Init, HealthInit
<1>2. DOMAIN shown = Slots /\ \A m \in Slots : DOMAIN shown[m] \subseteq Quantities \ {"text"}
  BY DEF Init
<1> QED
  BY <1>1, <1>2, HealthAssumption DEF Init, HealthInit, TypeOK, Never, Slots, Members

LEMMA Constants ==
  /\ N \in Nat /\ SendTimeout \in Nat /\ Oldest \in Nat /\ StaleAfter \in Nat /\ RerequestEvery \in Nat
  /\ 0 \in 0..Never /\ 0 \in 0..RerequestEvery /\ 0 \in 0..Oldest /\ SendTimeout \in 0..SendTimeout
  /\ Never \in 0..Never /\ RerequestEvery \in 0..RerequestEvery
BY HealthAssumption, TelemetryAssumption DEF Never

LEMMA Crew ==
  ASSUME scenario \in Scenarios
  PROVE  /\ scenario.crew \in 1..N /\ scenario.interval \in Nat /\ scenario.interval \in 0..scenario.interval
         /\ Members \subseteq Slots /\ 1 \in Slots
BY HealthAssumption DEF Members, Slots

LEMMA Spending ==
  ASSUME left \in [Bounds -> Nat], NEW b, Spend(b)
  PROVE  left' \in [Bounds -> Nat]
<1>1. left' = [left EXCEPT ![b] = left[b] - 1] /\ left[b] > 0
  BY DEF Spend
<1>2. ASSUME b \in Bounds PROVE left[b] - 1 \in Nat
  BY <1>1, <1>2
<1> QED
  BY <1>1, <1>2

LEMMA OlderBounded ==
  ASSUME NEW most \in Nat, NEW a \in 0..most
  PROVE  Older(a, most) \in 0..most
BY DEF Older

LEMMA Rigid == [Next]_vars => scenario' = scenario /\ Snapshots' = Snapshots
<1> SUFFICES ASSUME [Next]_vars PROVE scenario' = scenario
  BY DEF Snapshots
<1>1. ASSUME NEW m \in Members, KeyActions(m) PROVE scenario' = scenario
  BY <1>1 DEF KeyActions, Rotate, Move, Unanswered, Announced, Answered, AnsweredOld, Stored
<1>2. CASE Sweep \/ Restart \/ Tick
  BY <1>2 DEF Sweep, Restart, HealthRestart, Tick, HealthTick
<1> QED
  BY <1>1, <1>2 DEF Next, KeyActions, vars, healthVars, Settle, TimeOut, TimerFires, FallbackFires,
     Ready, Publish, Arrive

\* A delivery is of a member of the crew, in time, and of a snapshot of some age.
RoundsTyped == rounds \subseteq Slots \X (0..SendTimeout) \X (0..Oldest) \X Snapshots

LEMMA Parts ==
  ASSUME RoundsTyped, NEW r \in rounds
  PROVE  /\ r = <<r[1], r[2], r[3], r[4]>>
         /\ r[1] \in Slots /\ r[2] \in 0..SendTimeout /\ r[3] \in 0..Oldest /\ r[4] \in Snapshots
BY DEF RoundsTyped

LEMMA NewDelivery ==
  ASSUME NEW m \in Slots, NEW p \in 0..Oldest, NEW s \in Snapshots
  PROVE  Delivery(m, p, s) \in Slots \X (0..SendTimeout) \X (0..Oldest) \X Snapshots
BY Constants DEF Delivery

LEMMA RoundsPreserved == TypeOK /\ [Next]_vars => RoundsTyped'
<1> SUFFICES ASSUME TypeOK, [Next]_vars PROVE RoundsTyped'
  OBVIOUS
<1>a. RoundsTyped /\ scenario \in Scenarios /\ bus \in scenario.readings /\ Snapshots' = Snapshots
  BY Rigid DEF TypeOK, RoundsTyped
<1>1. ASSUME NEW r \in rounds, Proceed(r) PROVE RoundsTyped'
  <2>1. r[1] \in Slots /\ r[3] \in 0..Oldest /\ r[4] \in Snapshots
    BY <1>a, Parts
  <2>2. r[1] < scenario.crew => r[1] + 1 \in Slots
    BY <1>a, <2>1, Crew, Constants DEF Slots
  <2>3. r[1] < scenario.crew => Delivery(r[1] + 1, r[3], r[4]) \in Slots \X (0..SendTimeout) \X (0..Oldest) \X Snapshots
    BY <2>1, <2>2, NewDelivery
  <2> QED
    BY <1>a, <1>1, <2>3 DEF Proceed, RoundsTyped
<1>2. CASE SendOnce
  <2>1. Reports(bus) => Delivery(1, 0, Packed(bus)) \in Slots \X (0..SendTimeout) \X (0..Oldest) \X Snapshots
    <3>1. Reports(bus) => Packed(bus) \in Snapshots
      BY <1>a DEF Snapshots
    <3> QED
      BY <1>a, <3>1, Crew, Constants, NewDelivery
  <2> QED
    BY <1>a, <1>2, <2>1 DEF SendOnce, RoundsTyped
<1>3. CASE Tick
  <2> SUFFICES ASSUME NEW q \in rounds' PROVE q \in Slots \X (0..SendTimeout) \X (0..Oldest) \X Snapshots
    BY <1>a DEF RoundsTyped
  <2>1. PICK r \in rounds : q = <<r[1], IF r[2] > 0 THEN r[2] - 1 ELSE r[2], Older(r[3], Oldest), r[4]>>
    BY <1>3 DEF Tick
  <2>2. r[1] \in Slots /\ r[2] \in 0..SendTimeout /\ r[3] \in 0..Oldest /\ r[4] \in Snapshots
    BY <1>a, Parts
  <2>3. Older(r[3], Oldest) \in 0..Oldest
    BY <2>2, Constants, OlderBounded
  <2>4. (IF r[2] > 0 THEN r[2] - 1 ELSE r[2]) \in 0..SendTimeout
    BY <2>2, Constants
  <2> QED
    BY <2>1, <2>2, <2>3, <2>4
<1>4. CASE Restart
  BY <1>4 DEF Restart, RoundsTyped
<1>5. CASE UNCHANGED rounds
  BY <1>a, <1>5 DEF RoundsTyped
<1> QED
  BY <1>1, <1>2, <1>3, <1>4, <1>5
  DEF Next, vars, Others, Settle, TimeOut, TimerFires, FallbackFires, Ready, Publish, Arrive, otherVars

\* What may arrive is a snapshot, and what is shown is what a snapshot has values for.
BoatsTyped ==
  /\ wire \subseteq Slots \X Snapshots
  /\ DOMAIN shown = Slots /\ \A m \in Slots : DOMAIN shown[m] \subseteq Quantities \ {"text"}

LEMMA SnapshotParts ==
  ASSUME scenario \in Scenarios, NEW s \in Snapshots
  PROVE  DOMAIN s \subseteq Quantities
<1>1. PICK b \in scenario.readings : Reports(b) /\ s = Packed(b)
  BY DEF Snapshots
<1>2. DOMAIN b \subseteq Quantities
  BY TelemetryAssumption
<1> QED
  BY <1>1, <1>2 DEF Packed, Located, Quantities

LEMMA BoatsPreserved == TypeOK /\ [Next]_vars => BoatsTyped'
<1> SUFFICES ASSUME TypeOK, [Next]_vars PROVE BoatsTyped'
  OBVIOUS
<1>a. BoatsTyped /\ RoundsTyped /\ scenario \in Scenarios /\ Snapshots' = Snapshots
  BY Rigid DEF TypeOK, BoatsTyped, RoundsTyped
<1>1. ASSUME NEW r \in rounds, Proceed(r), UNCHANGED shown PROVE BoatsTyped'
  <2>1. <<r[1], r[4]>> \in Slots \X Snapshots
    BY <1>a, Parts
  <2> QED
    BY <1>a, <1>1, <2>1 DEF Proceed, BoatsTyped
<1>2. ASSUME NEW w \in wire, Arrive(w[1], w[2]) PROVE BoatsTyped'
  <2>1. w[1] \in Slots /\ w[2] \in Snapshots
    BY <1>a DEF BoatsTyped
  <2>2. DOMAIN w[2] \subseteq Quantities
    BY <1>a, <2>1, SnapshotParts
  <2>3. shown' = [shown EXCEPT ![w[1]] = Updated(shown[w[1]], Values(Decoded(w[2])))]
    BY <1>2 DEF Arrive
  <2>4. DOMAIN shown'[w[1]] = (DOMAIN w[2] \ {"text"}) \cup DOMAIN shown[w[1]]
    <3>1. shown'[w[1]] = Updated(shown[w[1]], Values(Decoded(w[2])))
      BY <1>a, <2>1, <2>3 DEF BoatsTyped
    <3> QED
      BY <3>1 DEF Values, Decoded, Updated
  <2> QED
    BY <1>a, <1>2, <2>1, <2>2, <2>3, <2>4 DEF Arrive, BoatsTyped
<1>3. CASE UNCHANGED <<wire, shown>>
  BY <1>a, <1>3 DEF BoatsTyped
<1> QED
  BY <1>1, <1>2, <1>3 DEF Next, vars, otherVars, Others, Settle, TimeOut, TimerFires, FallbackFires,
     Ready, Publish, Restart, Tick

LEMMA TypePreserved == TypeOK /\ [Next]_vars => TypeOK'
<1> USE DEF TypeOK, healthVars, keyVars, sweepVars, timerVars
<1> SUFFICES ASSUME TypeOK, [Next]_vars PROVE TypeOK'
  OBVIOUS
<1>0. /\ rounds' \subseteq Slots \X (0..SendTimeout) \X (0..Oldest) \X Snapshots'
      /\ bus' \in scenario'.readings
  <2>1. RoundsTyped' /\ scenario' = scenario
    BY RoundsPreserved, Rigid
  <2>2. bus' \in scenario.readings
    BY DEF Next, vars, Others, Settle, TimeOut, TimerFires, FallbackFires, Ready, Publish, Arrive,
       Restart, Tick
  <2> QED
    BY <2>1, <2>2 DEF RoundsTyped
<1>c. /\ wire' \subseteq Slots \X Snapshots'
      /\ DOMAIN shown' = Slots /\ \A m \in Slots : DOMAIN shown'[m] \subseteq Quantities \ {"text"}
  BY BoatsPreserved DEF BoatsTyped
<1>a. /\ scenario.interval \in 0..scenario.interval /\ Members \subseteq Slots
      /\ \A b \in Bounds : Spend(b) => left' \in [Bounds -> Nat]
  BY Crew, Spending
<1>b. \A b \in {"rotations", "failures", "restarts", "moves", "changes", "olds"} : b \in Bounds
  BY DEF Bounds
<1> USE <1>0, <1>c
<1>1. ASSUME NEW r \in rounds, Settle(r) \/ TimeOut(r) PROVE TypeOK'
  BY <1>1 DEF Settle, TimeOut
<1>2. CASE TimerFires \/ FallbackFires \/ Ready
  BY <1>a, <1>2 DEF TimerFires, FallbackFires, Ready
<1>3. ASSUME NEW b, Publish(b) PROVE TypeOK'
  BY <1>a, <1>b, <1>3 DEF Publish
<1>9. ASSUME NEW m, NEW s, Arrive(m, s) PROVE TypeOK'
  BY <1>9 DEF Arrive
<1>4. ASSUME NEW m \in Members, KeyActions(m), Others PROVE TypeOK'
  <2>0. m \in Slots
    BY <1>a
  <2>a. [heard EXCEPT ![m] = 0] \in [Slots -> 0..Never]
    BY <2>0, Constants
  <2> USE <1>4, <2>0 DEF Others
  <2>1. CASE Rotate(m)
    BY <1>a, <1>b, <2>1 DEF Rotate
  <2>2. CASE Move(m)
    BY <1>a, <1>b, <2>2 DEF Move
  <2>3. CASE Unanswered(m)
    BY <2>3 DEF Unanswered
  <2>4. CASE Announced(m)
    BY <2>a, <2>4 DEF Announced, Ingest, Saving
  <2>5. CASE Answered(m)
    BY <2>a, <2>5 DEF Answered, Ingest, Saving
  <2>6. CASE AnsweredOld(m)
    BY <1>a, <1>b, <2>a, <2>6 DEF AnsweredOld, Ingest, Saving
  <2>7. ASSUME NEW c \in {"present", "old"}, Stored(m, c) PROVE TypeOK'
    BY <1>a, <1>b, <2>7 DEF Stored
  <2> QED
    BY <2>1, <2>2, <2>3, <2>4, <2>5, <2>6, <2>7 DEF KeyActions
<1>5. CASE Sweep /\ Others
  <2>1. requested' \in [Slots -> 0..RerequestEvery]
    BY <1>5, Constants DEF Sweep
  <2>2. Due \subseteq Slots
    BY <1>a DEF Due
  <2>3. asked' \subseteq Slots /\ left' \in [Bounds -> Nat]
    BY <1>a, <1>b, <1>5, <2>2 DEF Sweep
  <2> QED
    BY <1>5, <2>1, <2>3 DEF Sweep, Others
<1>6. CASE Restart
  <2>1. heard' \in [Slots -> 0..Never] /\ requested' \in [Slots -> 0..RerequestEvery]
    BY <1>6, Constants DEF Restart, HealthRestart
  <2> QED
    BY <1>a, <1>b, <1>6, <2>1 DEF Restart, HealthRestart
<1>7. CASE Tick
  <2>1. heard' \in [Slots -> 0..Never] /\ requested' \in [Slots -> 0..RerequestEvery]
    BY <1>7, Constants, OlderBounded DEF Tick, HealthTick, Never
  <2>2. next' \in 0..scenario.interval
    BY <1>7, Crew DEF Tick
  <2> QED
    BY <1>7, <2>1, <2>2 DEF Tick, HealthTick
<1>8. CASE UNCHANGED vars
  BY <1>8 DEF vars
<1> QED
  BY <1>1, <1>2, <1>3, <1>4, <1>5, <1>6, <1>7, <1>8, <1>9 DEF Next, KeyActions

\* Type correctness, for any crew, limits and scenarios.
THEOREM TypeCorrect == Spec => []TypeOK
<1>1. Init => TypeOK
  BY TypeInitial
<1>2. TypeOK /\ [Next]_vars => TypeOK'
  BY TypePreserved
<1> QED
  BY <1>1, <1>2, PTL DEF Spec

-----------------------------------------------------------------------------
(* The age of snapshots *)

LEMMA Multiples ==
  ASSUME NEW m \in Nat
  PROVE  m * SendTimeout \in Nat /\ (m + 1) * SendTimeout = m * SendTimeout + SendTimeout
BY TelemetryAssumption

LEMMA AgedPreserved == IInv /\ [Next]_vars => Aged'
<1> USE DEF Aged
<1> SUFFICES ASSUME IInv, [Next]_vars PROVE Aged'
  OBVIOUS
<1>a. /\ Aged /\ SendTimeout \in Nat /\ 1 * SendTimeout = SendTimeout
      /\ RoundsTyped /\ Oldest \in Nat /\ Slots \subseteq Nat
  BY TelemetryAssumption, HealthAssumption DEF IInv, TypeOK, Slots, RoundsTyped
<1>1. ASSUME NEW r \in rounds, Settle(r) \/ TimeOut(r) PROVE Aged'
  <2>1. rounds' \subseteq rounds \cup {Delivery(r[1] + 1, r[3], r[4])}
    BY <1>1 DEF Settle, TimeOut, Proceed
  <2>2. r[3] + SendTimeout <= (r[1] + 1) * SendTimeout
    <3>1. r[1] \in Nat /\ r[2] \in Nat /\ r[3] \in Nat /\ r[3] + r[2] <= r[1] * SendTimeout
      BY <1>a, Parts
    <3>2. r[1] * SendTimeout \in Nat /\ (r[1] + 1) * SendTimeout = r[1] * SendTimeout + SendTimeout
      BY <3>1, Multiples
    <3> QED
      BY <1>a, <3>1, <3>2
  <2> QED
    BY <1>a, <2>1, <2>2 DEF Delivery
<1>2. CASE TimerFires \/ FallbackFires \/ Ready
  BY <1>a, <1>2 DEF TimerFires, FallbackFires, Ready, SendOnce, Delivery
<1>3. CASE Tick
  <2> SUFFICES ASSUME NEW q \in rounds' PROVE q[3] + q[2] <= q[1] * SendTimeout
    OBVIOUS
  <2>1. PICK r \in rounds : q = <<r[1], IF r[2] > 0 THEN r[2] - 1 ELSE r[2], Older(r[3], Oldest), r[4]>>
    BY <1>3 DEF Tick
  <2>2. r[2] \in Nat /\ r[2] # 0 /\ r[3] \in Nat /\ r[1] \in Nat /\ r[3] + r[2] <= r[1] * SendTimeout
    BY <1>a, <1>3, Parts DEF Tick
  <2>3. q[1] = r[1] /\ q[2] = r[2] - 1 /\ q[3] <= r[3] + 1 /\ q[3] \in Nat
    BY <1>a, <2>1, <2>2 DEF Older
  <2>4. r[1] * SendTimeout \in Nat
    BY <2>2, Multiples
  <2> QED
    BY <2>2, <2>3, <2>4
<1>4. CASE Restart
  BY <1>4 DEF Restart
<1>5. CASE UNCHANGED rounds
  BY <1>a, <1>5
<1> QED
  BY <1>1, <1>2, <1>3, <1>4, <1>5 DEF Next, Others, Publish, Arrive, vars

-----------------------------------------------------------------------------
(* What is on disk *)

LEMMA StoresPreserved == IInv /\ [Next]_vars => OldStores' /\ KeysOutliveRestarts'
<1> USE DEF OldStores, KeysOutliveRestarts, keyVars
<1> SUFFICES ASSUME IInv, [Next]_vars PROVE OldStores' /\ KeysOutliveRestarts'
  OBVIOUS
<1>a. /\ OldStores /\ KeysOutliveRestarts
  BY DEF IInv
<1>b. Members' = Members
  BY DEF Next, vars, healthVars, timerVars, Settle, TimeOut, TimerFires, FallbackFires, Ready,
     Publish, Arrive, Rotate, Move, Unanswered, Announced, Answered, AnsweredOld, Stored, Sweep, Restart,
     HealthRestart, Tick, HealthTick, Members
<1>1. ASSUME NEW m \in Members, KeyActions(m) PROVE OldStores' /\ KeysOutliveRestarts'
  <2> USE <1>1, <1>a, <1>b DEF Ingest, Saving
  <2>1. CASE Rotate(m)
    BY <2>1 DEF Rotate
  <2>2. CASE Move(m) \/ Unanswered(m)
    BY <2>2 DEF Move, Unanswered
  <2>3. CASE Announced(m) \/ Answered(m)
    <3>1. Ingest(m, "present") /\ saved' = saved
      BY <2>3 DEF Announced, Answered
    <3>2. current' = current \cup {m} /\ storing' = storing \cup {<<m, "present">>}
      BY <3>1
    <3>3. unsaved' = IF <<m, "old">> \in storing THEN unsaved \cup {m} ELSE unsaved \ {m}
      BY <3>1
    <3>4. "present" # "old"
      OBVIOUS
    <3> QED
      BY <3>1, <3>2, <3>3, <3>4
  <2>4. CASE AnsweredOld(m)
    BY <2>4 DEF AnsweredOld
  <2>5. ASSUME NEW c \in {"present", "old"}, Stored(m, c) PROVE OldStores' /\ KeysOutliveRestarts'
    <3>1. /\ current' = current /\ storing' = storing \ {<<m, c>>} /\ <<m, c>> \in storing
          /\ unsaved \subseteq unsaved'
      BY <2>5 DEF Stored
    <3>2. ASSUME NEW q \in current' \ saved' PROVE <<q, "present">> \in storing' \/ q \in unsaved'
      <4>1. CASE q # m
        BY <2>5, <3>1, <3>2, <4>1 DEF Stored
      <4>2. CASE q = m /\ c = "present"
        BY <2>5, <3>2, <4>2 DEF Stored
      <4>3. CASE q = m /\ c = "old"
        BY <3>1, <3>2, <4>3
      <4> QED
        BY <4>1, <4>2, <4>3
    <3> QED
      BY <3>1, <3>2
  <2> QED
    BY <2>1, <2>2, <2>3, <2>4, <2>5 DEF KeyActions
<1>2. CASE Restart
  BY <1>a, <1>b, <1>2 DEF Restart, HealthRestart
<1>3. CASE UNCHANGED keyVars
  BY <1>a, <1>b, <1>3
<1> QED
  BY <1>1, <1>2, <1>3 DEF Next, KeyActions, vars, healthVars, Settle, TimeOut, TimerFires,
     FallbackFires, Ready, Publish, Arrive, Sweep, Tick, HealthTick

-----------------------------------------------------------------------------
(* What another boat shows *)

\* Math.round is off by half a unit at most.
LEMMA Rounding ==
  ASSUME NEW x \in Int
  PROVE  Wire(x) \in Int /\ Near(Grain * Wire(x), x)
<1> DEFINE n == 2 * x + Grain
           d == 2 * Grain
<1>1. Grain \in Nat \ {0} /\ n \in Int /\ d \in Nat \ {0}
  BY GrainAssumption
<1>2. (n \div d) \in Int /\ n = d * (n \div d) + (n % d) /\ n % d \in 0..(d - 1)
  BY <1>1, SMTT(30)
<1>3. PICK w \in Int : w = n \div d
  BY <1>2
<1>4. PICK e \in 0..(d - 1) : n = d * w + e
  BY <1>2, <1>3
<1>5. d * w = 2 * (Grain * w) /\ Grain * w \in Int
  BY <1>1, <1>3
<1>6. 2 * (Grain * w - x) = Grain - e
  BY <1>1, <1>4, <1>5
<1>7. Wire(x) = w
  BY <1>3 DEF Wire
<1> QED
  BY <1>1, <1>4, <1>6, <1>7 DEF Near

\* A snapshot's values are those of the reading it was packed from.
LEMMA SnapshotValues ==
  ASSUME scenario \in Scenarios, NEW s \in Snapshots
  PROVE  OfMoments([q \in DOMAIN s |-> Grain * s[q]])
<1> DEFINE view == [q \in DOMAIN s |-> Grain * s[q]]
<1>1. PICK b \in scenario.readings : s = Packed(b)
  BY DEF Snapshots
<1>2. \A q \in DOMAIN b : b[q] \in Int
  BY TelemetryAssumption
<1>3. \A q \in DOMAIN b : Near(Grain * Wire(b[q]), b[q])
  BY <1>2, Rounding
<1>4. Near(Grain * 0, 0)
  BY GrainAssumption DEF Near
<1>5. \A q \in DOMAIN s : view[q] = Grain * (IF q \in DOMAIN b THEN Wire(b[q]) ELSE 0)
  BY <1>1 DEF Packed
<1>6. \A q \in DOMAIN s : Near(view[q], IF q \in DOMAIN b THEN b[q] ELSE 0)
  BY <1>3, <1>4, <1>5
<1>7. "position" \in DOMAIN b => Located \subseteq DOMAIN s
  BY <1>1 DEF Packed
<1>8. DOMAIN s \cap Located # {} => "position" \in DOMAIN b
  BY <1>1 DEF Packed
<1>9. "charge" \in DOMAIN s => "charge" \in DOMAIN b
  BY <1>1 DEF Packed, Located
<1>10. DOMAIN view = DOMAIN s
  OBVIOUS
<1>11. DOMAIN view \cap Located # {} => LocationOf(view, b)
  BY <1>6, <1>7, <1>8, <1>10 DEF LocationOf
<1>12. "charge" \in DOMAIN view => ChargeOf(view, b)
  BY <1>6, <1>9, <1>10 DEF ChargeOf
<1> QED
  BY <1>11, <1>12 DEF OfMoments

\* Values of one view that another has as well are of the same moments there.
LEMMA SameMoments ==
  ASSUME NEW f, NEW g, OfMoments(f)
  PROVE  /\ (/\ DOMAIN g \cap Located = DOMAIN f \cap Located
             /\ \A q \in DOMAIN g \cap Located : g[q] = f[q])
               => (DOMAIN g \cap Located # {} => \E b \in scenario.readings : LocationOf(g, b))
         /\ "charge" \in DOMAIN f /\ g["charge"] = f["charge"]
               => \E b \in scenario.readings : ChargeOf(g, b)
<1>1. ASSUME DOMAIN g \cap Located = DOMAIN f \cap Located, DOMAIN g \cap Located # {},
             \A q \in DOMAIN g \cap Located : g[q] = f[q]
      PROVE  \E b \in scenario.readings : LocationOf(g, b)
  <2>1. PICK b \in scenario.readings : LocationOf(f, b)
    BY <1>1 DEF OfMoments
  <2>2. Located \subseteq DOMAIN g /\ \A q \in Located : g[q] = f[q]
    BY <1>1, <2>1 DEF LocationOf
  <2>3. LocationOf(g, b)
    BY <2>1, <2>2 DEF LocationOf
  <2> QED
    BY <2>3
<1>2. ASSUME "charge" \in DOMAIN f, g["charge"] = f["charge"]
      PROVE  \E b \in scenario.readings : ChargeOf(g, b)
  BY <1>2 DEF OfMoments, ChargeOf
<1> QED
  BY <1>1, <1>2

\* An arrival replaces all of a location or nothing of it.
LEMMA UpdatedMoments ==
  ASSUME scenario \in Scenarios, NEW s \in Snapshots, NEW f, OfMoments(f),
         NEW g, g = Updated(f, Values(Decoded(s)))
  PROVE  OfMoments(g)
<1> DEFINE view == [q \in DOMAIN s |-> Grain * s[q]]
<1>1. OfMoments(view)
  BY SnapshotValues
<1>2. /\ DOMAIN g = (DOMAIN s \ {"text"}) \cup DOMAIN f
      /\ \A q \in DOMAIN s \ {"text"} : g[q] = view[q]
      /\ \A q \in DOMAIN f \ DOMAIN s : g[q] = f[q]
  <2>1. \A q \in DOMAIN s : view[q] = Grain * s[q]
    OBVIOUS
  <2> HIDE DEF view
  <2>2. /\ DOMAIN g = (DOMAIN s \ {"text"}) \cup DOMAIN f
        /\ \A q \in DOMAIN s \ {"text"} : g[q] = Grain * s[q]
        /\ \A q \in DOMAIN f \ DOMAIN s : g[q] = f[q]
    BY DEF Values, Decoded, Unwired, Updated
  <2> QED
    BY <2>1, <2>2
<1>3. "text" \notin Located /\ "charge" # "text" /\ DOMAIN view = DOMAIN s
  BY DEF Located
<1> HIDE DEF view
<1>c. "charge" \in DOMAIN g => \E b \in scenario.readings : ChargeOf(g, b)
  <2>1. CASE "charge" \in DOMAIN s
    <3>1. "charge" \in DOMAIN view /\ g["charge"] = view["charge"]
      BY <1>2, <1>3, <2>1
    <3> QED
      BY <1>1, <3>1, SameMoments
  <2>2. CASE "charge" \in DOMAIN f \ DOMAIN s
    <3>1. "charge" \in DOMAIN f /\ g["charge"] = f["charge"]
      BY <1>2, <2>2
    <3> QED
      BY <3>1, SameMoments
  <2> QED
    BY <1>2, <2>1, <2>2
<1>4. CASE DOMAIN s \cap Located # {}
  <2>1. Located \subseteq DOMAIN s
    BY <1>1, <1>3, <1>4 DEF OfMoments, LocationOf
  <2>2. DOMAIN g \cap Located = DOMAIN view \cap Located /\ \A q \in DOMAIN g \cap Located : g[q] = view[q]
    BY <1>2, <1>3, <2>1
  <2> QED
    BY <1>1, <1>c, <2>2, SameMoments DEF OfMoments
<1>5. CASE DOMAIN s \cap Located = {}
  <2>1. DOMAIN g \cap Located = DOMAIN f \cap Located /\ \A q \in DOMAIN g \cap Located : g[q] = f[q]
    BY <1>2, <1>3, <1>5
  <2> QED
    BY <1>c, <2>1, SameMoments DEF OfMoments
<1> QED
  BY <1>4, <1>5

LEMMA ShownPreserved == TypeOK /\ ShownIsReported /\ [Next]_vars => ShownIsReported'
<1> SUFFICES ASSUME TypeOK, ShownIsReported, [Next]_vars, NEW m \in Slots
             PROVE  OfMoments(shown[m])'
  BY DEF ShownIsReported, Slots
<1>a. OfMoments(shown[m]) /\ scenario \in Scenarios /\ DOMAIN shown = Slots /\ wire \subseteq Slots \X Snapshots
  BY DEF ShownIsReported, TypeOK
<1>b. OfMoments(shown[m])' = OfMoments(shown'[m])
  BY Rigid DEF OfMoments
<1>1. ASSUME NEW w \in wire, Arrive(w[1], w[2]) PROVE OfMoments(shown'[m])
  <2>1. w[2] \in Snapshots
    BY <1>a
  <2>2. CASE m = w[1]
    <3>1. shown'[m] = Updated(shown[m], Values(Decoded(w[2])))
      BY <1>a, <1>1, <2>2 DEF Arrive
    <3> QED
      BY <1>a, <2>1, <3>1, UpdatedMoments
  <2>3. CASE m # w[1]
    BY <1>a, <1>1, <2>3 DEF Arrive
  <2> QED
    BY <2>2, <2>3
<1>2. ASSUME UNCHANGED shown PROVE OfMoments(shown'[m])
  <2>1. shown'[m] = shown[m]
    BY <1>2
  <2> QED
    BY <1>a, <2>1
<1> QED
  BY <1>b, <1>1, <1>2 DEF Next, vars, otherVars, Others, Settle, TimeOut, TimerFires, FallbackFires,
     Ready, Publish, Restart, Tick

-----------------------------------------------------------------------------
(* The invariants *)

LEMMA Initial == Init => IInv
BY TypeInitial DEF Init, HealthInit, IInv, Aged, OldStores, KeysOutliveRestarts

LEMMA Preserved == IInv /\ [Next]_vars => IInv'
BY TypePreserved, AgedPreserved, StoresPreserved DEF IInv

\* Whatever hangs, the k-th member of the crew is sent nothing older than k time limits.
THEOREM SnapshotsStayFresh == Spec => []SnapshotsFresh
<1>1. Init => IInv
  BY Initial
<1>2. IInv /\ [Next]_vars => IInv'
  BY Preserved
<1>3. IInv => SnapshotsFresh
  <2> SUFFICES ASSUME IInv, NEW r \in rounds PROVE r[3] <= r[1] * SendTimeout
    BY DEF SnapshotsFresh
  <2>0. RoundsTyped /\ r[3] + r[2] <= r[1] * SendTimeout
    BY DEF IInv, TypeOK, Aged, RoundsTyped
  <2>1. r[2] \in Nat /\ r[3] \in Nat /\ r[1] \in Nat /\ r[3] + r[2] <= r[1] * SendTimeout
    BY <2>0, Parts, Constants DEF Slots
  <2>2. r[1] * SendTimeout \in Nat
    BY <2>1, Multiples
  <2> QED
    BY <2>1, <2>2
<1> QED
  BY <1>1, <1>2, <1>3, PTL DEF Spec

\* A present key in memory is on disk, but for a store under way or one that failed.
THEOREM KeysAreSaved == Spec => []KeysOutliveRestarts
<1>1. Init => IInv
  BY Initial
<1>2. IInv /\ [Next]_vars => IInv'
  BY Preserved
<1>3. IInv => KeysOutliveRestarts
  BY DEF IInv
<1> QED
  BY <1>1, <1>2, <1>3, PTL DEF Spec

\* What another boat shows of ours is of one moment, whatever overtakes what.
THEOREM ReadingsShown == Spec => []ShownIsReported
<1>1. Init => TypeOK /\ ShownIsReported
  BY TypeInitial DEF Init, ShownIsReported, OfMoments
<1>2. TypeOK /\ ShownIsReported /\ [Next]_vars => (TypeOK /\ ShownIsReported)'
  BY TypePreserved, ShownPreserved
<1> QED
  BY <1>1, <1>2, PTL DEF Spec
=============================================================================
