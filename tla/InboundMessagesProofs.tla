----------------------- MODULE InboundMessagesProofs -----------------------
(***************************************************************************)
(* Proofs about InboundMessages, for any messages, senders and bounds.     *)
(***************************************************************************)
EXTENDS InboundMessages, FiniteSetTheorems, TLAPS

LEMMA Bounds ==
  /\ MaxCalls \in Nat /\ MaxTime \in Nat /\ MaxRestarts \in Nat
  /\ SendTimeout \in Nat /\ ReplyInterval \in Nat /\ SendTimeout < ReplyInterval
BY InboundBoundsAssumption

\* The call that moves; every other one stays as it is.
LEMMA ExceptOne ==
  ASSUME NEW D, NEW S, NEW f \in [D -> S], NEW x, NEW v \in S
  PROVE  /\ [f EXCEPT ![x] = v] \in [D -> S]
         /\ x \in D => [f EXCEPT ![x] = v][x] = v
         /\ \A y \in D : y # x => [f EXCEPT ![x] = v][y] = f[y]
OBVIOUS

LEMMA CallTypes ==
  ASSUME TypeOK, NEW i \in 1..Len(calls)
  PROVE  i \in Calls /\ calls[i] \in Messages /\ From(i) \in Senders
BY MessagesAssumption, Bounds DEF TypeOK, From, Calls

\* A call that has got somewhere has a message.
LEMMA Started ==
  ASSUME TypeOK, NEW i \in Calls, stage[i] # "none"
  PROVE  i \in 1..Len(calls)
BY Bounds DEF TypeOK, Calls

-----------------------------------------------------------------------------
LEMMA InitType == Init => TypeOK
<1> SUFFICES ASSUME Init PROVE TypeOK
  OBVIOUS
<1>1. /\ sighting \in [Messages -> 0..MaxCalls]
      /\ since \in [Calls -> 0..MaxTime]
      /\ lastReply \in [Senders -> (0..MaxTime) \cup {NoReply}]
      /\ now \in 0..MaxTime /\ restarts \in 0..MaxRestarts
  BY Bounds DEF Init
<1>2. /\ stage \in [Calls -> Stages]
      /\ did \in [Calls -> {"nothing", "done", "failed"}]
      /\ saying \in [Calls -> Answers \cup {"nothing"}]
      /\ got \in [Calls -> SUBSET Answers]
      /\ failed \in [Calls -> SUBSET Answers]
  BY DEF Init, Stages
<1>3. known \subseteq Senders /\ populated \subseteq Calls
  BY DEF Init
<1>4. /\ calls \in Seq(Messages) /\ Len(calls) = 0 /\ epoch = 0
      /\ \A i \in Calls : stage[i] = "none" /\ i > 0
  BY Bounds DEF Init, Calls
<1>5. QED  BY <1>1, <1>2, <1>3, <1>4, Bounds DEF TypeOK

LEMMA SightType ==
  ASSUME TypeOK, NEW m \in Messages, NEW i \in 0..MaxCalls
  PROVE  Sight(m, i) \in [Messages -> 0..MaxCalls]
<1> DEFINE s == [sighting EXCEPT ![m] = i]
<1>1. s \in [Messages -> 0..MaxCalls]
  BY ExceptOne DEF TypeOK
<1>2. 0 \in 0..MaxCalls
  BY Bounds
<1>3. \A x : [s EXCEPT ![x] = 0] \in [Messages -> 0..MaxCalls]
  <2> HIDE DEF s
  <2>1. QED  BY <1>1, <1>2, ExceptOne
<1>4. QED  BY <1>1, <1>3 DEF Sight

LEMMA ArriveType ==
  ASSUME TypeOK, NEW m \in Messages, Arrive(m)
  PROVE  TypeOK'
<1> DEFINE i == Len(calls) + 1
<1>1. i \in Calls /\ i \in 0..MaxCalls /\ Len(calls) \in Nat
  BY Bounds DEF Arrive, TypeOK, Calls
<1>2. /\ calls' = Append(calls, m)
      /\ calls' \in Seq(Messages) /\ Len(calls') = i /\ i <= MaxCalls
  BY DEF Arrive, TypeOK
<1>3. sighting' \in [Messages -> 0..MaxCalls]
  BY <1>1, SightType DEF Arrive
<1>4. PICK st \in {"duplicate", "verify"} : stage' = [stage EXCEPT ![i] = st]
  BY DEF Arrive
<1>5. /\ stage' \in [Calls -> Stages]
      /\ stage'[i] = st
      /\ \A j \in Calls : j # i => stage'[j] = stage[j]
  <2>1. st \in Stages /\ stage \in [Calls -> Stages]
    BY DEF Stages, TypeOK
  <2>2. QED  BY <1>1, <1>4, <2>1, ExceptOne
<1>6. \A j \in Calls : stage'[j] = "none" <=> j > Len(calls')
  <2> SUFFICES ASSUME NEW j \in Calls PROVE stage'[j] = "none" <=> j > i
    BY <1>2
  <2>1. CASE j = i
    BY <1>4, <1>5, <2>1 DEF Calls
  <2>2. CASE j # i
    <3>1. j > Len(calls) <=> j > i
      BY <1>1, <2>2, Bounds DEF Calls
    <3>2. QED  BY <1>5, <2>2, <3>1 DEF TypeOK
  <2>3. QED  BY <2>1, <2>2
<1>7. UNCHANGED <<known, did, saying, since, got, failed, populated,
                  lastReply, now, restarts, epoch>>
  BY DEF Arrive
<1>8. epoch' \in 0..Len(calls')
  BY <1>1, <1>2, <1>7 DEF TypeOK
<1>9. QED  BY <1>2, <1>3, <1>5, <1>6, <1>7, <1>8 DEF TypeOK

\* An unchanged function, in the form of a changed one.
LEMMA Unmoved ==
  ASSUME NEW D, NEW S, NEW f \in [D -> S], NEW x \in D
  PROVE  f[x] \in S /\ f = [f EXCEPT ![x] = f[x]]
OBVIOUS

\* A step of a call changes the functions over the calls at that call only.
Moves(i) ==
  /\ stage[i] # "none"
  /\ \E st \in Stages \ {"none"} : stage' = [stage EXCEPT ![i] = st]
  /\ \E d \in {"nothing", "done", "failed"} : did' = [did EXCEPT ![i] = d]
  /\ \E a \in Answers \cup {"nothing"} : saying' = [saying EXCEPT ![i] = a]
  /\ \E t \in 0..MaxTime : since' = [since EXCEPT ![i] = t]
  /\ \E g \in SUBSET Answers : got' = [got EXCEPT ![i] = g]
  /\ \E f \in SUBSET Answers : failed' = [failed EXCEPT ![i] = f]
  /\ populated' \in {populated, populated \cup {i}}
  /\ UNCHANGED <<known, sighting, calls, now, restarts, epoch>>

LEMMA CallStepMoves ==
  ASSUME TypeOK, NEW i \in Calls, CallStep(i)
  PROVE  Moves(i)
<1>1. /\ \E st \in Stages : stage = [stage EXCEPT ![i] = st]
      /\ \E d \in {"nothing", "done", "failed"} : did = [did EXCEPT ![i] = d]
      /\ \E a \in Answers \cup {"nothing"} : saying = [saying EXCEPT ![i] = a]
      /\ \E t \in 0..MaxTime : since = [since EXCEPT ![i] = t]
      /\ \E g \in SUBSET Answers : got = [got EXCEPT ![i] = g]
      /\ \E f \in SUBSET Answers : failed = [failed EXCEPT ![i] = f]
  BY Unmoved DEF TypeOK
<1>2. /\ saying[i] \in Answers \cup {"nothing"}
      /\ got[i] \in SUBSET Answers /\ failed[i] \in SUBSET Answers
      /\ now \in 0..MaxTime
      /\ stage[i] \in Stages
  BY DEF TypeOK
<1>3. \A a \in Answers : Say(i, a) =>
        /\ \E st \in Stages \ {"none"} : stage' = [stage EXCEPT ![i] = st]
        /\ \E b \in Answers \cup {"nothing"} : saying' = [saying EXCEPT ![i] = b]
        /\ \E t \in 0..MaxTime : since' = [since EXCEPT ![i] = t]
  BY <1>2 DEF Say, Stages
<1>4. CASE Drop(i)
  BY <1>1, <1>4 DEF Drop, Moves, Stages
<1>5. CASE Answer(i)
  BY <1>1, <1>3, <1>5 DEF Answer, Admit, Moves, Answers
<1>6. CASE RefuseToLog(i)
  BY <1>1, <1>3, <1>6 DEF RefuseToLog, Admit, Moves, Answers
<1>7. CASE StartDeed(i)
  BY <1>1, <1>7 DEF StartDeed, Admit, Moves, Stages
<1>8. CASE DeedDone(i)
  BY <1>1, <1>3, <1>8 DEF DeedDone, Moves, Answers
<1>9. CASE DeedFails(i)
  BY <1>1, <1>3, <1>9 DEF DeedFails, Moves, Answers
<1>10. CASE Fallback(i)
  BY <1>1, <1>3, <1>10 DEF Fallback, Admit, Moves, Answers
<1>11. CASE FallbackHeld(i)
  BY <1>1, <1>2, <1>11 DEF FallbackHeld, Admit, Moves, Stages
<1>12. stage[i] = "reply" =>
         /\ got[i] \cup {saying[i]} \in SUBSET Answers
         /\ failed[i] \cup {saying[i]} \in SUBSET Answers
  BY <1>2 DEF TypeOK
<1>13. CASE DeliverOk(i)
  <2>1. got' = [got EXCEPT ![i] = got[i] \cup {saying[i]}]
    BY <1>13 DEF DeliverOk
  <2>2. QED  BY <1>1, <1>12, <1>13, <2>1 DEF DeliverOk, Moves, Stages
<1>14. ASSUME DeliveryFailure(i)
       PROVE  /\ stage[i] = "reply"
              /\ \E g \in SUBSET Answers : got' = [got EXCEPT ![i] = g]
              /\ \E f \in SUBSET Answers : failed' = [failed EXCEPT ![i] = f]
              /\ UNCHANGED <<known, sighting, calls, did, populated, now,
                             restarts, epoch>>
  <2>1. /\ failed' = [failed EXCEPT ![i] = failed[i] \cup {saying[i]}]
        /\ \/ got' = got
           \/ got' = [got EXCEPT ![i] = got[i] \cup {saying[i]}]
    BY <1>14 DEF DeliveryFailure
  <2>2. QED  BY <1>1, <1>12, <1>14, <2>1 DEF DeliveryFailure
<1>15. CASE DeliverFails(i)
  BY <1>1, <1>14, <1>15 DEF DeliverFails, Moves, Stages
<1>16. CASE LogDeliverFails(i)
  BY <1>1, <1>3, <1>14, <1>16 DEF LogDeliverFails, Moves, Answers
<1>17. CASE FallbackFails(i)
  BY <1>1, <1>14, <1>17 DEF FallbackFails, Moves, Stages
<1>18. QED
  BY <1>4, <1>5, <1>6, <1>7, <1>8, <1>9, <1>10, <1>11, <1>13, <1>15, <1>16,
     <1>17 DEF CallStep

\* A step of a call has something to say when it begins to deliver.
LEMMA DeliversSomething ==
  ASSUME TypeOK, NEW i \in Calls, CallStep(i), NEW j \in Calls,
         stage'[j] = "reply"
  PROVE  saying'[j] # "nothing"
<1>1. CASE j = i
  <2>1. stage'[i] # "reply" \/ \E a \in Answers : Say(i, a)
    BY <1>1 DEF CallStep, Drop, Answer, RefuseToLog, StartDeed, DeedDone,
      DeedFails, Fallback, FallbackHeld, DeliverOk, DeliverFails,
      LogDeliverFails, FallbackFails, Admit, TypeOK, Answers
  <2>2. QED  BY <1>1, <2>1 DEF Say, TypeOK, Answers
<1>2. CASE j # i
  BY <1>2, CallStepMoves DEF Moves, TypeOK
<1>3. QED  BY <1>1, <1>2

LEMMA SlotTypes ==
  ASSUME TypeOK, NEW i \in Calls, CallStep(i)
  PROVE  lastReply' \in [Senders -> (0..MaxTime) \cup {NoReply}]
<1>1. /\ lastReply \in [Senders -> (0..MaxTime) \cup {NoReply}]
      /\ Pruned \in [Senders -> (0..MaxTime) \cup {NoReply}]
      /\ now \in 0..MaxTime
  BY DEF TypeOK, Pruned
<1>2. lastReply' \in {lastReply, Pruned, [Pruned EXCEPT ![From(i)] = now],
                      [lastReply EXCEPT ![From(i)] = NoReply]}
  BY DEF CallStep, Drop, Answer, RefuseToLog, StartDeed, DeedDone, DeedFails,
    Fallback, FallbackHeld, DeliverOk, DeliverFails, LogDeliverFails,
    FallbackFails
<1>3. QED  BY <1>1, <1>2, ExceptOne

LEMMA CallStepType ==
  ASSUME TypeOK, NEW i \in Calls, CallStep(i)
  PROVE  TypeOK'
<1>1. Moves(i)
  BY CallStepMoves
<1>2. /\ stage' \in [Calls -> Stages]
      /\ did' \in [Calls -> {"nothing", "done", "failed"}]
      /\ saying' \in [Calls -> Answers \cup {"nothing"}]
      /\ since' \in [Calls -> 0..MaxTime]
      /\ got' \in [Calls -> SUBSET Answers]
      /\ failed' \in [Calls -> SUBSET Answers]
  BY <1>1, ExceptOne DEF Moves, TypeOK
<1>3. populated' \subseteq Calls
  BY <1>1 DEF Moves, TypeOK
<1>4. \A j \in Calls : stage'[j] = "none" <=> j > Len(calls')
  BY <1>1 DEF Moves, TypeOK
<1>5. QED
  BY <1>1, <1>2, <1>3, <1>4, DeliversSomething, SlotTypes DEF Moves, TypeOK

LEMMA WorldStepType ==
  ASSUME TypeOK, (\E s \in Senders : Announce(s)) \/ Tick \/ Restart
  PROVE  TypeOK'
<1>1. CASE \E s \in Senders : Announce(s)
  BY <1>1 DEF Announce, TypeOK, callVars
<1>2. CASE Tick
  <2>1. now' \in 0..MaxTime
    BY <1>2, Bounds DEF Tick, TypeOK
  <2>2. QED  BY <1>2, <2>1 DEF Tick, TypeOK, callVars
<1>3. CASE Restart
  <2>1. sighting' \in [Messages -> 0..MaxCalls]
    BY <1>3, Bounds DEF Restart
  <2>2. restarts' \in 0..MaxRestarts /\ epoch' \in 0..Len(calls)
    BY <1>3, Bounds DEF Restart, TypeOK
  <2>3. QED  BY <1>3, <2>1, <2>2 DEF Restart, TypeOK, callVars
<1>4. QED  BY <1>1, <1>2, <1>3

LEMMA NextType == TypeOK /\ [Next]_vars => TypeOK'
<1> SUFFICES ASSUME TypeOK, [Next]_vars PROVE TypeOK'
  OBVIOUS
<1>1. CASE \E m \in Messages : Arrive(m)
  BY <1>1, ArriveType
<1>2. CASE \E i \in Calls : CallStep(i)
  BY <1>2, CallStepType
<1>3. CASE (\E s \in Senders : Announce(s)) \/ Tick \/ Restart
  BY <1>3, WorldStepType
<1>4. CASE UNCHANGED vars
  BY <1>4 DEF vars, callVars, TypeOK
<1>5. QED  BY <1>1, <1>2, <1>3, <1>4 DEF Next

\* Every variable keeps its type, whoever writes and whatever fails.
THEOREM TypeCorrect == Spec => []TypeOK
BY InitType, NextType, PTL DEF Spec

-----------------------------------------------------------------------------
(* What is true of each call, wherever it stands.                          *)

Early == {"none", "duplicate", "verify", "dropped"}
Late == {"act", "reply", "done"}

\* Before it has something to say a call has said nothing and done nothing.
Quiet(i) ==
  /\ stage[i] \in Early \cup {"act"} =>
       saying[i] = "nothing" /\ got[i] = {} /\ failed[i] = {} /\ did[i] = "nothing"
  /\ stage[i] \in Early => i \notin populated

\* Past the proof the message is proven, and only an accepted one runs.
Proved(i) ==
  /\ stage[i] \in Late => Proven(calls[i])
  /\ stage[i] = "act" \/ did[i] # "nothing" => Accepts(calls[i]) /\ Asks(i) \in Deeds
  /\ saying[i] \notin {"nothing", "fallback"} => Accepts(calls[i])
  /\ i \in populated => From(i) \in Crew

\* A delivery under way has not been reported, and ends in time.
Timely(i) ==
  /\ since[i] <= now
  /\ stage[i] = "reply" =>
       /\ now <= since[i] + SendTimeout
       /\ got[i] \subseteq failed[i]
       /\ failed[i] \subseteq {"ok"}
       /\ saying[i] # "failed" => failed[i] = {}

\* What is said matches what was done, but for the log command's catch.
Truthful(i) ==
  /\ saying[i] = "ok" \/ "ok" \in failed[i] => did[i] = "done"
  /\ saying[i] = "failed" => did[i] = "failed" \/ "ok" \in failed[i]
  /\ saying[i] = "failed" /\ "ok" \in failed[i] => Asks(i) = "log"
  /\ \/ got[i] \subseteq {saying[i]}
     \/ Asks(i) = "log" /\ "ok" \in failed[i] /\ got[i] \subseteq {"ok", "failed"}

CallInv(i) == Quiet(i) /\ Proved(i) /\ Timely(i) /\ Truthful(i)

IInv == \A i \in Calls : CallInv(i)

LEMMA InitIInv == Init => IInv
BY Bounds DEF Init, IInv, CallInv, Quiet, Proved, Timely, Truthful, Early, Late

\* A call that stays as it is, while calls arrive and senders become known.
LEMMA Frame ==
  ASSUME TypeOK, NEW i \in Calls, CallInv(i), known \subseteq known',
         stage'[i] = stage[i], did'[i] = did[i], saying'[i] = saying[i],
         since'[i] = since[i], got'[i] = got[i], failed'[i] = failed[i],
         i \in populated' <=> i \in populated,
         stage[i] # "none" => calls'[i] = calls[i],
         now' \in Nat, now <= now',
         stage[i] = "reply" => now' <= since[i] + SendTimeout
  PROVE  CallInv(i)'
<1>1. CASE stage[i] = "none"
  BY <1>1, Bounds DEF CallInv, Quiet, Proved, Timely, Truthful, Early, Late, TypeOK
<1>2. CASE stage[i] # "none"
  <2>1. Quiet(i)' /\ Timely(i)'
    BY Bounds DEF CallInv, Quiet, Timely, TypeOK
  <2>2. Proved(i)'
    BY <1>2 DEF CallInv, Proved, Proven, Accepts, Asks, From
  <2>3. Truthful(i)'
    BY <1>2 DEF CallInv, Truthful, Asks
  <2>4. QED  BY <2>1, <2>2, <2>3 DEF CallInv
<1>3. QED  BY <1>1, <1>2

LEMMA ArriveIInv ==
  ASSUME TypeOK, IInv, NEW m \in Messages, Arrive(m), NEW j \in Calls
  PROVE  CallInv(j)'
<1> DEFINE i == Len(calls) + 1
<1>1. /\ i \in Calls /\ stage[i] = "none"
      /\ \E st \in {"duplicate", "verify"} : stage' = [stage EXCEPT ![i] = st]
      /\ UNCHANGED <<known, did, saying, since, got, failed, populated, now>>
  <2>1. i \in Calls /\ i > Len(calls)
    BY Bounds DEF Arrive, TypeOK, Calls
  <2>2. stage[i] = "none"
    BY <2>1 DEF TypeOK
  <2>3. \E st \in {"duplicate", "verify"} : stage' = [stage EXCEPT ![i] = st]
    BY DEF Arrive
  <2>4. QED  BY <2>1, <2>2, <2>3 DEF Arrive
<1>2. CASE j = i
  <2>1. stage'[j] \in {"duplicate", "verify"} /\ CallInv(j)
    BY <1>1, <1>2 DEF TypeOK, IInv
  <2>2. QED
    BY <1>1, <1>2, <2>1 DEF CallInv, Quiet, Proved, Timely, Truthful, Early, Late
<1>3. CASE j # i
  <2>1. stage[j] # "none" => calls'[j] = calls[j]
    <3>1. stage[j] # "none" => j \in 1..Len(calls)
      BY Started
    <3>2. QED  BY <3>1 DEF Arrive, TypeOK
  <2>2. stage'[j] = stage[j] /\ CallInv(j)
    BY <1>1, <1>3 DEF TypeOK, IInv
  <2>3. now \in Nat
    BY Bounds DEF TypeOK
  <2>4. stage[j] = "reply" => now <= since[j] + SendTimeout
    BY <2>2 DEF CallInv, Timely
  <2>5. QED  BY <1>1, <2>1, <2>2, <2>3, <2>4, Frame
<1>4. QED  BY <1>2, <1>3

LEMMA OthersIInv ==
  ASSUME TypeOK, IInv, NEW i \in Calls, Moves(i), NEW j \in Calls, j # i
  PROVE  CallInv(j)'
<1>1. /\ stage'[j] = stage[j] /\ did'[j] = did[j] /\ saying'[j] = saying[j]
      /\ since'[j] = since[j] /\ got'[j] = got[j] /\ failed'[j] = failed[j]
      /\ j \in populated' <=> j \in populated
      /\ UNCHANGED <<known, calls, now>>
  BY DEF Moves, TypeOK
<1>2. now \in Nat /\ CallInv(j)
  BY Bounds DEF TypeOK, IInv
<1>3. stage[j] = "reply" => now <= since[j] + SendTimeout
  BY <1>2 DEF CallInv, Timely
<1>4. QED  BY <1>1, <1>2, <1>3, Frame

-----------------------------------------------------------------------------
(* The call that moves.                                                    *)

\* The values of one call's functions, before and after.
LEMMA AtCall ==
  ASSUME TypeOK, NEW i \in Calls
  PROVE  /\ \A v : stage' = [stage EXCEPT ![i] = v] => stage'[i] = v
         /\ \A v : did' = [did EXCEPT ![i] = v] => did'[i] = v
         /\ \A v : saying' = [saying EXCEPT ![i] = v] => saying'[i] = v
         /\ \A v : since' = [since EXCEPT ![i] = v] => since'[i] = v
         /\ \A v : got' = [got EXCEPT ![i] = v] => got'[i] = v
         /\ \A v : failed' = [failed EXCEPT ![i] = v] => failed'[i] = v
         /\ now \in Nat /\ since[i] \in Nat
         /\ got[i] \subseteq Answers /\ failed[i] \subseteq Answers
BY Bounds DEF TypeOK

LEMMA DropIInv ==
  ASSUME TypeOK, NEW i \in Calls, CallInv(i), Drop(i)
  PROVE  CallInv(i)'
<1>1. /\ stage[i] = "verify" /\ stage'[i] = "dropped"
      /\ UNCHANGED <<known, calls, did, saying, since, got, failed, populated, now>>
  BY AtCall DEF Drop
<1>2. QED
  BY <1>1 DEF CallInv, Quiet, Proved, Timely, Truthful, Early, Late

\* A call that passes the proof and goes to act, to reply or to its end.
LEMMA AdmittedIInv ==
  ASSUME TypeOK, NEW i \in Calls, CallInv(i), Admit(i),
         UNCHANGED <<known, calls, did, got, failed, now>>,
         stage'[i] \in Late,
         \/ UNCHANGED saying /\ stage'[i] # "reply"
         \/ stage'[i] = "reply" /\ saying'[i] \in {"answer", "refused", "fallback"},
         stage'[i] = "act" \/ saying'[i] \notin {"nothing", "fallback"} =>
           Accepts(calls[i]),
         stage'[i] = "act" => Asks(i) \in Deeds,
         since'[i] \in {since[i], now}, stage'[i] = "reply" => since'[i] = now
  PROVE  CallInv(i)'
<1>1. /\ stage[i] = "verify" /\ Proven(calls[i])
      /\ saying[i] = "nothing" /\ got[i] = {} /\ failed[i] = {}
      /\ did[i] = "nothing" /\ i \notin populated /\ since[i] <= now
  BY DEF Admit, CallInv, Quiet, Timely, Early
<1>2. got'[i] = {} /\ failed'[i] = {} /\ did'[i] = "nothing" /\ since'[i] <= now
  BY <1>1, AtCall
<1>3. Quiet(i)'
  <2>1. stage'[i] = "act" => saying'[i] = "nothing"
    BY <1>1
  <2>2. QED  BY <1>2, <2>1 DEF Quiet, Early, Late
<1>4. Proved(i)'
  <2>1. i \in populated' => From(i) \in Crew
    BY <1>1 DEF Admit
  <2>2. QED  BY <1>1, <1>2, <2>1 DEF Proved, Proven, Accepts, Asks, From
<1>5. Timely(i)'
  BY <1>2, AtCall, Bounds DEF Timely
<1>6. Truthful(i)'
  BY <1>1, <1>2 DEF Truthful
<1>7. QED  BY <1>3, <1>4, <1>5, <1>6 DEF CallInv

LEMMA ActedIInv ==
  ASSUME TypeOK, NEW i \in Calls, CallInv(i), DeedDone(i) \/ DeedFails(i)
  PROVE  CallInv(i)'
<1>1. /\ stage[i] = "act" /\ stage'[i] = "reply" /\ since'[i] = now
      /\ \/ did'[i] = "done" /\ saying'[i] = "ok"
         \/ did'[i] = "failed" /\ saying'[i] = "failed"
      /\ UNCHANGED <<known, calls, got, failed, populated, now>>
  <2>1. /\ stage[i] = "act" /\ (Say(i, "ok") \/ Say(i, "failed"))
        /\ \/ did' = [did EXCEPT ![i] = "done"] /\ Say(i, "ok")
           \/ did' = [did EXCEPT ![i] = "failed"] /\ Say(i, "failed")
        /\ UNCHANGED <<known, calls, got, failed, populated, now>>
    BY DEF DeedDone, DeedFails
  <2>2. \A a : Say(i, a) => stage'[i] = "reply" /\ since'[i] = now /\ saying'[i] = a
    BY AtCall DEF Say
  <2>3. QED  BY <2>1, <2>2, AtCall
<1>2. got[i] = {} /\ failed[i] = {}
  BY <1>1 DEF CallInv, Quiet
<1>3. Quiet(i)' /\ Truthful(i)'
  BY <1>1, <1>2 DEF Quiet, Truthful, Early
<1>4. Proved(i)'
  BY <1>1 DEF CallInv, Proved, Proven, Accepts, Asks, From, Late
<1>5. Timely(i)'
  BY <1>1, <1>2, AtCall, Bounds DEF Timely
<1>6. QED  BY <1>3, <1>4, <1>5 DEF CallInv

LEMMA DeliveredIInv ==
  ASSUME TypeOK, NEW i \in Calls, CallInv(i), DeliverOk(i)
  PROVE  CallInv(i)'
<1>1. /\ stage[i] = "reply" /\ stage'[i] = "done"
      /\ got'[i] = got[i] \cup {saying[i]}
      /\ UNCHANGED <<known, calls, did, saying, since, failed, populated, now>>
  BY AtCall DEF DeliverOk
<1>2. /\ got[i] \subseteq failed[i] /\ failed[i] \subseteq {"ok"}
      /\ saying[i] # "failed" => failed[i] = {}
      /\ saying[i] = "failed" /\ "ok" \in failed[i] => Asks(i) = "log"
  BY <1>1 DEF CallInv, Timely, Truthful
<1>3. Quiet(i)' /\ Timely(i)'
  BY <1>1 DEF CallInv, Quiet, Timely, Early
<1>4. Proved(i)'
  BY <1>1 DEF CallInv, Proved, Proven, Accepts, Asks, From, Late
<1>5. Truthful(i)'
  <2>1. CASE failed[i] = {}
    BY <1>1, <1>2, <2>1 DEF CallInv, Truthful, Asks
  <2>2. CASE failed[i] # {}
    <3>1. saying[i] = "failed" /\ "ok" \in failed[i] /\ Asks(i) = "log"
      BY <1>2, <2>2
    <3>2. got'[i] \subseteq {"ok", "failed"} /\ Asks(i)' = "log"
      BY <1>1, <1>2, <3>1 DEF Asks
    <3>3. QED  BY <1>1, <3>1, <3>2 DEF CallInv, Truthful
  <2>3. QED  BY <2>1, <2>2
<1>6. QED  BY <1>3, <1>4, <1>5 DEF CallInv

LEMMA UndeliveredIInv ==
  ASSUME TypeOK, NEW i \in Calls, CallInv(i),
         DeliverFails(i) \/ LogDeliverFails(i) \/ FallbackFails(i)
  PROVE  CallInv(i)'
<1>1. /\ stage[i] = "reply"
      /\ failed'[i] = failed[i] \cup {saying[i]}
      /\ got'[i] \in {got[i], got[i] \cup {saying[i]}}
      /\ UNCHANGED <<known, calls, did, populated, now>>
  BY AtCall DEF DeliverFails, LogDeliverFails, FallbackFails, DeliveryFailure
<1>2. \/ stage'[i] = "done" /\ UNCHANGED <<saying, since>>
      \/ /\ stage'[i] = "reply" /\ saying'[i] = "failed" /\ since'[i] = now
         /\ Asks(i) = "log" /\ saying[i] = "ok"
  BY AtCall DEF DeliverFails, LogDeliverFails, FallbackFails, Say, RetriesAsFailure
<1>3. /\ got[i] \subseteq failed[i] /\ failed[i] \subseteq {"ok"}
      /\ saying[i] # "failed" => failed[i] = {}
      /\ saying[i] = "failed" /\ "ok" \in failed[i] => Asks(i) = "log"
      /\ since[i] <= now
  BY <1>1 DEF CallInv, Timely, Truthful
<1>4. Quiet(i)'
  BY <1>1, <1>2 DEF Quiet, Early
<1>5. Proved(i)'
  BY <1>1, <1>2 DEF CallInv, Proved, Proven, Accepts, Asks, From, Late
<1>6. Timely(i)'
  BY <1>1, <1>2, <1>3, AtCall, Bounds DEF Timely
<1>7. Truthful(i)'
  <2>1. Asks(i)' = Asks(i)
    BY <1>1 DEF Asks
  <2>2. CASE stage'[i] = "reply"
    BY <1>1, <1>2, <1>3, <2>1, <2>2 DEF CallInv, Truthful
  <2>3. CASE stage'[i] = "done" /\ failed[i] = {}
    BY <1>1, <1>2, <1>3, <2>1, <2>3 DEF CallInv, Truthful
  <2>4. CASE stage'[i] = "done" /\ failed[i] # {}
    BY <1>1, <1>2, <1>3, <2>1, <2>4 DEF CallInv, Truthful
  <2>5. QED  BY <1>2, <2>2, <2>3, <2>4
<1>8. QED  BY <1>4, <1>5, <1>6, <1>7 DEF CallInv

LEMMA CallStepIInv ==
  ASSUME TypeOK, IInv, NEW i \in Calls, CallStep(i), NEW j \in Calls
  PROVE  CallInv(j)'
<1>1. CASE j # i
  BY <1>1, CallStepMoves, OthersIInv
<1>2. CASE j = i
  <2>1. CallInv(i)
    BY DEF IInv
  <2>2. \A a : Say(i, a) => stage'[i] = "reply" /\ since'[i] = now /\ saying'[i] = a
    BY AtCall DEF Say
  <2>3. CASE Drop(i)
    BY <1>2, <2>1, <2>3, DropIInv
  <2>4. CASE Answer(i)
    <3>1. /\ Admit(i) /\ Accepts(calls[i]) /\ Say(i, "answer")
          /\ UNCHANGED <<known, calls, did, got, failed, now>>
      BY <2>4 DEF Answer
    <3>2. QED  BY <1>2, <2>1, <2>2, <3>1, AdmittedIInv DEF Late
  <2>5. CASE RefuseToLog(i)
    <3>1. /\ Admit(i) /\ Accepts(calls[i]) /\ Say(i, "refused")
          /\ UNCHANGED <<known, calls, did, got, failed, now>>
      BY <2>5 DEF RefuseToLog
    <3>2. QED  BY <1>2, <2>1, <2>2, <3>1, AdmittedIInv DEF Late
  <2>6. CASE StartDeed(i)
    <3>1. /\ Admit(i) /\ Accepts(calls[i]) /\ stage'[i] = "act" /\ Asks(i) \in Deeds
          /\ UNCHANGED <<known, calls, did, saying, since, got, failed, now>>
      BY <2>6, AtCall DEF StartDeed
    <3>2. QED  BY <1>2, <2>1, <3>1, AdmittedIInv DEF Late
  <2>7. CASE Fallback(i)
    <3>1. /\ Admit(i) /\ Say(i, "fallback")
          /\ UNCHANGED <<known, calls, did, got, failed, now>>
      BY <2>7 DEF Fallback
    <3>2. QED  BY <1>2, <2>1, <2>2, <3>1, AdmittedIInv DEF Late
  <2>8. CASE FallbackHeld(i)
    <3>1. /\ Admit(i) /\ stage'[i] = "done" /\ since'[i] = now
          /\ UNCHANGED <<known, calls, did, saying, got, failed, now>>
      BY <2>8, AtCall DEF FallbackHeld
    <3>2. saying'[i] = "nothing"
      BY <2>1, <3>1 DEF Admit, CallInv, Quiet, Early
    <3>3. QED  BY <1>2, <2>1, <3>1, <3>2, AdmittedIInv DEF Late
  <2>9. CASE DeedDone(i) \/ DeedFails(i)
    BY <1>2, <2>1, <2>9, ActedIInv
  <2>10. CASE DeliverOk(i)
    BY <1>2, <2>1, <2>10, DeliveredIInv
  <2>11. CASE DeliverFails(i) \/ LogDeliverFails(i) \/ FallbackFails(i)
    BY <1>2, <2>1, <2>11, UndeliveredIInv
  <2>12. QED
    BY <2>3, <2>4, <2>5, <2>6, <2>7, <2>8, <2>9, <2>10, <2>11 DEF CallStep
<1>3. QED  BY <1>1, <1>2

LEMMA WorldIInv ==
  ASSUME TypeOK, IInv, NEW j \in Calls,
         \/ \E s \in Senders : Announce(s)
         \/ Tick \/ Restart \/ UNCHANGED vars
  PROVE  CallInv(j)'
<1>1. CallInv(j) /\ now \in Nat /\ since[j] \in Nat
  BY Bounds DEF IInv, TypeOK
<1>2. UNCHANGED callVars /\ known \subseteq known'
  BY DEF Announce, Tick, Restart, vars
<1>3. now' \in Nat /\ now <= now'
  BY <1>1 DEF Announce, Tick, Restart, vars
<1>4. stage[j] = "reply" => now' <= since[j] + SendTimeout
  <2>1. CASE Tick
    BY <1>1, <2>1, Bounds DEF Tick
  <2>2. CASE now' = now
    BY <1>1, <2>2 DEF CallInv, Timely
  <2>3. QED  BY <2>1, <2>2 DEF Announce, Restart, vars
<1>5. QED  BY <1>1, <1>2, <1>3, <1>4, Frame DEF callVars

\* The invariant of each call is inductive.
LEMMA NextIInv == TypeOK /\ IInv /\ [Next]_vars => IInv'
<1> SUFFICES ASSUME TypeOK, IInv, [Next]_vars, NEW j \in Calls
             PROVE  CallInv(j)'
  BY DEF IInv, Calls
<1>1. CASE \E m \in Messages : Arrive(m)
  BY <1>1, ArriveIInv
<1>2. CASE \E i \in Calls : CallStep(i)
  BY <1>2, CallStepIInv
<1>3. QED  BY <1>1, <1>2, WorldIInv DEF Next

LEMMA IInvInvariant == Spec => []IInv
BY InitType, NextType, InitIInv, NextIInv, PTL DEF Spec

-----------------------------------------------------------------------------
LEMMA IInvProven == TypeOK /\ IInv => OnlyProvenCrewAct
<1> SUFFICES ASSUME TypeOK, IInv, NEW i \in 1..Len(calls),
               \/ stage[i] = "act" \/ did[i] # "nothing" \/ i \in populated
               \/ /\ saying[i] # "nothing" /\ saying[i] # "fallback"
                  /\ Asks(i) \in CrewOnly
             PROVE /\ calls[i] \in Genuine /\ From(i) \in known
                   /\ From(i) \in Crew
  BY DEF OnlyProvenCrewAct
<1>1. i \in Calls /\ CallInv(i) /\ stage[i] \in Stages /\ calls[i] \in Messages
  BY CallTypes DEF IInv, TypeOK
<1>2. stage[i] \in Late
  BY <1>1 DEF CallInv, Quiet, Early, Late, Stages
<1>3. calls[i] \in Genuine /\ From(i) \in known
  BY <1>1, <1>2 DEF CallInv, Proved, Proven, From
<1>4. From(i) \in Crew
  <2>1. CASE i \in populated
    BY <1>1, <2>1 DEF CallInv, Proved
  <2>2. CASE stage[i] = "act" \/ did[i] # "nothing"
    <3>1. Accepts(calls[i]) /\ Asks(i) \in CrewOnly
      BY <1>1, <2>2 DEF CallInv, Proved, Deeds, CrewOnly
    <3>2. QED  BY <3>1 DEF Accepts, Asks, From
  <2>3. CASE saying[i] # "nothing" /\ saying[i] # "fallback" /\ Asks(i) \in CrewOnly
    BY <1>1, <2>3 DEF CallInv, Proved, Accepts, Asks, From
  <2>4. QED  BY <2>1, <2>2, <2>3
<1>5. QED  BY <1>3, <1>4

-----------------------------------------------------------------------------
(* The fallback's slots.                                                   *)

SlotInv == SlotHeldByReply /\ FallbackRateLimited

LEMMA Instants ==
  ASSUME TypeOK
  PROVE  /\ now \in Nat /\ ReplyInterval \in Nat /\ Len(calls) \in Nat
         /\ \A i \in Calls : since[i] \in Nat
BY Bounds DEF TypeOK

\* What the slots and the replies owe each other, per sender and per call.
LEMMA SlotFacts ==
  ASSUME TypeOK, SlotInv, NEW i \in 1..Len(calls), Replied(i)
  PROVE  /\ now - since[i] < ReplyInterval => lastReply[From(i)] = since[i]
         /\ \A j \in 1..Len(calls) :
              j # i /\ From(j) = From(i) /\ Replied(j) =>
                \/ since[i] - since[j] >= ReplyInterval
                \/ since[j] - since[i] >= ReplyInterval
<1>1. From(i) \in Senders
  BY CallTypes
<1>2. QED  BY <1>1 DEF SlotInv, SlotHeldByReply, FallbackRateLimited

\* Pruning takes no slot from a reply of the last interval.
LEMMA PruneFacts ==
  ASSUME TypeOK, SlotInv, NEW s \in Senders
  PROVE  /\ Pruned[s] # NoReply =>
              Pruned[s] = lastReply[s] /\ now - Pruned[s] < ReplyInterval
         /\ \A i \in 1..Len(calls) :
              From(i) = s /\ Replied(i) /\ now - since[i] < ReplyInterval =>
                Pruned[s] = since[i]
<1>1. lastReply[s] \in Nat \cup {NoReply} /\ now \in Nat /\ ReplyInterval \in Nat
  BY Bounds DEF TypeOK
<1>2. Pruned[s] = IF lastReply[s] # NoReply /\ now - lastReply[s] >= ReplyInterval
                    THEN NoReply ELSE lastReply[s]
  BY DEF Pruned
<1>3. ASSUME NEW i \in 1..Len(calls), From(i) = s, Replied(i),
             now - since[i] < ReplyInterval
      PROVE  Pruned[s] = since[i]
  <2>1. lastReply[s] = since[i] /\ since[i] \in Nat
    BY <1>3, SlotFacts, CallTypes, Bounds DEF TypeOK
  <2>2. QED  BY <1>1, <1>2, <1>3, <2>1
<1>4. QED  BY <1>1, <1>2, <1>3

\* Steps that neither make a reply nor fail one.
KeepsReplies ==
  /\ Len(calls) <= Len(calls')
  /\ \A j \in 1..Len(calls) :
       /\ calls'[j] = calls[j]
       /\ Replied(j)' <=> Replied(j)
       /\ Replied(j) => since'[j] = since[j]
  /\ \A j \in 1..Len(calls') : j > Len(calls) => ~Replied(j)'

LEMMA KeepsSlots ==
  ASSUME TypeOK, TypeOK', SlotInv, KeepsReplies, now <= now',
         lastReply' = lastReply \/ lastReply' = Pruned
  PROVE  SlotInv'
<1>1. /\ Len(calls) \in Nat /\ Len(calls') \in Nat
      /\ now \in Nat /\ now' \in Nat /\ ReplyInterval \in Nat
  BY Bounds DEF TypeOK
<1>2. \A j \in 1..Len(calls) : j \in 1..Len(calls') /\ From(j)' = From(j) /\ since[j] \in Nat
  <2>1. \A j \in 1..Len(calls) : From(j)' = From(j)
    BY DEF KeepsReplies, From
  <2>2. \A j \in 1..Len(calls) : j \in 1..Len(calls')
    BY <1>1 DEF KeepsReplies
  <2>3. QED  BY <2>1, <2>2, CallTypes, Instants
<1>3. \A j \in 1..Len(calls') : Replied(j)' =>
        j \in 1..Len(calls) /\ Replied(j) /\ since'[j] = since[j]
  BY <1>1 DEF KeepsReplies
<1>4. FallbackRateLimited'
  BY <1>2, <1>3 DEF SlotInv, FallbackRateLimited
<1>5. ASSUME NEW s \in Senders, lastReply'[s] # NoReply
      PROVE  \E i \in 1..Len(calls') :
               From(i)' = s /\ Replied(i)' /\ since'[i] = lastReply'[s]
  <2>1. lastReply'[s] = lastReply[s]
    BY <1>5, PruneFacts
  <2>2. PICK i \in 1..Len(calls) :
          From(i) = s /\ Replied(i) /\ since[i] = lastReply[s]
    BY <1>5, <2>1 DEF SlotInv, SlotHeldByReply
  <2>3. From(i)' = s /\ Replied(i)' /\ since'[i] = lastReply'[s]
    BY <1>2, <2>1, <2>2 DEF KeepsReplies
  <2>4. QED  BY <1>2, <2>3
<1>6. ASSUME NEW s \in Senders, NEW i \in 1..Len(calls'), From(i)' = s,
             Replied(i)', now' - since'[i] < ReplyInterval
      PROVE  lastReply'[s] = since'[i]
  <2>1. i \in 1..Len(calls) /\ Replied(i) /\ since'[i] = since[i] /\ From(i) = s
    BY <1>2, <1>3, <1>6
  <2>2. now - since[i] < ReplyInterval
    BY <1>1, <1>2, <1>6, <2>1
  <2>3. lastReply[s] = since[i] /\ Pruned[s] = since[i]
    BY <2>1, <2>2, SlotFacts, PruneFacts
  <2>4. QED  BY <2>1, <2>3
<1>7. QED  BY <1>4, <1>5, <1>6 DEF SlotInv, SlotHeldByReply

LEMMA FallbackSlots ==
  ASSUME TypeOK, TypeOK', IInv, SlotInv, NEW i \in Calls, Fallback(i)
  PROVE  SlotInv'
<1>1. /\ i \in 1..Len(calls) /\ saying[i] = "nothing" /\ From(i) \in Senders
      /\ failed[i] = {}
  <2>1. stage[i] = "verify"
    BY DEF Fallback, Admit
  <2>2. QED  BY <2>1, Started, CallTypes DEF IInv, CallInv, Quiet, Early
<1>2. /\ stage'[i] = "reply" /\ saying'[i] = "fallback" /\ since'[i] = now
      /\ UNCHANGED <<calls, failed, now>>
      /\ \A j \in Calls : j # i => saying'[j] = saying[j] /\ since'[j] = since[j]
  BY DEF Fallback, Say, TypeOK
<1>3. /\ Pruned[From(i)] = NoReply
      /\ lastReply'[From(i)] = now
      /\ \A s \in Senders : s # From(i) => lastReply'[s] = Pruned[s]
  BY <1>1 DEF Fallback, Pruned
<1>4. /\ \A j \in 1..Len(calls) : j # i => (Replied(j)' <=> Replied(j))
      /\ Replied(i)' /\ ~Replied(i)
  BY <1>1, <1>2, CallTypes DEF Replied
<1>5. /\ now \in Nat /\ ReplyInterval \in Nat
      /\ \A j \in 1..Len(calls) :
           since[j] \in Nat /\ From(j)' = From(j) /\ From(j) \in Senders /\ j \in Calls
  <2>1. \A j \in 1..Len(calls) : From(j)' = From(j)
    BY <1>2 DEF From
  <2>2. QED  BY <2>1, CallTypes, Instants, Bounds
<1>6. \A j \in 1..Len(calls) :
        From(j) = From(i) /\ Replied(j) => now - since[j] >= ReplyInterval
  <2>1. SUFFICES ASSUME NEW j \in 1..Len(calls), From(j) = From(i), Replied(j),
                        ~(now - since[j] >= ReplyInterval)
                 PROVE  FALSE
    OBVIOUS
  <2>2. now - since[j] < ReplyInterval
    BY <1>5, <2>1
  <2>3. Pruned[From(i)] = since[j]
    BY <1>1, <2>1, <2>2, PruneFacts
  <2>4. QED  BY <1>3, <1>5, <2>3 DEF NoReply
<1>7. FallbackRateLimited'
  <2> SUFFICES ASSUME NEW j \in 1..Len(calls), NEW k \in 1..Len(calls), j # k,
                      From(j) = From(k), Replied(j)', Replied(k)'
               PROVE  \/ since'[j] - since'[k] >= ReplyInterval
                      \/ since'[k] - since'[j] >= ReplyInterval
    BY <1>2, <1>5 DEF FallbackRateLimited
  <2>1. CASE j # i /\ k # i
    BY <1>2, <1>4, <1>5, <2>1 DEF SlotInv, FallbackRateLimited
  <2>2. CASE j = i
    BY <1>2, <1>4, <1>5, <1>6, <2>2
  <2>3. CASE k = i
    BY <1>2, <1>4, <1>5, <1>6, <2>3
  <2>4. QED  BY <2>1, <2>2, <2>3
<1>8. ASSUME NEW s \in Senders, lastReply'[s] # NoReply
      PROVE  \E j \in 1..Len(calls) :
               From(j) = s /\ Replied(j)' /\ since'[j] = lastReply'[s]
  <2>1. CASE s = From(i)
    BY <1>1, <1>2, <1>3, <1>4, <2>1
  <2>2. CASE s # From(i)
    <3>1. lastReply'[s] = lastReply[s]
      BY <1>3, <1>8, <2>2, PruneFacts
    <3>2. PICK j \in 1..Len(calls) :
            From(j) = s /\ Replied(j) /\ since[j] = lastReply[s]
      BY <1>8, <3>1 DEF SlotInv, SlotHeldByReply
    <3>3. j # i
      BY <2>2, <3>2
    <3>4. QED  BY <1>2, <1>4, <1>5, <3>1, <3>2, <3>3
  <2>3. QED  BY <2>1, <2>2
<1>9. ASSUME NEW j \in 1..Len(calls), Replied(j)', now - since'[j] < ReplyInterval
      PROVE  lastReply'[From(j)] = since'[j]
  <2>1. CASE j = i
    BY <1>2, <1>3, <2>1
  <2>2. CASE j # i
    <3>1. Replied(j) /\ since'[j] = since[j]
      BY <1>2, <1>4, <1>5, <1>9, <2>2
    <3>2. From(j) # From(i)
      BY <1>5, <1>6, <1>9, <3>1
    <3>3. Pruned[From(j)] = since[j]
      BY <1>5, <1>9, <3>1, PruneFacts
    <3>4. QED  BY <1>3, <1>5, <3>1, <3>2, <3>3
  <2>3. QED  BY <2>1, <2>2
<1>10. SlotHeldByReply'
  BY <1>2, <1>5, <1>8, <1>9 DEF SlotHeldByReply
<1>11. QED  BY <1>7, <1>10 DEF SlotInv

LEMMA FallbackFailsSlots ==
  ASSUME TypeOK, TypeOK', IInv, SlotInv, NEW i \in Calls, FallbackFails(i)
  PROVE  SlotInv'
<1>1. /\ i \in 1..Len(calls) /\ saying[i] = "fallback" /\ stage[i] = "reply"
      /\ failed[i] = {} /\ From(i) \in Senders
      /\ since[i] <= now /\ now <= since[i] + SendTimeout
  <2>1. stage[i] = "reply" /\ saying[i] = "fallback"
    BY DEF FallbackFails, DeliveryFailure
  <2>2. QED  BY <2>1, Started, CallTypes DEF IInv, CallInv, Timely
<1>2. /\ UNCHANGED <<calls, saying, since, now>>
      /\ "fallback" \in failed'[i]
      /\ \A j \in Calls : j # i => failed'[j] = failed[j]
  BY <1>1 DEF FallbackFails, DeliveryFailure, TypeOK
<1>3. /\ lastReply'[From(i)] = NoReply
      /\ \A s \in Senders : s # From(i) => lastReply'[s] = lastReply[s]
  BY <1>1 DEF FallbackFails, TypeOK
<1>4. /\ \A j \in 1..Len(calls) : j # i => (Replied(j)' <=> Replied(j))
      /\ ~Replied(i)' /\ Replied(i)
  BY <1>1, <1>2, CallTypes DEF Replied
<1>5. /\ now \in Nat /\ ReplyInterval \in Nat /\ SendTimeout < ReplyInterval
      /\ SendTimeout \in Nat
      /\ \A j \in 1..Len(calls) :
           since[j] \in Nat /\ From(j)' = From(j) /\ From(j) \in Senders
  <2>1. \A j \in 1..Len(calls) : From(j)' = From(j)
    BY <1>2 DEF From
  <2>2. QED  BY <2>1, CallTypes, Instants, Bounds
<1>6. \A j \in 1..Len(calls) :
        j # i /\ From(j) = From(i) /\ Replied(j) => ~(now - since[j] < ReplyInterval)
  <2>1. SUFFICES ASSUME NEW j \in 1..Len(calls), j # i, From(j) = From(i),
                        Replied(j), now - since[j] < ReplyInterval
                 PROVE  FALSE
    OBVIOUS
  <2>2. lastReply[From(i)] = since[j]
    BY <2>1, SlotFacts
  <2>3. now - since[i] < ReplyInterval
    BY <1>1, <1>5
  <2>4. lastReply[From(i)] = since[i]
    BY <1>1, <1>4, <2>3, SlotFacts
  <2>5. \/ since[i] - since[j] >= ReplyInterval
        \/ since[j] - since[i] >= ReplyInterval
    BY <1>1, <1>4, <2>1, SlotFacts
  <2>6. QED  BY <1>1, <1>5, <2>2, <2>4, <2>5
<1>7. FallbackRateLimited'
  <2>1. \A j \in 1..Len(calls) : Replied(j)' => Replied(j)
    BY <1>4
  <2>2. QED  BY <1>2, <1>5, <2>1 DEF SlotInv, FallbackRateLimited
<1>8. ASSUME NEW s \in Senders, lastReply'[s] # NoReply
      PROVE  \E j \in 1..Len(calls) :
               From(j) = s /\ Replied(j)' /\ since[j] = lastReply'[s]
  <2>1. s # From(i) /\ lastReply'[s] = lastReply[s]
    BY <1>3, <1>8
  <2>2. PICK j \in 1..Len(calls) :
          From(j) = s /\ Replied(j) /\ since[j] = lastReply[s]
    BY <1>8, <2>1 DEF SlotInv, SlotHeldByReply
  <2>3. QED  BY <1>4, <2>1, <2>2
<1>9. ASSUME NEW j \in 1..Len(calls), Replied(j)', now - since[j] < ReplyInterval
      PROVE  lastReply'[From(j)] = since[j]
  <2>1. j # i /\ Replied(j)
    BY <1>4, <1>9
  <2>2. From(j) # From(i)
    BY <1>6, <1>9, <2>1
  <2>3. QED  BY <1>3, <1>5, <1>9, <2>1, <2>2, SlotFacts
<1>10. SlotHeldByReply'
  BY <1>2, <1>5, <1>8, <1>9 DEF SlotHeldByReply
<1>11. QED  BY <1>7, <1>10 DEF SlotInv

\* Every other step of a call keeps the replies.
LEMMA OtherStepKeeps ==
  ASSUME TypeOK, IInv, NEW i \in Calls, CallStep(i), ~Fallback(i), ~FallbackFails(i)
  PROVE  KeepsReplies /\ lastReply' \in {lastReply, Pruned}
<1>1. /\ i \in 1..Len(calls) /\ Moves(i) /\ CallInv(i)
  BY CallStepMoves, Started DEF Moves, IInv
<1>2. /\ Replied(i)' <=> Replied(i)
      /\ Replied(i) => since'[i] = since[i]
  <2>1. CASE stage[i] \in {"verify", "act"}
    <3>1. saying[i] = "nothing"
      BY <1>1, <2>1 DEF CallInv, Quiet, Early
    <3>2. saying'[i] # "fallback"
      BY <2>1, <3>1 DEF CallStep, Drop, Answer, RefuseToLog, StartDeed,
        DeedDone, DeedFails, FallbackHeld, Admit, Say, DeliverOk,
        DeliverFails, LogDeliverFails, DeliveryFailure, TypeOK
    <3>3. QED  BY <3>1, <3>2 DEF Replied
  <2>2. CASE DeliverOk(i)
    BY <2>2 DEF DeliverOk, Replied
  <2>3. CASE DeliverFails(i) \/ LogDeliverFails(i)
    <3>1. saying[i] # "fallback" /\ saying'[i] # "fallback"
      BY <2>3 DEF DeliverFails, LogDeliverFails, RetriesAsFailure, Say, TypeOK
    <3>2. QED  BY <3>1 DEF Replied
  <2>4. QED
    BY <2>1, <2>2, <2>3 DEF CallStep, Drop, Answer, RefuseToLog, StartDeed,
      DeedDone, DeedFails, FallbackHeld, Admit
<1>3. \A j \in 1..Len(calls) : j # i =>
        (Replied(j)' <=> Replied(j)) /\ since'[j] = since[j]
  <2> SUFFICES ASSUME NEW j \in 1..Len(calls), j # i
               PROVE  (Replied(j)' <=> Replied(j)) /\ since'[j] = since[j]
    OBVIOUS
  <2>1. j \in Calls
    BY CallTypes
  <2>2. saying'[j] = saying[j] /\ failed'[j] = failed[j] /\ since'[j] = since[j]
    BY <1>1, <2>1 DEF Moves, TypeOK
  <2>3. QED  BY <2>2 DEF Replied
<1>4. calls' = calls
  BY <1>1 DEF Moves
<1>5. KeepsReplies
  BY <1>1, <1>2, <1>3, <1>4, Instants DEF KeepsReplies
<1>6. lastReply' \in {lastReply, Pruned}
  BY DEF CallStep, Drop, Answer, RefuseToLog, StartDeed, DeedDone, DeedFails,
    FallbackHeld, DeliverOk, DeliverFails, LogDeliverFails
<1>7. QED  BY <1>5, <1>6

LEMMA ArriveKeeps ==
  ASSUME TypeOK, TypeOK', IInv, NEW m \in Messages, Arrive(m)
  PROVE  KeepsReplies
<1>1. /\ calls' = Append(calls, m) /\ Len(calls') = Len(calls) + 1
      /\ \A j \in 1..Len(calls) : calls'[j] = calls[j]
      /\ UNCHANGED <<saying, since, failed>>
  BY DEF Arrive, TypeOK
<1>2. \A j \in 1..Len(calls') : j > Len(calls) => ~Replied(j)'
  <2> SUFFICES ASSUME NEW j \in 1..Len(calls'), j > Len(calls)
               PROVE  saying[j] = "nothing"
    BY <1>1 DEF Replied
  <2>1. j \in Calls /\ stage[j] = "none"
    BY Bounds DEF TypeOK, Calls
  <2>2. QED  BY <2>1 DEF IInv, CallInv, Quiet, Early
<1>3. QED  BY <1>1, <1>2, Instants DEF KeepsReplies, Replied

LEMMA InitSlots == Init => SlotInv
<1> SUFFICES ASSUME Init PROVE SlotInv
  OBVIOUS
<1>1. /\ \A i \in 1..Len(calls) : FALSE
      /\ \A s \in Senders : lastReply[s] = NoReply
  BY DEF Init
<1>2. QED  BY <1>1 DEF SlotInv, SlotHeldByReply, FallbackRateLimited

LEMMA NextSlots ==
  TypeOK /\ TypeOK' /\ IInv /\ SlotInv /\ [Next]_vars => SlotInv'
<1> SUFFICES ASSUME TypeOK, TypeOK', IInv, SlotInv, [Next]_vars PROVE SlotInv'
  OBVIOUS
<1>1. CASE \E m \in Messages : Arrive(m)
  <2>1. KeepsReplies /\ now' = now /\ lastReply' = lastReply
    BY <1>1, ArriveKeeps DEF Arrive
  <2>2. QED  BY <2>1, KeepsSlots, Instants
<1>2. ASSUME NEW i \in Calls, CallStep(i) PROVE SlotInv'
  <2>1. CASE Fallback(i)
    BY <2>1, FallbackSlots
  <2>2. CASE FallbackFails(i)
    BY <2>2, FallbackFailsSlots
  <2>3. CASE ~Fallback(i) /\ ~FallbackFails(i)
    <3>1. KeepsReplies /\ (lastReply' = lastReply \/ lastReply' = Pruned)
      BY <1>2, <2>3, OtherStepKeeps
    <3>2. now <= now'
      BY <1>2, CallStepMoves, Instants DEF Moves
    <3>3. QED  BY <3>1, <3>2, KeepsSlots
  <2>4. QED  BY <2>1, <2>2, <2>3
<1>3. CASE \/ \E s \in Senders : Announce(s)
           \/ Tick \/ Restart \/ UNCHANGED vars
  <2>1. UNCHANGED callVars /\ UNCHANGED lastReply
    BY <1>3 DEF Announce, Tick, Restart, vars
  <2>2. now <= now'
    BY <1>3, Instants DEF Announce, Tick, Restart, vars
  <2>3. KeepsReplies
    BY <2>1, Instants DEF callVars, KeepsReplies, Replied
  <2>4. QED  BY <2>1, <2>2, <2>3, KeepsSlots
<1>4. QED  BY <1>1, <1>2, <1>3 DEF Next

LEMMA SlotInvariant == Spec => []SlotInv
BY InitType, NextType, InitIInv, NextIInv, InitSlots, NextSlots, PTL DEF Spec

-----------------------------------------------------------------------------
(* The theorems.                                                           *)

\* Nothing is done or disclosed but for a proven member of the crew, whatever
\* arrives in whatever order and whenever identities become known.
THEOREM OnlyProvenAct == Spec => []OnlyProvenCrewAct
<1>1. TypeOK /\ IInv => OnlyProvenCrewAct
  BY IInvProven
<1>2. QED  BY <1>1, TypeCorrect, IInvInvariant, PTL

\* Fallback replies to one sender are an interval apart, whatever fails.
THEOREM RateLimited == Spec => []FallbackRateLimited
<1>1. SlotInv => FallbackRateLimited
  BY DEF SlotInv
<1>2. QED  BY <1>1, SlotInvariant, PTL

\* The slot of a sender is held by the replies that have not failed, and by
\* nothing else.
THEOREM SlotsHeld == Spec => []SlotHeldByReply
<1>1. SlotInv => SlotHeldByReply
  BY DEF SlotInv
<1>2. QED  BY <1>1, SlotInvariant, PTL

\* What a proven message leaves unanswered was answered within the interval.
LEMMA SilenceStep ==
  TypeOK /\ TypeOK' /\ IInv /\ SlotInv /\ SilenceIsExplained /\ [Next]_vars
    => SilenceIsExplained'
<1> SUFFICES ASSUME TypeOK, TypeOK', IInv, SlotInv, SilenceIsExplained, [Next]_vars,
                    NEW i \in 1..Len(calls'), stage'[i] = "done",
                    saying'[i] = "nothing"
             PROVE  \E j \in 1..Len(calls') :
                      /\ From(j)' = From(i)' /\ saying'[j] = "fallback"
                      /\ since'[j] <= since'[i]
                      /\ since'[i] - since'[j] < ReplyInterval
  BY DEF SilenceIsExplained
<1>1. \A j \in 1..Len(calls) :
        /\ j \in 1..Len(calls') /\ From(j)' = From(j)
        /\ saying[j] = "fallback" =>
             saying'[j] = "fallback" /\ since'[j] = since[j]
  <2> SUFFICES ASSUME NEW j \in 1..Len(calls)
               PROVE  /\ j \in 1..Len(calls') /\ calls'[j] = calls[j]
                      /\ saying[j] = "fallback" =>
                           saying'[j] = "fallback" /\ since'[j] = since[j]
    BY DEF From
  <2>1. CASE \E m \in Messages : Arrive(m)
    BY <2>1, Instants DEF Arrive, TypeOK
  <2>2. ASSUME NEW k \in Calls, CallStep(k)
        PROVE  /\ j \in 1..Len(calls') /\ calls'[j] = calls[j]
               /\ saying[j] = "fallback" =>
                    saying'[j] = "fallback" /\ since'[j] = since[j]
    <3>1. Moves(k) /\ CallInv(k) /\ j \in Calls
      BY <2>2, CallStepMoves, CallTypes DEF IInv
    <3>2. calls' = calls
      BY <3>1 DEF Moves
    <3>3. CASE j # k
      BY <3>1, <3>2, <3>3 DEF Moves, TypeOK
    <3>4. CASE j = k /\ stage[k] \in {"verify", "act"}
      <4>1. saying[k] = "nothing"
        BY <3>1, <3>4 DEF CallInv, Quiet, Early
      <4>2. QED  BY <3>2, <3>4, <4>1
    <3>5. CASE j = k /\ (DeliverOk(k) \/ DeliverFails(k) \/ FallbackFails(k))
      BY <3>2, <3>5 DEF DeliverOk, DeliverFails, FallbackFails
    <3>6. CASE j = k /\ LogDeliverFails(k)
      BY <3>2, <3>6 DEF LogDeliverFails, RetriesAsFailure
    <3>7. QED
      BY <2>2, <3>3, <3>4, <3>5, <3>6 DEF CallStep, Drop, Answer, RefuseToLog,
        StartDeed, DeedDone, DeedFails, Fallback, FallbackHeld, Admit
  <2>3. CASE \/ \E s \in Senders : Announce(s)
             \/ Tick \/ Restart \/ UNCHANGED vars
    BY <2>3 DEF Announce, Tick, Restart, vars, callVars
  <2>4. QED  BY <2>1, <2>2, <2>3 DEF Next
<1>2. CASE /\ i \in 1..Len(calls) /\ stage[i] = "done" /\ saying[i] = "nothing"
           /\ since'[i] = since[i]
  BY <1>1, <1>2 DEF SilenceIsExplained
<1>3. CASE i \in Calls /\ FallbackHeld(i)
  <2>1. /\ i \in 1..Len(calls) /\ From(i) \in Senders /\ calls' = calls
        /\ since'[i] = now /\ Pruned[From(i)] # NoReply
    BY <1>3, Started, CallTypes DEF FallbackHeld, Admit, TypeOK
  <2>2. /\ Pruned[From(i)] = lastReply[From(i)]
        /\ now - lastReply[From(i)] < ReplyInterval
        /\ lastReply[From(i)] # NoReply
    BY <2>1, PruneFacts
  <2>3. PICK j \in 1..Len(calls) :
          From(j) = From(i) /\ Replied(j) /\ since[j] = lastReply[From(i)]
    BY <2>1, <2>2 DEF SlotInv, SlotHeldByReply
  <2>4. since[j] <= now
    BY <2>3, CallTypes DEF IInv, CallInv, Timely
  <2>5. /\ saying'[j] = "fallback" /\ since'[j] = since[j]
        /\ From(j)' = From(j) /\ From(i)' = From(i)
    BY <1>1, <2>1, <2>3 DEF Replied
  <2>6. QED  BY <2>1, <2>2, <2>3, <2>4, <2>5
<1>4. \/ /\ i \in 1..Len(calls) /\ stage[i] = "done" /\ saying[i] = "nothing"
         /\ since'[i] = since[i]
      \/ i \in Calls /\ FallbackHeld(i)
  <2>0. i \in Calls /\ Len(calls) \in Nat
    BY Bounds, Instants DEF TypeOK, Calls
  <2>1. CASE \E m \in Messages : Arrive(m)
    <3>1. /\ stage[i] = "done" /\ saying'[i] = saying[i] /\ since'[i] = since[i]
      BY <2>0, <2>1 DEF Arrive, TypeOK
    <3>2. QED  BY <2>0, <3>1, Started
  <2>2. ASSUME NEW k \in Calls, CallStep(k), ~FallbackHeld(k)
        PROVE  /\ i \in 1..Len(calls) /\ stage[i] = "done"
               /\ saying[i] = "nothing" /\ since'[i] = since[i]
    <3>1. Moves(k) /\ i \in 1..Len(calls)
      BY <2>2, CallStepMoves DEF Moves
    <3>2. CASE i # k
      BY <2>0, <3>1, <3>2 DEF Moves, TypeOK
    <3>3. CASE i = k
      <4>1. ~DeliverOk(k) /\ ~DeliverFails(k) /\ ~FallbackFails(k)
        BY <2>0, <3>3 DEF DeliverOk, DeliverFails, FallbackFails,
          DeliveryFailure, TypeOK
      <4>2. stage'[k] # "done"
        BY <2>2, <4>1 DEF CallStep, Drop, Answer, RefuseToLog, StartDeed,
          DeedDone, DeedFails, Fallback, LogDeliverFails, Say, TypeOK
      <4>3. QED  BY <3>3, <4>2
    <3>4. QED  BY <3>2, <3>3
  <2>3. ASSUME NEW k \in Calls, FallbackHeld(k)
        PROVE  \/ /\ i \in 1..Len(calls) /\ stage[i] = "done"
                  /\ saying[i] = "nothing" /\ since'[i] = since[i]
               \/ FallbackHeld(i)
    BY <2>0, <2>3 DEF FallbackHeld, TypeOK
  <2>4. CASE \/ \E s \in Senders : Announce(s)
             \/ Tick \/ Restart \/ UNCHANGED vars
    BY <2>4 DEF Announce, Tick, Restart, vars, callVars
  <2>5. QED  BY <2>0, <2>1, <2>2, <2>3, <2>4 DEF Next
<1>5. QED  BY <1>2, <1>3, <1>4

THEOREM SilenceExplained == Spec => []SilenceIsExplained
<1>1. Init => SilenceIsExplained
  <2> SUFFICES ASSUME Init, NEW i \in 1..Len(calls) PROVE FALSE
    BY DEF SilenceIsExplained
  <2>1. QED  BY DEF Init
<1>2. QED
  BY <1>1, TypeCorrect, IInvInvariant, SlotInvariant, SilenceStep, PTL DEF Spec

\* Answers tell what the server did, with the log command's one exception.
THEOREM AnswersTruthful == Spec => []TruthfulAnswers
<1>1. TypeOK /\ IInv => TruthfulAnswers
  <2> SUFFICES ASSUME TypeOK, IInv, NEW i \in 1..Len(calls)
               PROVE  /\ "ok" \in got[i] => did[i] = "done"
                      /\ "failed" \in got[i] => \/ did[i] = "failed"
                                                \/ Asks(i) = "log" /\ "ok" \in failed[i]
                      /\ Cardinality(got[i]) > 1 =>
                           Asks(i) = "log" /\ "ok" \in failed[i]
    BY DEF TruthfulAnswers
  <2>1. Truthful(i)
    BY CallTypes DEF IInv, CallInv
  <2>2. CASE Asks(i) = "log" /\ "ok" \in failed[i]
    BY <2>1, <2>2 DEF Truthful
  <2>3. CASE ~(Asks(i) = "log" /\ "ok" \in failed[i])
    <3>1. got[i] \subseteq {saying[i]}
      BY <2>1, <2>3 DEF Truthful
    <3>2. Cardinality({saying[i]}) = 1 /\ IsFiniteSet({saying[i]})
      BY FS_Singleton
    <3>3. Cardinality(got[i]) <= 1
      BY <3>1, <3>2, FS_Subset
    <3>4. Cardinality(got[i]) \in Nat
      BY <3>1, <3>2, FS_Subset, FS_CardinalityType
    <3>5. /\ "ok" \in got[i] => did[i] = "done"
          /\ "failed" \in got[i] => did[i] = "failed"
      BY <2>1, <2>3, <3>1 DEF Truthful
    <3>6. QED  BY <3>3, <3>4, <3>5
  <2>4. QED  BY <2>2, <2>3
<1>2. QED  BY <1>1, TypeCorrect, IInvInvariant, PTL
-----------------------------------------------------------------------------
(***************************************************************************)
(* The filter of recent messages.  The sightings are those of an LRU list: *)
(* whatever arrived after a remembered message was last seen is remembered *)
(* too, so no more than Capacity - 1 others came; and since a message was  *)
(* forgotten at least Capacity others have come.                           *)
(***************************************************************************)
Present == (epoch + 1)..Len(calls)
Lately(i) == {calls[k] : k \in (i + 1)..Len(calls)}

Stamped == \A m \in Messages : sighting[m] # 0 =>
  /\ sighting[m] \in Present /\ calls[sighting[m]] = m
  /\ \A k \in (sighting[m] + 1)..Len(calls) : calls[k] # m /\ sighting[calls[k]] # 0
Forgotten == \A m \in Messages : sighting[m] = 0 => \A i \in Present :
  calls[i] = m => Cardinality(Lately(i) \ {m}) >= Capacity

FilterInv == /\ Cardinality(Remembered(sighting)) <= Capacity
             /\ Stamped /\ Forgotten

\* Every nonempty set of naturals has a least element.
LEMMA Least ==
  ASSUME NEW S \in SUBSET Nat, S # {}
  PROVE  \E x \in S : \A y \in S : x <= y
<1> DEFINE T == {0..x : x \in S}
           R == StrictSubsetOrdering(Nat)
<1>1. T \subseteq FiniteSubsetsOf(Nat)
  <2>1. \A x \in S : 0..x \subseteq Nat /\ IsFiniteSet(0..x)
    BY FS_Interval
  <2>2. QED  BY <2>1 DEF FiniteSubsetsOf
<1>2. PICK t \in T : \A u \in T : <<u, t>> \notin R
  <2>1. T # {}  OBVIOUS
  <2> HIDE DEF T
  <2>2. QED  BY <1>1, <2>1, FS_StrictSubsetOrderingWellFounded, WFMin
<1>3. PICK x \in S : t = 0..x  OBVIOUS
<1>4. ASSUME NEW y \in S, y < x PROVE FALSE
  <2>1. 0..y \subseteq 0..x /\ x \in 0..x /\ x \notin 0..y
    BY <1>4
  <2>2. <<0..y, 0..x>> \in R
    BY <2>1 DEF StrictSubsetOrdering
  <2>3. QED  BY <1>2, <1>3, <2>2
<1>5. QED  BY <1>4

\* The oldest message of a filter that is not empty is one it remembers, and no
\* other was last seen before it.
LEMMA OldestIsOldest ==
  ASSUME NEW s \in [Messages -> Nat], Remembered(s) # {}
  PROVE  /\ Oldest(s) \in Remembered(s)
         /\ \A m \in Remembered(s) : s[Oldest(s)] <= s[m]
<1>1. PICK x \in {s[m] : m \in Remembered(s)} :
        \A y \in {s[m] : m \in Remembered(s)} : x <= y
  <2>1. {s[m] : m \in Remembered(s)} \in SUBSET Nat  BY DEF Remembered
  <2>2. {s[m] : m \in Remembered(s)} # {}  OBVIOUS
  <2>3. QED  BY <2>1, <2>2, Least
<1>2. PICK m \in Remembered(s) : x = s[m]  OBVIOUS
<1>3. \A other \in Remembered(s) : s[m] <= s[other]  BY <1>1, <1>2
<1>4. QED  BY <1>3 DEF Oldest

LEMMA RememberedFinite == ASSUME NEW s PROVE IsFiniteSet(Remembered(s))
BY MessagesAssumption, FS_Subset DEF Remembered

LEMMA FilterTypes ==
  ASSUME TypeOK
  PROVE  /\ sighting \in [Messages -> Nat] /\ calls \in Seq(Messages)
         /\ Len(calls) \in Nat /\ DOMAIN calls = 1..Len(calls)
         /\ epoch \in Nat /\ epoch <= Len(calls)
         /\ \A i \in 1..Len(calls) : calls[i] \in Messages
         /\ Capacity \in Nat \ {0}
<1>1. Capacity \in Nat \ {0}  BY InboundBoundsAssumption
<1>2. sighting \in [Messages -> Nat]  BY Bounds DEF TypeOK
<1>3. QED  BY <1>1, <1>2 DEF TypeOK

\* The messages seen since some call are finitely many.
LEMMA LatelyFinite ==
  ASSUME TypeOK, NEW i \in Nat
  PROVE  Lately(i) \subseteq Messages /\ IsFiniteSet(Lately(i))
<1>1. Lately(i) \subseteq Messages  BY FilterTypes DEF Lately
<1>2. QED  BY <1>1, MessagesAssumption, FS_Subset

LEMMA ArriveFacts ==
  ASSUME TypeOK, NEW m \in Messages, Arrive(m)
  PROVE  /\ Len(calls') = Len(calls) + 1 /\ calls'[Len(calls) + 1] = m
         /\ \A i \in 1..Len(calls) : calls'[i] = calls[i]
         /\ epoch' = epoch
         /\ Present' = Present \cup {Len(calls) + 1}
         /\ \A i \in 0..Len(calls) : Lately(i)' = Lately(i) \cup {m}
<1>1. calls' = Append(calls, m) /\ epoch' = epoch  BY DEF Arrive
<1>2. calls \in Seq(Messages) /\ Len(calls) \in Nat  BY FilterTypes
<1>3. /\ Len(calls') = Len(calls) + 1 /\ calls'[Len(calls) + 1] = m
      /\ \A i \in 1..Len(calls) : calls'[i] = calls[i]
  BY <1>1, <1>2
<1>4. Present' = Present \cup {Len(calls) + 1}
  BY <1>1, <1>3, FilterTypes DEF Present
<1>5. ASSUME NEW i \in 0..Len(calls) PROVE Lately(i)' = Lately(i) \cup {m}
  <2>1. (i + 1)..(Len(calls) + 1) = ((i + 1)..Len(calls)) \cup {Len(calls) + 1}
    BY <1>2
  <2>2. \A k \in (i + 1)..Len(calls) : calls'[k] = calls[k]
    BY <1>2, <1>3
  <2>3. QED  BY <1>3, <2>1, <2>2 DEF Lately
<1>6. QED  BY <1>1, <1>3, <1>4, <1>5

\* The filter with one more message, before one gives way.
Stamp(m) == [sighting EXCEPT ![m] = Len(calls) + 1]

LEMMA StampFacts ==
  ASSUME TypeOK, FilterInv, NEW m \in Messages
  PROVE  /\ Stamp(m) \in [Messages -> Nat]
         /\ Stamp(m)[m] = Len(calls) + 1
         /\ \A n \in Messages \ {m} : Stamp(m)[n] = sighting[n]
         /\ Remembered(Stamp(m)) = Remembered(sighting) \cup {m}
         /\ Cardinality(Remembered(Stamp(m))) \in Nat
         /\ Cardinality(Remembered(Stamp(m))) <= Capacity + 1
<1>1. sighting \in [Messages -> Nat] /\ Len(calls) \in Nat /\ Capacity \in Nat
  BY FilterTypes
<1>2. /\ Stamp(m) \in [Messages -> Nat]
      /\ Stamp(m)[m] = Len(calls) + 1
      /\ \A n \in Messages \ {m} : Stamp(m)[n] = sighting[n]
  BY <1>1 DEF Stamp
<1>3. Remembered(Stamp(m)) = Remembered(sighting) \cup {m}
  BY <1>1, <1>2 DEF Remembered
<1>4. /\ Cardinality(Remembered(sighting)) \in Nat
      /\ Cardinality(Remembered(sighting)) <= Capacity
  BY RememberedFinite, FS_CardinalityType DEF FilterInv
<1>5. /\ Cardinality(Remembered(Stamp(m))) \in Nat
      /\ Cardinality(Remembered(Stamp(m))) <= Capacity + 1
  <2>1. Cardinality(Remembered(sighting) \cup {m})
          = IF m \in Remembered(sighting) THEN Cardinality(Remembered(sighting))
            ELSE Cardinality(Remembered(sighting)) + 1
    BY RememberedFinite, FS_AddElement
  <2>2. QED  BY <1>1, <1>3, <1>4, <2>1
<1>6. QED  BY <1>2, <1>3, <1>5

\* With one more message: what is remembered is stamped with its last call ...
LEMMA StampStamped ==
  ASSUME TypeOK, FilterInv, NEW m \in Messages, Arrive(m), NEW n \in Messages,
         Stamp(m)[n] # 0
  PROVE  /\ Stamp(m)[n] \in Present' /\ calls'[Stamp(m)[n]] = n
         /\ \A k \in (Stamp(m)[n] + 1)..Len(calls') :
              calls'[k] # n /\ Stamp(m)[calls'[k]] # 0
<1>a. /\ Len(calls') = Len(calls) + 1 /\ calls'[Len(calls) + 1] = m
      /\ \A k \in 1..Len(calls) : calls'[k] = calls[k]
      /\ Present' = Present \cup {Len(calls) + 1}
  BY ArriveFacts
<1>b. /\ Stamp(m)[m] = Len(calls) + 1
      /\ \A x \in Messages \ {m} : Stamp(m)[x] = sighting[x]
  BY StampFacts
<1>c. /\ Len(calls) \in Nat /\ epoch \in Nat /\ epoch <= Len(calls)
      /\ \A k \in 1..Len(calls) : calls[k] \in Messages
  BY FilterTypes
<1>1. CASE n = m
  <2>1. Stamp(m)[n] = Len(calls) + 1 /\ Len(calls) + 1 \in Present'
    BY <1>1, <1>a, <1>b
  <2>2. (Stamp(m)[n] + 1)..Len(calls') = {}  BY <1>a, <1>c, <2>1
  <2>3. QED  BY <1>1, <1>a, <2>1, <2>2
<1>2. CASE n # m
  <2>1. /\ sighting[n] # 0 /\ Stamp(m)[n] = sighting[n]
        /\ sighting[n] \in Present /\ calls[sighting[n]] = n
        /\ \A k \in (sighting[n] + 1)..Len(calls) :
             calls[k] # n /\ sighting[calls[k]] # 0
    BY <1>2, <1>b DEF FilterInv, Stamped
  <2>0. sighting[n] \in 1..Len(calls)  BY <1>c, <2>1 DEF Present
  <2>2. Stamp(m)[n] \in Present' /\ calls'[Stamp(m)[n]] = n
    BY <1>a, <2>0, <2>1
  <2>3. ASSUME NEW k \in (sighting[n] + 1)..Len(calls')
        PROVE  calls'[k] # n /\ Stamp(m)[calls'[k]] # 0
    <3>1. CASE k = Len(calls) + 1  BY <1>2, <1>a, <1>b, <1>c, <3>1
    <3>2. CASE k # Len(calls) + 1
      <4>1. k \in (sighting[n] + 1)..Len(calls) /\ k \in 1..Len(calls)
        BY <1>a, <1>c, <2>0, <3>2
      <4>2. calls'[k] = calls[k] /\ calls[k] \in Messages /\ calls[k] # n
            /\ sighting[calls[k]] # 0
        BY <1>a, <1>c, <2>1, <4>1
      <4>3. CASE calls[k] = m  BY <1>b, <1>c, <4>2, <4>3
      <4>4. CASE calls[k] # m  BY <1>b, <4>2, <4>4
      <4>5. QED  BY <4>3, <4>4
    <3>3. QED  BY <3>1, <3>2
  <2>4. QED  BY <2>1, <2>2, <2>3
<1>3. QED  BY <1>1, <1>2

\* ... and since each call of a forgotten one there have been enough others.
LEMMA StampForgotten ==
  ASSUME TypeOK, FilterInv, NEW m \in Messages, Arrive(m), NEW n \in Messages,
         Stamp(m)[n] = 0, NEW i \in Present', calls'[i] = n
  PROVE  Cardinality((Lately(i) \ {n})') >= Capacity
<1>a. /\ Len(calls') = Len(calls) + 1 /\ calls'[Len(calls) + 1] = m
      /\ \A k \in 1..Len(calls) : calls'[k] = calls[k]
      /\ Present' = Present \cup {Len(calls) + 1}
  BY ArriveFacts
<1>b. /\ Stamp(m)[m] = Len(calls) + 1
      /\ \A x \in Messages \ {m} : Stamp(m)[x] = sighting[x]
  BY StampFacts
<1>c. /\ Len(calls) \in Nat /\ epoch \in Nat /\ epoch <= Len(calls)
      /\ \A k \in 1..Len(calls) : calls[k] \in Messages
  BY FilterTypes
<1>1. n # m /\ sighting[n] = 0  BY <1>b, <1>c
<1>2. i \in Present /\ i \in 1..Len(calls) /\ calls[i] = n
  <2>1. i # Len(calls) + 1  BY <1>1, <1>a
  <2>2. i \in Present  BY <1>a, <2>1
  <2>3. i \in 1..Len(calls)  BY <1>c, <2>2 DEF Present
  <2>4. QED  BY <1>a, <2>2, <2>3
<1>3. Cardinality(Lately(i) \ {n}) >= Capacity
  BY <1>1, <1>2 DEF FilterInv, Forgotten
<1>4. Lately(i)' = Lately(i) \cup {m}  BY <1>2, <1>c, ArriveFacts
<1>5. /\ IsFiniteSet(Lately(i) \ {n}) /\ IsFiniteSet(Lately(i)' \ {n})
      /\ Lately(i) \ {n} \subseteq Lately(i)' \ {n}
  <2>1. IsFiniteSet(Lately(i))  BY <1>2, LatelyFinite
  <2>2. IsFiniteSet(Lately(i) \cup {m})  BY <2>1, FS_AddElement
  <2>3. QED  BY <1>4, <2>1, <2>2, FS_RemoveElement
<1>6. /\ Cardinality(Lately(i) \ {n}) <= Cardinality(Lately(i)' \ {n})
      /\ Cardinality(Lately(i) \ {n}) \in Nat /\ Cardinality(Lately(i)' \ {n}) \in Nat
  <2> DEFINE A == Lately(i) \ {n}
             B == Lately(i)' \ {n}
  <2>1. IsFiniteSet(A) /\ IsFiniteSet(B) /\ A \subseteq B  BY <1>5
  <2> HIDE DEF A, B
  <2>2. Cardinality(A) <= Cardinality(B)  BY <2>1, FS_Subset
  <2>3. Cardinality(A) \in Nat /\ Cardinality(B) \in Nat
    BY <2>1, FS_CardinalityType
  <2> USE DEF A, B
  <2>4. QED  BY <2>2, <2>3
<1>7. QED  BY <1>3, <1>6, FilterTypes

\* When one gives way, all the others have been seen since.
LEMMA GivingWay ==
  ASSUME TypeOK, FilterInv, NEW m \in Messages, Arrive(m),
         Cardinality(Remembered(Stamp(m))) > Capacity
  PROVE  LET old == Oldest(Stamp(m))
             left == [Stamp(m) EXCEPT ![old] = 0]
         IN  /\ old \in Remembered(Stamp(m))
             /\ \A n \in Remembered(Stamp(m)) \ {old} : Stamp(m)[old] < Stamp(m)[n]
             /\ Remembered(left) = Remembered(Stamp(m)) \ {old}
             /\ Cardinality(Remembered(left)) = Capacity
             /\ \A i \in Present' : calls'[i] = old =>
                  Cardinality((Lately(i))' \ {old}) >= Capacity
<1> USE StampFacts, FilterTypes
<1> DEFINE s == Stamp(m)
           old == Oldest(s)
           left == [s EXCEPT ![old] = 0]
<1>0. s \in [Messages -> Nat]  OBVIOUS
<1>1. old \in Remembered(s) /\ \A n \in Remembered(s) : s[old] <= s[n]
  <2>1. m \in Remembered(s)  OBVIOUS
  <2> HIDE DEF s
  <2>2. QED  BY <1>0, <2>1, OldestIsOldest
<1>2. old \in Messages /\ s[old] # 0  BY <1>1 DEF Remembered
<1>3. s[old] \in Present' /\ calls'[s[old]] = old
  BY <1>2, StampStamped
<1>4. ASSUME NEW n \in Remembered(s) \ {old} PROVE s[old] < s[n]
  <2>1. n \in Messages /\ s[n] # 0  BY DEF Remembered
  <2>2. calls'[s[n]] = n  BY <2>1, StampStamped
  <2>3. s[n] # s[old]  BY <1>3, <2>2
  <2>4. s[old] \in Nat /\ s[n] \in Nat /\ s[old] <= s[n]  BY <1>0, <1>1, <1>2, <2>1
  <2>5. QED  BY <2>3, <2>4
<1>5. Remembered(left) = Remembered(s) \ {old}
  <2> HIDE DEF s, old
  <2>1. QED  BY <1>0, <1>2 DEF Remembered
<1>6. Cardinality(Remembered(left)) = Capacity
  <2>1. Cardinality(Remembered(s)) = Capacity + 1  OBVIOUS
  <2>2. IsFiniteSet(Remembered(s))  BY RememberedFinite
  <2> HIDE DEF s, old
  <2>3. Cardinality(Remembered(s) \ {old}) = Cardinality(Remembered(s)) - 1
    BY <1>1, <2>2, FS_RemoveElement
  <2> HIDE DEF left
  <2>4. QED  BY <1>5, <2>1, <2>3
<1>7. ASSUME NEW i \in Present', calls'[i] = old
      PROVE  Cardinality((Lately(i))' \ {old}) >= Capacity
  <2>0. Len(calls') \in Nat /\ i \in 1..Len(calls') /\ s[old] \in 1..Len(calls')
    BY <1>3, ArriveFacts DEF Present
  <2>1. i <= s[old]
    <3>1. \A k \in (s[old] + 1)..Len(calls') : calls'[k] # old
      BY <1>2, StampStamped
    <3>2. QED  BY <1>7, <2>0, <3>1
  <2>2. ASSUME NEW n \in Remembered(s) \ {old} PROVE n \in Lately(i)'
    <3>1. n \in Messages /\ s[n] # 0  BY DEF Remembered
    <3>2. calls'[s[n]] = n /\ s[n] \in Present'  BY <3>1, StampStamped
    <3>3. s[n] \in (i + 1)..Len(calls')
      <4>1. s[old] < s[n]  BY <1>4
      <4>2. s[n] \in 1..Len(calls')  BY <3>2, ArriveFacts DEF Present
      <4>3. QED  BY <2>0, <2>1, <4>1, <4>2
    <3>4. QED  BY <3>2, <3>3 DEF Lately
  <2>3. IsFiniteSet((Lately(i))' \ {old})
    <3>1. Lately(i)' \subseteq Messages
      <4>1. calls' \in Seq(Messages)  BY DEF Arrive
      <4>2. \A k \in 1..Len(calls') : calls'[k] \in Messages  BY <4>1
      <4>3. QED  BY <2>0, <4>2 DEF Lately
    <3>2. QED  BY <3>1, MessagesAssumption, FS_Subset
  <2>4. Remembered(left) \subseteq (Lately(i))' \ {old}  BY <1>5, <2>2
  <2>5. /\ Cardinality(Remembered(left)) <= Cardinality((Lately(i))' \ {old})
        /\ Cardinality((Lately(i))' \ {old}) \in Nat
    BY <2>3, <2>4, FS_Subset, FS_CardinalityType
  <2>6. QED  BY <1>6, <2>5
<1>8. QED  BY <1>1, <1>4, <1>5, <1>6, <1>7

LEMMA ArriveFilter ==
  ASSUME TypeOK, FilterInv, NEW m \in Messages, Arrive(m)
  PROVE  FilterInv'
<1> DEFINE s == Stamp(m)
           old == Oldest(s)
           left == [s EXCEPT ![old] = 0]
<1>1. sighting' = IF Cardinality(Remembered(s)) > Capacity THEN left ELSE s
  BY DEF Arrive, Sight, Stamp
<1>2. /\ s \in [Messages -> Nat] /\ Cardinality(Remembered(s)) \in Nat
      /\ Capacity \in Nat
  BY StampFacts, FilterTypes
<1>3. ASSUME NEW n \in Messages, s[n] # 0
      PROVE  /\ s[n] \in Present' /\ calls'[s[n]] = n
             /\ \A k \in (s[n] + 1)..Len(calls') : calls'[k] # n /\ s[calls'[k]] # 0
  BY <1>3, StampStamped
<1>4. ASSUME NEW n \in Messages, s[n] = 0, NEW i \in Present', calls'[i] = n
      PROVE  Cardinality((Lately(i) \ {n})') >= Capacity
  BY <1>4, StampForgotten
<1>5. CASE ~(Cardinality(Remembered(s)) > Capacity)
  <2>1. sighting' = s  BY <1>1, <1>5
  <2> HIDE DEF s
  <2>2. Cardinality(Remembered(sighting')) <= Capacity  BY <1>2, <1>5, <2>1
  <2>3. Stamped'  BY <1>3, <2>1 DEF Stamped
  <2>4. Forgotten'  BY <1>4, <2>1 DEF Forgotten
  <2>5. QED  BY <2>2, <2>3, <2>4 DEF FilterInv
<1>6. CASE Cardinality(Remembered(s)) > Capacity
  <2>1. sighting' = left  BY <1>1, <1>6
  <2>2. /\ old \in Remembered(s)
        /\ \A n \in Remembered(s) \ {old} : s[old] < s[n]
        /\ Cardinality(Remembered(left)) = Capacity
        /\ \A i \in Present' : calls'[i] = old =>
             Cardinality((Lately(i))' \ {old}) >= Capacity
    BY <1>6, GivingWay
  <2>3. old \in Messages /\ s[old] # 0  BY <2>2 DEF Remembered
  <2> HIDE DEF s, old
  <2>4. left[old] = 0 /\ \A n \in Messages \ {old} : left[n] = s[n]
    BY <1>2, <2>3
  <2>5. ASSUME NEW n \in Messages, left[n] # 0
        PROVE  /\ left[n] \in Present' /\ calls'[left[n]] = n
               /\ \A k \in (left[n] + 1)..Len(calls') :
                    calls'[k] # n /\ left[calls'[k]] # 0
    <3>1. n # old /\ left[n] = s[n] /\ n \in Remembered(s)
      BY <2>4, <2>5 DEF Remembered
    <3>2. s[old] < s[n] /\ s[old] \in Nat /\ s[n] \in Nat
      BY <1>2, <2>2, <2>3, <3>1
    <3>3. ASSUME NEW k \in (s[n] + 1)..Len(calls')
          PROVE  calls'[k] # n /\ left[calls'[k]] # 0
      <4>1. calls'[k] # n /\ s[calls'[k]] # 0  BY <1>3, <2>5, <3>1
      <4>2. k \in (s[old] + 1)..Len(calls')  BY <3>2
      <4>3. calls'[k] # old  BY <1>3, <2>3, <4>2
      <4>4. calls'[k] \in Messages
        <5>1. s[n] \in Present'  BY <1>3, <2>5, <3>1
        <5>2. k \in 1..Len(calls')  BY <3>2
        <5>3. calls' \in Seq(Messages)  BY FilterTypes DEF Arrive
        <5>4. QED  BY <5>2, <5>3
      <4>5. QED  BY <2>4, <4>1, <4>3, <4>4
    <3>4. QED  BY <1>3, <2>5, <3>1, <3>3
  <2>6. ASSUME NEW n \in Messages, left[n] = 0, NEW i \in Present', calls'[i] = n
        PROVE  Cardinality((Lately(i) \ {n})') >= Capacity
    <3>1. CASE n = old  BY <2>2, <2>6, <3>1
    <3>2. CASE n # old  BY <1>4, <2>4, <2>6, <3>2
    <3>3. QED  BY <3>1, <3>2
  <2>7. Cardinality(Remembered(left)) <= Capacity  BY <1>2, <2>2
  <2> HIDE DEF left
  <2>8. Stamped'  BY <2>1, <2>5 DEF Stamped
  <2>9. Forgotten'  BY <2>1, <2>6 DEF Forgotten
  <2>10. QED  BY <2>1, <2>7, <2>8, <2>9 DEF FilterInv
<1>7. QED  BY <1>5, <1>6

\* The filter after any other step.
LEMMA NextFilter ==
  ASSUME TypeOK, FilterInv, [Next]_vars
  PROVE  FilterInv'
<1>1. ASSUME UNCHANGED <<sighting, calls, epoch>> PROVE FilterInv'
  BY <1>1 DEF FilterInv, Stamped, Forgotten, Present, Lately
<1>2. CASE \E m \in Messages : Arrive(m)  BY <1>2, ArriveFilter
<1>3. CASE \E i \in Calls : CallStep(i)  BY <1>1, <1>3, CallStepMoves DEF Moves
<1>4. CASE (\E s \in Senders : Announce(s)) \/ Tick \/ UNCHANGED vars
  BY <1>1, <1>4 DEF Announce, Tick, vars, callVars
<1>5. CASE Restart
  <2>1. /\ \A m \in Messages : sighting'[m] = 0
        /\ epoch' = Len(calls) /\ calls' = calls
    BY <1>5 DEF Restart, callVars
  <2>2. Remembered(sighting') = {} /\ Present' = {}
    BY <2>1, FilterTypes DEF Remembered, Present
  <2>3. Cardinality(Remembered(sighting')) <= Capacity
    BY <2>2, FS_EmptySet, FilterTypes
  <2>4. QED  BY <2>1, <2>2, <2>3 DEF FilterInv, Stamped, Forgotten
<1>6. QED  BY <1>2, <1>3, <1>4, <1>5 DEF Next

\* What the filter says of a message that arrives now.
LEMMA FilterRule ==
  ASSUME TypeOK, FilterInv, NEW m \in Messages
  PROVE  sighting[m] # 0 <=>
           \E i \in Present :
             calls[i] = m /\ Cardinality(Lately(i) \ {m}) < Capacity
<1>0. Capacity \in Nat /\ Len(calls) \in Nat /\ epoch \in Nat  BY FilterTypes
<1>1. ASSUME sighting[m] # 0
      PROVE  \E i \in Present :
               calls[i] = m /\ Cardinality(Lately(i) \ {m}) < Capacity
  <2> DEFINE i == sighting[m]
  <2>1. /\ i \in Present /\ calls[i] = m
        /\ \A k \in (i + 1)..Len(calls) : calls[k] # m /\ sighting[calls[k]] # 0
    BY <1>1 DEF FilterInv, Stamped
  <2>2. i \in Nat  BY <1>0, <2>1 DEF Present
  <2>3. Lately(i) \ {m} \subseteq Remembered(sighting) \ {m}
    BY <2>1, <2>2, LatelyFinite DEF Lately, Remembered
  <2>4. m \in Remembered(sighting)  BY <1>1 DEF Remembered
  <2>5. /\ IsFiniteSet(Remembered(sighting))
        /\ Cardinality(Remembered(sighting)) \in Nat
        /\ Cardinality(Remembered(sighting)) <= Capacity
    BY RememberedFinite, FS_CardinalityType DEF FilterInv
  <2>6. /\ IsFiniteSet(Remembered(sighting) \ {m})
        /\ Cardinality(Remembered(sighting) \ {m})
             = Cardinality(Remembered(sighting)) - 1
    BY <2>4, <2>5, FS_RemoveElement
  <2>7. /\ Cardinality(Lately(i) \ {m}) <= Cardinality(Remembered(sighting) \ {m})
        /\ Cardinality(Lately(i) \ {m}) \in Nat
    BY <2>3, <2>6, FS_Subset, FS_CardinalityType
  <2>8. Cardinality(Lately(i) \ {m}) < Capacity  BY <1>0, <2>5, <2>6, <2>7
  <2>9. QED  BY <2>1, <2>8
<1>2. ASSUME sighting[m] = 0, NEW i \in Present, calls[i] = m
      PROVE  ~(Cardinality(Lately(i) \ {m}) < Capacity)
  <2>1. Cardinality(Lately(i) \ {m}) >= Capacity
    BY <1>2 DEF FilterInv, Forgotten
  <2>2. IsFiniteSet(Lately(i) \ {m})
    <3>1. i \in Nat  BY <1>0 DEF Present
    <3>2. IsFiniteSet(Lately(i))  BY <3>1, LatelyFinite
    <3>3. QED  BY <3>2, FS_RemoveElement
  <2>3. Cardinality(Lately(i) \ {m}) \in Nat  BY <2>2, FS_CardinalityType
  <2>4. QED  BY <1>0, <2>1, <2>3
<1>3. QED  BY <1>1, <1>2

LEMMA NextDuplicates ==
  ASSUME TypeOK, FilterInv, DuplicatesAreRecent, [Next]_vars
  PROVE  DuplicatesAreRecent'
<1>0. /\ Len(calls) \in Nat /\ Len(calls) <= MaxCalls /\ MaxCalls \in Nat
      /\ epoch \in Nat /\ epoch <= Len(calls)
  BY FilterTypes, Bounds DEF TypeOK
<1>1. ASSUME UNCHANGED <<calls, epoch>>,
             \A j \in 1..Len(calls) : stage'[j] = "duplicate" <=> stage[j] = "duplicate"
      PROVE  DuplicatesAreRecent'
  <2>1. \A j \in (epoch + 1)..Len(calls) :
          stage'[j] = "duplicate" <=> stage[j] = "duplicate"
    BY <1>0, <1>1
  <2>2. \A i, j : Between(i, j)' = Between(i, j)  BY <1>1 DEF Between
  <2>3. calls' = calls /\ epoch' = epoch  BY <1>1
  <2>4. QED  BY <2>1, <2>2, <2>3 DEF DuplicatesAreRecent
<1>2. ASSUME NEW m \in Messages, Arrive(m) PROVE DuplicatesAreRecent'
  <2> DEFINE n == Len(calls) + 1
  <2>1. /\ Len(calls') = n /\ calls'[n] = m /\ epoch' = epoch
        /\ \A k \in 1..Len(calls) : calls'[k] = calls[k]
    BY <1>2, ArriveFacts
  <2>2. n \in Calls  BY <1>0, <1>2 DEF Arrive, Calls
  <2>3. /\ stage'[n] = "duplicate" <=> sighting[m] # 0
        /\ \A j \in 1..Len(calls) : stage'[j] = stage[j]
    BY <1>0, <1>2, <2>2 DEF Arrive, TypeOK, Calls
  <2>4. \A i \in (epoch + 1)..n : \A j \in (epoch + 1)..n :
          Between(i, j)' = Between(i, j)
    <3> SUFFICES ASSUME NEW i \in (epoch + 1)..n, NEW j \in (epoch + 1)..n
                 PROVE  Between(i, j)' = Between(i, j)
      OBVIOUS
    <3>1. \A k \in (i + 1)..(j - 1) : calls'[k] = calls[k]  BY <1>0, <2>1
    <3>2. QED  BY <3>1 DEF Between
  <2> SUFFICES ASSUME NEW j \in (epoch + 1)..n
               PROVE  stage'[j] = "duplicate" <=>
                        \E i \in (epoch + 1)..(j - 1) :
                          /\ calls'[i] = calls'[j]
                          /\ Cardinality(Between(i, j)' \ {calls'[j]}) < Capacity
    BY <2>1 DEF DuplicatesAreRecent
  <2>5. \A i \in (epoch + 1)..(j - 1) :
          /\ Between(i, j)' = Between(i, j)
          /\ calls'[i] = calls[i]
    BY <1>0, <2>1, <2>4
  <2>6. CASE j = n
    <3>1. (epoch + 1)..(j - 1) = Present  BY <1>0, <2>6 DEF Present
    <3>2. \A i \in Present : Between(i, j) = Lately(i)
      BY <1>0, <2>6 DEF Between, Lately
    <3>3. \A i \in Present :
            Between(i, j)' = Lately(i) /\ calls'[i] = calls[i] /\ calls'[j] = m
      BY <2>1, <2>5, <2>6, <3>1, <3>2
    <3>4. stage'[j] = "duplicate" <=>
            \E i \in Present :
              calls[i] = m /\ Cardinality(Lately(i) \ {m}) < Capacity
      BY <2>3, <2>6, FilterRule
    <3>5. QED  BY <3>1, <3>3, <3>4
  <2>7. CASE j # n
    <3>1. j \in (epoch + 1)..Len(calls) /\ j \in 1..Len(calls)  BY <1>0, <2>7
    <3>2. stage[j] = "duplicate" <=>
            \E i \in (epoch + 1)..(j - 1) :
              /\ calls[i] = calls[j]
              /\ Cardinality(Between(i, j) \ {calls[j]}) < Capacity
      BY <3>1 DEF DuplicatesAreRecent
    <3>3. calls'[j] = calls[j] /\ stage'[j] = stage[j]  BY <2>1, <2>3, <3>1
    <3>4. QED  BY <2>5, <3>2, <3>3
  <2>8. QED  BY <2>6, <2>7
<1>3. ASSUME NEW i \in Calls, CallStep(i) PROVE DuplicatesAreRecent'
  <2>1. UNCHANGED <<calls, epoch>>  BY <1>3, CallStepMoves DEF Moves
  <2>2. stage[i] # "duplicate" /\ stage'[i] # "duplicate"
    BY <1>3 DEF CallStep, Drop, Answer, RefuseToLog, StartDeed, DeedDone, DeedFails,
       Fallback, FallbackHeld, DeliverOk, DeliverFails, LogDeliverFails, FallbackFails,
       Admit, Say, DeliveryFailure, TypeOK
  <2>3. \A j \in Calls : j # i => stage'[j] = stage[j]
    BY <1>3, CallStepMoves DEF Moves, TypeOK
  <2>4. QED  BY <1>0, <1>1, <2>1, <2>2, <2>3 DEF Calls
<1>4. CASE (\E s \in Senders : Announce(s)) \/ Tick \/ UNCHANGED vars
  BY <1>1, <1>4 DEF Announce, Tick, vars, callVars
<1>5. CASE Restart
  <2>1. epoch' = Len(calls) /\ calls' = calls  BY <1>5 DEF Restart, callVars
  <2>2. QED  BY <1>0, <2>1 DEF DuplicatesAreRecent
<1>6. QED  BY <1>2, <1>3, <1>4, <1>5 DEF Next

\* The filter ignores exactly the copies of what came recently, for any capacity and
\* any order of arrivals: fewer than Capacity other messages in between, whether or
\* not copies in between were ignored themselves.
THEOREM FilterIsRecent == Spec => []DuplicatesAreRecent
<1>1. Init => FilterInv /\ DuplicatesAreRecent
  <2> SUFFICES ASSUME Init PROVE FilterInv /\ DuplicatesAreRecent
    OBVIOUS
  <2>1. /\ \A m \in Messages : sighting[m] = 0
        /\ Len(calls) = 0 /\ epoch = 0
    BY DEF Init
  <2>2. Remembered(sighting) = {}  BY <2>1 DEF Remembered
  <2>3. Cardinality(Remembered(sighting)) <= Capacity
    BY <2>2, FS_EmptySet, InboundBoundsAssumption
  <2>4. QED
    BY <2>1, <2>3 DEF FilterInv, Stamped, Forgotten, Present, DuplicatesAreRecent
<1>2. TypeOK /\ FilterInv /\ DuplicatesAreRecent /\ [Next]_vars
        => (FilterInv /\ DuplicatesAreRecent)'
  BY NextFilter, NextDuplicates
<1>3. QED  BY <1>1, <1>2, TypeCorrect, PTL DEF Spec
=============================================================================
