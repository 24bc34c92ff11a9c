---------------------- MODULE InterfaceRecoveryProofs ----------------------
(***************************************************************************)
(* Proofs about InterfaceRecovery, for any number of interfaces, ticks and *)
(* rounds, whatever labels they share and however late the ticks come.     *)
(***************************************************************************)
EXTENDS InterfaceRecovery, SequenceTheorems, WellFoundedInduction, TLAPS

LEMMA Bounds ==
  /\ N \in Nat /\ MaxSent \in Nat /\ Cooldown \in Nat /\ ProbeGrace \in Nat
  /\ StallAfter \in Nat \ {0} /\ Lag \in Nat \ {0}
  /\ Window \in Nat /\ Window >= StallAfter
BY EntriesAssumption, TimesAssumption DEF Window

\* The one place where a function changes.
LEMMA ExceptOne ==
  ASSUME NEW D, NEW S, NEW f \in [D -> S], NEW x, NEW v \in S
  PROVE  /\ [f EXCEPT ![x] = v] \in [D -> S]
         /\ x \in D => [f EXCEPT ![x] = v][x] = v
         /\ \A y \in D : y # x => [f EXCEPT ![x] = v][y] = f[y]
OBVIOUS

LEMMA LeastType ==
  ASSUME NEW m \in Nat, NEW i \in 0..m
  PROVE  Least(i + 1, m) \in 0..m
BY DEF Least

\* There is a last one among some places of a list.
LEMMA LastExists ==
  ASSUME NEW m \in Nat, NEW S, S \subseteq 1..m, S # {}
  PROVE  \E i \in S : \A j \in S : j <= i
<1> DEFINE Rest == {n \in Nat : m - n \in S}
<1>1. Rest \subseteq Nat /\ Rest # {}
  <2>1. PICK i \in S : TRUE
    OBVIOUS
  <2>2. i \in 1..m /\ m - i \in Nat /\ m - (m - i) = i
    BY <2>1
  <2>3. QED  BY <2>1, <2>2
<1>2. PICK n \in Rest : \A k \in Rest : ~(<<k, n>> \in OpToRel(<, Nat))
  BY <1>1, NatLessThanWellFounded, WFMin
<1>3. \A k \in Rest : ~(k < n)
  BY <1>2 DEF OpToRel
<1>4. \A j \in S : j <= m - n
  <2> SUFFICES ASSUME NEW j \in S PROVE j <= m - n
    OBVIOUS
  <2>1. j \in 1..m /\ m - j \in Nat /\ m - (m - j) = j
    OBVIOUS
  <2>2. ~(m - j < n)
    BY <1>3, <2>1
  <2>3. QED  BY <2>1, <2>2
<1>5. QED  BY <1>4

-----------------------------------------------------------------------------
(* Types.  The types of the interfaces, of the retries and of the watchdog's
   state are kept apart, since an action changes few of them. *)

LinkTypes ==
  /\ link \in [Entries -> {"none", "online", "offline", "removed"}]
  /\ attached \in [Entries -> Nat]
  /\ sent \in [Entries -> 0..MaxSent]
  /\ silent \in [Entries -> 0..Window]
  /\ asked \in [Entries -> BOOLEAN]

RetryTypes ==
  /\ next \in 1..(N + 1)
  /\ watched \in Seq(Entries)
  /\ failed \subseteq Entries
  /\ todo \in [Rounds -> SUBSET Entries] /\ still \in [Rounds -> SUBSET Entries]
  /\ got \in [Rounds -> Seq(Entries)]

StateTypes ==
  /\ {started, armed} \subseteq BOOLEAN
  /\ tracked \subseteq Labels
  /\ counter \in [Labels -> 0..MaxSent]
  /\ quiet \in [Labels -> 0..Window]
  /\ phase \in [Labels -> {"ok", "probing"}]
  /\ rest \in [Labels -> 0..Cooldown]
  /\ due \in 0..Lag

TickTypes ==
  /\ doing \in [Ticks -> {"idle", "scan", "probe", "swap"}]
  /\ at \in [Ticks -> Nat]
  /\ \A t \in Ticks : at[t] \in IF doing[t] = "idle" THEN {0} ELSE DOMAIN watched

LEMMA TypeParts ==
  /\ TypeOK <=> LinkTypes /\ RetryTypes /\ StateTypes /\ TickTypes
  /\ TypeOK' <=> LinkTypes' /\ RetryTypes' /\ StateTypes' /\ TickTypes'
BY DEF TypeOK, LinkTypes, RetryTypes, StateTypes, TickTypes

LEMMA VisitedType ==
  ASSUME TypeOK, NEW t \in Ticks, doing[t] # "idle"
  PROVE  /\ at[t] \in 1..Len(watched)
         /\ Visited(t) \in Entries /\ LabelOf[Visited(t)] \in Labels
<1>1. at[t] \in 1..Len(watched) /\ watched \in Seq(Entries)
  BY DEF TypeOK
<1>2. Visited(t) \in Entries
  BY <1>1 DEF Visited
<1>3. QED  BY <1>1, <1>2, EntriesAssumption

LEMMA AttachType ==
  ASSUME LinkTypes, NEW e \in Entries, Attach(e)
  PROVE  LinkTypes'
<1>1. /\ "online" \in {"none", "online", "offline", "removed"}
      /\ attached[e] + 1 \in Nat /\ 0 \in 0..MaxSent /\ 0 \in 0..Window
      /\ FALSE \in BOOLEAN
  BY Bounds DEF LinkTypes
<1>2. /\ link' = [link EXCEPT ![e] = "online"]
      /\ attached' = [attached EXCEPT ![e] = attached[e] + 1]
      /\ sent' = [sent EXCEPT ![e] = 0]
      /\ silent' = [silent EXCEPT ![e] = 0] /\ asked' = [asked EXCEPT ![e] = FALSE]
  BY DEF Attach
<1>3. QED  BY <1>1, <1>2 DEF LinkTypes

\* A longer list of watched interfaces leaves the ticks where they are.
LEMMA TicksStay ==
  ASSUME TickTypes, UNCHANGED tickVars, DOMAIN watched \subseteq DOMAIN watched'
  PROVE  TickTypes'
BY DEF TickTypes, tickVars

LEMMA AwaitType ==
  ASSUME TickTypes, NEW t \in Ticks, doing[t] # "idle",
         NEW what \in {"probe", "swap"}, Await(t, what), UNCHANGED watched
  PROVE  TickTypes'
<1>1. doing' \in [Ticks -> {"idle", "scan", "probe", "swap"}] /\ at' = at
  BY DEF TickTypes, Await
<1>2. \A u \in Ticks : doing'[u] = "idle" <=> doing[u] = "idle"
  BY DEF TickTypes, Await
<1>3. QED  BY <1>1, <1>2 DEF TickTypes

LEMMA ProceedType ==
  ASSUME TypeOK, NEW t \in Ticks, doing[t] # "idle", Proceed(t), UNCHANGED watched
  PROVE  TickTypes'
<1>0. at[t] \in 1..Len(watched)
  BY VisitedType
<1>1. at[t] \in 1..Len(watched) /\ Len(watched) \in Nat
      /\ DOMAIN watched = 1..Len(watched)
  BY <1>0 DEF TypeOK
<1>2. CASE at[t] < Len(watched)
  <2>1. /\ doing' = [doing EXCEPT ![t] = "scan"]
        /\ at' = [at EXCEPT ![t] = at[t] + 1]
    BY <1>2 DEF Proceed
  <2>2. at[t] + 1 \in DOMAIN watched /\ at[t] + 1 \in Nat
    BY <1>1, <1>2
  <2>3. QED  BY <2>1, <2>2 DEF TypeOK, TickTypes
<1>3. CASE ~(at[t] < Len(watched))
  <2>1. /\ doing' = [doing EXCEPT ![t] = "idle"]
        /\ at' = [at EXCEPT ![t] = 0]
    BY <1>3 DEF Proceed
  <2>2. QED  BY <2>1 DEF TypeOK, TickTypes
<1>4. QED  BY <1>2, <1>3

LEMMA RebaseType ==
  ASSUME StateTypes, NEW l \in Labels, NEW bytes \in 0..MaxSent, Rebase(l, bytes)
  PROVE  /\ counter' \in [Labels -> 0..MaxSent]
         /\ quiet' \in [Labels -> 0..Window]
         /\ phase' \in [Labels -> {"ok", "probing"}]
BY Bounds DEF StateTypes, Rebase

LEMMA InitType == Init => TypeOK
<1> SUFFICES ASSUME Init PROVE TypeOK
  OBVIOUS
<1>1. LinkTypes
  BY Bounds DEF Init, LinkTypes
<1>2. RetryTypes
  <2>1. <<>> \in Seq(Entries)
    OBVIOUS
  <2>2. QED  BY <2>1, Bounds DEF Init, RetryTypes
<1>3. StateTypes
  <2>1. started \in BOOLEAN /\ armed \in BOOLEAN /\ tracked \subseteq Labels
    BY DEF Init
  <2>2. counter \in [Labels -> 0..MaxSent] /\ quiet \in [Labels -> 0..Window]
    BY Bounds DEF Init
  <2>3. rest \in [Labels -> 0..Cooldown] /\ due \in 0..Lag
    BY Bounds DEF Init
  <2>4. phase \in [Labels -> {"ok", "probing"}]
    BY DEF Init
  <2>5. QED  BY <2>1, <2>2, <2>3, <2>4 DEF StateTypes
<1>4. TickTypes
  BY DEF Init, TickTypes
<1>5. QED  BY <1>1, <1>2, <1>3, <1>4, TypeParts

-----------------------------------------------------------------------------
(* Type correctness, action by action. *)

LEMMA BringUpType == ASSUME TypeOK, BringUp PROVE TypeOK'
<1>1. LinkTypes /\ RetryTypes /\ StateTypes /\ TickTypes
  BY TypeParts
<1>2. next' \in 1..(N + 1) /\ next \in Entries
  BY Bounds DEF BringUp, Entries
<1>3. LinkTypes'
  <2>1. CASE Attach(next)
    BY <1>1, <1>2, <2>1, AttachType
  <2>2. CASE UNCHANGED linkVars
    BY <1>1, <2>2 DEF LinkTypes, linkVars
  <2>3. QED  BY <2>1, <2>2 DEF BringUp
<1>4. /\ watched' = watched \/ watched' = Append(watched, next)
      /\ failed' = failed \/ failed' = failed \cup {next}
      /\ UNCHANGED <<todo, still, got>>
  BY DEF BringUp
<1>5. watched' \in Seq(Entries) /\ DOMAIN watched \subseteq DOMAIN watched'
  <2>1. watched \in Seq(Entries)
    BY <1>1 DEF RetryTypes
  <2>2. /\ Append(watched, next) \in Seq(Entries)
        /\ DOMAIN watched \subseteq DOMAIN Append(watched, next)
    BY <1>2, <2>1
  <2>3. QED  BY <1>4, <2>1, <2>2
<1>6. RetryTypes'
  BY <1>1, <1>2, <1>4, <1>5 DEF RetryTypes
<1>7. StateTypes'
  BY <1>1 DEF BringUp, StateTypes, stateVars
<1>8. TickTypes'
  BY <1>1, <1>5, TicksStay DEF BringUp
<1>9. QED  BY <1>3, <1>6, <1>7, <1>8, TypeParts

LEMMA MeshType ==
  ASSUME TypeOK, NEW e \in Entries, Transmit(e) \/ Drop(e) \/ Reconnect(e)
  PROVE  TypeOK'
<1>1. LinkTypes /\ RetryTypes /\ StateTypes /\ TickTypes
  BY TypeParts
<1>2. LinkTypes'
  <2>1. CASE Transmit(e)
    <3>1. sent[e] + 1 \in 0..MaxSent /\ 0 \in 0..Window
      BY <1>1, <2>1, Bounds DEF Transmit, LinkTypes
    <3>2. QED  BY <1>1, <2>1, <3>1 DEF Transmit, LinkTypes
  <2>2. CASE Drop(e)
    BY <1>1, <2>2 DEF Drop, LinkTypes
  <2>3. CASE Reconnect(e)
    <3>1. 0 \in 0..MaxSent
      BY Bounds
    <3>2. sent' \in [Entries -> 0..MaxSent]
      BY <1>1, <2>3, <3>1 DEF Reconnect, LinkTypes
    <3>3. QED  BY <1>1, <2>3, <3>2 DEF Reconnect, LinkTypes
  <2>4. QED  BY <2>1, <2>2, <2>3
<1>3. UNCHANGED <<next, watched, retryVars, started, armed, stateVars, tickVars, due>>
  BY DEF Transmit, Drop, Reconnect
<1>4. RetryTypes'
  BY <1>1, <1>3 DEF RetryTypes, retryVars
<1>5. StateTypes'
  BY <1>1, <1>3 DEF StateTypes, stateVars
<1>6. TickTypes'
  BY <1>1, <1>3, TicksStay
<1>7. QED  BY <1>2, <1>4, <1>5, <1>6, TypeParts

LEMMA StartRoundType ==
  ASSUME TypeOK, NEW r \in Rounds, StartRound(r)
  PROVE  TypeOK'
<1>1. LinkTypes /\ RetryTypes /\ StateTypes /\ TickTypes
  BY TypeParts
<1>2. /\ todo' = [todo EXCEPT ![r] = failed \ Unknown]
      /\ failed' = {}
      /\ UNCHANGED <<next, linkVars, watched, still, got, started, armed,
                     stateVars, tickVars, due>>
  BY DEF StartRound
<1>3. failed \ Unknown \in SUBSET Entries
  BY <1>1 DEF RetryTypes
<1>4. RetryTypes'
  BY <1>1, <1>2, <1>3 DEF RetryTypes
<1>5. LinkTypes' /\ StateTypes'
  BY <1>1, <1>2 DEF LinkTypes, linkVars, StateTypes, stateVars
<1>6. TickTypes'
  BY <1>1, <1>2, TicksStay
<1>7. QED  BY <1>4, <1>5, <1>6, TypeParts

LEMMA AttemptType ==
  ASSUME TypeOK, NEW r \in Rounds, NEW e \in Entries, Attempt(r, e)
  PROVE  TypeOK'
<1>1. LinkTypes /\ RetryTypes /\ StateTypes /\ TickTypes
  BY TypeParts
<1>2. /\ todo' = [todo EXCEPT ![r] = todo[r] \ {e}]
      /\ \/ Attach(e) /\ got' = [got EXCEPT ![r] = Append(got[r], e)] /\ still' = still
         \/ still' = [still EXCEPT ![r] = still[r] \cup {e}] /\ UNCHANGED <<linkVars, got>>
      /\ UNCHANGED <<next, watched, failed, started, armed, stateVars, tickVars, due>>
  BY DEF Attempt
<1>3. LinkTypes'
  BY <1>1, <1>2, AttachType DEF LinkTypes, linkVars
<1>4. /\ todo[r] \ {e} \in SUBSET Entries
      /\ still[r] \cup {e} \in SUBSET Entries
      /\ Append(got[r], e) \in Seq(Entries)
  BY <1>1 DEF RetryTypes
<1>5. RetryTypes'
  BY <1>1, <1>2, <1>4 DEF RetryTypes
<1>6. StateTypes'
  BY <1>1, <1>2 DEF StateTypes, stateVars
<1>7. TickTypes'
  BY <1>1, <1>2, TicksStay
<1>8. QED  BY <1>3, <1>5, <1>6, <1>7, TypeParts

\* What a round connected is appended to what is watched.
LEMMA EndRoundWatched ==
  ASSUME RetryTypes, NEW r \in Rounds
  PROVE  /\ watched \o got[r] \in Seq(Entries)
         /\ DOMAIN watched \subseteq DOMAIN (watched \o got[r])
         /\ \A i \in DOMAIN watched : (watched \o got[r])[i] = watched[i]
BY DEF RetryTypes

LEMMA EndRoundType ==
  ASSUME TypeOK, NEW r \in Rounds, EndRound(r)
  PROVE  TypeOK'
<1>1. LinkTypes /\ RetryTypes /\ StateTypes /\ TickTypes
  BY TypeParts
<1>2. /\ failed' = still[r]
      /\ watched' = watched \o got[r]
      /\ still' = [still EXCEPT ![r] = {}] /\ got' = [got EXCEPT ![r] = <<>>]
      /\ UNCHANGED <<next, linkVars, todo, started, armed, stateVars, tickVars, due>>
  BY DEF EndRound
<1>3. /\ watched' \in Seq(Entries) /\ DOMAIN watched \subseteq DOMAIN watched'
      /\ still[r] \subseteq Entries /\ <<>> \in Seq(Entries) /\ {} \in SUBSET Entries
  BY <1>1, <1>2, EndRoundWatched DEF RetryTypes
<1>4. RetryTypes'
  BY <1>1, <1>2, <1>3 DEF RetryTypes
<1>5. LinkTypes' /\ StateTypes'
  BY <1>1, <1>2 DEF LinkTypes, linkVars, StateTypes, stateVars
<1>6. TickTypes'
  BY <1>1, <1>2, <1>3, TicksStay
<1>7. QED  BY <1>4, <1>5, <1>6, TypeParts

LEMMA ArmType == ASSUME TypeOK, Arm PROVE TypeOK'
<1>1. LinkTypes /\ RetryTypes /\ StateTypes /\ TickTypes
  BY TypeParts
<1>2. UNCHANGED <<next, linkVars, watched, retryVars, quiet, phase, rest, tickVars, due>>
  BY DEF Arm
<1>3. started' \in BOOLEAN /\ armed' \in BOOLEAN
  BY DEF Arm
<1>4. watched \in Seq(Entries) /\ \A i \in DOMAIN watched : watched[i] \in Entries
  BY <1>1 DEF RetryTypes
<1>5. tracked' \subseteq Labels
  BY <1>4, EntriesAssumption DEF Arm
<1>6. counter' \in [Labels -> 0..MaxSent]
  <2> DEFINE Places(l) == {i \in DOMAIN watched : LabelOf[watched[i]] = l}
             LastOf(l) == CHOOSE i \in Places(l) : \A j \in Places(l) : j <= i
             Sample(l) == IF Places(l) = {} THEN counter[l] ELSE sent[watched[LastOf(l)]]
  <2>1. counter' = [l \in Labels |-> Sample(l)]
    BY DEF Arm
  <2>2. ASSUME NEW l \in Labels PROVE Sample(l) \in 0..MaxSent
    <3>1. CASE Places(l) = {}
      BY <1>1, <3>1 DEF StateTypes
    <3>2. CASE Places(l) # {}
      <4>0. Len(watched) \in Nat /\ Places(l) \subseteq 1..Len(watched)
        BY <1>4
      <4>2. \E i \in Places(l) : \A j \in Places(l) : j <= i
        BY <3>2, <4>0, LastExists
      <4>3. LastOf(l) \in Places(l)
        BY <4>2
      <4>4. watched[LastOf(l)] \in Entries
        BY <4>3, <1>4
      <4>5. QED  BY <1>1, <3>2, <4>4 DEF LinkTypes
    <3>3. QED  BY <3>1, <3>2
  <2> HIDE DEF Sample
  <2>3. QED  BY <2>1, <2>2
<1>7. StateTypes'
  BY <1>1, <1>2, <1>3, <1>5, <1>6 DEF StateTypes
<1>8. LinkTypes' /\ RetryTypes'
  BY <1>1, <1>2 DEF LinkTypes, linkVars, RetryTypes, retryVars
<1>9. TickTypes'
  BY <1>1, <1>2, TicksStay
<1>10. QED  BY <1>7, <1>8, <1>9, TypeParts

LEMMA AdvanceType == ASSUME TypeOK, Advance PROVE TypeOK'
<1>1. LinkTypes /\ RetryTypes /\ StateTypes /\ TickTypes
  BY TypeParts
<1>2. UNCHANGED <<next, link, attached, sent, watched, retryVars, started, armed,
                  tracked, counter, phase, tickVars, asked>>
  BY DEF Advance
<1>3. due' \in 0..Lag
  BY <1>1, Bounds DEF Advance, StateTypes
<1>4. quiet' \in [Labels -> 0..Window]
  <2>1. \A l \in Labels : quiet[l] \in 0..Window /\ Least(quiet[l] + 1, Window) \in 0..Window
    BY <1>1, Bounds, LeastType DEF StateTypes
  <2>2. QED  BY <2>1 DEF Advance
<1>5. rest' \in [Labels -> 0..Cooldown]
  <2>1. \A l \in Labels : Least(rest[l] + 1, Cooldown) \in 0..Cooldown
    BY <1>1, Bounds, LeastType DEF StateTypes
  <2>2. QED  BY <2>1 DEF Advance
<1>6. silent' \in [Entries -> 0..Window]
  <2>1. \A e \in Entries :
          silent[e] \in 0..Window /\ Least(silent[e] + 1, Window) \in 0..Window
    BY <1>1, Bounds, LeastType DEF LinkTypes
  <2>2. QED  BY <2>1 DEF Advance
<1>7. LinkTypes' /\ RetryTypes'
  BY <1>1, <1>2, <1>6 DEF LinkTypes, RetryTypes, retryVars
<1>8. StateTypes'
  BY <1>1, <1>2, <1>3, <1>4, <1>5 DEF StateTypes
<1>9. TickTypes'
  BY <1>1, <1>2, TicksStay
<1>10. QED  BY <1>7, <1>8, <1>9, TypeParts

LEMMA PollType == ASSUME TypeOK, NEW t \in Ticks, Poll(t), watched # <<>> PROVE TypeOK'
<1>1. LinkTypes /\ RetryTypes /\ StateTypes /\ TickTypes
  BY TypeParts
<1>2. UNCHANGED <<next, linkVars, watched, retryVars, started, armed, stateVars>>
  BY DEF Poll
<1>3. due' \in 0..Lag
  BY Bounds DEF Poll
<1>4. LinkTypes' /\ RetryTypes' /\ StateTypes'
  BY <1>1, <1>2, <1>3 DEF LinkTypes, linkVars, RetryTypes, retryVars, StateTypes, stateVars
<1>5. /\ doing' = [doing EXCEPT ![t] = "scan"] /\ at' = [at EXCEPT ![t] = 1]
  BY DEF Poll
<1>6. 1 \in DOMAIN watched
  BY <1>1 DEF RetryTypes
<1>7. TickTypes'
  BY <1>1, <1>2, <1>5, <1>6 DEF TickTypes
<1>8. QED  BY <1>4, <1>7, TypeParts

\* The visits of a tick leave everything else as it is.
Elsewhere == <<next, watched, retryVars, started, armed, due>>

LEMMA TickActions ==
  ASSUME NEW t \in Ticks, Visit(t) \/ Probed(t) \/ Rebuilt(t)
  PROVE  doing[t] # "idle" /\ UNCHANGED Elsewhere
BY DEF Visit, VisitWell, VisitStalled, VisitFrozen, VisitQuiet, Probed, Rebuilt, Elsewhere

LEMMA ElsewhereTypes ==
  ASSUME TypeOK, UNCHANGED Elsewhere, LinkTypes', TickTypes',
         tracked' \subseteq Labels, counter' \in [Labels -> 0..MaxSent],
         quiet' \in [Labels -> 0..Window], phase' \in [Labels -> {"ok", "probing"}],
         rest' \in [Labels -> 0..Cooldown]
  PROVE  TypeOK'
<1>1. RetryTypes /\ StateTypes
  BY TypeParts
<1>2. RetryTypes' /\ StateTypes'
  BY <1>1 DEF RetryTypes, retryVars, StateTypes, Elsewhere
<1>3. QED  BY <1>2, TypeParts

LEMMA VisitWellType == ASSUME TypeOK, NEW t \in Ticks, VisitWell(t) PROVE TypeOK'
<1> DEFINE e == Visited(t)
           l == LabelOf[e]
<1>1. LinkTypes /\ RetryTypes /\ StateTypes /\ TickTypes
  BY TypeParts
<1>2. doing[t] # "idle" /\ UNCHANGED Elsewhere
  BY TickActions DEF Visit
<1>3. e \in Entries /\ l \in Labels
  BY <1>2, VisitedType
<1>4. /\ tracked' = tracked \cup {l} /\ Rebase(l, sent[e]) /\ Proceed(t)
      /\ UNCHANGED linkVars /\ UNCHANGED rest
  BY DEF VisitWell
<1>5. sent[e] \in 0..MaxSent
  BY <1>1, <1>3 DEF LinkTypes
<1>6. TickTypes'
  BY <1>2, <1>4, ProceedType DEF Elsewhere
<1>7. LinkTypes'
  BY <1>1, <1>4 DEF LinkTypes, linkVars
<1> HIDE DEF e, l
<1>8. /\ counter' \in [Labels -> 0..MaxSent] /\ quiet' \in [Labels -> 0..Window]
      /\ phase' \in [Labels -> {"ok", "probing"}]
  BY <1>1, <1>3, <1>4, <1>5, RebaseType
<1>9. tracked' \subseteq Labels /\ rest' \in [Labels -> 0..Cooldown]
  BY <1>1, <1>3, <1>4 DEF StateTypes
<1>10. QED  BY <1>2, <1>6, <1>7, <1>8, <1>9, ElsewhereTypes

LEMMA VisitStalledType == ASSUME TypeOK, NEW t \in Ticks, VisitStalled(t) PROVE TypeOK'
<1> DEFINE l == LabelOf[Visited(t)]
<1>1. LinkTypes /\ RetryTypes /\ StateTypes /\ TickTypes
  BY TypeParts
<1>2. doing[t] # "idle" /\ UNCHANGED Elsewhere
  BY TickActions DEF Visit
<1>3. l \in Labels
  BY <1>2, VisitedType
<1>4. /\ phase' = [phase EXCEPT ![l] = "probing"]
      /\ asked' = [e \in Entries |-> TRUE]
      /\ Await(t, "probe")
      /\ UNCHANGED <<link, attached, sent, silent, tracked, counter, quiet, rest>>
  BY DEF VisitStalled
<1>5. TickTypes'
  BY <1>1, <1>2, <1>4, AwaitType DEF Elsewhere
<1>6. LinkTypes'
  BY <1>1, <1>4 DEF LinkTypes
<1> HIDE DEF l
<1>7. phase' \in [Labels -> {"ok", "probing"}]
  BY <1>1, <1>3, <1>4 DEF StateTypes
<1>8. /\ tracked' \subseteq Labels /\ counter' \in [Labels -> 0..MaxSent]
      /\ quiet' \in [Labels -> 0..Window] /\ rest' \in [Labels -> 0..Cooldown]
  BY <1>1, <1>4 DEF StateTypes
<1>9. QED  BY <1>2, <1>5, <1>6, <1>7, <1>8, ElsewhereTypes

\* Nothing in the watchdog's state changes but the ticks.
LEMMA SameStateTypes ==
  ASSUME StateTypes, UNCHANGED stateVars
  PROVE  /\ tracked' \subseteq Labels /\ counter' \in [Labels -> 0..MaxSent]
         /\ quiet' \in [Labels -> 0..Window] /\ rest' \in [Labels -> 0..Cooldown]
         /\ phase' \in [Labels -> {"ok", "probing"}]
BY DEF StateTypes, stateVars

LEMMA ProceedingType ==
  ASSUME TypeOK, NEW t \in Ticks, VisitQuiet(t) \/ Probed(t) PROVE TypeOK'
<1>1. LinkTypes /\ RetryTypes /\ StateTypes /\ TickTypes
  BY TypeParts
<1>2. doing[t] # "idle" /\ UNCHANGED Elsewhere
  BY TickActions DEF Visit
<1>3. Proceed(t) /\ UNCHANGED linkVars /\ UNCHANGED stateVars
  BY DEF VisitQuiet, Probed
<1>4. TickTypes'
  BY <1>2, <1>3, ProceedType DEF Elsewhere
<1>5. LinkTypes'
  BY <1>1, <1>3 DEF LinkTypes, linkVars
<1>6. QED  BY <1>1, <1>2, <1>3, <1>4, <1>5, SameStateTypes, ElsewhereTypes

\* Every interface that is detached was attached, once.
LEMMA VisitFrozenType ==
  ASSUME TypeOK, AttachedOnce, NEW t \in Ticks, VisitFrozen(t) PROVE TypeOK'
<1> DEFINE e == Visited(t)
<1>1. LinkTypes /\ RetryTypes /\ StateTypes /\ TickTypes
  BY TypeParts
<1>2. doing[t] # "idle" /\ UNCHANGED Elsewhere
  BY TickActions DEF Visit
<1>3. e \in Entries
  BY <1>2, VisitedType
<1>4. ~Well(e) /\ Detach(e) /\ Await(t, "swap") /\ UNCHANGED stateVars
  BY DEF VisitFrozen
<1> HIDE DEF e
<1>5. attached[e] = 1 /\ attached[e] - 1 \in Nat
  BY <1>3, <1>4 DEF Well, AttachedOnce
<1>6. TickTypes'
  BY <1>1, <1>2, <1>4, AwaitType DEF Elsewhere
<1>7. LinkTypes'
  <2>1. /\ link' = [link EXCEPT ![e] = "removed"]
        /\ attached' = [attached EXCEPT ![e] = attached[e] - 1]
        /\ silent' = [silent EXCEPT ![e] = 0] /\ asked' = [asked EXCEPT ![e] = FALSE]
        /\ sent' = sent
    BY <1>4 DEF Detach
  <2>2. 0 \in 0..Window
    BY Bounds
  <2>3. QED  BY <1>1, <1>5, <2>1, <2>2 DEF LinkTypes
<1>8. QED  BY <1>1, <1>2, <1>4, <1>6, <1>7, SameStateTypes, ElsewhereTypes

LEMMA RebuiltType == ASSUME TypeOK, NEW t \in Ticks, Rebuilt(t) PROVE TypeOK'
<1> DEFINE e == Visited(t)
           l == LabelOf[e]
<1>1. LinkTypes /\ RetryTypes /\ StateTypes /\ TickTypes
  BY TypeParts
<1>2. doing[t] # "idle" /\ UNCHANGED Elsewhere
  BY TickActions
<1>3. e \in Entries /\ l \in Labels
  BY <1>2, VisitedType
<1>4. /\ \/ Attach(e) /\ Rebase(l, 0)
         \/ Rebase(l, sent[e]) /\ UNCHANGED linkVars
         \/ Rebase(l, counter[l]) /\ UNCHANGED linkVars
      /\ rest' = [rest EXCEPT ![l] = 0] /\ Proceed(t) /\ UNCHANGED tracked
  BY DEF Rebuilt
<1>5. TickTypes'
  BY <1>2, <1>4, ProceedType DEF Elsewhere
<1> HIDE DEF e, l
<1>6. LinkTypes'
  BY <1>1, <1>3, <1>4, AttachType DEF LinkTypes, linkVars
<1>7. sent[e] \in 0..MaxSent /\ counter[l] \in 0..MaxSent /\ 0 \in 0..MaxSent
  BY <1>1, <1>3, Bounds DEF LinkTypes, StateTypes
<1>8. /\ counter' \in [Labels -> 0..MaxSent] /\ quiet' \in [Labels -> 0..Window]
      /\ phase' \in [Labels -> {"ok", "probing"}]
  BY <1>1, <1>3, <1>4, <1>7, RebaseType
<1>9. tracked' \subseteq Labels /\ rest' \in [Labels -> 0..Cooldown]
  <2>1. 0 \in 0..Cooldown
    BY Bounds
  <2>2. QED  BY <1>1, <1>4, <2>1 DEF StateTypes
<1>10. QED  BY <1>2, <1>5, <1>6, <1>8, <1>9, ElsewhereTypes

-----------------------------------------------------------------------------
(* The inductive invariant. *)

\* The watchdog of a tick runs only after start() set it up.
Running ==
  /\ ~started => ~armed /\ tracked = {} /\ \A t \in Ticks : doing[t] = "idle"
  /\ armed => watched # <<>>

\* What a tick rebuilds has been detached, and nobody else touches it.
Detached == \A t \in Ticks : doing[t] = "swap" => link[Visited(t)] = "removed"

\* There is at most one round of retries in flight, and it holds all failures.
OneRound ==
  \A r \in Rounds : InFlight(r) =>
    next > N /\ failed = {} /\ \A q \in Rounds : InFlight(q) => q = r
Waiting ==
  \A e \in Entries :
    (e \in failed \/ \E r \in Rounds : e \in todo[r] \cup still[r]) =>
      link[e] = "none" /\ e < next
Untried == \A e \in Entries : e >= next => link[e] = "none"
Apart == \A r \in Rounds : todo[r] \cap still[r] = {}
Connected ==
  \A e \in Entries :
    (e \in Watched \/ \E r \in Rounds : e \in Got(r)) => link[e] # "none"

RetryInv == OneRound /\ Waiting /\ Untried /\ Apart /\ Connected /\ NoneForgotten

\* The watchdog's window of an interface began no earlier than its silence.
TrackedWatched == tracked \subseteq {LabelOf[e] : e \in Watched}
Fresh == \A l \in Labels : l \notin tracked => quiet[l] = 0 /\ phase[l] = "ok"
Sampled(e) ==
  LET l == LabelOf[e]
  IN /\ counter[l] <= sent[e]
     /\ counter[l] = sent[e] =>
          quiet[l] <= silent[e] /\ (phase[l] = "probing" => asked[e])
SilenceInv ==
  /\ TrackedWatched /\ Fresh
  /\ \A e \in Entries \ Socketed :
       Alone(e) /\ LabelOf[e] \in tracked /\ link[e] \in {"online", "offline"} =>
         Sampled(e)

LinkInv == AttachedOnce /\ Detached /\ OneRebuildEach /\ Running
IInv == TypeOK /\ LinkInv /\ RetryInv /\ SilenceInv

-----------------------------------------------------------------------------
(* The invariant of the retries. *)

Elements(s) == {s[i] : i \in DOMAIN s}

LEMMA AppendElements ==
  ASSUME NEW S, NEW s \in Seq(S), NEW x \in S
  PROVE  {Append(s, x)[i] : i \in DOMAIN Append(s, x)} = {s[i] : i \in DOMAIN s} \cup {x}
<1>1. /\ DOMAIN s = 1..Len(s) /\ Len(s) \in Nat
      /\ DOMAIN Append(s, x) = 1..(Len(s) + 1)
      /\ \A i \in 1..Len(s) : Append(s, x)[i] = s[i]
      /\ Append(s, x)[Len(s) + 1] = x
  OBVIOUS
<1>2. 1..(Len(s) + 1) = (1..Len(s)) \cup {Len(s) + 1}
  BY <1>1
<1>3. QED  BY <1>1, <1>2

LEMMA ConcatElements ==
  ASSUME NEW S, NEW s \in Seq(S), NEW u \in Seq(S)
  PROVE  Elements(s \o u) = Elements(s) \cup Elements(u)
<1>1. /\ DOMAIN s = 1..Len(s) /\ Len(s) \in Nat
      /\ DOMAIN u = 1..Len(u) /\ Len(u) \in Nat
      /\ DOMAIN (s \o u) = 1..(Len(s) + Len(u))
  OBVIOUS
<1>2. /\ \A i \in 1..Len(s) : (s \o u)[i] = s[i]
      /\ \A i \in 1..Len(u) : (s \o u)[Len(s) + i] = u[i]
      /\ \A i \in 1..(Len(s) + Len(u)) : ~(i <= Len(s)) => (s \o u)[i] = u[i - Len(s)]
  OBVIOUS
<1>3. ASSUME NEW i \in DOMAIN (s \o u)
      PROVE  (s \o u)[i] \in {s[j] : j \in DOMAIN s} \cup {u[j] : j \in DOMAIN u}
  <2>1. CASE i <= Len(s)
    <3>1. i \in DOMAIN s
      BY <1>1, <2>1
    <3>2. QED  BY <1>1, <1>2, <3>1
  <2>2. CASE ~(i <= Len(s))
    <3>1. i - Len(s) \in DOMAIN u /\ (s \o u)[i] = u[i - Len(s)]
      BY <1>1, <1>2, <2>2
    <3>2. QED  BY <3>1
  <2>3. QED  BY <2>1, <2>2
<1>4. ASSUME NEW j \in DOMAIN s
      PROVE  s[j] \in {(s \o u)[i] : i \in DOMAIN (s \o u)}
  <2>1. j \in DOMAIN (s \o u) /\ (s \o u)[j] = s[j]
    BY <1>1, <1>2
  <2>2. QED  BY <2>1
<1>5. ASSUME NEW j \in DOMAIN u
      PROVE  u[j] \in {(s \o u)[i] : i \in DOMAIN (s \o u)}
  <2>1. Len(s) + j \in DOMAIN (s \o u) /\ (s \o u)[Len(s) + j] = u[j]
    BY <1>1, <1>2
  <2>2. QED  BY <2>1
<1>6. QED  BY <1>3, <1>4, <1>5 DEF Elements

LEMMA RetryStays ==
  ASSUME RetryInv, UNCHANGED <<next, watched, retryVars>>,
         \A e \in Entries : link'[e] = "none" <=> link[e] = "none"
  PROVE  RetryInv'
<1>1. UNCHANGED <<next, watched, failed, todo, still, got>>
  BY DEF retryVars
<1>2. Waiting' /\ Untried' /\ Connected'
  BY <1>1 DEF RetryInv, Waiting, Untried, Connected, Watched, Got
<1>3. OneRound' /\ Apart' /\ NoneForgotten'
  BY <1>1 DEF RetryInv, OneRound, InFlight, Apart, NoneForgotten, Watched, Got
<1>4. QED  BY <1>2, <1>3 DEF RetryInv

\* A new interface is made for an entry that has none.
LEMMA AttachLink ==
  ASSUME TypeOK, NEW e \in Entries, Attach(e)
  PROVE  link'[e] = "online" /\ \A f \in Entries : f # e => link'[f] = link[f]
BY DEF TypeOK, Attach

LEMMA BringUpRetry == ASSUME TypeOK, RetryInv, BringUp PROVE RetryInv'
<1>1. /\ next \in Entries /\ next \in Int /\ next <= N /\ N \in Nat /\ next' = next + 1
      /\ UNCHANGED <<todo, still, got>>
  BY Bounds DEF BringUp, Entries
<1>2. link[next] = "none"
  BY <1>1 DEF RetryInv, Untried
<1>3. \A r \in Rounds : ~InFlight(r)
  BY <1>1 DEF RetryInv, OneRound
<1>4. \A r \in Rounds : todo[r] = {} /\ still[r] = {} /\ got[r] = <<>>
  BY <1>3 DEF InFlight
<1>5. OneRound' /\ Apart'
  BY <1>1, <1>4 DEF OneRound, InFlight, Apart
<1>6. \A r \in Rounds : Got(r)' = {} /\ Got(r) = {}
  BY <1>1, <1>4 DEF Got
<1>7. CASE Attach(next) /\ watched' = Append(watched, next) /\ failed' = failed
           /\ next \notin Unknown
  <2>1. link'[next] = "online" /\ \A f \in Entries : f # next => link'[f] = link[f]
    BY <1>1, <1>7, AttachLink
  <2>2. Watched' = Watched \cup {next}
    <3>1. watched \in Seq(Entries)
      BY DEF TypeOK
    <3>2. QED  BY <1>1, <1>7, <3>1, AppendElements DEF Watched
  <2>3. Waiting'
    BY <1>1, <1>4, <1>7, <2>1 DEF RetryInv, Waiting, Entries
  <2>4. Untried'
    BY <1>1, <2>1 DEF RetryInv, Untried, Entries
  <2>5. Connected'
    BY <1>1, <1>6, <2>1, <2>2 DEF RetryInv, Connected
  <2>6. NoneForgotten'
    <3>1. \A e \in 1..(next - 1) \ Unknown : e \in Watched \cup failed
      BY <1>4, <1>6 DEF RetryInv, NoneForgotten
    <3>2. \A e \in 1..(next' - 1) : e \in 1..(next - 1) \/ e = next
      BY <1>1
    <3>3. QED  BY <1>7, <2>2, <3>1, <3>2 DEF NoneForgotten
  <2>7. QED  BY <1>5, <2>3, <2>4, <2>5, <2>6 DEF RetryInv
<1>8. CASE watched' = watched /\ failed' = failed \cup {next} /\ link' = link
  <2>1. Waiting'
    BY <1>1, <1>2, <1>4, <1>8 DEF RetryInv, Waiting, Entries
  <2>2. Untried'
    BY <1>1, <1>8 DEF RetryInv, Untried, Entries
  <2>3. Watched' = Watched
    BY <1>8 DEF Watched
  <2>4. Connected'
    BY <1>1, <1>6, <1>8, <2>3 DEF RetryInv, Connected
  <2>5. NoneForgotten'
    <3>1. \A e \in 1..(next - 1) \ Unknown : e \in Watched \cup failed
      BY <1>4, <1>6 DEF RetryInv, NoneForgotten
    <3>2. \A e \in 1..(next' - 1) : e \in 1..(next - 1) \/ e = next
      BY <1>1
    <3>3. QED  BY <1>8, <2>3, <3>1, <3>2 DEF NoneForgotten
  <2>6. QED  BY <1>5, <2>1, <2>2, <2>4, <2>5 DEF RetryInv
<1>9. QED  BY <1>7, <1>8 DEF BringUp, linkVars

LEMMA StartRoundRetry ==
  ASSUME TypeOK, RetryInv, NEW r \in Rounds, StartRound(r)
  PROVE  RetryInv'
<1>1. /\ next > N /\ failed # {} /\ ~InFlight(r)
      /\ todo' = [todo EXCEPT ![r] = failed \ Unknown] /\ failed' = {}
      /\ UNCHANGED <<next, link, watched, still, got>>
  BY DEF StartRound, linkVars
<1>2. \A q \in Rounds : ~InFlight(q)
  BY <1>1 DEF RetryInv, OneRound
<1>3. \A q \in Rounds : todo[q] = {} /\ still[q] = {} /\ got[q] = <<>>
  BY <1>2 DEF InFlight
<1>4. todo'[r] = failed \ Unknown /\ \A q \in Rounds : q # r => todo'[q] = {}
  BY <1>1, <1>3 DEF TypeOK
<1>5. OneRound' /\ Apart'
  BY <1>1, <1>3, <1>4 DEF OneRound, InFlight, Apart
<1>6. Waiting'
  BY <1>1, <1>3, <1>4 DEF RetryInv, Waiting
<1>7. Untried' /\ Connected'
  BY <1>1 DEF RetryInv, Untried, Connected, Watched, Got
<1>8. NoneForgotten'
  <2>1. \A q \in Rounds : Got(q) = {}
    BY <1>3 DEF Got
  <2>2. \A e \in 1..(next - 1) \ Unknown : e \in Watched \cup failed
    BY <1>3, <2>1 DEF RetryInv, NoneForgotten
  <2>3. Watched' = Watched
    BY <1>1 DEF Watched
  <2>4. QED  BY <1>1, <1>4, <2>2, <2>3 DEF NoneForgotten
<1>9. QED  BY <1>5, <1>6, <1>7, <1>8 DEF RetryInv

LEMMA AttemptRetry ==
  ASSUME TypeOK, RetryInv, NEW r \in Rounds, NEW e \in Entries, Attempt(r, e)
  PROVE  RetryInv'
<1>1. /\ e \in todo[r] /\ todo' = [todo EXCEPT ![r] = todo[r] \ {e}]
      /\ UNCHANGED <<next, watched, failed>>
  BY DEF Attempt
<1>2. todo'[r] = todo[r] \ {e} /\ \A q \in Rounds : q # r => todo'[q] = todo[q]
  BY <1>1 DEF TypeOK
<1>3. /\ next > N /\ failed = {} /\ link[e] = "none" /\ e < next
      /\ \A q \in Rounds : InFlight(q) => q = r
  BY <1>1 DEF InFlight, RetryInv, OneRound, Waiting
<1>4. Watched' = Watched
  BY <1>1 DEF Watched
<1>5. \A q \in Rounds : q # r => todo[q] = {} /\ still[q] = {} /\ got[q] = <<>>
  BY <1>3 DEF InFlight
<1>6. CASE Attach(e) /\ got' = [got EXCEPT ![r] = Append(got[r], e)] /\ still' = still
  <2>1. link'[e] = "online" /\ \A f \in Entries : f # e => link'[f] = link[f]
    BY <1>6, AttachLink
  <2>2. got'[r] = Append(got[r], e) /\ \A q \in Rounds : q # r => got'[q] = got[q]
    BY <1>6 DEF TypeOK
  <2>3. Got(r)' = Got(r) \cup {e} /\ \A q \in Rounds : q # r => Got(q)' = Got(q)
    <3>1. got[r] \in Seq(Entries)
      BY DEF TypeOK
    <3>2. QED  BY <2>2, <3>1, AppendElements DEF Got
  <2>4. OneRound'
    BY <1>1, <1>2, <1>3, <1>5, <1>6, <2>2 DEF OneRound, InFlight
  <2>5. e \notin still[r]
    BY <1>1 DEF RetryInv, Apart
  <2>6. Waiting'
    BY <1>1, <1>2, <1>3, <1>5, <1>6, <2>1, <2>5 DEF RetryInv, Waiting
  <2>7. Untried'
    <3>1. N \in Nat /\ next \in Int
      BY Bounds DEF TypeOK
    <3>2. \A f \in Entries : ~(f >= next')
      BY <1>1, <1>3, <3>1 DEF Entries
    <3>3. QED  BY <3>2 DEF Untried
  <2>8. Apart'
    BY <1>2, <1>6 DEF RetryInv, Apart
  <2>9. Connected'
    BY <1>4, <2>1, <2>3 DEF RetryInv, Connected
  <2>10. NoneForgotten'
    BY <1>1, <1>2, <1>4, <1>6, <2>3 DEF RetryInv, NoneForgotten
  <2>11. QED  BY <2>4, <2>6, <2>7, <2>8, <2>9, <2>10 DEF RetryInv
<1>7. CASE still' = [still EXCEPT ![r] = still[r] \cup {e}] /\ link' = link /\ got' = got
  <2>1. still'[r] = still[r] \cup {e} /\ \A q \in Rounds : q # r => still'[q] = still[q]
    BY <1>7 DEF TypeOK
  <2>2. \A q \in Rounds : Got(q)' = Got(q)
    BY <1>7 DEF Got
  <2>3. OneRound'
    BY <1>1, <1>2, <1>3, <1>5, <1>7, <2>1 DEF OneRound, InFlight
  <2>4. Waiting'
    BY <1>1, <1>2, <1>3, <1>7, <2>1 DEF RetryInv, Waiting
  <2>5. Untried'
    BY <1>1, <1>7 DEF RetryInv, Untried
  <2>6. Apart'
    BY <1>2, <2>1 DEF RetryInv, Apart
  <2>7. Connected'
    BY <1>4, <1>7, <2>2 DEF RetryInv, Connected
  <2>8. NoneForgotten'
    BY <1>1, <1>2, <1>4, <2>1, <2>2 DEF RetryInv, NoneForgotten
  <2>9. QED  BY <2>3, <2>4, <2>5, <2>6, <2>7, <2>8 DEF RetryInv
<1>8. QED  BY <1>6, <1>7 DEF Attempt, linkVars

LEMMA EndRoundRetry ==
  ASSUME TypeOK, RetryInv, NEW r \in Rounds, EndRound(r)
  PROVE  RetryInv'
<1>1. /\ InFlight(r) /\ todo[r] = {} /\ failed' = still[r] /\ watched' = watched \o got[r]
      /\ still' = [still EXCEPT ![r] = {}] /\ got' = [got EXCEPT ![r] = <<>>]
      /\ UNCHANGED <<next, link, todo>>
  BY DEF EndRound, linkVars
<1>2. still'[r] = {} /\ \A q \in Rounds : q # r => still'[q] = still[q]
  BY <1>1 DEF TypeOK
<1>3. got'[r] = <<>> /\ \A q \in Rounds : q # r => got'[q] = got[q]
  BY <1>1 DEF TypeOK
<1>4. failed = {} /\ \A q \in Rounds : InFlight(q) => q = r
  BY <1>1 DEF RetryInv, OneRound
<1>5. \A q \in Rounds : q # r => todo[q] = {} /\ still[q] = {} /\ got[q] = <<>>
  BY <1>4 DEF InFlight
<1>6. Watched' = Watched \cup Got(r)
  <2>1. watched \in Seq(Entries) /\ got[r] \in Seq(Entries)
    BY DEF TypeOK
  <2>2. Elements(watched \o got[r]) = Elements(watched) \cup Elements(got[r])
    BY <2>1, ConcatElements
  <2>3. Watched' = Elements(watched') /\ Watched = Elements(watched)
        /\ Got(r) = Elements(got[r])
    BY DEF Watched, Got, Elements
  <2>4. QED  BY <1>1, <2>2, <2>3
<1>7. \A q \in Rounds : Got(q)' = {} /\ (q # r => Got(q) = {})
  BY <1>3, <1>5 DEF Got
<1>8. \A q \in Rounds : ~InFlight(q)'
  BY <1>1, <1>2, <1>3, <1>5 DEF InFlight
<1>9. OneRound' /\ Apart'
  BY <1>1, <1>2, <1>5, <1>8 DEF OneRound, Apart, RetryInv
<1>10. Waiting' /\ Untried'
  BY <1>1, <1>2 DEF RetryInv, Waiting, Untried
<1>11. Connected'
  BY <1>1, <1>6, <1>7 DEF RetryInv, Connected
<1>12. NoneForgotten'
  BY <1>1, <1>4, <1>5, <1>6, <1>7 DEF RetryInv, NoneForgotten
<1>13. QED  BY <1>9, <1>10, <1>11, <1>12 DEF RetryInv

-----------------------------------------------------------------------------
(* The invariant of the links, and of the ticks. *)

LEMMA AttachKeepsOnce ==
  ASSUME TypeOK, AttachedOnce, NEW e \in Entries, Attach(e),
         link[e] \in {"none", "removed"}
  PROVE  AttachedOnce'
<1>1. attached[e] = 0
  BY DEF AttachedOnce
<1>2. attached'[e] = 1 /\ \A f \in Entries : f # e => attached'[f] = attached[f]
  BY <1>1 DEF TypeOK, Attach
<1>3. link'[e] = "online" /\ \A f \in Entries : f # e => link'[f] = link[f]
  BY AttachLink
<1>4. QED  BY <1>2, <1>3 DEF AttachedOnce

\* Whatever happens elsewhere, a detached interface is left to its tick.
LEMMA RebuildsStay ==
  ASSUME TypeOK, Detached, OneRebuildEach, UNCHANGED tickVars,
         \A i \in DOMAIN watched : watched'[i] = watched[i],
         \A e \in Entries : link[e] = "removed" => link'[e] = "removed"
  PROVE  Detached' /\ OneRebuildEach'
<1>1. UNCHANGED <<doing, at>>
  BY DEF tickVars
<1>2. \A t \in Ticks : doing[t] = "swap" =>
        /\ at[t] \in DOMAIN watched /\ Visited(t) \in Entries
        /\ Visited(t) = watched[at[t]] /\ Visited(t)' = watched'[at[t]]
  <2> SUFFICES ASSUME NEW t \in Ticks, doing[t] = "swap"
               PROVE  /\ at[t] \in DOMAIN watched /\ Visited(t) \in Entries
                      /\ Visited(t) = watched[at[t]] /\ Visited(t)' = watched'[at[t]]
    OBVIOUS
  <2>1. at[t] \in 1..Len(watched) /\ Visited(t) \in Entries
    BY VisitedType
  <2>2. DOMAIN watched = 1..Len(watched)
    BY DEF TypeOK
  <2>3. QED  BY <1>1, <2>1, <2>2 DEF Visited
<1>3. \A t \in Ticks : doing[t] = "swap" => Visited(t)' = Visited(t)
  BY <1>2
<1>4. QED  BY <1>1, <1>2, <1>3 DEF Detached, OneRebuildEach

\* A tick that does not begin to rebuild leaves the rebuilding of others alone.
LEMMA RebuildsOfOthers ==
  ASSUME TypeOK, Detached, OneRebuildEach, NEW t \in Ticks, UNCHANGED watched,
         doing'[t] # "swap",
         \A u \in Ticks : u # t => doing'[u] = doing[u] /\ at'[u] = at[u],
         \A u \in Ticks : u # t /\ doing[u] = "swap" => link'[Visited(u)] = "removed"
  PROVE  Detached' /\ OneRebuildEach'
<1>1. \A u \in Ticks : u # t => Visited(u)' = Visited(u)
  BY DEF Visited
<1>2. QED  BY <1>1 DEF Detached, OneRebuildEach

LEMMA ProceedMoves ==
  ASSUME TypeOK, NEW t \in Ticks, Proceed(t)
  PROVE  /\ doing'[t] # "swap"
         /\ \A u \in Ticks : u # t => doing'[u] = doing[u] /\ at'[u] = at[u]
<1>1. CASE at[t] < Len(watched)
  <2>1. doing' = [doing EXCEPT ![t] = "scan"] /\ at' = [at EXCEPT ![t] = at[t] + 1]
    BY <1>1 DEF Proceed
  <2>2. QED  BY <2>1 DEF TypeOK
<1>2. CASE ~(at[t] < Len(watched))
  <2>1. doing' = [doing EXCEPT ![t] = "idle"] /\ at' = [at EXCEPT ![t] = 0]
    BY <1>2 DEF Proceed
  <2>2. QED  BY <2>1 DEF TypeOK
<1>3. QED  BY <1>1, <1>2

LEMMA AwaitMoves ==
  ASSUME TypeOK, NEW t \in Ticks, NEW what, Await(t, what)
  PROVE  /\ doing'[t] = what /\ at' = at
         /\ \A u \in Ticks : u # t => doing'[u] = doing[u]
BY DEF TypeOK, Await

\* The ticks that move run under a watchdog that goes on.
LEMMA RunningStays ==
  ASSUME Running, NEW t \in Ticks, doing[t] # "idle" \/ armed,
         UNCHANGED <<watched, started, armed>>
  PROVE  Running'
BY DEF Running

LEMMA RunningKept ==
  ASSUME Running, UNCHANGED <<started, armed, tracked, tickVars>>,
         watched # <<>> => watched' # <<>>
  PROVE  Running'
BY DEF Running, tickVars

-----------------------------------------------------------------------------
(* The invariant of the silence. *)

\* An entry without interface has no window of its own yet.
LEMMA NewUntracked ==
  ASSUME TypeOK, RetryInv, SilenceInv, NEW e \in Entries, link[e] = "none", Alone(e)
  PROVE  LabelOf[e] \notin tracked
<1> SUFFICES ASSUME LabelOf[e] \in tracked PROVE FALSE
  OBVIOUS
<1>1. PICK f \in Watched : LabelOf[f] = LabelOf[e]
  BY DEF SilenceInv, TrackedWatched
<1>2. f \in Entries
  BY DEF Watched, TypeOK
<1>3. f = e
  BY <1>1, <1>2 DEF Alone
<1>4. QED  BY <1>3 DEF RetryInv, Connected

\* What an interface may do while nobody samples its counter.
Lasting(e) ==
  /\ link[e] \in {"online", "offline"}
  /\ \/ sent'[e] > sent[e]
     \/ sent'[e] = sent[e] /\ silent'[e] = silent[e] /\ asked'[e] = asked[e]

LEMMA SilenceKept ==
  ASSUME TypeOK, TypeOK', SilenceInv, UNCHANGED <<tracked, counter, quiet, phase>>,
         Watched \subseteq Watched',
         \A e \in Entries \ Socketed :
           Alone(e) /\ LabelOf[e] \in tracked /\ link'[e] \in {"online", "offline"} =>
             Lasting(e)
  PROVE  SilenceInv'
<1>1. TrackedWatched' /\ Fresh'
  BY DEF SilenceInv, TrackedWatched, Fresh
<1>2. ASSUME NEW e \in Entries \ Socketed, Alone(e), LabelOf[e] \in tracked,
             link'[e] \in {"online", "offline"}
      PROVE  Sampled(e)'
  <2>1. Lasting(e)
    BY <1>2
  <2>2. Sampled(e)
    BY <1>2, <2>1 DEF SilenceInv, Lasting
  <2>3. counter[LabelOf[e]] \in Int /\ sent[e] \in Int /\ sent'[e] \in Int
    BY EntriesAssumption DEF TypeOK
  <2>4. CASE sent'[e] > sent[e]
    BY <2>2, <2>3, <2>4 DEF Sampled
  <2>5. CASE sent'[e] = sent[e] /\ silent'[e] = silent[e] /\ asked'[e] = asked[e]
    BY <2>2, <2>5 DEF Sampled
  <2>6. QED  BY <2>1, <2>4, <2>5 DEF Lasting
<1>3. QED  BY <1>1, <1>2 DEF SilenceInv, Alone

-----------------------------------------------------------------------------
(* Every action preserves the invariant. *)

LEMMA InitInv == Init => IInv
<1> SUFFICES ASSUME Init PROVE IInv
  OBVIOUS
<1>1. TypeOK
  BY InitType
<1>2. LinkInv
  BY DEF Init, LinkInv, AttachedOnce, Detached, OneRebuildEach, Running
<1>3. RetryInv
  <2>1. \A r \in Rounds : todo[r] = {} /\ still[r] = {} /\ got[r] = <<>>
    BY DEF Init
  <2>2. Watched = {} /\ \A r \in Rounds : Got(r) = {}
    BY <2>1 DEF Init, Watched, Got
  <2>3. OneRound /\ Apart
    BY <2>1 DEF OneRound, InFlight, Apart
  <2>4. Waiting /\ Untried /\ Connected
    BY <2>1, <2>2 DEF Init, Waiting, Untried, Connected
  <2>5. NoneForgotten
    BY DEF Init, NoneForgotten
  <2>6. QED  BY <2>3, <2>4, <2>5 DEF RetryInv
<1>4. SilenceInv
  BY DEF Init, SilenceInv, TrackedWatched, Fresh
<1>5. QED  BY <1>1, <1>2, <1>3, <1>4 DEF IInv

LEMMA BringUpStep == ASSUME IInv, BringUp PROVE IInv'
<1>1. TypeOK' /\ RetryInv'
  BY BringUpType, BringUpRetry DEF IInv
<1>2. /\ next \in Entries /\ watched \in Seq(Entries)
      /\ UNCHANGED <<started, armed, stateVars, tickVars>>
      /\ \/ Attach(next) /\ watched' = Append(watched, next)
         \/ UNCHANGED linkVars /\ watched' = watched
  BY DEF BringUp, IInv, TypeOK
<1>3. link[next] = "none"
  BY <1>2 DEF IInv, RetryInv, Untried, TypeOK
<1>4. Attach(next) => link'[next] = "online" /\ \A f \in Entries : f # next => link'[f] = link[f]
  BY <1>2, AttachLink DEF IInv
<1>5. /\ \A i \in DOMAIN watched : watched'[i] = watched[i]
      /\ watched # <<>> => watched' # <<>>
      /\ Watched \subseteq Watched'
  <2>1. CASE watched' = watched
    BY <2>1 DEF Watched
  <2>2. CASE watched' = Append(watched, next)
    <3>1. \A i \in DOMAIN watched : watched'[i] = watched[i]
      BY <1>2, <2>2
    <3>2. watched' # <<>>
      BY <1>2, <2>2
    <3>3. Watched' = Watched \cup {next}
      BY <1>2, <2>2, AppendElements DEF Watched
    <3>4. QED  BY <3>1, <3>2, <3>3
  <2>3. QED  BY <1>2, <2>1, <2>2
<1>6. \A e \in Entries : link[e] = "removed" => link'[e] = "removed"
  BY <1>2, <1>3, <1>4 DEF linkVars
<1>7. AttachedOnce'
  BY <1>2, <1>3, AttachKeepsOnce DEF IInv, LinkInv, AttachedOnce, linkVars
<1>8. Detached' /\ OneRebuildEach'
  BY <1>2, <1>5, <1>6, RebuildsStay DEF IInv, LinkInv
<1>9. Running'
  BY <1>2, <1>5, RunningKept DEF IInv, LinkInv, stateVars
<1>10. SilenceInv'
  <2>1. ASSUME NEW e \in Entries \ Socketed, Alone(e), LabelOf[e] \in tracked,
               link'[e] \in {"online", "offline"}
        PROVE  Lasting(e)
    <3>1. CASE Attach(next)
      <4>1. e # next
        BY <1>2, <1>3, <2>1, NewUntracked DEF IInv
      <4>2. link'[e] = link[e] /\ sent'[e] = sent[e] /\ silent'[e] = silent[e]
            /\ asked'[e] = asked[e]
        BY <1>4, <3>1, <4>1 DEF Attach, IInv, TypeOK
      <4>3. QED  BY <2>1, <4>2 DEF Lasting
    <3>2. CASE UNCHANGED linkVars
      BY <2>1, <3>2 DEF Lasting, linkVars
    <3>3. QED  BY <1>2, <3>1, <3>2
  <2>2. QED  BY <1>1, <1>2, <1>5, <2>1, SilenceKept DEF IInv, stateVars
<1>11. QED  BY <1>1, <1>7, <1>8, <1>9, <1>10 DEF IInv, LinkInv

LEMMA MeshStep ==
  ASSUME IInv, NEW e \in Entries, Transmit(e) \/ Drop(e) \/ Reconnect(e)
  PROVE  IInv'
<1>1. TypeOK'
  BY MeshType DEF IInv
<1>2. /\ UNCHANGED <<next, watched, retryVars, started, armed, stateVars, tickVars>>
      /\ UNCHANGED attached
      /\ link[e] \in {"online", "offline"} /\ link'[e] \in {"online", "offline"}
      /\ \A f \in Entries : f # e => link'[f] = link[f]
  BY DEF Transmit, Drop, Reconnect, IInv, TypeOK
<1>3. AttachedOnce'
  BY <1>2 DEF IInv, LinkInv, AttachedOnce
<1>4. Detached' /\ OneRebuildEach'
  BY <1>2, RebuildsStay DEF IInv, LinkInv
<1>5. Running'
  BY <1>2, RunningKept DEF IInv, LinkInv, stateVars
<1>6. RetryInv'
  BY <1>2, RetryStays DEF IInv
<1>7. ASSUME NEW f \in Entries \ Socketed, link'[f] \in {"online", "offline"}
      PROVE  Lasting(f)
  <2>1. link[f] \in {"online", "offline"}
    BY <1>2, <1>7
  <2>2. CASE Transmit(e)
    <3>1. CASE f = e
      <4>1. sent[e] \in Int /\ sent'[e] = sent[e] + 1
        BY <2>2 DEF Transmit, IInv, TypeOK
      <4>2. QED  BY <2>1, <3>1, <4>1 DEF Lasting
    <3>2. CASE f # e
      BY <2>1, <2>2, <3>2 DEF Lasting, Transmit, IInv, TypeOK
    <3>3. QED  BY <3>1, <3>2
  <2>3. CASE Drop(e)
    BY <2>1, <2>3 DEF Lasting, Drop
  <2>4. CASE Reconnect(e)
    <3>1. sent'[f] = sent[f] /\ UNCHANGED <<silent, asked>>
      BY <1>7, <2>4 DEF Reconnect, IInv, TypeOK
    <3>2. QED  BY <2>1, <3>1 DEF Lasting
  <2>5. QED  BY <2>2, <2>3, <2>4
<1>8. SilenceInv'
  <2>1. Watched' = Watched
    BY <1>2 DEF Watched
  <2>2. QED  BY <1>1, <1>2, <1>7, <2>1, SilenceKept DEF IInv, stateVars
<1>9. QED  BY <1>1, <1>3, <1>4, <1>5, <1>6, <1>8 DEF IInv, LinkInv

\* What changes nothing but the retries and, perhaps, what is watched.
LEMMA QuietStep ==
  ASSUME IInv, TypeOK', RetryInv',
         UNCHANGED <<linkVars, started, armed, stateVars, tickVars>>,
         \A i \in DOMAIN watched : watched'[i] = watched[i],
         watched # <<>> => watched' # <<>>, Watched \subseteq Watched'
  PROVE  IInv'
<1>1. AttachedOnce'
  BY DEF IInv, LinkInv, AttachedOnce, linkVars
<1>2. Detached' /\ OneRebuildEach'
  <2>1. \A e \in Entries : link[e] = "removed" => link'[e] = "removed"
    BY DEF linkVars
  <2>2. QED  BY <2>1, RebuildsStay DEF IInv, LinkInv
<1>3. Running'
  BY RunningKept DEF IInv, LinkInv, stateVars
<1>4. SilenceInv'
  <2>1. \A e \in Entries : link'[e] \in {"online", "offline"} => Lasting(e)
    BY DEF Lasting, linkVars
  <2>2. QED  BY <2>1, SilenceKept DEF IInv, stateVars
<1>5. QED  BY <1>1, <1>2, <1>3, <1>4 DEF IInv, LinkInv

LEMMA StartRoundStep == ASSUME IInv, NEW r \in Rounds, StartRound(r) PROVE IInv'
<1>1. TypeOK' /\ RetryInv'
  BY StartRoundType, StartRoundRetry DEF IInv
<1>2. UNCHANGED <<linkVars, watched, started, armed, stateVars, tickVars>>
  BY DEF StartRound
<1>3. Watched' = Watched
  BY <1>2 DEF Watched
<1>4. QED  BY <1>1, <1>2, <1>3, QuietStep

LEMMA EndRoundStep == ASSUME IInv, NEW r \in Rounds, EndRound(r) PROVE IInv'
<1>1. TypeOK' /\ RetryInv'
  BY EndRoundType, EndRoundRetry DEF IInv
<1>2. /\ watched' = watched \o got[r]
      /\ UNCHANGED <<linkVars, started, armed, stateVars, tickVars>>
  BY DEF EndRound
<1>3. watched \in Seq(Entries) /\ got[r] \in Seq(Entries) /\ RetryTypes
  BY TypeParts DEF IInv, RetryTypes
<1>4. \A i \in DOMAIN watched : watched'[i] = watched[i]
  BY <1>2, <1>3, EndRoundWatched
<1>5. watched # <<>> => watched' # <<>>
  BY <1>2, <1>3
<1>6. Watched \subseteq Watched'
  <2>1. Elements(watched') = Elements(watched) \cup Elements(got[r])
    BY <1>2, <1>3, ConcatElements
  <2>2. Watched' = Elements(watched') /\ Watched = Elements(watched)
    BY DEF Watched, Elements
  <2>3. QED  BY <2>1, <2>2
<1>7. QED  BY <1>1, <1>2, <1>4, <1>5, <1>6, QuietStep

LEMMA AttemptStep ==
  ASSUME IInv, NEW r \in Rounds, NEW e \in Entries, Attempt(r, e) PROVE IInv'
<1>1. TypeOK' /\ RetryInv'
  BY AttemptType, AttemptRetry DEF IInv
<1>2. /\ UNCHANGED <<watched, started, armed, stateVars, tickVars>>
      /\ Attach(e) \/ UNCHANGED linkVars
      /\ e \in todo[r]
  BY DEF Attempt
<1>3. Watched' = Watched
  BY <1>2 DEF Watched
<1>4. link[e] = "none"
  BY <1>2 DEF IInv, RetryInv, Waiting
<1>5. CASE UNCHANGED linkVars
  BY <1>1, <1>2, <1>3, <1>5, QuietStep
<1>6. CASE Attach(e)
  <2>1. link'[e] = "online" /\ \A f \in Entries : f # e => link'[f] = link[f]
    BY <1>6, AttachLink DEF IInv
  <2>2. AttachedOnce'
    BY <1>4, <1>6, AttachKeepsOnce DEF IInv, LinkInv
  <2>3. Detached' /\ OneRebuildEach'
    BY <1>2, <1>4, <2>1, RebuildsStay DEF IInv, LinkInv
  <2>4. Running'
    BY <1>2, RunningKept DEF IInv, LinkInv, stateVars
  <2>5. ASSUME NEW f \in Entries \ Socketed, Alone(f), LabelOf[f] \in tracked,
               link'[f] \in {"online", "offline"}
        PROVE  Lasting(f)
    <3>1. f # e
      BY <1>4, <2>5, NewUntracked DEF IInv
    <3>2. link'[f] = link[f] /\ sent'[f] = sent[f] /\ silent'[f] = silent[f]
          /\ asked'[f] = asked[f]
      BY <1>6, <2>1, <3>1 DEF Attach, IInv, TypeOK
    <3>3. QED  BY <2>5, <3>2 DEF Lasting
  <2>6. SilenceInv'
    BY <1>1, <1>2, <1>3, <2>5, SilenceKept DEF IInv, stateVars
  <2>7. QED  BY <1>1, <2>2, <2>3, <2>4, <2>6 DEF IInv, LinkInv
<1>7. QED  BY <1>2, <1>5, <1>6

\* Neither time nor the watchdog adds an interface or takes one away here.
LEMMA LinksSame ==
  ASSUME IInv, UNCHANGED <<next, link, attached, watched, retryVars>>
  PROVE  /\ AttachedOnce' /\ RetryInv' /\ Watched' = Watched
         /\ UNCHANGED tickVars => Detached' /\ OneRebuildEach'
<1>1. AttachedOnce' /\ Watched' = Watched
  BY DEF IInv, LinkInv, AttachedOnce, Watched
<1>2. RetryInv'
  BY RetryStays DEF IInv
<1>3. ASSUME UNCHANGED tickVars PROVE Detached' /\ OneRebuildEach'
  BY <1>3, RebuildsStay DEF IInv, LinkInv
<1>4. QED  BY <1>1, <1>2, <1>3

LEMMA ArmStep == ASSUME IInv, Arm PROVE IInv'
<1>1. TypeOK'
  BY ArmType DEF IInv
<1>2. UNCHANGED <<next, link, attached, sent, silent, asked, watched, retryVars, quiet,
                  phase, tickVars>>
  BY DEF Arm, linkVars
<1>3. AttachedOnce' /\ RetryInv' /\ Watched' = Watched /\ Detached' /\ OneRebuildEach'
  BY <1>2, LinksSame
<1>4. started' = TRUE /\ (armed' => watched # <<>>)
      /\ tracked' = {LabelOf[watched[i]] : i \in DOMAIN watched} /\ tracked = {}
  BY DEF Arm, IInv, LinkInv, Running
<1>5. Running'
  BY <1>2, <1>4 DEF Running
<1>6. TrackedWatched' /\ Fresh'
  <2>1. tracked' = {LabelOf[e] : e \in Watched}
    BY <1>4 DEF Watched
  <2>2. QED  BY <1>2, <1>3, <1>4, <2>1 DEF IInv, SilenceInv, TrackedWatched, Fresh
<1>7. ASSUME NEW e \in Entries \ Socketed, Alone(e), LabelOf[e] \in tracked'
      PROVE  Sampled(e)'
  <2> DEFINE l == LabelOf[e]
             Places == {i \in DOMAIN watched : LabelOf[watched[i]] = l}
             Last == CHOOSE i \in Places : \A j \in Places : j <= i
  <2>1. l \in Labels /\ \A i \in DOMAIN watched : watched[i] \in Entries
    BY EntriesAssumption DEF IInv, TypeOK
  <2>2. Places # {}
    BY <1>4, <1>7
  <2>3. counter'[l] = sent[watched[Last]]
    BY <2>1, <2>2 DEF Arm
  <2>4. Last \in Places
    <3>1. Len(watched) \in Nat /\ Places \subseteq 1..Len(watched)
      BY DEF IInv, TypeOK
    <3>2. \E i \in Places : \A j \in Places : j <= i
      BY <2>2, <3>1, LastExists
    <3>3. QED  BY <3>2
  <2>5. watched[Last] = e
    BY <1>7, <2>1, <2>4 DEF Alone
  <2>6. counter'[l] = sent'[e] /\ sent'[e] \in Int
    BY <1>1, <1>2, <2>3, <2>5 DEF TypeOK
  <2>7. quiet'[l] = 0 /\ phase'[l] = "ok" /\ silent'[e] \in Nat
    BY <1>1, <1>2, <1>4, <2>1 DEF IInv, SilenceInv, Fresh, TypeOK
  <2>8. QED  BY <2>6, <2>7 DEF Sampled
<1>8. SilenceInv'
  BY <1>6, <1>7 DEF SilenceInv, Alone
<1>9. QED  BY <1>1, <1>3, <1>5, <1>8 DEF IInv, LinkInv

LEMMA LeastMonotone ==
  ASSUME NEW m \in Nat, NEW i \in 0..m, NEW j \in 0..m, i <= j
  PROVE  Least(i + 1, m) <= Least(j + 1, m)
BY DEF Least

LEMMA AdvanceStep == ASSUME IInv, Advance PROVE IInv'
<1>1. TypeOK'
  BY AdvanceType DEF IInv
<1>2. UNCHANGED <<next, link, attached, sent, watched, retryVars, started, armed,
                  tracked, counter, phase, tickVars, asked>>
  BY DEF Advance
<1>3. AttachedOnce' /\ RetryInv' /\ Watched' = Watched /\ Detached' /\ OneRebuildEach'
  BY <1>2, LinksSame
<1>4. Running'
  BY <1>2, RunningKept DEF IInv, LinkInv
<1>5. \A l \in Labels :
        quiet'[l] = IF l \in tracked THEN Least(quiet[l] + 1, Window) ELSE quiet[l]
  BY DEF Advance
<1>6. \A e \in Entries : attached[e] > 0 => silent'[e] = Least(silent[e] + 1, Window)
  BY DEF Advance
<1>7. TrackedWatched' /\ Fresh'
  BY <1>2, <1>3, <1>5 DEF IInv, SilenceInv, TrackedWatched, Fresh
<1>8. ASSUME NEW e \in Entries \ Socketed, Alone(e), LabelOf[e] \in tracked,
             link[e] \in {"online", "offline"}
      PROVE  Sampled(e)'
  <2> DEFINE l == LabelOf[e]
  <2>1. l \in Labels /\ attached[e] > 0
    BY <1>8, EntriesAssumption DEF IInv, LinkInv, AttachedOnce
  <2>2. Sampled(e)
    BY <1>8 DEF IInv, SilenceInv
  <2>3. quiet[l] \in 0..Window /\ silent[e] \in 0..Window /\ Window \in Nat
    BY <2>1, Bounds DEF IInv, TypeOK
  <2>4. quiet'[l] = Least(quiet[l] + 1, Window) /\ silent'[e] = Least(silent[e] + 1, Window)
    BY <1>5, <1>6, <1>8, <2>1
  <2>5. quiet[l] <= silent[e] => quiet'[l] <= silent'[e]
    BY <2>3, <2>4, LeastMonotone
  <2>6. QED  BY <1>2, <2>2, <2>5 DEF Sampled
<1>9. SilenceInv'
  BY <1>2, <1>7, <1>8 DEF SilenceInv, Alone
<1>10. QED  BY <1>1, <1>3, <1>4, <1>9 DEF IInv, LinkInv

LEMMA PollStep == ASSUME IInv, NEW t \in Ticks, Poll(t) PROVE IInv'
<1>1. armed /\ watched # <<>>
  BY DEF Poll, IInv, LinkInv, Running
<1>2. TypeOK'
  BY <1>1, PollType DEF IInv
<1>3. UNCHANGED <<next, linkVars, link, attached, sent, silent, asked, watched, retryVars,
                  started, armed, tracked, counter, quiet, phase>>
  BY DEF Poll, linkVars, stateVars
<1>4. AttachedOnce' /\ RetryInv' /\ Watched' = Watched
  BY <1>3, LinksSame
<1>5. /\ doing'[t] # "swap"
      /\ \A u \in Ticks : u # t => doing'[u] = doing[u] /\ at'[u] = at[u]
  BY DEF Poll, IInv, TypeOK
<1>6. Detached' /\ OneRebuildEach'
  <2>1. \A u \in Ticks : doing[u] = "swap" => link'[Visited(u)] = "removed"
    BY <1>3 DEF IInv, LinkInv, Detached
  <2>2. QED  BY <1>3, <1>5, <2>1, RebuildsOfOthers DEF IInv, LinkInv
<1>7. Running'
  BY <1>1, <1>3, RunningStays DEF IInv, LinkInv
<1>8. SilenceInv'
  <2>1. \A e \in Entries : link'[e] \in {"online", "offline"} => Lasting(e)
    BY <1>3 DEF Lasting
  <2>2. QED  BY <1>2, <1>3, <1>4, <2>1, SilenceKept DEF IInv
<1>9. QED  BY <1>2, <1>4, <1>6, <1>7, <1>8 DEF IInv, LinkInv

LEMMA ProceedingStep ==
  ASSUME IInv, NEW t \in Ticks, VisitQuiet(t) \/ Probed(t) PROVE IInv'
<1>1. TypeOK'
  BY ProceedingType DEF IInv
<1>2. doing[t] # "idle" /\ Proceed(t)
      /\ UNCHANGED <<next, linkVars, link, attached, sent, silent, asked, watched, retryVars,
                     started, armed, tracked, counter, quiet, phase>>
  BY DEF VisitQuiet, Probed, linkVars, stateVars
<1>3. AttachedOnce' /\ RetryInv' /\ Watched' = Watched
  BY <1>2, LinksSame
<1>4. /\ doing'[t] # "swap"
      /\ \A u \in Ticks : u # t => doing'[u] = doing[u] /\ at'[u] = at[u]
  BY <1>2, ProceedMoves DEF IInv
<1>5. Detached' /\ OneRebuildEach'
  <2>1. \A u \in Ticks : doing[u] = "swap" => link'[Visited(u)] = "removed"
    BY <1>2 DEF IInv, LinkInv, Detached
  <2>2. QED  BY <1>2, <1>4, <2>1, RebuildsOfOthers DEF IInv, LinkInv
<1>6. Running'
  BY <1>2, RunningStays DEF IInv, LinkInv
<1>7. SilenceInv'
  <2>1. \A e \in Entries : link'[e] \in {"online", "offline"} => Lasting(e)
    BY <1>2 DEF Lasting
  <2>2. QED  BY <1>1, <1>2, <1>3, <2>1, SilenceKept DEF IInv
<1>8. QED  BY <1>1, <1>3, <1>5, <1>6, <1>7 DEF IInv, LinkInv

\* A new window of one label.
LEMMA RebaseAt ==
  ASSUME TypeOK, NEW l \in Labels, NEW bytes, Rebase(l, bytes)
  PROVE  /\ counter'[l] = bytes /\ quiet'[l] = 0 /\ phase'[l] = "ok"
         /\ \A k \in Labels : k # l =>
              counter'[k] = counter[k] /\ quiet'[k] = quiet[k] /\ phase'[k] = phase[k]
BY DEF TypeOK, Rebase

LEMMA VisitWellStep == ASSUME IInv, NEW t \in Ticks, VisitWell(t) PROVE IInv'
<1> DEFINE e == Visited(t)
           l == LabelOf[e]
<1>1. TypeOK'
  BY VisitWellType DEF IInv
<1>2. doing[t] # "idle" /\ Proceed(t) /\ tracked' = tracked \cup {l} /\ Rebase(l, sent[e])
      /\ UNCHANGED <<next, link, attached, sent, silent, asked, watched, retryVars,
                     started, armed>>
  BY DEF VisitWell, linkVars
<1>3. AttachedOnce' /\ RetryInv' /\ Watched' = Watched
  BY <1>2, LinksSame
<1>4. /\ doing'[t] # "swap"
      /\ \A u \in Ticks : u # t => doing'[u] = doing[u] /\ at'[u] = at[u]
  BY <1>2, ProceedMoves DEF IInv
<1>5. Detached' /\ OneRebuildEach'
  <2>1. \A u \in Ticks : doing[u] = "swap" => link'[Visited(u)] = "removed"
    BY <1>2 DEF IInv, LinkInv, Detached
  <2>2. QED  BY <1>2, <1>4, <2>1, RebuildsOfOthers DEF IInv, LinkInv
<1>6. Running'
  BY <1>2, RunningStays DEF IInv, LinkInv
<1>7. e \in Entries /\ l \in Labels /\ e \in Watched
  <2>1. at[t] \in 1..Len(watched) /\ e \in Entries /\ l \in Labels
    BY <1>2, VisitedType DEF IInv
  <2>2. QED  BY <2>1 DEF Visited, Watched, IInv, TypeOK
<1> HIDE DEF e
<1>8. /\ counter'[l] = sent[e] /\ quiet'[l] = 0 /\ phase'[l] = "ok"
      /\ \A k \in Labels : k # l =>
           counter'[k] = counter[k] /\ quiet'[k] = quiet[k] /\ phase'[k] = phase[k]
  BY <1>2, <1>7, RebaseAt DEF IInv
<1>9. TrackedWatched' /\ Fresh'
  BY <1>2, <1>3, <1>7, <1>8 DEF IInv, SilenceInv, TrackedWatched, Fresh
<1>10. ASSUME NEW f \in Entries \ Socketed, Alone(f), LabelOf[f] \in tracked',
              link'[f] \in {"online", "offline"}
       PROVE  Sampled(f)'
  <2>1. CASE f = e
    <3>1. sent[e] \in Int /\ silent[e] \in Nat
      BY <1>7, Bounds DEF IInv, TypeOK
    <3>2. QED  BY <1>2, <1>8, <2>1, <3>1 DEF Sampled
  <2>2. CASE f # e
    <3>1. LabelOf[f] # l /\ LabelOf[f] \in Labels
      BY <1>7, <1>10, <2>2, EntriesAssumption DEF Alone
    <3>2. Sampled(f)
      BY <1>2, <1>10, <3>1 DEF IInv, SilenceInv
    <3>3. QED  BY <1>2, <1>8, <3>1, <3>2 DEF Sampled
  <2>3. QED  BY <2>1, <2>2
<1>11. SilenceInv'
  BY <1>9, <1>10 DEF SilenceInv, Alone
<1>12. QED  BY <1>1, <1>3, <1>5, <1>6, <1>11 DEF IInv, LinkInv

LEMMA VisitStalledStep == ASSUME IInv, NEW t \in Ticks, VisitStalled(t) PROVE IInv'
<1> DEFINE l == LabelOf[Visited(t)]
<1>1. TypeOK'
  BY VisitStalledType DEF IInv
<1>2. /\ doing[t] = "scan" /\ ~Well(Visited(t))
      /\ phase' = [phase EXCEPT ![l] = "probing"] /\ asked' = [e \in Entries |-> TRUE]
      /\ Await(t, "probe")
      /\ UNCHANGED <<next, link, attached, sent, silent, watched, retryVars, started,
                     armed, tracked, counter, quiet>>
  BY DEF VisitStalled
<1>3. AttachedOnce' /\ RetryInv' /\ Watched' = Watched
  BY <1>2, LinksSame
<1>4. /\ doing'[t] # "swap"
      /\ \A u \in Ticks : u # t => doing'[u] = doing[u] /\ at'[u] = at[u]
  BY <1>2, AwaitMoves DEF IInv
<1>5. Detached' /\ OneRebuildEach'
  <2>1. \A u \in Ticks : doing[u] = "swap" => link'[Visited(u)] = "removed"
    BY <1>2 DEF IInv, LinkInv, Detached
  <2>2. QED  BY <1>2, <1>4, <2>1, RebuildsOfOthers DEF IInv, LinkInv
<1>6. Running'
  BY <1>2, RunningStays DEF IInv, LinkInv
<1>7. l \in tracked
  BY <1>2 DEF Well
<1>8. TrackedWatched' /\ Fresh'
  <2>1. \A k \in Labels : k # l => phase'[k] = phase[k]
    BY <1>2 DEF IInv, TypeOK
  <2>2. QED  BY <1>2, <1>3, <1>7, <2>1 DEF IInv, SilenceInv, TrackedWatched, Fresh
<1>9. ASSUME NEW e \in Entries \ Socketed, Alone(e), LabelOf[e] \in tracked,
             link[e] \in {"online", "offline"}
      PROVE  Sampled(e)'
  <2>1. Sampled(e) /\ asked'[e]
    BY <1>2, <1>9 DEF IInv, SilenceInv
  <2>2. QED  BY <1>2, <2>1 DEF Sampled
<1>10. SilenceInv'
  BY <1>2, <1>8, <1>9 DEF SilenceInv, Alone
<1>11. QED  BY <1>1, <1>3, <1>5, <1>6, <1>10 DEF IInv, LinkInv

LEMMA VisitFrozenStep == ASSUME IInv, NEW t \in Ticks, VisitFrozen(t) PROVE IInv'
<1> DEFINE e == Visited(t)
<1>1. TypeOK'
  BY VisitFrozenType DEF IInv, LinkInv
<1>2. /\ doing[t] = "scan" /\ ~Well(e) /\ Detach(e) /\ Await(t, "swap")
      /\ UNCHANGED <<next, watched, retryVars, started, armed, tracked, counter, quiet, phase>>
  BY DEF VisitFrozen, stateVars
<1>3. e \in Entries
  BY <1>2, VisitedType DEF IInv
<1>4. \A u \in Ticks : Visited(u)' = Visited(u)
  BY <1>2 DEF Await, Visited
<1> HIDE DEF e
<1>5. link[e] = "online" /\ attached[e] = 1
  BY <1>2, <1>3 DEF Well, IInv, LinkInv, AttachedOnce
<1>6. /\ link'[e] = "removed" /\ attached'[e] = 0
      /\ \A f \in Entries : f # e =>
           /\ link'[f] = link[f] /\ attached'[f] = attached[f] /\ sent'[f] = sent[f]
           /\ silent'[f] = silent[f] /\ asked'[f] = asked[f]
  BY <1>2, <1>3, <1>5 DEF Detach, IInv, TypeOK
<1>7. AttachedOnce'
  BY <1>6 DEF IInv, LinkInv, AttachedOnce
<1>8. /\ doing'[t] = "swap"
      /\ \A u \in Ticks : u # t => doing'[u] = doing[u]
  BY <1>2, AwaitMoves DEF IInv
<1>9. Detached' /\ OneRebuildEach'
  <2>1. \A u \in Ticks : u # t /\ doing[u] = "swap" =>
          Visited(u) \in Entries /\ Visited(u) # e /\ link'[Visited(u)] = "removed"
    <3> SUFFICES ASSUME NEW u \in Ticks, u # t, doing[u] = "swap"
                 PROVE  Visited(u) \in Entries /\ Visited(u) # e
                        /\ link'[Visited(u)] = "removed"
      OBVIOUS
    <3>1. Visited(u) \in Entries
      BY VisitedType DEF IInv
    <3>2. link[Visited(u)] = "removed"
      BY DEF IInv, LinkInv, Detached
    <3>3. QED  BY <1>5, <1>6, <3>1, <3>2
  <2>2. Detached'
    BY <1>4, <1>6, <1>8, <2>1 DEF Detached, e
  <2>3. OneRebuildEach'
    BY <1>4, <1>8, <2>1 DEF IInv, LinkInv, OneRebuildEach, e
  <2>4. QED  BY <2>2, <2>3
<1>10. Running'
  BY <1>2, RunningStays DEF IInv, LinkInv
<1>11. RetryInv'
  <2>1. \A f \in Entries : link'[f] = "none" <=> link[f] = "none"
    BY <1>5, <1>6
  <2>2. QED  BY <1>2, <2>1, RetryStays DEF IInv
<1>12. SilenceInv'
  <2>1. \A f \in Entries : link'[f] \in {"online", "offline"} => Lasting(f)
    BY <1>6 DEF Lasting
  <2>2. Watched' = Watched
    BY <1>2 DEF Watched
  <2>3. QED  BY <1>1, <1>2, <2>1, <2>2, SilenceKept DEF IInv
<1>13. QED  BY <1>1, <1>7, <1>9, <1>10, <1>11, <1>12 DEF IInv, LinkInv

LEMMA RebuiltStep == ASSUME IInv, NEW t \in Ticks, Rebuilt(t) PROVE IInv'
<1> DEFINE e == Visited(t)
           l == LabelOf[e]
<1>1. TypeOK'
  BY RebuiltType DEF IInv
<1>2. /\ doing[t] = "swap" /\ Proceed(t)
      /\ \/ Attach(e) /\ Rebase(l, 0)
         \/ Rebase(l, sent[e]) /\ UNCHANGED linkVars
         \/ Rebase(l, counter[l]) /\ UNCHANGED linkVars
      /\ UNCHANGED <<next, watched, retryVars, started, armed, tracked>>
  BY DEF Rebuilt
<1>3. e \in Entries /\ l \in Labels /\ e \in Watched
  <2>1. at[t] \in 1..Len(watched) /\ e \in Entries /\ l \in Labels
    BY <1>2, VisitedType DEF IInv
  <2>2. QED  BY <2>1 DEF Visited, Watched, IInv, TypeOK
<1>4. link[e] = "removed"
  BY <1>2 DEF IInv, LinkInv, Detached
<1>5. \A u \in Ticks : u # t /\ doing[u] = "swap" => Visited(u) # e
  BY <1>2 DEF IInv, LinkInv, OneRebuildEach
<1> HIDE DEF e
<1>6. PICK bytes : Rebase(l, bytes)
  BY <1>2
<1>7. /\ quiet'[l] = 0 /\ phase'[l] = "ok"
      /\ \A k \in Labels : k # l =>
           counter'[k] = counter[k] /\ quiet'[k] = quiet[k] /\ phase'[k] = phase[k]
  BY <1>3, <1>6, RebaseAt DEF IInv
<1>8. /\ Attach(e) \/ UNCHANGED linkVars
      /\ \A f \in Entries : f # e =>
           /\ link'[f] = link[f] /\ attached'[f] = attached[f] /\ sent'[f] = sent[f]
           /\ silent'[f] = silent[f] /\ asked'[f] = asked[f]
  BY <1>2, <1>3 DEF Attach, linkVars, IInv, TypeOK
<1>9. /\ link'[e] # "none"
      /\ link'[e] \in {"online", "offline"} =>
           /\ sent'[e] = 0 /\ silent'[e] = 0 /\ counter'[l] = 0
  <2>1. CASE Attach(e) /\ Rebase(l, 0)
    <3>1. link'[e] = "online" /\ sent'[e] = 0 /\ silent'[e] = 0
      BY <1>3, <2>1 DEF Attach, IInv, TypeOK
    <3>2. counter'[l] = 0
      BY <1>3, <2>1, RebaseAt DEF IInv
    <3>3. QED  BY <3>1, <3>2
  <2>2. CASE UNCHANGED linkVars
    BY <1>4, <2>2 DEF linkVars
  <2>3. QED  BY <1>2, <2>1, <2>2
<1>10. AttachedOnce'
  BY <1>3, <1>4, <1>8, AttachKeepsOnce DEF IInv, LinkInv, AttachedOnce, linkVars
<1>11. /\ doing'[t] # "swap"
       /\ \A u \in Ticks : u # t => doing'[u] = doing[u] /\ at'[u] = at[u]
  BY <1>2, ProceedMoves DEF IInv
<1>12. Detached' /\ OneRebuildEach'
  <2>1. \A u \in Ticks : u # t /\ doing[u] = "swap" => link'[Visited(u)] = "removed"
    <3> SUFFICES ASSUME NEW u \in Ticks, u # t, doing[u] = "swap"
                 PROVE  link'[Visited(u)] = "removed"
      OBVIOUS
    <3>1. Visited(u) \in Entries /\ Visited(u) # e
      BY <1>5, VisitedType DEF IInv
    <3>2. QED  BY <1>8, <3>1 DEF IInv, LinkInv, Detached
  <2>2. QED  BY <1>2, <1>11, <2>1, RebuildsOfOthers DEF IInv, LinkInv
<1>13. Running'
  BY <1>2, RunningStays DEF IInv, LinkInv
<1>14. RetryInv'
  <2>1. \A f \in Entries : link'[f] = "none" <=> link[f] = "none"
    BY <1>4, <1>8, <1>9
  <2>2. QED  BY <1>2, <2>1, RetryStays DEF IInv
<1>15. TrackedWatched' /\ Fresh'
  <2>1. Watched' = Watched
    BY <1>2 DEF Watched
  <2>2. QED  BY <1>2, <1>7, <2>1 DEF IInv, SilenceInv, TrackedWatched, Fresh
<1>16. ASSUME NEW f \in Entries \ Socketed, Alone(f), LabelOf[f] \in tracked,
              link'[f] \in {"online", "offline"}
       PROVE  Sampled(f)'
  <2>1. CASE f = e
    BY <1>7, <1>9, <1>16, <2>1 DEF Sampled
  <2>2. CASE f # e
    <3>1. LabelOf[f] # l /\ LabelOf[f] \in Labels
      BY <1>3, <1>16, <2>2, EntriesAssumption DEF Alone
    <3>2. Sampled(f)
      BY <1>8, <1>16, <2>2 DEF IInv, SilenceInv
    <3>3. QED  BY <1>7, <1>8, <2>2, <3>1, <3>2 DEF Sampled
  <2>3. QED  BY <2>1, <2>2
<1>17. SilenceInv'
  BY <1>2, <1>15, <1>16 DEF SilenceInv, Alone
<1>18. QED  BY <1>1, <1>10, <1>12, <1>13, <1>14, <1>17 DEF IInv, LinkInv

LEMMA StutterStep == ASSUME IInv, UNCHANGED vars PROVE IInv'
<1>1. UNCHANGED <<next, linkVars, watched, retryVars, started, armed, stateVars, tickVars, due>>
  BY DEF vars
<1>2. TypeOK'
  BY <1>1 DEF IInv, TypeOK, linkVars, retryVars, stateVars, tickVars
<1>3. RetryInv'
  <2>1. \A e \in Entries : link'[e] = "none" <=> link[e] = "none"
    BY <1>1 DEF linkVars
  <2>2. QED  BY <1>1, <2>1, RetryStays DEF IInv
<1>4. Watched' = Watched
  BY <1>1 DEF Watched
<1>5. QED  BY <1>1, <1>2, <1>3, <1>4, QuietStep

LEMMA NextInv == IInv /\ [Next]_vars => IInv'
<1> SUFFICES ASSUME IInv, [Next]_vars PROVE IInv'
  OBVIOUS
<1>1. CASE BringUp
  BY <1>1, BringUpStep
<1>2. CASE Arm
  BY <1>2, ArmStep
<1>3. CASE Advance
  BY <1>3, AdvanceStep
<1>4. CASE \E e \in Entries : Transmit(e) \/ Drop(e) \/ Reconnect(e)
  BY <1>4, MeshStep
<1>5. CASE \E r \in Rounds : StartRound(r)
  BY <1>5, StartRoundStep
<1>6. CASE \E r \in Rounds : EndRound(r)
  BY <1>6, EndRoundStep
<1>7. CASE \E r \in Rounds, e \in Entries : Attempt(r, e)
  BY <1>7, AttemptStep
<1>8. CASE \E t \in Ticks : Poll(t)
  BY <1>8, PollStep
<1>9. CASE \E t \in Ticks : VisitWell(t)
  BY <1>9, VisitWellStep
<1>10. CASE \E t \in Ticks : VisitStalled(t)
  BY <1>10, VisitStalledStep
<1>11. CASE \E t \in Ticks : VisitFrozen(t)
  BY <1>11, VisitFrozenStep
<1>12. CASE \E t \in Ticks : VisitQuiet(t) \/ Probed(t)
  BY <1>12, ProceedingStep
<1>13. CASE \E t \in Ticks : Rebuilt(t)
  BY <1>13, RebuiltStep
<1>14. CASE UNCHANGED vars
  BY <1>14, StutterStep
<1>15. QED
  BY <1>1, <1>2, <1>3, <1>4, <1>5, <1>6, <1>7, <1>8, <1>9, <1>10, <1>11, <1>12, <1>13,
     <1>14 DEF Next, Visit

LEMMA Invariance == Spec => []IInv
BY InitInv, NextInv, PTL DEF Spec

-----------------------------------------------------------------------------
(* The theorems. *)

\* Every variable has its type; in particular every tick stands at a watched
\* interface, although the list grows under it.
THEOREM TypeCorrect == Spec => []TypeOK
<1>1. IInv => TypeOK
  BY DEF IInv
<1>2. QED  BY <1>1, Invariance, PTL

\* The node never holds two interfaces of one entry.
THEOREM HeldOnce == Spec => []AttachedOnce
<1>1. IInv => AttachedOnce
  BY DEF IInv, LinkInv
<1>2. QED  BY <1>1, Invariance, PTL

\* Overlapping ticks never rebuild the same interface.
THEOREM RebuiltOnce == Spec => []OneRebuildEach
<1>1. IInv => OneRebuildEach
  BY DEF IInv, LinkInv
<1>2. QED  BY <1>1, Invariance, PTL

\* Neither an interface of an entry nor a rebuild of an interface is ever doubled.
THEOREM NothingDoubled == Spec => []OneOfEach
BY HeldOnce, RebuiltOnce, PTL DEF OneOfEach

\* Overlapping rounds of retries forget no interface.
THEOREM AllRemembered == Spec => []NoneForgotten
<1>1. IInv => NoneForgotten
  BY DEF IInv, RetryInv
<1>2. QED  BY <1>1, Invariance, PTL

\* The only step that takes down an interface that is up.
LEMMA RecycledByTick ==
  ASSUME IInv, [Next]_vars, NEW e \in Entries, Recycled(e)
  PROVE  \E t \in Ticks : VisitFrozen(t) /\ Visited(t) = e
<1>1. link[e] = "online" /\ link'[e] = "removed"
  BY DEF Recycled
<1>2. link' # link
  BY <1>1
<1>3. \A f \in Entries : ~Attach(f)
  BY <1>1, AttachLink DEF IInv
<1>4. ~BringUp
  BY <1>2, <1>3 DEF BringUp, linkVars
<1>6. ~Arm /\ ~Advance
  BY <1>2 DEF Arm, Advance, linkVars
<1>7. \A f \in Entries : ~Transmit(f) /\ ~Drop(f) /\ ~Reconnect(f)
  BY <1>1 DEF Transmit, Drop, Reconnect, IInv, TypeOK
<1>8. \A r \in Rounds : ~StartRound(r) /\ ~EndRound(r) /\ \A f \in Entries : ~Attempt(r, f)
  BY <1>2, <1>3 DEF StartRound, EndRound, Attempt, linkVars
<1>9. \A t \in Ticks : ~Poll(t) /\ ~VisitWell(t) /\ ~VisitStalled(t) /\ ~VisitQuiet(t)
                       /\ ~Probed(t)
  BY <1>2 DEF Poll, VisitWell, VisitStalled, VisitQuiet, Probed, linkVars
<1>10. \A t \in Ticks : ~Rebuilt(t)
  <2> SUFFICES ASSUME NEW t \in Ticks, Rebuilt(t) PROVE FALSE
    OBVIOUS
  <2>1. doing[t] = "swap" /\ (Attach(Visited(t)) \/ UNCHANGED linkVars)
    BY DEF Rebuilt
  <2>2. Visited(t) \in Entries
    BY <2>1, VisitedType DEF IInv
  <2>3. QED  BY <1>2, <1>3, <2>1, <2>2 DEF linkVars
<1>11. PICK t \in Ticks : VisitFrozen(t)
  BY <1>2, <1>4, <1>6, <1>7, <1>8, <1>9, <1>10 DEF Next, Visit, vars, linkVars
<1>12. Visited(t) = e
  <2>1. Detach(Visited(t))
    BY <1>11 DEF VisitFrozen
  <2>2. Visited(t) # e => link'[e] = link[e]
    BY <2>1 DEF Detach, IInv, TypeOK
  <2>3. QED  BY <1>1, <2>2
<1>13. QED  BY <1>11, <1>12

LEMMA SilentStep ==
  ASSUME IInv, [Next]_vars, NEW e \in Entries \ Socketed, Alone(e), Recycled(e)
  PROVE  silent[e] >= Window /\ asked[e]
<1>1. PICK t \in Ticks : VisitFrozen(t) /\ Visited(t) = e
  BY RecycledByTick
<1> DEFINE l == LabelOf[e]
<1>2. ~Well(e) /\ Frozen(l)
  BY <1>1 DEF VisitFrozen
<1>3. l \in Labels /\ counter[l] \in Int /\ sent[e] \in Int /\ quiet[l] \in Int
      /\ silent[e] \in Int /\ Window \in Int
  BY EntriesAssumption, Bounds DEF IInv, TypeOK
<1>4. l \in tracked /\ link[e] = "online" /\ sent[e] <= counter[l]
  BY <1>2, <1>3 DEF Well
<1>5. Sampled(e)
  BY <1>4 DEF IInv, SilenceInv
<1>6. quiet[l] <= silent[e] /\ (phase[l] = "probing" => asked[e])
  BY <1>3, <1>4, <1>5 DEF Sampled
<1>7. QED  BY <1>2, <1>3, <1>6 DEF Frozen

\* An interface alone under its label is recycled only after a window of
\* silence in which everything was re-announced, however late the ticks come.
THEOREM RecycledOnlyIfSilent == Spec => OnlySilentRecycled
<1>1. IInv /\ [Next]_vars =>
        [\A e \in Entries \ Socketed :
           Alone(e) /\ Recycled(e) => silent[e] >= Window /\ asked[e]]_vars
  BY SilentStep
<1>2. QED  BY <1>1, Invariance, PTL DEF Spec, OnlySilentRecycled
=============================================================================
