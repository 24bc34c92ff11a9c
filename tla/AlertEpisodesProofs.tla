------------------------ MODULE AlertEpisodesProofs ------------------------
(***************************************************************************)
(* Proofs about AlertEpisodes, for any set of paths, any crew, any window  *)
(* and any bounds.  The inductive invariant is TypeOK /\ EpisodeMirrorsBus:*)
(* the decisions the code takes on an episode can be read as decisions on  *)
(* what the bus has shown, which is what both action properties speak of.  *)
(***************************************************************************)
EXTENDS AlertEpisodes, TLAPS

USE DebounceAssumption, MaxSendAssumption

-----------------------------------------------------------------------------
LEMMA LoopAtType ==
  ASSUME now \in Nat, NEW msgs \in SUBSET Message, NEW crew \in CrewLists,
         NEW k \in Nat \ {0}
  PROVE  LoopAt(msgs, crew, k) \in Loop /\ LoopAt(msgs, crew, k).msgs = msgs
BY DEF LoopAt, Loop, Times

\* A loop that moves on stays a loop over the same crew, with messages it had.
LEMMA AdvancedType ==
  ASSUME now \in Nat, NEW l \in Loop, NEW m
  PROVE  /\ Advanced(l, m) \subseteq Loop
         /\ \A k \in Advanced(l, m) : k.msgs \subseteq l.msgs
<1>1. l.crew \in CrewLists /\ l.next + 1 \in Nat \ {0} /\ 1 \in Nat \ {0}
  BY DEF Loop
<1>2. l.msgs \in SUBSET Message /\ l.msgs \ {m} \in SUBSET Message
  BY DEF Loop
<1>3. QED  BY <1>1, <1>2, LoopAtType DEF Advanced

\* LoopsWith adds at most one loop, which holds exactly the messages given.
LEMMA LoopsWithType ==
  ASSUME TypeOK, NEW msgs \in SUBSET Message
  PROVE  /\ LoopsWith(msgs) \subseteq Loop
         /\ \A l \in LoopsWith(msgs) : l \in loops \/ l.msgs = msgs
<1>1. config.crew \in CrewLists /\ 1 \in Nat \ {0}
  BY DEF TypeOK, Config
<1>2. QED  BY <1>1, LoopAtType DEF LoopsWith, TypeOK

\* A loop whose delivery hangs keeps what it had to send, and to whom.
LEMMA HungType ==
  ASSUME NEW l \in Loop
  PROVE  /\ [l EXCEPT !.due = Never] \in Loop
         /\ [l EXCEPT !.due = Never].msgs = l.msgs
         /\ [l EXCEPT !.due = Never].crew = l.crew
         /\ [l EXCEPT !.due = Never].next = l.next
         /\ [l EXCEPT !.due = Never].due = Never
BY DEF Loop, Times

LEMMA NoEpisodeType == NoEpisode \in Episode
BY DEF NoEpisode, Episode, Times, Never

\* The messages of a sweep are messages.
LEMMA ClearMessages ==
  ASSUME TypeOK
  PROVE  {Clear(p, episodes[p].id) : p \in Expired} \in SUBSET Message
BY DEF TypeOK, Expired, Clear, Message, Episode

-----------------------------------------------------------------------------
\* Init establishes the types.
LEMMA InitType == Init => TypeOK
<1> SUFFICES ASSUME Init PROVE TypeOK
  OBVIOUS
<1>1. episodes \in [Paths -> Episode]  BY NoEpisodeType DEF Init
<1>2. alertEnded \in [Paths -> Times]  BY DEF Init, Times
<1>3. bus \in [Paths -> {"none", "normal", "alert"}]  BY DEF Init
<1>4. QED  BY <1>1, <1>2, <1>3 DEF Init, TypeOK

\* Every action preserves the types.
LEMMA NextType == TypeOK /\ [Next]_vars => TypeOK'
<1> SUFFICES ASSUME TypeOK, [Next]_vars PROVE TypeOK'
  OBVIOUS
<1>1. ASSUME NEW c \in Config, Start(c) PROVE TypeOK'
  BY <1>1 DEF TypeOK, Start
<1>2. ASSUME Stop PROVE TypeOK'
  BY <1>2, NoEpisodeType DEF TypeOK, Stop, Times
<1>3. ASSUME Tick PROVE TypeOK'
  BY <1>3 DEF TypeOK, Tick
<1>4. ASSUME NEW p \in Paths, PublishAlert(p) PROVE TypeOK'
  <2>1. /\ episodes' \in [Paths -> Episode]
        /\ opened' \in Nat
        /\ loops' \subseteq Loop
    <3>1. CASE ~Forwarding
      BY <1>4, <3>1 DEF TypeOK, PublishAlert, Ignored
    <3>2. CASE OpenEpisode(p)
      <4>1. [id |-> opened + 1, startTime |-> now, transitions |-> 1,
             clearedSince |-> Never] \in Episode
        BY DEF TypeOK, Episode, Times
      <4>2. {Alert(p, opened + 1)} \in SUBSET Message
        BY DEF TypeOK, Alert, Message
      <4>3. QED  BY <3>2, <4>1, <4>2, LoopsWithType DEF TypeOK, OpenEpisode
    <3>3. CASE ContinueEpisode(p)
      <4>1. Reopened(episodes[p]) \in Episode
        BY DEF TypeOK, Episode, Times, Reopened
      <4>2. QED  BY <3>3, <4>1 DEF TypeOK, ContinueEpisode
    <3>4. QED  BY <1>4, <3>1, <3>2, <3>3 DEF PublishAlert
  <2>2. QED  BY <1>4, <2>1 DEF TypeOK, PublishAlert
<1>5. ASSUME NEW p \in Paths, PublishNormal(p) PROVE TypeOK'
  <2>1. episodes' \in [Paths -> Episode] /\ UNCHANGED <<opened, loops>>
    BY <1>5 DEF TypeOK, PublishNormal, BeginClearing, Ignored, Episode, Times
  <2>2. alertEnded' \in [Paths -> Times]
    BY <1>5 DEF TypeOK, PublishNormal, Times
  <2>3. QED  BY <1>5, <2>1, <2>2 DEF TypeOK, PublishNormal
<1>6. ASSUME Sweep PROVE TypeOK'
  <2>1. episodes' \in [Paths -> Episode]
    BY <1>6, NoEpisodeType DEF TypeOK, Sweep
  <2>2. loops' \subseteq Loop
    BY <1>6, ClearMessages, LoopsWithType DEF TypeOK, Sweep
  <2>3. QED  BY <1>6, <2>1, <2>2 DEF TypeOK, Sweep
<1>7. ASSUME NEW l \in loops, NEW m \in l.msgs, Settle(l, m) PROVE TypeOK'
  <2>1. l \in Loop /\ m \in Message /\ l.next \in Nat \ {0}
    BY DEF TypeOK, Loop
  <2>2. loops' \subseteq Loop
    BY <1>7, <2>1, AdvancedType DEF TypeOK, Settle
  <2>3. attempted' \subseteq Message \X (Nat \ {0})
    BY <1>7, <2>1 DEF TypeOK, Settle
  <2>4. QED  BY <1>7, <2>2, <2>3 DEF TypeOK, Settle
<1>8. ASSUME NEW l \in loops, Hang(l) PROVE TypeOK'
  <2>1. l \in Loop /\ loops' = (loops \ {l}) \cup {[l EXCEPT !.due = Never]}
    BY <1>8 DEF TypeOK, Hang
  <2>2. loops' \subseteq Loop
    BY <2>1, HungType DEF TypeOK
  <2>3. QED  BY <1>8, <2>2 DEF TypeOK, Hang
<1>9. CASE UNCHANGED vars
  BY <1>9 DEF TypeOK, vars, Message, Loop, Config
<1>10. QED
  BY <1>1, <1>2, <1>3, <1>4, <1>5, <1>6, <1>7, <1>8, <1>9 DEF Next

\* Every variable keeps its type throughout every behaviour.
THEOREM TypeCorrect == Spec => []TypeOK
BY InitType, NextType, PTL DEF Spec

-----------------------------------------------------------------------------
\* Init establishes the correspondence of episodes and bus.
LEMMA InitMirrors == Init => EpisodeMirrorsBus
BY DEF Init, EpisodeMirrorsBus, Watching, Tracked

\* A path without a time stamp has no episode that could have expired.
LEMMA ExpiredTracked ==
  ASSUME NEW p \in Expired
  PROVE  p \in Paths /\ Tracked(p)
BY DEF Expired, Tracked, NoEpisode

\* Every action preserves the correspondence of episodes and bus.
LEMMA NextMirrors ==
  TypeOK /\ EpisodeMirrorsBus /\ [Next]_vars => EpisodeMirrorsBus'
<1> SUFFICES ASSUME TypeOK, EpisodeMirrorsBus, [Next]_vars
             PROVE  EpisodeMirrorsBus'
  OBVIOUS
<1> USE DEF EpisodeMirrorsBus, Watching, Forwarding, Tracked, Quiet
<1>1. ASSUME NEW c \in Config, Start(c) PROVE EpisodeMirrorsBus'
  BY <1>1 DEF Start
<1>2. ASSUME Stop PROVE EpisodeMirrorsBus'
  BY <1>2 DEF Stop
<1>3. ASSUME Tick PROVE EpisodeMirrorsBus'
  <2>1. \A p \in Paths : alertEnded[p] = Never \/ alertEnded[p] \in Nat
    BY DEF TypeOK, Times
  <2>2. now \in Nat /\ now' = now + 1
    BY <1>3 DEF Tick, TypeOK
  <2>3. QED  BY <1>3, <2>1, <2>2 DEF Tick
<1>4. ASSUME NEW p \in Paths, PublishAlert(p) PROVE EpisodeMirrorsBus'
  <2>1. CASE ~Forwarding
    BY <1>4, <2>1 DEF PublishAlert, Ignored, TypeOK
  <2>2. CASE OpenEpisode(p)
    <3>1. /\ episodes'[p] # NoEpisode
          /\ episodes'[p].clearedSince = Never
          /\ \A q \in Paths \ {p} : episodes'[q] = episodes[q]
      BY <2>2 DEF OpenEpisode, TypeOK, NoEpisode
    <3>2. /\ bus'[p] = "alert"
          /\ \A q \in Paths \ {p} : bus'[q] = bus[q]
      BY <1>4 DEF PublishAlert, TypeOK
    <3>3. QED  BY <1>4, <3>1, <3>2 DEF PublishAlert
  <2>3. CASE ContinueEpisode(p)
    <3>1. /\ episodes'[p] # NoEpisode
          /\ episodes'[p].clearedSince = Never
          /\ \A q \in Paths \ {p} : episodes'[q] = episodes[q]
      <4>1. episodes[p].transitions \in Nat
        BY DEF TypeOK, Episode
      <4>2. episodes'[p] = Reopened(episodes[p])
        BY <2>3 DEF ContinueEpisode, TypeOK
      <4>3. Reopened(episodes[p]) # NoEpisode
        BY <4>1 DEF Reopened, NoEpisode
      <4>4. QED  BY <2>3, <4>2, <4>3 DEF ContinueEpisode, TypeOK, Reopened
    <3>2. /\ bus'[p] = "alert"
          /\ \A q \in Paths \ {p} : bus'[q] = bus[q]
      BY <1>4 DEF PublishAlert, TypeOK
    <3>3. QED  BY <1>4, <3>1, <3>2 DEF PublishAlert
  <2>4. QED  BY <1>4, <2>1, <2>2, <2>3 DEF PublishAlert
<1>5. ASSUME NEW p \in Paths, PublishNormal(p) PROVE EpisodeMirrorsBus'
  <2>1. CASE ~Forwarding
    BY <1>5, <2>1 DEF PublishNormal, Ignored, TypeOK
  <2>2. CASE Forwarding
    <3>1. /\ bus'[p] = "normal"
          /\ \A q \in Paths \ {p} :
               /\ bus'[q] = bus[q]
               /\ alertEnded'[q] = alertEnded[q]
               /\ episodes'[q] = episodes[q]
      BY <1>5, <2>2 DEF PublishNormal, BeginClearing, TypeOK
    <3>2. now \in Nat /\ now # Never
      BY DEF TypeOK, Never
    <3>3. CASE bus[p] = "alert"
      <4>1. episodes[p] # NoEpisode /\ episodes[p].clearedSince = Never
        BY <1>5, <2>2, <3>3 DEF PublishNormal
      <4>2. episodes'[p] = [episodes[p] EXCEPT !.clearedSince = now]
        BY <1>5, <2>2, <4>1 DEF PublishNormal, BeginClearing, TypeOK
      <4>3. episodes'[p].clearedSince = now /\ episodes'[p] # NoEpisode
        BY <3>2, <4>2 DEF TypeOK, Episode, NoEpisode
      <4>4. alertEnded'[p] = now
        BY <1>5, <3>3 DEF PublishNormal, TypeOK
      <4>5. QED  BY <1>5, <3>1, <3>2, <4>3, <4>4 DEF PublishNormal
    <3>4. CASE bus[p] # "alert"
      <4>1. alertEnded' = alertEnded
        BY <1>5, <3>4 DEF PublishNormal
      <4>2. episodes' = episodes
        BY <1>5, <2>2, <3>4 DEF PublishNormal, BeginClearing
      <4>3. QED  BY <1>5, <3>1, <3>4, <4>1, <4>2 DEF PublishNormal
    <3>5. QED  BY <3>3, <3>4
  <2>3. QED  BY <2>1, <2>2
<1>6. ASSUME Sweep PROVE EpisodeMirrorsBus'
  <2>1. CASE ~config.messaging
    BY <1>6, <2>1 DEF Sweep
  <2>2. CASE config.messaging
    <3>1. \A p \in Paths : p \in Expired /\ Watching => Quiet(p)
      BY <2>2, ExpiredTracked DEF Expired
    <3>2. \A p \in Paths :
            episodes'[p] = IF p \in Expired THEN NoEpisode ELSE episodes[p]
      BY <1>6, <2>2 DEF Sweep
    <3>3. QED  BY <1>6, <3>1, <3>2 DEF Sweep
  <2>3. QED  BY <2>1, <2>2
<1>7. ASSUME NEW l \in loops, NEW m \in l.msgs, Settle(l, m)
      PROVE  EpisodeMirrorsBus'
  BY <1>7 DEF Settle
<1>8. ASSUME NEW l \in loops, Hang(l) PROVE EpisodeMirrorsBus'
  BY <1>8 DEF Hang
<1>9. CASE UNCHANGED vars
  BY <1>9 DEF vars
<1>10. QED
  BY <1>1, <1>2, <1>3, <1>4, <1>5, <1>6, <1>7, <1>8, <1>9 DEF Next

\* The tracker and the bus never disagree: an alerting path has an open episode
\* no sweep can end, a quiet one is clearing since its last alert ended.
THEOREM MirrorCorrect == Spec => []EpisodeMirrorsBus
BY InitType, NextType, InitMirrors, NextMirrors, PTL DEF Spec

-----------------------------------------------------------------------------
\* Only a sweep and an alert that opens an episode hand messages over; an
\* advancing loop hands over nothing it did not hold.
LEMMA NewlySent ==
  ASSUME TypeOK, Next, NEW m, Sent(m)', ~Sent(m)
  PROVE  \/ /\ Sweep /\ Watching
            /\ \E p \in Expired : m = Clear(p, episodes[p].id)
         \/ \E p \in Paths : /\ PublishAlert(p) /\ Watching
                             /\ OpenEpisode(p)
                             /\ m = Alert(p, opened + 1)
<1>1. ASSUME UNCHANGED <<loops, attempted>> PROVE FALSE
  BY <1>1 DEF Sent
<1>2. ASSUME NEW msgs \in SUBSET Message, attempted' = attempted,
             loops' = LoopsWith(msgs)
      PROVE  m \in msgs
  <2>1. PICK l \in loops' : m \in l.msgs
    BY <1>2 DEF Sent
  <2>2. l \in loops \/ l.msgs = msgs
    BY <1>2, <2>1, LoopsWithType
  <2>3. QED  BY <2>1, <2>2 DEF Sent
<1>3. ASSUME NEW p \in Paths, PublishAlert(p)
      PROVE  Watching /\ OpenEpisode(p) /\ m = Alert(p, opened + 1)
  <2>1. Forwarding /\ OpenEpisode(p)
    BY <1>1, <1>3 DEF PublishAlert, ContinueEpisode, Ignored
  <2>2. {Alert(p, opened + 1)} \in SUBSET Message
    BY DEF TypeOK, Alert, Message
  <2>3. QED  BY <1>2, <1>3, <2>1, <2>2 DEF PublishAlert, OpenEpisode, Watching
<1>4. ASSUME Sweep
      PROVE  Watching /\ \E p \in Expired : m = Clear(p, episodes[p].id)
  <2>1. Forwarding
    BY <1>1, <1>4 DEF Sweep, Forwarding
  <2>2. QED  BY <1>2, <1>4, <2>1, ClearMessages DEF Sweep, Watching, Forwarding
<1>5. ASSUME NEW l \in loops, NEW o \in l.msgs, Settle(l, o) PROVE FALSE
  <2>1. now \in Nat /\ l \in Loop
    BY DEF TypeOK
  <2>2. \A k \in loops' : k \in loops \/ k.msgs \subseteq l.msgs
    BY <1>5, <2>1, AdvancedType DEF Settle
  <2>3. \A a \in attempted' : a \in attempted \/ a[1] = o
    BY <1>5 DEF Settle
  <2>4. QED  BY <2>2, <2>3 DEF Sent
<1>6. ASSUME NEW l \in loops, Hang(l) PROVE FALSE
  <2>1. l \in Loop
    BY DEF TypeOK
  <2>2. \A k \in loops' : k \in loops \/ k.msgs = l.msgs
    BY <1>6, <2>1, HungType DEF Hang
  <2>3. QED  BY <1>6, <2>2 DEF Sent, Hang
<1>7. QED
  BY <1>1, <1>3, <1>4, <1>5, <1>6
  DEF Next, Start, Stop, Tick, PublishNormal, BeginClearing, Ignored

\* Clear(p, i) determines its path and episode, and so does Alert(p, i).
LEMMA MessageIdentity ==
  ASSUME NEW p, NEW q, NEW i, NEW j
  PROVE  /\ Clear(p, i) = Clear(q, j) => p = q /\ i = j
         /\ Alert(p, i) = Alert(q, j) => p = q /\ i = j
         /\ Alert(p, i) # Clear(q, j)
BY DEF Alert, Clear

\* The crew is alerted only of paths that have been quiet for the whole window,
\* as the bus has it: flapping never reaches them.
THEOREM AlertsAfterQuiet == Spec => AlertOnlyAfterQuiet
<1>1. ASSUME TypeOK, EpisodeMirrorsBus, [Next]_vars
      PROVE  [\A p \in Paths : \A i \in 1..(opened + 1) :
                Sent(Alert(p, i))' /\ ~Sent(Alert(p, i)) => Quiet(p)]_vars
  <2> SUFFICES ASSUME Next, NEW p \in Paths, NEW i \in 1..(opened + 1),
                      Sent(Alert(p, i))', ~Sent(Alert(p, i))
               PROVE  Quiet(p)
    BY <1>1
  <2>1. PublishAlert(p) /\ Watching /\ OpenEpisode(p)
    BY <1>1, NewlySent, MessageIdentity
  <2>2. CASE ~Tracked(p)
    BY <1>1, <2>1, <2>2 DEF EpisodeMirrorsBus
  <2>3. CASE Tracked(p)
    BY <1>1, <2>1, <2>3
    DEF OpenEpisode, WasCleared, EpisodeMirrorsBus, Tracked, Quiet
  <2>4. QED  BY <2>2, <2>3
<1>2. QED
  BY <1>1, TypeCorrect, MirrorCorrect, PTL DEF Spec, AlertOnlyAfterQuiet

\* An all-clear is sent only for a path that has been quiet for the whole
\* window, names the episode it ends, and that episode is gone.
THEOREM ClearsAfterQuiet == Spec => ClearOnlyAfterQuiet
<1>1. ASSUME TypeOK, EpisodeMirrorsBus, [Next]_vars
      PROVE  [\A p \in Paths : \A i \in 1..opened :
                Sent(Clear(p, i))' /\ ~Sent(Clear(p, i))
                  => Quiet(p) /\ episodes[p].id = i /\ ~Tracked(p)']_vars
  <2> SUFFICES ASSUME Next, NEW p \in Paths, NEW i \in 1..opened,
                      Sent(Clear(p, i))', ~Sent(Clear(p, i))
               PROVE  Quiet(p) /\ episodes[p].id = i /\ ~Tracked(p)'
    BY <1>1
  <2>1. Sweep /\ Watching /\ p \in Expired /\ episodes[p].id = i
    BY <1>1, NewlySent, MessageIdentity
  <2>2. Quiet(p)
    BY <1>1, <2>1, ExpiredTracked DEF EpisodeMirrorsBus, Expired, Quiet
  <2>3. ~Tracked(p)'
    BY <2>1 DEF Sweep, Watching, Forwarding, Tracked
  <2>4. QED  BY <2>1, <2>2, <2>3
<1>2. QED
  BY <1>1, TypeCorrect, MirrorCorrect, PTL DEF Spec, ClearOnlyAfterQuiet

\* Flapping reaches the crew neither as an alert nor as an all-clear.
THEOREM QuietRespected == Spec => OnlyAfterQuiet
BY AlertsAfterQuiet, ClearsAfterQuiet DEF OnlyAfterQuiet

-----------------------------------------------------------------------------
\* What is handed over by a step was not handed over before.
LEMMA NewIsFresh ==
  ASSUME TypeOK, EpisodeLedger
  PROVE  /\ \A p \in Paths : ~Sent(Alert(p, opened + 1))
         /\ \A p \in Expired : ~Sent(Clear(p, episodes[p].id))
<1>1. ASSUME NEW p \in Paths, Sent(Alert(p, opened + 1)) PROVE FALSE
  BY <1>1 DEF EpisodeLedger, Numbered, Sent, Alert, TypeOK
<1>2. ASSUME NEW p \in Expired, Sent(Clear(p, episodes[p].id)) PROVE FALSE
  BY <1>2, ExpiredTracked DEF EpisodeLedger, Numbered, Sent, Clear
<1>3. QED  BY <1>1, <1>2

\* Init establishes the ledger.
LEMMA InitLedger == Init => EpisodeLedger /\ AtMostOncePerMember
BY DEF Init, EpisodeLedger, AtMostOncePerMember, Tracked, NoEpisode

\* A loop over new messages starts from a clean sheet.
LEMMA FreshLoop ==
  ASSUME TypeOK, AtMostOncePerMember, NEW msgs \in SUBSET Message,
         \A m \in msgs : ~Sent(m),
         loops' = LoopsWith(msgs), attempted' = attempted
  PROVE  AtMostOncePerMember'
<1> DEFINE fresh == LoopAt(msgs, config.crew, 1)
<1>1. loops' \subseteq loops \cup {fresh} /\ fresh.msgs = msgs
  BY LoopAtType DEF LoopsWith, TypeOK, Config
<1>2. ASSUME NEW m \in msgs
      PROVE  (\A a \in attempted : a[1] # m) /\ (\A l \in loops : m \notin l.msgs)
  BY DEF Sent
<1> HIDE DEF fresh
<1>3. SUFFICES ASSUME NEW l \in loops', NEW m \in l.msgs
               PROVE  /\ IsCurrent(l, m) =>
                           \A a \in attempted : a[1] = m => a[2] < l.next
                      /\ ~IsCurrent(l, m) => \A a \in attempted : a[1] # m
                      /\ \A k \in loops' : m \in k.msgs => k = l
  BY DEF AtMostOncePerMember, IsCurrent
<1>4. CASE l = fresh
  BY <1>1, <1>2, <1>4
<1>5. CASE l \in loops
  BY <1>1, <1>2, <1>5 DEF AtMostOncePerMember
<1>6. QED  BY <1>1, <1>4, <1>5

\* A loop that moves on keeps the sheet: it goes to the next member, or to the
\* next message, which has not been tried at all.
LEMMA AdvancedLoop ==
  ASSUME TypeOK, EpisodeLedger, AtMostOncePerMember,
         NEW l \in loops, NEW m \in l.msgs, Settle(l, m)
  PROVE  AtMostOncePerMember'
<1>1. /\ IsCurrent(l, m)
      /\ loops' = (loops \ {l}) \cup Advanced(l, m)
      /\ attempted' = attempted \cup {<<m, l.next>>}
  BY DEF Settle
<1>2. /\ l \in Loop /\ l.next \in Nat \ {0} /\ l.msgs \in SUBSET Message
      /\ \A o \in l.msgs : o.id \in Nat
      /\ \A a \in attempted : a[2] \in Nat
  BY DEF TypeOK, Loop, Message
<1>3. \A o \in l.msgs : o # m => ~IsCurrent(l, o)
  BY <1>1, <1>2 DEF IsCurrent, EpisodeLedger
<1>4. \A o \in l.msgs : o # m => \A a \in attempted' : a[1] # o
  BY <1>1, <1>3 DEF AtMostOncePerMember
<1>5. \A a \in attempted' : a[1] = m => a[2] < l.next + 1
  BY <1>1, <1>2 DEF AtMostOncePerMember
<1>6. \A k \in loops : k # l => k.msgs \cap l.msgs = {}
  BY DEF AtMostOncePerMember
<1>7. SUFFICES ASSUME NEW k \in loops', NEW o \in k.msgs
               PROVE  /\ IsCurrent(k, o) =>
                           \A a \in attempted' : a[1] = o => a[2] < k.next
                      /\ ~IsCurrent(k, o) => \A a \in attempted' : a[1] # o
                      /\ \A j \in loops' : o \in j.msgs => j = k
  BY DEF AtMostOncePerMember, IsCurrent
<1>8. CASE k \in loops \ {l}
  <2>1. o \notin l.msgs /\ o # m  BY <1>6, <1>8
  <2>2. \A j \in Advanced(l, m) : o \notin j.msgs
    BY <1>2, <2>1, AdvancedType DEF TypeOK
  <2>3. QED  BY <1>1, <1>8, <2>1, <2>2 DEF AtMostOncePerMember
<1>9. CASE k \in Advanced(l, m)
  <2>1. o \in l.msgs /\ \A j \in loops \ {l} : o \notin j.msgs
    BY <1>2, <1>6, <1>9, AdvancedType DEF TypeOK
  <2>2. \A j \in Advanced(l, m) : j = k
    BY <1>9 DEF Advanced
  <2>3. CASE l.next < Len(l.crew)
    <3>1. k = LoopAt(l.msgs, l.crew, l.next + 1)
      BY <1>9, <2>3 DEF Advanced
    <3>2. k.msgs = l.msgs /\ k.next = l.next + 1
      BY <3>1 DEF LoopAt
    <3>3. CASE o = m
      BY <1>1, <1>5, <2>1, <2>2, <3>2, <3>3 DEF IsCurrent
    <3>4. CASE o # m
      BY <1>1, <1>3, <1>4, <2>1, <2>2, <3>2, <3>4 DEF IsCurrent
    <3>5. QED  BY <3>3, <3>4
  <2>4. CASE ~(l.next < Len(l.crew))
    <3>1. k = LoopAt(l.msgs \ {m}, l.crew, 1)
      BY <1>9, <2>4 DEF Advanced
    <3>2. o # m
      BY <3>1 DEF LoopAt
    <3>3. QED  BY <1>1, <1>4, <2>1, <2>2, <3>2
  <2>5. QED  BY <2>3, <2>4
<1>10. QED  BY <1>1, <1>8, <1>9

\* A loop that hangs keeps its sheet.
LEMMA HungLoop ==
  ASSUME TypeOK, AtMostOncePerMember, NEW l \in loops, Hang(l)
  PROVE  AtMostOncePerMember'
<1> DEFINE hung == [l EXCEPT !.due = Never]
<1>1. /\ loops' = (loops \ {l}) \cup {hung} /\ attempted' = attempted
      /\ hung.msgs = l.msgs /\ hung.next = l.next
  BY HungType DEF Hang, TypeOK
<1> HIDE DEF hung
<1>2. \A k \in loops : k # l => k.msgs \cap l.msgs = {}
  BY DEF AtMostOncePerMember
<1>3. SUFFICES ASSUME NEW k \in loops', NEW o \in k.msgs
               PROVE  /\ IsCurrent(k, o) =>
                           \A a \in attempted : a[1] = o => a[2] < k.next
                      /\ ~IsCurrent(k, o) => \A a \in attempted : a[1] # o
                      /\ \A j \in loops' : o \in j.msgs => j = k
  BY <1>1 DEF AtMostOncePerMember, IsCurrent
<1>4. CASE k = hung
  <2>1. /\ IsCurrent(l, o) => \A a \in attempted : a[1] = o => a[2] < l.next
        /\ ~IsCurrent(l, o) => \A a \in attempted : a[1] # o
    BY <1>1, <1>4 DEF AtMostOncePerMember
  <2>2. IsCurrent(k, o) <=> IsCurrent(l, o)
    BY <1>1, <1>4 DEF IsCurrent
  <2>3. QED  BY <1>1, <1>2, <1>4, <2>1, <2>2
<1>5. CASE k \in loops /\ k # l
  BY <1>1, <1>2, <1>5 DEF AtMostOncePerMember
<1>6. QED  BY <1>1, <1>4, <1>5

\* Every action preserves the numbering of messages and episodes.
LEMMA NextLedger ==
  TypeOK /\ EpisodeLedger /\ [Next]_vars => EpisodeLedger'
<1> SUFFICES ASSUME TypeOK, EpisodeLedger, [Next]_vars PROVE EpisodeLedger'
  OBVIOUS
<1>0. /\ opened \in Nat
      /\ \A p \in Paths : episodes[p].id \in Nat
      /\ \A l \in loops : \A m \in l.msgs : m.id \in Nat
      /\ \A a \in attempted : a[1].id \in Nat
  BY DEF TypeOK, Episode, Loop, Message
<1>1. ASSUME UNCHANGED <<opened, loops, attempted>>,
             \A p \in Paths : episodes'[p] # NoEpisode =>
                               /\ episodes[p] # NoEpisode
                               /\ episodes'[p].id = episodes[p].id
      PROVE  EpisodeLedger'
  <2>1. \A p \in Paths : episodes'[p].id <= opened
    BY <1>0, <1>1 DEF EpisodeLedger, NoEpisode
  <2>2. \A m : Numbered(m) => Numbered(m)'
    BY <1>1 DEF Numbered, Tracked
  <2>3. QED  BY <1>1, <2>1, <2>2 DEF EpisodeLedger, Tracked
<1>2. ASSUME NEW p \in Paths, OpenEpisode(p), attempted' = attempted
      PROVE  EpisodeLedger'
  <2>1. /\ opened' = opened + 1
        /\ episodes'[p].id = opened + 1
        /\ \A q \in Paths \ {p} : episodes'[q] = episodes[q]
    BY <1>2 DEF OpenEpisode, TypeOK
  <2>2. {Alert(p, opened + 1)} \in SUBSET Message
    BY <1>0 DEF Alert, Message
  <2>3. \A m : m.id \in Nat /\ Numbered(m) => Numbered(m)'
    BY <1>0, <2>1 DEF Numbered, Tracked
  <2>4. \A m \in {Alert(p, opened + 1)} : Numbered(m)'
    BY <1>0, <2>1 DEF Numbered, Alert
  <2>5. \A l \in loops' : l \in loops \/ l.msgs = {Alert(p, opened + 1)}
    BY <1>2, <2>2, LoopsWithType DEF OpenEpisode
  <2>6. \A l \in loops' : \A m \in l.msgs : Numbered(m)'
    BY <1>0, <2>3, <2>4, <2>5 DEF EpisodeLedger
  <2>7. \A q \in Paths : episodes'[q].id <= opened'
    BY <1>0, <2>1 DEF EpisodeLedger
  <2>8. \A q, r \in Paths : Tracked(q)' /\ Tracked(r)'
                             /\ episodes'[q].id = episodes'[r].id => q = r
    BY <1>0, <2>1 DEF EpisodeLedger, Tracked
  <2>9. \A a \in attempted' : Numbered(a[1])'
    BY <1>0, <1>2, <2>3 DEF EpisodeLedger
  <2>10. \A l \in loops' : \A m, o \in l.msgs : m.id = o.id => m = o
    BY <2>5 DEF EpisodeLedger
  <2>11. QED  BY <2>6, <2>7, <2>8, <2>9, <2>10 DEF EpisodeLedger
<1>3. ASSUME NEW p \in Paths, PublishAlert(p) PROVE EpisodeLedger'
  <2>1. CASE ~Forwarding
    BY <1>1, <1>3, <2>1 DEF PublishAlert, Ignored
  <2>2. CASE OpenEpisode(p)
    BY <1>2, <1>3, <2>2 DEF PublishAlert
  <2>3. CASE ContinueEpisode(p)
    <3>1. episodes[p] # NoEpisode /\ episodes'[p].id = episodes[p].id
      BY <2>3 DEF ContinueEpisode, WasCleared, Reopened, TypeOK
    <3>2. \A q \in Paths \ {p} : episodes'[q] = episodes[q]
      BY <2>3 DEF ContinueEpisode, TypeOK
    <3>3. QED  BY <1>1, <1>3, <2>3, <3>1, <3>2 DEF PublishAlert, ContinueEpisode
  <2>4. QED  BY <1>3, <2>1, <2>2, <2>3 DEF PublishAlert
<1>4. ASSUME NEW p \in Paths, PublishNormal(p) PROVE EpisodeLedger'
  <2>1. CASE episodes' = episodes
    BY <1>1, <1>4, <2>1 DEF PublishNormal, BeginClearing, Ignored
  <2>2. CASE /\ Tracked(p)
             /\ episodes' = [episodes EXCEPT ![p].clearedSince = now]
    <3>1. episodes'[p].id = episodes[p].id /\ episodes[p] # NoEpisode
      BY <2>2 DEF TypeOK, Episode, Tracked
    <3>2. \A q \in Paths \ {p} : episodes'[q] = episodes[q]
      BY <2>2 DEF TypeOK
    <3>3. QED
      BY <1>1, <1>4, <3>1, <3>2 DEF PublishNormal, BeginClearing, Ignored
  <2>3. QED  BY <1>4, <2>1, <2>2 DEF PublishNormal, BeginClearing, Ignored
<1>5. ASSUME Sweep PROVE EpisodeLedger'
  <2> DEFINE clears == {Clear(p, episodes[p].id) : p \in Expired}
  <2>1. CASE UNCHANGED loops
    BY <1>1, <1>5, <2>1 DEF Sweep
  <2>2. CASE config.messaging /\ loops' = LoopsWith(clears)
    <3>1. \A p \in Paths : episodes'[p] # NoEpisode =>
            p \notin Expired /\ episodes'[p] = episodes[p]
      BY <1>5, <2>2 DEF Sweep
    <3>2. opened' = opened /\ attempted' = attempted
      BY <1>5 DEF Sweep
    <3>3. \A m : Numbered(m) => Numbered(m)'
      BY <3>1, <3>2 DEF Numbered, Tracked
    <3>4. \A l \in loops' : l \in loops \/ l.msgs = clears
      BY <2>2, ClearMessages, LoopsWithType
    <3>5. ASSUME NEW m \in clears PROVE Numbered(m)'
      <4>1. PICK p \in Expired : m = Clear(p, episodes[p].id)
        OBVIOUS
      <4>2. \A q \in Paths : episodes'[q] # NoEpisode => episodes'[q].id # m.id
        BY <3>1, <4>1, ExpiredTracked DEF EpisodeLedger, Tracked, Clear
      <4>3. m.id <= opened
        BY <4>1, ExpiredTracked DEF EpisodeLedger, Clear
      <4>4. QED  BY <3>2, <4>2, <4>3 DEF Numbered, Tracked
    <3>6. \A p, q \in Expired : episodes[p].id = episodes[q].id => p = q
      BY ExpiredTracked DEF EpisodeLedger
    <3>7. \A m, o \in clears : m.id = o.id => m = o
      BY <3>6 DEF Clear
    <3>8. QED
      BY <1>0, <3>1, <3>2, <3>3, <3>4, <3>5, <3>7
      DEF EpisodeLedger, Tracked, NoEpisode
  <2>3. QED  BY <1>5, <2>1, <2>2 DEF Sweep
<1>6. ASSUME NEW l \in loops, NEW m \in l.msgs, Settle(l, m)
      PROVE  EpisodeLedger'
  <2>1. now \in Nat /\ l \in Loop
    BY DEF TypeOK
  <2>2. \A k \in loops' : k \in loops \/ k.msgs \subseteq l.msgs
    BY <1>6, <2>1, AdvancedType DEF Settle
  <2>3. \A a \in attempted' : a \in attempted \/ a[1] = m
    BY <1>6 DEF Settle
  <2>4. UNCHANGED <<episodes, opened>>
    BY <1>6 DEF Settle
  <2>5. \A o : Numbered(o) => Numbered(o)'
    BY <2>4 DEF Numbered, Tracked
  <2>6. QED  BY <2>2, <2>3, <2>4, <2>5 DEF EpisodeLedger, Tracked
<1>7. ASSUME Stop PROVE EpisodeLedger'
  BY <1>1, <1>7 DEF Stop
<1>8. ASSUME NEW l \in loops, Hang(l) PROVE EpisodeLedger'
  <2>1. l \in Loop
    BY DEF TypeOK
  <2>2. \A k \in loops' : k \in loops \/ k.msgs = l.msgs
    BY <1>8, <2>1, HungType DEF Hang
  <2>3. UNCHANGED <<episodes, opened, attempted>>
    BY <1>8 DEF Hang
  <2>4. \A o : Numbered(o) => Numbered(o)'
    BY <2>3 DEF Numbered, Tracked
  <2>5. QED  BY <2>2, <2>3, <2>4 DEF EpisodeLedger, Tracked
<1>9. CASE UNCHANGED <<episodes, opened, loops, attempted>>
  BY <1>1, <1>9
<1>10. QED
  BY <1>3, <1>4, <1>5, <1>6, <1>7, <1>8, <1>9 DEF Next, vars, Start, Tick

\* Every action preserves the record of what has been tried for whom.
LEMMA NextAtMostOnce ==
  TypeOK /\ EpisodeLedger /\ AtMostOncePerMember /\ [Next]_vars
    => AtMostOncePerMember'
<1> SUFFICES ASSUME TypeOK, EpisodeLedger, AtMostOncePerMember, [Next]_vars
             PROVE  AtMostOncePerMember'
  OBVIOUS
<1>1. ASSUME UNCHANGED <<loops, attempted>> PROVE AtMostOncePerMember'
  BY <1>1 DEF AtMostOncePerMember, IsCurrent
<1>2. ASSUME NEW p \in Paths, PublishAlert(p) PROVE AtMostOncePerMember'
  <2>1. {Alert(p, opened + 1)} \in SUBSET Message
    BY DEF TypeOK, Alert, Message
  <2>2. QED
    BY <1>1, <1>2, <2>1, NewIsFresh, FreshLoop
    DEF PublishAlert, OpenEpisode, ContinueEpisode, Ignored
<1>3. ASSUME Sweep PROVE AtMostOncePerMember'
  BY <1>1, <1>3, NewIsFresh, ClearMessages, FreshLoop DEF Sweep
<1>4. ASSUME NEW l \in loops, NEW m \in l.msgs, Settle(l, m)
      PROVE  AtMostOncePerMember'
  BY <1>4, AdvancedLoop
<1>5. ASSUME NEW l \in loops, Hang(l) PROVE AtMostOncePerMember'
  BY <1>5, HungLoop
<1>6. QED
  BY <1>1, <1>2, <1>3, <1>4, <1>5
  DEF Next, vars, Start, Stop, Tick, PublishNormal, BeginClearing, Ignored

\* Messages and episodes are numbered consistently in every behaviour.
THEOREM LedgerCorrect == Spec => []EpisodeLedger
BY InitType, NextType, InitLedger, NextLedger, PTL DEF Spec

\* No crew member is handed the same alert or all-clear twice, whatever the
\* interleaving of deltas, sweeps and slow deliveries.
THEOREM NoMessageTwice == Spec => []AtMostOncePerMember
BY InitType, NextType, InitLedger, NextLedger, NextAtMostOnce, PTL DEF Spec
-----------------------------------------------------------------------------
(***************************************************************************)
(* The alert before the all-clear.  The loop of an alert can be late by no *)
(* more than a delivery for each of its crew; an all-clear is Debounce     *)
(* after the start of its episode at the earliest.                         *)
(***************************************************************************)
CrewFits == \A crew \in CrewLists : Len(crew) * MaxSend < Debounce

\* A loop that does not hang is never overdue; that of an alert has nothing else
\* to send, and is as far in time as it is in its crew.
LoopsInTime ==
  \A l \in loops :
    /\ l.due # Never => now <= l.due
    /\ \A m \in l.msgs : m.kind = "alert" =>
         /\ l.msgs = {m} /\ l.next <= Len(l.crew)
         /\ \A p \in Paths : Tracked(p) /\ episodes[p].id = m.id =>
              l.due <= episodes[p].startTime + l.next * MaxSend

\* An episode has started, and begun to clear after it started.
EpisodesInTime ==
  \A p \in Paths : Tracked(p) =>
    /\ episodes[p].startTime <= now
    /\ episodes[p].clearedSince # Never =>
         episodes[p].startTime <= episodes[p].clearedSince

TriedInv == EpisodesInTime /\ LoopsInTime /\ AlertTriedBeforeClear

\* A crew takes a delivery's time for each of its members.
LEMMA Deliveries ==
  ASSUME NEW k \in Nat, NEW n \in Nat, k <= n
  PROVE  /\ 1 * MaxSend = MaxSend
         /\ (k + 1) * MaxSend = k * MaxSend + MaxSend
         /\ k * MaxSend \in Nat /\ k * MaxSend <= n * MaxSend
<1>1. (n - k) * MaxSend >= 0
  OBVIOUS
<1>2. n * MaxSend = k * MaxSend + (n - k) * MaxSend
  OBVIOUS
<1>3. QED  BY <1>1, <1>2

\* What a loop and a message are made of.
LEMMA LoopParts ==
  ASSUME TypeOK, NEW l \in loops
  PROVE  /\ l \in Loop /\ now \in Nat /\ l.next \in Nat \ {0}
         /\ l.due \in Nat \/ l.due = Never
         /\ l.crew \in CrewLists /\ Len(l.crew) \in Nat
         /\ \A m \in l.msgs : m \in Message
BY CrewAssumption DEF TypeOK, Loop, Times

LEMMA EpisodeParts ==
  ASSUME TypeOK, NEW p \in Paths
  PROVE  /\ episodes[p].id \in Nat /\ episodes[p].startTime \in Nat
         /\ episodes[p].clearedSince \in Nat \cup {Never}
BY DEF TypeOK, Episode, Times

\* A message is an alert or an all-clear.
LEMMA MessageKinds ==
  ASSUME NEW p, NEW i
  PROVE  /\ Alert(p, i).kind = "alert" /\ Alert(p, i).id = i
         /\ Clear(p, i).kind = "clear" /\ Clear(p, i).id = i
BY DEF Alert, Clear

LEMMA InitTried == Init => TriedInv
BY DEF Init, TriedInv, EpisodesInTime, LoopsInTime, AlertTriedBeforeClear, Tracked

\* Every action preserves the order of the times of an episode.
LEMMA NextEpisodesInTime == TypeOK /\ TriedInv /\ [Next]_vars => EpisodesInTime'
<1> SUFFICES ASSUME TypeOK, EpisodesInTime, [Next]_vars PROVE EpisodesInTime'
  BY DEF TriedInv
<1>0. now \in Nat /\ now # Never
  BY DEF TypeOK, Never
<1>1. CASE UNCHANGED <<now, episodes>>
  BY <1>1 DEF EpisodesInTime, Tracked
<1>2. CASE Tick
  <2>1. now' = now + 1 /\ episodes' = episodes
    BY <1>2 DEF Tick
  <2>2. QED  BY <1>0, <2>1, EpisodeParts DEF EpisodesInTime, Tracked
<1>3. ASSUME NEW p \in Paths, PublishAlert(p) PROVE EpisodesInTime'
  <2>1. CASE OpenEpisode(p)
    <3>1. /\ episodes'[p].startTime = now /\ episodes'[p].clearedSince = Never
          /\ \A q \in Paths \ {p} : episodes'[q] = episodes[q]
      BY <2>1 DEF OpenEpisode, TypeOK
    <3>2. QED  BY <1>0, <1>3, <3>1 DEF EpisodesInTime, Tracked, PublishAlert
  <2>2. CASE ContinueEpisode(p)
    <3>1. /\ episodes[p] # NoEpisode
          /\ episodes'[p].startTime = episodes[p].startTime
          /\ episodes'[p].clearedSince = Never
          /\ \A q \in Paths \ {p} : episodes'[q] = episodes[q]
      BY <2>2 DEF ContinueEpisode, WasCleared, Reopened, TypeOK
    <3>2. QED  BY <1>3, <3>1 DEF EpisodesInTime, Tracked, PublishAlert
  <2>3. QED  BY <1>1, <1>3, <2>1, <2>2 DEF PublishAlert, Ignored
<1>4. ASSUME NEW p \in Paths, PublishNormal(p) PROVE EpisodesInTime'
  <2>1. CASE /\ Tracked(p)
             /\ episodes' = [episodes EXCEPT ![p].clearedSince = now]
    <3>1. /\ episodes'[p].startTime = episodes[p].startTime
          /\ episodes'[p].clearedSince = now
          /\ \A q \in Paths \ {p} : episodes'[q] = episodes[q]
      BY <2>1 DEF TypeOK, Episode
    <3>2. QED  BY <1>4, <2>1, <3>1 DEF EpisodesInTime, Tracked, PublishNormal
  <2>2. QED  BY <1>1, <1>4, <2>1 DEF PublishNormal, BeginClearing, Ignored
<1>5. CASE Sweep
  <2>1. \A p \in Paths : episodes'[p] \in {NoEpisode, episodes[p]}
    BY <1>5 DEF Sweep
  <2>2. QED  BY <1>5, <2>1 DEF EpisodesInTime, Tracked, Sweep
<1>6. CASE Stop
  BY <1>6 DEF EpisodesInTime, Tracked, Stop
<1>7. QED
  BY <1>1, <1>2, <1>3, <1>4, <1>5, <1>6 DEF Next, vars, Start, Settle, Hang

\* A new loop is in time; no loop under way can be that of a new episode.
LEMMA FreshInTime ==
  ASSUME TypeOK, TriedInv, EpisodeLedger, NEW msgs \in SUBSET Message,
         now' = now, loops' = LoopsWith(msgs),
         \A p \in Paths : Tracked(p)' =>
           episodes'[p] = episodes[p] \/ episodes'[p].id > opened,
         \A m \in msgs : m.kind = "alert" =>
           /\ msgs = {m}
           /\ \A p \in Paths : Tracked(p)' /\ episodes'[p].id = m.id =>
                episodes'[p].startTime = now
  PROVE  LoopsInTime'
<1>0. now \in Nat /\ now + MaxSend >= now
  BY DEF TypeOK
<1>1. SUFFICES ASSUME NEW l \in loops'
               PROVE  /\ l.due # Never => now <= l.due
                      /\ \A m \in l.msgs : m.kind = "alert" =>
                           /\ l.msgs = {m} /\ l.next <= Len(l.crew)
                           /\ \A p \in Paths : Tracked(p)' /\ episodes'[p].id = m.id =>
                                l.due <= episodes'[p].startTime + l.next * MaxSend
  BY DEF LoopsInTime
<1>2. CASE l \in loops
  <2>1. ASSUME NEW m \in l.msgs, NEW p \in Paths, Tracked(p)', episodes'[p].id = m.id
        PROVE  episodes'[p] = episodes[p] /\ Tracked(p)
    <3>1. m.id \in Nat /\ m.id <= opened /\ opened \in Nat
      BY <1>2, LoopParts DEF EpisodeLedger, Numbered, Message, TypeOK
    <3>2. QED  BY <2>1, <3>1 DEF Tracked
  <2>2. QED  BY <1>2, <2>1 DEF TriedInv, LoopsInTime
<1>3. CASE l \notin loops
  <2>1. l = LoopAt(msgs, config.crew, 1) /\ Len(config.crew) # 0
    BY <1>3 DEF LoopsWith
  <2>2. /\ l.msgs = msgs /\ l.crew = config.crew /\ l.next = 1
        /\ l.due = now + MaxSend
    BY <2>1 DEF LoopAt
  <2>3. Len(config.crew) \in Nat
    BY CrewAssumption DEF TypeOK, Config
  <2>4. 1 * MaxSend = MaxSend
    BY Deliveries
  <2>5. QED  BY <1>0, <2>1, <2>2, <2>3, <2>4
<1>4. QED  BY <1>2, <1>3

\* The next delivery of a loop is due at most MaxSend after the one that settled.
LEMMA AdvancedInTime ==
  ASSUME TypeOK, TriedInv, NEW l \in loops, NEW m \in l.msgs, Settle(l, m)
  PROVE  LoopsInTime'
<1>0. /\ UNCHANGED <<now, episodes>> /\ loops' = (loops \ {l}) \cup Advanced(l, m)
      /\ now \in Nat /\ l.due \in Nat /\ now <= l.due /\ now + MaxSend >= now
  BY LoopParts DEF Settle, TriedInv, LoopsInTime
<1>1. SUFFICES ASSUME NEW k \in Advanced(l, m)
               PROVE  /\ now <= k.due
                      /\ \A o \in k.msgs : o.kind = "alert" =>
                           /\ k.msgs = {o} /\ k.next <= Len(k.crew)
                           /\ \A p \in Paths : Tracked(p) /\ episodes[p].id = o.id =>
                                k.due <= episodes[p].startTime + k.next * MaxSend
  BY <1>0 DEF TriedInv, LoopsInTime, Tracked
<1>2. CASE l.next < Len(l.crew)
  <2>1. /\ k.msgs = l.msgs /\ k.crew = l.crew /\ k.next = l.next + 1
        /\ k.due = now + MaxSend
    BY <1>2 DEF Advanced, LoopAt
  <2>2. l.next + 1 <= Len(l.crew)
    BY <1>2, LoopParts
  <2>3. ASSUME NEW o \in l.msgs, o.kind = "alert", NEW p \in Paths,
               Tracked(p), episodes[p].id = o.id
        PROVE  now + MaxSend <= episodes[p].startTime + (l.next + 1) * MaxSend
    <3>1. l.due <= episodes[p].startTime + l.next * MaxSend
      BY <2>3 DEF TriedInv, LoopsInTime
    <3>2. /\ (l.next + 1) * MaxSend = l.next * MaxSend + MaxSend
          /\ l.next * MaxSend \in Nat
      BY LoopParts, Deliveries
    <3>3. QED  BY <1>0, <3>1, <3>2, EpisodeParts
  <2>4. QED  BY <1>0, <2>1, <2>2, <2>3 DEF TriedInv, LoopsInTime
<1>3. CASE ~(l.next < Len(l.crew))
  <2>1. k.msgs = l.msgs \ {m} /\ k.due = now + MaxSend
    BY <1>3 DEF Advanced, LoopAt
  <2>2. \A o \in k.msgs : o.kind # "alert"
    BY <2>1 DEF TriedInv, LoopsInTime
  <2>3. QED  BY <1>0, <2>1, <2>2
<1>4. QED  BY <1>2, <1>3

\* A loop that hangs is not overdue, and no farther than it was.
LEMMA HungInTime ==
  ASSUME TypeOK, TriedInv, NEW l \in loops, Hang(l)
  PROVE  LoopsInTime'
<1> DEFINE hung == [l EXCEPT !.due = Never]
<1>1. /\ loops' = (loops \ {l}) \cup {hung} /\ UNCHANGED <<now, episodes>>
      /\ hung.msgs = l.msgs /\ hung.next = l.next /\ hung.crew = l.crew
      /\ hung.due = Never
  BY HungType DEF Hang, TypeOK
<1>2. l.due \in Nat /\ Never <= l.due
  BY LoopParts DEF Hang, Never
<1> HIDE DEF hung
<1>3. \A m \in l.msgs : m.kind = "alert" =>
        /\ l.msgs = {m} /\ l.next <= Len(l.crew)
        /\ \A p \in Paths : Tracked(p) /\ episodes[p].id = m.id =>
             Never <= episodes[p].startTime + l.next * MaxSend
  <2>1. SUFFICES ASSUME NEW m \in l.msgs, m.kind = "alert", NEW p \in Paths
                 PROVE  Never <= episodes[p].startTime + l.next * MaxSend
    BY DEF TriedInv, LoopsInTime
  <2>2. episodes[p].startTime \in Nat /\ l.next * MaxSend \in Nat
    BY EpisodeParts, LoopParts, Deliveries
  <2> DEFINE took == l.next * MaxSend
  <2>3. took \in Nat  BY <2>2
  <2> HIDE DEF took
  <2>4. Never <= episodes[p].startTime + took
    BY <2>2, <2>3 DEF Never
  <2>5. QED  BY <2>4 DEF took
<1>4. QED  BY <1>1, <1>3 DEF TriedInv, LoopsInTime, Tracked

\* The messages of a sweep are all-clears.
LEMMA ClearsAreClears ==
  ASSUME TypeOK, NEW m \in {Clear(p, episodes[p].id) : p \in Expired}
  PROVE  m.kind = "clear"
BY DEF Clear

\* Every action keeps the loops in time.
LEMMA NextLoopsInTime ==
  TypeOK /\ EpisodeLedger /\ TriedInv /\ [Next]_vars => LoopsInTime'
<1> SUFFICES ASSUME TypeOK, EpisodeLedger, TriedInv, [Next]_vars PROVE LoopsInTime'
  OBVIOUS
<1>1. ASSUME UNCHANGED <<now, loops>>,
             \A p \in Paths : Tracked(p)' =>
               /\ Tracked(p) /\ episodes'[p].id = episodes[p].id
               /\ episodes'[p].startTime = episodes[p].startTime
      PROVE  LoopsInTime'
  BY <1>1 DEF TriedInv, LoopsInTime
<1>2. CASE Tick
  <2>1. \A l \in loops : l.due # Never => now + 1 <= l.due
    BY <1>2, LoopParts DEF Tick
  <2>2. QED  BY <1>2, <2>1 DEF Tick, TriedInv, LoopsInTime, Tracked
<1>3. ASSUME NEW p \in Paths, PublishAlert(p) PROVE LoopsInTime'
  <2>1. CASE OpenEpisode(p)
    <3>1. {Alert(p, opened + 1)} \in SUBSET Message /\ opened \in Nat
      BY DEF TypeOK, Alert, Message
    <3>2. /\ episodes'[p].id = opened + 1 /\ episodes'[p].startTime = now
          /\ \A q \in Paths \ {p} : episodes'[q] = episodes[q]
      BY <2>1 DEF OpenEpisode, TypeOK
    <3>3. \A q \in Paths : episodes[q].id <= opened /\ episodes[q].id \in Nat
      BY EpisodeParts DEF EpisodeLedger
    <3>4. \A q \in Paths : episodes'[q].id = opened + 1 => q = p
      BY <3>1, <3>2, <3>3
    <3>5. QED
      BY <1>3, <2>1, <3>1, <3>2, <3>4, FreshInTime, MessageKinds
      DEF OpenEpisode, PublishAlert
  <2>2. CASE ContinueEpisode(p)
    <3>1. /\ episodes[p] # NoEpisode
          /\ episodes'[p].startTime = episodes[p].startTime
          /\ episodes'[p].id = episodes[p].id
          /\ \A q \in Paths \ {p} : episodes'[q] = episodes[q]
      BY <2>2 DEF ContinueEpisode, WasCleared, Reopened, TypeOK
    <3>2. QED  BY <1>1, <1>3, <2>2, <3>1 DEF PublishAlert, ContinueEpisode, Tracked
  <2>3. QED  BY <1>1, <1>3, <2>1, <2>2 DEF PublishAlert, Ignored, Tracked
<1>4. ASSUME NEW p \in Paths, PublishNormal(p) PROVE LoopsInTime'
  <2>1. UNCHANGED <<now, loops>>
    BY <1>4 DEF PublishNormal, BeginClearing, Ignored
  <2>2. CASE episodes' = episodes
    BY <1>1, <2>1, <2>2 DEF Tracked
  <2>3. CASE /\ Tracked(p)
             /\ episodes' = [episodes EXCEPT ![p].clearedSince = now]
    <3>1. /\ episodes'[p].startTime = episodes[p].startTime
          /\ episodes'[p].id = episodes[p].id
          /\ \A q \in Paths \ {p} : episodes'[q] = episodes[q]
      BY <2>3 DEF TypeOK, Episode
    <3>2. QED  BY <1>1, <2>1, <2>3, <3>1 DEF Tracked
  <2>4. QED  BY <1>4, <2>2, <2>3 DEF PublishNormal, BeginClearing, Ignored
<1>5. CASE Sweep
  <2>1. \A p \in Paths : Tracked(p)' => episodes'[p] = episodes[p]
    BY <1>5 DEF Sweep, Tracked
  <2>2. CASE loops' = loops
    BY <1>1, <1>5, <2>1, <2>2 DEF Sweep, Tracked
  <2>3. CASE loops' = LoopsWith({Clear(p, episodes[p].id) : p \in Expired})
    <3>1. \A m \in {Clear(p, episodes[p].id) : p \in Expired} : m.kind # "alert"
      BY ClearsAreClears
    <3>2. QED  BY <1>5, <2>1, <2>3, <3>1, ClearMessages, FreshInTime DEF Sweep
  <2>4. QED  BY <1>5, <2>2, <2>3 DEF Sweep
<1>6. CASE Stop
  BY <1>1, <1>6 DEF Stop, Tracked
<1>7. ASSUME NEW l \in loops, NEW m \in l.msgs, Settle(l, m) PROVE LoopsInTime'
  BY <1>7, AdvancedInTime
<1>8. ASSUME NEW l \in loops, Hang(l) PROVE LoopsInTime'
  BY <1>8, HungInTime
<1>9. CASE UNCHANGED <<now, loops, episodes>>
  BY <1>1, <1>9 DEF Tracked
<1>10. QED
  BY <1>2, <1>3, <1>4, <1>5, <1>6, <1>7, <1>8, <1>9 DEF Next, vars, Start

\* When an episode can be swept, no loop of its alert is left but one that hangs.
LEMMA AlertsAreThrough ==
  ASSUME CrewFits, TypeOK, TriedInv, NEW p \in Expired, NEW l \in loops, NEW m \in l.msgs,
         m.kind = "alert", m.id = episodes[p].id, l.due # Never
  PROVE  FALSE
<1>1. /\ p \in Paths /\ Tracked(p) /\ episodes[p].clearedSince # Never
      /\ now - episodes[p].clearedSince >= Debounce
  BY ExpiredTracked DEF Expired
<1>2. /\ now <= l.due /\ l.due <= episodes[p].startTime + l.next * MaxSend
      /\ l.next <= Len(l.crew)
  BY <1>1 DEF TriedInv, LoopsInTime
<1>3. episodes[p].startTime <= episodes[p].clearedSince
  BY <1>1 DEF TriedInv, EpisodesInTime
<1>4. l.next * MaxSend < Debounce
  <2>1. l.next * MaxSend <= Len(l.crew) * MaxSend /\ l.next * MaxSend \in Nat
    BY <1>2, LoopParts, Deliveries
  <2>2. Len(l.crew) * MaxSend < Debounce /\ Len(l.crew) * MaxSend \in Nat
    BY LoopParts, Deliveries DEF CrewFits
  <2>3. QED  BY <2>1, <2>2
<1>5. l.next * MaxSend \in Nat
  BY <1>2, LoopParts, Deliveries
<1>6. /\ now \in Nat /\ l.due \in Nat /\ episodes[p].startTime \in Nat
      /\ episodes[p].clearedSince \in Nat
  BY <1>1, LoopParts, EpisodeParts
<1> DEFINE took == l.next * MaxSend
<1> HIDE DEF took
<1>7. /\ took \in Nat /\ took < Debounce
      /\ l.due <= episodes[p].startTime + took
  BY <1>2, <1>4, <1>5 DEF took
<1>8. QED  BY <1>1, <1>2, <1>3, <1>6, <1>7

\* Every action preserves the order of alert and all-clear.
LEMMA NextTried ==
  ASSUME CrewFits, TypeOK, EpisodeLedger, TriedInv, [Next]_vars
  PROVE  AlertTriedBeforeClear'
<1>1. CASE loops' = loops
  BY <1>1 DEF TriedInv, AlertTriedBeforeClear
<1>2. ASSUME NEW p \in Paths, PublishAlert(p), OpenEpisode(p)
      PROVE  AlertTriedBeforeClear'
  <2>1. {Alert(p, opened + 1)} \in SUBSET Message /\ opened \in Nat
    BY DEF TypeOK, Alert, Message
  <2>2. \A l \in loops' : l \in loops \/ l.msgs = {Alert(p, opened + 1)}
    BY <1>2, <2>1, LoopsWithType DEF OpenEpisode
  <2>3. \A l \in loops : \A m \in l.msgs : m.id # opened + 1
    BY <2>1, LoopParts DEF EpisodeLedger, Numbered, Message
  <2>4. QED
    BY <2>2, <2>3, MessageKinds DEF TriedInv, AlertTriedBeforeClear
<1>3. ASSUME Sweep, loops' = LoopsWith({Clear(p, episodes[p].id) : p \in Expired})
      PROVE  AlertTriedBeforeClear'
  <2> DEFINE clears == {Clear(p, episodes[p].id) : p \in Expired}
  <2>1. \A l \in loops' : l \in loops \/ l.msgs = clears
    BY <1>3, ClearMessages, LoopsWithType
  <2>2. \A m \in clears : m.kind = "clear"
    BY ClearsAreClears
  <2>3. \A m \in clears : \A l \in loops : \A o \in l.msgs :
          o.id = m.id => o.kind = "clear" \/ l.due = Never
    <3>1. SUFFICES ASSUME NEW q \in Expired, NEW l \in loops, NEW o \in l.msgs,
                          o.id = episodes[q].id, l.due # Never
                   PROVE  o.kind = "clear"
      BY MessageKinds
    <3>2. o.kind \in {"alert", "clear"}
      BY LoopParts DEF Message
    <3>3. QED  BY <3>1, <3>2, AlertsAreThrough
  <2> HIDE DEF clears
  <2>4. QED  BY <2>1, <2>2, <2>3 DEF TriedInv, AlertTriedBeforeClear
<1>4. ASSUME NEW l \in loops, NEW m \in l.msgs, Settle(l, m)
      PROVE  AlertTriedBeforeClear'
  <2>1. \A k \in loops' : k \in loops \/ k.msgs \subseteq l.msgs
    BY <1>4, LoopParts, AdvancedType DEF Settle
  <2>2. l.due # Never
    BY <1>4 DEF Settle
  <2>3. QED  BY <2>1, <2>2 DEF TriedInv, AlertTriedBeforeClear
<1>5. ASSUME NEW l \in loops, Hang(l) PROVE AlertTriedBeforeClear'
  <2>1. \A k \in loops' : k \in loops \/ (k.msgs = l.msgs /\ k.due = Never)
    BY <1>5, LoopParts, HungType DEF Hang
  <2>2. QED  BY <2>1 DEF TriedInv, AlertTriedBeforeClear
<1>6. QED
  BY <1>1, <1>2, <1>3, <1>4, <1>5
  DEF Next, vars, Start, Stop, Tick, PublishAlert, ContinueEpisode, PublishNormal,
      BeginClearing, Ignored, Sweep

\* When the deliveries to any crew fit into the debounce window, everybody has been
\* tried for an alert before the all-clear of its episode starts, however slow they
\* are, unless the alert's loop is stuck in a delivery that hangs.
THEOREM AlertBeforeClear == CrewFits /\ Spec => []AlertTriedBeforeClear
<1> SUFFICES ASSUME CrewFits PROVE Spec => []AlertTriedBeforeClear
  OBVIOUS
<1>1. TypeOK /\ EpisodeLedger /\ TriedInv /\ [Next]_vars => TriedInv'
  BY NextEpisodesInTime, NextLoopsInTime, NextTried DEF TriedInv
<1>2. TriedInv => AlertTriedBeforeClear
  BY DEF TriedInv
<1>3. QED
  BY InitType, NextType, InitLedger, NextLedger, InitTried, <1>1, <1>2, PTL DEF Spec

=============================================================================
