--------------------------- MODULE AlertEpisodes ---------------------------
(***************************************************************************)
(* Forwarding of Signal K alarms to the crew (plugin/notifications.js, and *)
(* its wiring in plugin/index.js).                                         *)
(*                                                                         *)
(* Each notification path that has alarmed owns an "episode".  A delta on  *)
(* the path is decided on synchronously (shouldWeSendNotification); what   *)
(* follows, the loop that delivers the alert to one crew member after the  *)
(* other, is asynchronous and is never waited for by the next delta.  Once *)
(* a minute a timer sweeps the episodes that have been quiet for Debounce  *)
(* and starts a second kind of loop, which delivers the all-clears.        *)
(*                                                                         *)
(* Time is counted in sweep periods (60 s).  An alert state stands for     *)
(* "alarm" and "emergency" alike: the code does not distinguish them once  *)
(* an episode is open.                                                     *)
(***************************************************************************)
EXTENDS Integers, Sequences

CONSTANTS
  Paths,        \* notification paths
  CrewLists,    \* what effectiveCrew may return: sequences of recipients
  Debounce,     \* DEBOUNCE_MS
  MaxSend,      \* longest time a delivery that does not hang takes to settle
  MaxTime,      \* bound: the clock stops here
  MaxEpisodes,  \* bound: episodes opened over the whole behaviour
  MaxTransitions \* bound: alerts counted by one episode

ASSUME DebounceAssumption == Debounce \in Nat \ {0}
ASSUME MaxSendAssumption == MaxSend \in Nat \ {0}
ASSUME CrewAssumption ==
  \A crew \in CrewLists : DOMAIN crew = 1..Len(crew) /\ Len(crew) \in Nat
ASSUME BoundsAssumption ==
  MaxTime \in Nat /\ MaxEpisodes \in Nat /\ MaxTransitions \in Nat

VARIABLES
  now,        \* the wall clock
  running,    \* between start() and stop()
  config,     \* this session's settings, and whether messaging came up
  sweepDue,   \* the sweep timer's period has elapsed
  episodes,   \* the episodes Map; NoEpisode where a path has no entry
  opened,     \* episodes opened so far: numbers them in insertion order
  loops,      \* delivery loops under way
  bus,        \* what this session last saw published on each path
  alertEnded,  \* history: when its last alert ended, this session
  attempted   \* history: the <<message, crew position>> pairs already tried

vars == <<now, running, config, sweepDue, episodes, opened, loops, bus,
          alertEnded, attempted>>

Never == -1       \* a timestamp not set (null in the code)
Times == Nat \cup {Never}

Episode == [id : Nat, startTime : Nat, transitions : Nat, clearedSince : Times]
NoEpisode ==
  [id |-> 0, startTime |-> 0, transitions |-> 0, clearedSince |-> Never]
Tracked(p) == episodes[p] # NoEpisode

Message == [kind : {"alert", "clear"}, path : Paths, id : Nat]
Alert(p, i) == [kind |-> "alert", path |-> p, id |-> i]
Clear(p, i) == [kind |-> "clear", path |-> p, id |-> i]

\* A loop holds the messages it has left, the crew list it runs over, the
\* position of the member whose delivery it awaits and when that must settle:
\* Never when the delivery hangs.
Loop == [msgs : SUBSET Message, crew : CrewLists, next : Nat \ {0}, due : Times]

Config == [alerts : BOOLEAN, messaging : BOOLEAN, crew : CrewLists]

-----------------------------------------------------------------------------
Init ==
  /\ now = 0
  /\ running = FALSE
  /\ config \in Config
  /\ sweepDue = FALSE
  /\ episodes = [p \in Paths |-> NoEpisode]
  /\ opened = 0
  /\ loops = {}
  /\ bus = [p \in Paths |-> "none"]
  /\ alertEnded = [p \in Paths |-> Never]
  /\ attempted = {}

\* start(): the settings it is given and the outcome of setupMessaging hold
\* until stop(); deliver stays undefined when messaging did not come up.
Start(c) ==
  /\ ~running
  /\ running' = TRUE
  /\ config' = c
  /\ UNCHANGED <<now, sweepDue, episodes, opened, loops, bus, alertEnded,
                 attempted>>

\* stop(): the subscription and the sweep timer go, the Map is emptied; the
\* delivery loops already under way run on.
Stop ==
  /\ running
  /\ running' = FALSE
  /\ sweepDue' = FALSE
  /\ episodes' = [p \in Paths |-> NoEpisode]
  /\ bus' = [p \in Paths |-> "none"]
  /\ alertEnded' = [p \in Paths |-> Never]
  /\ UNCHANGED <<now, config, opened, loops, attempted>>

\* The clock never passes the instant at which a pending delivery settles.
Tick ==
  /\ now < MaxTime
  /\ \A l \in loops : l.due # Never => now < l.due
  /\ now' = now + 1
  /\ sweepDue' = running
  /\ UNCHANGED <<running, config, episodes, opened, loops, bus, alertEnded,
                 attempted>>

-----------------------------------------------------------------------------
\* A loop that starts now to wait for a delivery to the k-th of its crew.
LoopAt(msgs, crew, k) ==
  [msgs |-> msgs, crew |-> crew, next |-> k, due |-> now + MaxSend]

\* A loop starts only when there is somebody to send to.
LoopsWith(msgs) ==
  IF msgs = {} \/ Len(config.crew) = 0 THEN loops
                                       ELSE loops \cup {LoopAt(msgs, config.crew, 1)}

WasCleared(e) ==
  \/ e = NoEpisode
  \/ e.clearedSince # Never /\ now - e.clearedSince >= Debounce

\* A first alert, or one after an episode that cleared long enough ago.
OpenEpisode(p) ==
  /\ WasCleared(episodes[p])
  /\ opened < MaxEpisodes
  /\ opened' = opened + 1
  /\ episodes' = [episodes EXCEPT ![p] =
       [id |-> opened + 1, startTime |-> now, transitions |-> 1,
        clearedSince |-> Never]]
  /\ loops' = LoopsWith({Alert(p, opened + 1)})

\* Faulty variant: the clearing that had begun is not called off.
ReopenedStillClearing(e) ==
  [id |-> e.id, startTime |-> e.startTime, transitions |-> e.transitions + 1,
   clearedSince |-> e.clearedSince]

\* The episode goes on, and a clearing that had begun is called off.
Reopened(e) ==
  [id |-> e.id, startTime |-> e.startTime, transitions |-> e.transitions + 1,
   clearedSince |-> Never]

\* An alert of an episode that is open, or not cleared for long enough.
ContinueEpisode(p) ==
  /\ ~WasCleared(episodes[p])
  /\ episodes[p].transitions < MaxTransitions
  /\ episodes' = [episodes EXCEPT ![p] = Reopened(episodes[p])]
  /\ UNCHANGED <<opened, loops>>

\* Faulty variant: every repeated "normal" starts the window anew.
BeginClearingAgain(p) ==
  /\ episodes' = IF Tracked(p)
                   THEN [episodes EXCEPT ![p].clearedSince = now] ELSE episodes
  /\ UNCHANGED <<opened, loops>>

\* Not an alert any more: the clearing hysteresis starts, once.
BeginClearing(p) ==
  /\ episodes' = IF Tracked(p) /\ episodes[p].clearedSince = Never
                   THEN [episodes EXCEPT ![p].clearedSince = now]
                   ELSE episodes
  /\ UNCHANGED <<opened, loops>>

Ignored == UNCHANGED <<episodes, opened, loops>>

Forwarding == config.messaging /\ config.alerts

\* A delta of a notification path that alerts.
PublishAlert(p) ==
  /\ running
  /\ bus' = [bus EXCEPT ![p] = "alert"]
  /\ IF Forwarding THEN OpenEpisode(p) \/ ContinueEpisode(p) ELSE Ignored
  /\ UNCHANGED <<now, running, config, sweepDue, alertEnded, attempted>>

\* A delta of a notification path that does not alert, or was deleted.
PublishNormal(p) ==
  /\ running
  /\ bus' = [bus EXCEPT ![p] = "normal"]
  /\ alertEnded' = IF bus[p] = "alert"
                     THEN [alertEnded EXCEPT ![p] = now] ELSE alertEnded
  /\ IF Forwarding THEN BeginClearing(p) ELSE Ignored
  /\ UNCHANGED <<now, running, config, sweepDue, attempted>>

\* Faulty variants: the window counts from the start of the episode, or not.
ExpiredSinceStart ==
  {p \in Paths : /\ episodes[p].clearedSince # Never
                 /\ now - episodes[p].startTime >= Debounce}
ExpiredAtOnce == {p \in Paths : episodes[p].clearedSince # Never}

Expired ==
  {p \in Paths : /\ episodes[p].clearedSince # Never
                 /\ now - episodes[p].clearedSince >= Debounce}

\* Faulty variant: the episodes stay until their all-clears are delivered.
SweepWithoutDelete ==
  /\ running
  /\ sweepDue
  /\ sweepDue' = FALSE
  /\ loops' = IF Forwarding
                THEN LoopsWith({Clear(p, episodes[p].id) : p \in Expired})
                ELSE loops
  /\ UNCHANGED <<now, running, config, episodes, opened, bus, alertEnded,
                 attempted>>

\* The sweep timer: drops the expired episodes and sends their all-clears.
\* Without messaging it keeps them for the next sweep.
Sweep ==
  /\ running
  /\ sweepDue
  /\ sweepDue' = FALSE
  /\ IF config.messaging
       THEN /\ episodes' = [p \in Paths |->
                 IF p \in Expired THEN NoEpisode ELSE episodes[p]]
            /\ loops' = IF config.alerts
                          THEN LoopsWith({Clear(p, episodes[p].id) : p \in Expired})
                          ELSE loops
       ELSE UNCHANGED <<episodes, loops>>
  /\ UNCHANGED <<now, running, config, opened, bus, alertEnded, attempted>>

-----------------------------------------------------------------------------
\* Messages go out in the order of the Map, which is that of the episodes.
IsCurrent(l, m) == m \in l.msgs /\ \A o \in l.msgs : m.id <= o.id

\* Faulty variant: a failed delivery ends the loop.
AdvancedAborting(l, m) == {}

\* What is left of a loop after the delivery of m it was waiting for.
Advanced(l, m) ==
  IF l.next < Len(l.crew)
    THEN {LoopAt(l.msgs, l.crew, l.next + 1)}
    ELSE IF l.msgs = {m}
      THEN {}
      ELSE {LoopAt(l.msgs \ {m}, l.crew, 1)}

\* A delivery settles.  The loop moves on whether it succeeded or failed.
Settle(l, m) ==
  /\ IsCurrent(l, m)
  /\ l.due # Never
  /\ loops' = (loops \ {l}) \cup Advanced(l, m)
  /\ attempted' = attempted \cup {<<m, l.next>>}
  /\ UNCHANGED <<now, running, config, sweepDue, episodes, opened, bus,
                 alertEnded>>

SettleMessage(m) == \E l \in loops : Settle(l, m)

\* A delivery turns out to hang: the write to a dying link never completes, and
\* nothing bounds the deliveries of alerts and all-clears as those of telemetry,
\* replies and briefings are bounded.  Its loop waits for good.
Hang(l) ==
  /\ l.due # Never
  /\ loops' = (loops \ {l}) \cup {[l EXCEPT !.due = Never]}
  /\ UNCHANGED <<now, running, config, sweepDue, episodes, opened, bus,
                 alertEnded, attempted>>

Next ==
  \/ \E c \in Config : Start(c)
  \/ Stop
  \/ Tick
  \/ \E p \in Paths : PublishAlert(p)
  \/ \E p \in Paths : PublishNormal(p)
  \/ Sweep
  \/ \E l \in loops : \E m \in l.msgs : Settle(l, m)
  \/ \E l \in loops : Hang(l)

Spec == Init /\ [][Next]_vars

\* Timers fire, and a delivery that does not hang settles: its links and requests
\* for identities have a time-out (OUTBOUND_TIMEOUT_MS), the stream writes have
\* none.  Nothing obliges the bus to publish, nor the plugin to start or stop.
Fairness ==
  /\ WF_vars(Tick)
  /\ WF_vars(Sweep)
  /\ \A m \in [kind : {"alert", "clear"}, path : Paths, id : 1..MaxEpisodes] :
       WF_vars(SettleMessage(m))

FairSpec == Spec /\ Fairness

-----------------------------------------------------------------------------
\* Every variable keeps its type (the shapes documented for Episode and for
\* the settings object).
TypeOK ==
  /\ now \in Nat
  /\ running \in BOOLEAN
  /\ config \in Config
  /\ sweepDue \in BOOLEAN
  /\ episodes \in [Paths -> Episode]
  /\ opened \in Nat
  /\ loops \subseteq Loop
  /\ bus \in [Paths -> {"none", "normal", "alert"}]
  /\ alertEnded \in [Paths -> Times]
  /\ attempted \subseteq (Message \X (Nat \ {0}))

Watching == running /\ Forwarding

\* A message is handed over for delivery when its loop starts.
Sent(m) == (\E l \in loops : m \in l.msgs) \/ \E a \in attempted : a[1] = m

\* Quiet(p): the path has not alerted in this session, or not for Debounce.
Quiet(p) ==
  /\ bus[p] # "alert"
  /\ alertEnded[p] = Never \/ now - alertEnded[p] >= Debounce

\* The episodes mirror what the bus has shown, however the alerts flapped and
\* whenever the sweep came by: an alerting path has an open episode that no
\* sweep can end; a quiet one is clearing since its last alert ended; a path
\* with no episode has been quiet long enough.  stop() leaves nothing behind
\* for the next session.
EpisodeMirrorsBus ==
  /\ Watching => \A p \in Paths :
       /\ bus[p] = "alert" => Tracked(p) /\ episodes[p].clearedSince = Never
       /\ bus[p] # "alert" /\ Tracked(p) =>
            episodes[p].clearedSince = alertEnded[p] /\ alertEnded[p] # Never
       /\ ~Tracked(p) => Quiet(p)
  /\ ~running => \A p \in Paths :
       ~Tracked(p) /\ bus[p] = "none" /\ alertEnded[p] = Never

\* Seen from the bus alone, an alert is only forwarded when its path has been
\* quiet for the whole debounce window (or alerts for the first time): a
\* flapping sensor cannot flood the crew.
AlertOnlyAfterQuiet ==
  [][\A p \in Paths : \A i \in 1..(opened + 1) :
       Sent(Alert(p, i))' /\ ~Sent(Alert(p, i)) => Quiet(p)]_vars

\* An all-clear is only sent for an episode whose path has been quiet for the
\* whole window, so never while the alarm is active, and it names the episode
\* it ends.
ClearOnlyAfterQuiet ==
  [][\A p \in Paths : \A i \in 1..opened :
       Sent(Clear(p, i))' /\ ~Sent(Clear(p, i))
         => Quiet(p) /\ episodes[p].id = i /\ ~Tracked(p)']_vars

\* Nothing reaches the crew of a path that has not been quiet for the window, as the
\* bus alone shows it: neither the alert nor the all-clear of a flapping sensor.
OnlyAfterQuiet == AlertOnlyAfterQuiet /\ ClearOnlyAfterQuiet

\* The episode of a message has been numbered; that of an all-clear is over.
Numbered(m) ==
  /\ m.id <= opened
  /\ m.kind = "clear" => \A p \in Paths : Tracked(p) => episodes[p].id # m.id

\* Every message belongs to one episode, and an episode that has been reported
\* as cleared is over: no path is still, or again, tracked under its number.
EpisodeLedger ==
  /\ \A p \in Paths : episodes[p].id <= opened
  /\ \A p, q \in Paths :
       Tracked(p) /\ Tracked(q) /\ episodes[p].id = episodes[q].id => p = q
  /\ \A l \in loops : \A m \in l.msgs : Numbered(m)
  /\ \A a \in attempted : Numbered(a[1])
  /\ \A l \in loops : \A m, o \in l.msgs : m.id = o.id => m = o

\* No member is handed the same message twice, by one loop or by two: the sweep
\* drops an episode before it sends, so a slow or failing all-clear is not
\* repeated by the sweeps that run while it is under way.
AtMostOncePerMember ==
  \A l \in loops : \A m \in l.msgs :
    /\ IsCurrent(l, m) => \A a \in attempted : a[1] = m => a[2] < l.next
    /\ ~IsCurrent(l, m) => \A a \in attempted : a[1] # m
    /\ \A k \in loops : m \in k.msgs => k = l

\* When the deliveries to a whole crew fit into the debounce window, the alert
\* of an episode has been tried for everybody before its all-clear starts, or
\* its loop is stuck in a delivery that hangs.
AlertTriedBeforeClear ==
  \A l \in loops : \A m \in l.msgs : m.kind = "clear" =>
    \A k \in loops : \A o \in k.msgs :
      o.id = m.id => o.kind = "clear" \/ k.due = Never

\* The loop that carries m is stuck in a delivery.
Hung(m) == \E l \in loops : m \in l.msgs /\ l.due = Never

\* One recipient's failure or slowness costs the others nothing but time: each
\* message handed over is tried for every member of the crew it was started for,
\* unless a delivery of its own loop hangs; that of another loop costs it nothing.
EveryMemberTried ==
  \A m \in [kind : {"alert", "clear"}, path : Paths, id : 1..MaxEpisodes] :
    \A crew \in CrewLists :
      (\E l \in loops : m \in l.msgs /\ l.crew = crew)
        ~> (\A k \in 1..Len(crew) : <<m, k>> \in attempted) \/ Hung(m)

\* An alarm that clears and stays clear is reported to the crew as cleared.
\* (The clock bound is the model's: it stops before later ones expire.)
ClearIsReported ==
  \A p \in Paths : \A i \in 1..MaxEpisodes : \A t \in 0..(MaxTime - Debounce) :
    (Watching /\ Len(config.crew) > 0 /\ episodes[p].id = i
       /\ episodes[p].clearedSince = t)
      ~> \/ Sent(Clear(p, i))
         \/ ~running
         \/ bus[p] = "alert"

\* notifications.js, sweepNotifications: "Sends the crew a plain-text (no bell)
\* clearing message for every episode that has stayed cleared for the whole
\* hysteresis window, and removes those episodes".  It does not hold: an alert that
\* returns before the sweep replaces the episode.
EveryClearedEpisodeReported ==
  [][\A p \in Paths : \A i \in 1..opened :
       (/\ episodes[p].id = i
        /\ episodes'[p].id # i
        /\ running' /\ Len(config.crew) > 0) => Sent(Clear(p, i))']_vars
=============================================================================
