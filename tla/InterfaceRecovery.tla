------------------------- MODULE InterfaceRecovery -------------------------
(***************************************************************************)
(* The life of the configured interfaces: they are brought up one by one   *)
(* when the plugin starts (plugin/index.js), those that failed are retried *)
(* in the background (retryFailedInterfaces of plugin/interfaces.js), and  *)
(* the watchdog of plugin/recovery.js probes and rebuilds those that are   *)
(* online and transmit nothing.                                            *)
(*                                                                         *)
(* The watchdog's tick and the retry round are asynchronous and their      *)
(* timers do not wait for them, so several of each may be in flight.  A    *)
(* tick visits the interfaces one by one; nothing else runs between two    *)
(* visits unless the first of them awaits: NoScan guards every other       *)
(* action.  Time is measured in poll intervals, and only as far as the     *)
(* watchdog compares it.                                                   *)
(***************************************************************************)
EXTENDS Integers, Sequences, FiniteSets

CONSTANTS
  N,         \* number of configured interfaces
  Labels, LabelOf, \* what the watchdog files an interface under: its type
  Unknown,   \* the entries whose type is not in the registry
  Socketed,  \* those that count by their socket, which a reconnection renews
  StallAfter, ProbeGrace, Cooldown, \* stallAfterMs, probeGraceMs, cooldownMs
  Lag,       \* the most poll intervals from one tick to the next
  Ticks, Rounds,   \* ticks and retry rounds that may be in flight at once
  MaxSent    \* bound on what one interface transmits

Entries == 1..N
ASSUME EntriesAssumption ==
  /\ N \in Nat
  /\ LabelOf \in [Entries -> Labels]
  /\ Unknown \subseteq Entries /\ Socketed \subseteq Entries
ASSUME TimesAssumption ==
  /\ {StallAfter, Lag} \subseteq Nat \ {0}
  /\ {ProbeGrace, Cooldown, MaxSent} \subseteq Nat

VARIABLES
  next,     \* the entry start() brings up next
  link,     \* what became of the interface of each entry
  attached, \* how many interfaces of an entry the node holds
  sent,     \* the transmit counter of the entry's interface
  watched,  \* recoveryInterfaces
  failed,   \* retryFailures
  todo, still, got, \* of each round: untried, failed again, connected
  started, armed,   \* start() got to the watchdog; there is one
  tracked, counter, quiet, phase, rest, \* the watchdog's state per label:
            \* whether there is one, and how long ago "since" and "lastSwapAt" are
  doing, at, \* what each tick does, at which place of watched
  due,      \* poll intervals since the last tick began
  silent, asked \* history: how long an interface has transmitted nothing, and
            \* whether a re-announce has asked it to meanwhile

linkVars == <<link, attached, sent, silent, asked>>
retryVars == <<failed, todo, still, got>>
stateVars == <<tracked, counter, quiet, phase, rest>>
tickVars == <<doing, at>>
vars == <<next, linkVars, watched, retryVars, started, armed, stateVars,
          tickVars, due>>

Window == StallAfter + ProbeGrace
Least(i, j) == IF i < j THEN i ELSE j

Init ==
  /\ next = 1
  /\ link = [e \in Entries |-> "none"] /\ attached = [e \in Entries |-> 0]
  /\ sent = [e \in Entries |-> 0]
  /\ watched = <<>>
  /\ failed = {}
  /\ todo = [r \in Rounds |-> {}] /\ still = todo
  /\ got = [r \in Rounds |-> <<>>]
  /\ started = FALSE /\ armed = FALSE
  /\ tracked = {}
  /\ counter = [l \in Labels |-> 0] /\ quiet = counter
  /\ phase = [l \in Labels |-> "ok"]
  /\ rest = [l \in Labels |-> Cooldown]
  /\ doing = [t \in Ticks |-> "idle"] /\ at = [t \in Ticks |-> 0]
  /\ due = 0
  /\ silent = [e \in Entries |-> 0] /\ asked = [e \in Entries |-> FALSE]

NoScan == \A t \in Ticks : doing[t] # "scan"

-----------------------------------------------------------------------------
(* Interfaces. *)

\* A new interface of an entry is connected and added to the node.
Attach(e) ==
  /\ link' = [link EXCEPT ![e] = "online"]
  /\ attached' = [attached EXCEPT ![e] = @ + 1]
  /\ sent' = [sent EXCEPT ![e] = 0]
  /\ silent' = [silent EXCEPT ![e] = 0] /\ asked' = [asked EXCEPT ![e] = FALSE]

\* start() brings up the next configured interface, or fails to.
BringUp ==
  /\ next \in Entries
  /\ next' = next + 1
  /\ \/ /\ next \notin Unknown
        /\ Attach(next)
        /\ watched' = Append(watched, next)
        /\ UNCHANGED failed
     \/ /\ failed' = failed \cup {next}
        /\ UNCHANGED <<linkVars, watched>>
  /\ UNCHANGED <<todo, still, got, started, armed, stateVars, tickVars, due>>

\* Traffic, loss of the connection, and the interface's own reconnection.
Transmit(e) ==
  /\ NoScan
  /\ link[e] = "online" /\ sent[e] < MaxSent
  /\ sent' = [sent EXCEPT ![e] = @ + 1]
  /\ silent' = [silent EXCEPT ![e] = 0] /\ asked' = [asked EXCEPT ![e] = FALSE]
  /\ UNCHANGED <<next, link, attached, watched, retryVars, started, armed,
                 stateVars, tickVars, due>>

Drop(e) ==
  /\ NoScan
  /\ link[e] = "online"
  /\ link' = [link EXCEPT ![e] = "offline"]
  /\ UNCHANGED <<next, attached, sent, silent, watched, retryVars, started, armed,
                 stateVars, tickVars, due, asked>>

Reconnect(e) ==
  /\ NoScan
  /\ link[e] = "offline"
  /\ link' = [link EXCEPT ![e] = "online"]
  /\ sent' = IF e \in Socketed THEN [sent EXCEPT ![e] = 0] ELSE sent
  /\ UNCHANGED <<next, attached, silent, watched, retryVars, started, armed,
                 stateVars, tickVars, due, asked>>

-----------------------------------------------------------------------------
(* The background retry of failed interfaces. *)

InFlight(r) == todo[r] # {} \/ still[r] # {} \/ got[r] # <<>>

\* The timer fires.  It finds nothing to do while a round is in flight, and it
\* gives up on the entries whose type is not in the registry.
StartRoundEmpty(r) ==
  /\ NoScan
  /\ next > N /\ failed # {} /\ ~InFlight(r)
  /\ failed' = {}
  /\ UNCHANGED <<next, linkVars, watched, todo, still, got, started, armed,
                 stateVars, tickVars, due>>
StartRound(r) ==
  /\ NoScan
  /\ next > N /\ failed # {} /\ ~InFlight(r)
  /\ todo' = [todo EXCEPT ![r] = failed \ Unknown]
  /\ failed' = {}
  /\ UNCHANGED <<next, linkVars, watched, still, got, started, armed,
                 stateVars, tickVars, due>>

\* One attempt of a round.
Attempt(r, e) ==
  /\ NoScan
  /\ e \in todo[r]
  /\ todo' = [todo EXCEPT ![r] = @ \ {e}]
  /\ \/ /\ Attach(e)
        /\ got' = [got EXCEPT ![r] = Append(@, e)]
        /\ UNCHANGED still
     \/ /\ still' = [still EXCEPT ![r] = @ \cup {e}]
        /\ UNCHANGED <<linkVars, got>>
  /\ UNCHANGED <<next, watched, failed, started, armed, stateVars, tickVars, due>>

\* The round is over: what it connected is watched, what failed is kept.
EndRoundForgetting(r) ==
  /\ NoScan
  /\ InFlight(r) /\ todo[r] = {}
  /\ watched' = watched \o got[r]
  /\ still' = [still EXCEPT ![r] = {}] /\ got' = [got EXCEPT ![r] = <<>>]
  /\ UNCHANGED <<next, linkVars, failed, todo, started, armed, stateVars, tickVars, due>>
EndRound(r) ==
  /\ NoScan
  /\ InFlight(r) /\ todo[r] = {}
  /\ failed' = still[r]
  /\ watched' = watched \o got[r]
  /\ still' = [still EXCEPT ![r] = {}] /\ got' = [got EXCEPT ![r] = <<>>]
  /\ UNCHANGED <<next, linkVars, todo, started, armed, stateVars, tickVars, due>>

-----------------------------------------------------------------------------
(* The watchdog. *)

\* start() sets it up, if there is an interface and periodic traffic to miss.
Arm ==
  /\ next > N /\ ~started
  /\ started' = TRUE
  /\ \E periodic \in BOOLEAN : armed' = (periodic /\ watched # <<>>)
  /\ tracked' = {LabelOf[watched[i]] : i \in DOMAIN watched}
  /\ counter' = [l \in Labels |->
       LET places == {i \in DOMAIN watched : LabelOf[watched[i]] = l}
       IN IF places = {} THEN counter[l]
          ELSE sent[watched[CHOOSE i \in places : \A j \in places : j <= i]]]
  /\ UNCHANGED <<next, linkVars, watched, retryVars, quiet, phase, rest,
                 tickVars, due>>

\* Another poll interval passes; the event loop may be late with the tick.
Advance ==
  /\ NoScan
  /\ armed /\ due < Lag
  /\ due' = due + 1
  /\ quiet' = [l \in Labels |->
                 IF l \in tracked THEN Least(quiet[l] + 1, Window) ELSE quiet[l]]
  /\ rest' = [l \in Labels |-> Least(rest[l] + 1, Cooldown)]
  /\ silent' = [e \in Entries |->
                  IF attached[e] > 0 THEN Least(silent[e] + 1, Window) ELSE silent[e]]
  /\ UNCHANGED <<next, link, attached, sent, watched, retryVars, started, armed,
                 tracked, counter, phase, tickVars, asked>>

\* The timer of the watchdog fires, whatever the ticks before are waiting for.
Poll(t) ==
  /\ NoScan
  /\ armed /\ due > 0 /\ doing[t] = "idle"
  /\ due' = 0
  /\ doing' = [doing EXCEPT ![t] = "scan"] /\ at' = [at EXCEPT ![t] = 1]
  /\ UNCHANGED <<next, linkVars, watched, retryVars, started, armed, stateVars>>

Visited(t) == watched[at[t]]

\* The tick goes on to the next interface, if there is one.
Proceed(t) ==
  IF at[t] < Len(watched)
  THEN /\ doing' = [doing EXCEPT ![t] = "scan"]
       /\ at' = [at EXCEPT ![t] = @ + 1]
  ELSE /\ doing' = [doing EXCEPT ![t] = "idle"]
       /\ at' = [at EXCEPT ![t] = 0]

\* The tick waits where it is.
Await(t, what) ==
  /\ doing' = [doing EXCEPT ![t] = what]
  /\ UNCHANGED at

\* The label's window starts anew.
Rebase(l, bytes) ==
  /\ counter' = [counter EXCEPT ![l] = bytes]
  /\ quiet' = [quiet EXCEPT ![l] = 0]
  /\ phase' = [phase EXCEPT ![l] = "ok"]

WellAtATie(e) ==
  LabelOf[e] \notin tracked \/ link[e] # "online" \/ sent[e] >= counter[LabelOf[e]]
Well(e) ==
  \/ LabelOf[e] \notin tracked     \* a late addition
  \/ link[e] # "online"            \* it reconnects on its own
  \/ sent[e] > counter[LabelOf[e]] \* it transmits

\* What a tick makes of the interface it visits: all is well, ...
VisitWell(t) ==
  LET e == Visited(t)
      l == LabelOf[e]
  IN /\ doing[t] = "scan" /\ Well(e)
     /\ tracked' = tracked \cup {l}
     /\ Rebase(l, sent[e])
     /\ Proceed(t)
     /\ UNCHANGED <<next, linkVars, watched, retryVars, started, armed, rest, due>>

\* ... it is silent for so long that everything is re-announced, ...
VisitStalled(t) ==
  LET l == LabelOf[Visited(t)]
  IN /\ doing[t] = "scan" /\ ~Well(Visited(t))
     /\ phase[l] = "ok" /\ quiet[l] >= StallAfter
     /\ phase' = [phase EXCEPT ![l] = "probing"]
     /\ asked' = [e \in Entries |-> TRUE]
     /\ Await(t, "probe")
     /\ UNCHANGED <<next, link, attached, sent, silent, watched, retryVars, started, armed,
                    tracked, counter, quiet, rest, due>>

Probed(t) ==
  /\ NoScan
  /\ doing[t] = "probe"
  /\ Proceed(t)
  /\ UNCHANGED <<next, linkVars, watched, retryVars, started, armed, stateVars, due>>

FrozenAtOnce(l) == phase[l] = "probing" /\ quiet[l] >= StallAfter /\ rest[l] >= Cooldown
Frozen(l) == phase[l] = "probing" /\ quiet[l] >= Window /\ rest[l] >= Cooldown

\* ... it stayed silent, and its replacement begins: it is removed from the
\* node and disconnected, which ends its own reconnecting ...
DetachLingering(e) ==
  /\ attached' = [attached EXCEPT ![e] = @ - 1]
  /\ UNCHANGED <<link, sent, silent, asked>>
Detach(e) ==
  /\ link' = [link EXCEPT ![e] = "removed"]
  /\ attached' = [attached EXCEPT ![e] = @ - 1]
  /\ silent' = [silent EXCEPT ![e] = 0] /\ asked' = [asked EXCEPT ![e] = FALSE]
  /\ UNCHANGED sent

VisitFrozen(t) ==
  /\ doing[t] = "scan" /\ ~Well(Visited(t)) /\ Frozen(LabelOf[Visited(t)])
  /\ Detach(Visited(t))
  /\ Await(t, "swap")
  /\ UNCHANGED <<next, watched, retryVars, started, armed, stateVars, due>>

\* ... or the time has not come.
VisitQuiet(t) ==
  LET l == LabelOf[Visited(t)]
  IN /\ doing[t] = "scan" /\ ~Well(Visited(t))
     /\ ~(phase[l] = "ok" /\ quiet[l] >= StallAfter) /\ ~Frozen(l)
     /\ Proceed(t)
     /\ UNCHANGED <<next, linkVars, watched, retryVars, started, armed, stateVars,
                    due>>

\* buildReplacement returns a fresh interface or null, or throws.
Rebuilt(t) ==
  LET e == Visited(t)
      l == LabelOf[e]
  IN /\ NoScan
     /\ doing[t] = "swap"
     /\ \/ Attach(e) /\ Rebase(l, 0)
        \/ Rebase(l, sent[e]) /\ UNCHANGED linkVars
        \/ Rebase(l, counter[l]) /\ UNCHANGED linkVars
     /\ rest' = [rest EXCEPT ![l] = 0]
     /\ Proceed(t)
     /\ UNCHANGED <<next, watched, retryVars, started, armed, tracked, due>>

Visit(t) == VisitWell(t) \/ VisitStalled(t) \/ VisitFrozen(t) \/ VisitQuiet(t)

-----------------------------------------------------------------------------
Next ==
  \/ BringUp \/ Arm \/ Advance
  \/ \E e \in Entries : Transmit(e) \/ Drop(e) \/ Reconnect(e)
  \/ \E r \in Rounds : StartRound(r) \/ EndRound(r) \/ \E e \in Entries : Attempt(r, e)
  \/ \E t \in Ticks : Poll(t) \/ Visit(t) \/ Probed(t) \/ Rebuilt(t)

Spec == Init /\ [][Next]_vars

\* start() gets on, the timers fire, a scan goes on, and what is awaited
\* settles: a connection is made or refused, an announce is handed to the
\* transport, which does not wait for the interface.  Traffic and reconnections
\* are up to the mesh.  Fairness is strong where scans suspend an action: a scan
\* ends at once, and no number of them takes the others' turn away.
Timers == Advance \/ \E t \in Ticks : Poll(t)
Settling == \E t \in Ticks : Probed(t) \/ Rebuilt(t)
Retries ==
  \E r \in Rounds : StartRound(r) \/ EndRound(r) \/ \E e \in Entries : Attempt(r, e)
Fairness ==
  /\ WF_vars(BringUp \/ Arm) /\ WF_vars(\E t \in Ticks : Visit(t))
  /\ SF_vars(Timers) /\ SF_vars(Settling) /\ SF_vars(Retries)

FairSpec == Spec /\ Fairness

-----------------------------------------------------------------------------
(* Properties. *)

TypeOK ==
  /\ next \in 1..(N + 1)
  /\ link \in [Entries -> {"none", "online", "offline", "removed"}]
  /\ attached \in [Entries -> Nat]
  /\ sent \in [Entries -> 0..MaxSent]
  /\ watched \in Seq(Entries)
  /\ failed \subseteq Entries
  /\ todo \in [Rounds -> SUBSET Entries] /\ still \in [Rounds -> SUBSET Entries]
  /\ got \in [Rounds -> Seq(Entries)]
  /\ {started, armed} \subseteq BOOLEAN
  /\ tracked \subseteq Labels
  /\ counter \in [Labels -> 0..MaxSent]
  /\ quiet \in [Labels -> 0..Window]
  /\ phase \in [Labels -> {"ok", "probing"}]
  /\ rest \in [Labels -> 0..Cooldown]
  /\ doing \in [Ticks -> {"idle", "scan", "probe", "swap"}]
  /\ at \in [Ticks -> Nat]
  /\ \A t \in Ticks : at[t] \in IF doing[t] = "idle" THEN {0} ELSE DOMAIN watched
  /\ due \in 0..Lag
  /\ silent \in [Entries -> 0..Window]
  /\ asked \in [Entries -> BOOLEAN]

\* The node never holds two interfaces of one entry, and holds every interface
\* that is up, whichever of start(), retry rounds and overlapping ticks made it.
AttachedOnce ==
  \A e \in Entries :
    attached[e] = IF link[e] \in {"online", "offline"} THEN 1 ELSE 0

\* Two ticks never rebuild the same interface at the same time.
OneRebuildEach ==
  \A t, u \in Ticks :
    doing[t] = "swap" /\ doing[u] = "swap" /\ Visited(t) = Visited(u) => t = u

\* Neither is ever doubled: no interface of an entry, no rebuild of an interface.
OneOfEach == AttachedOnce /\ OneRebuildEach

Watched == {watched[i] : i \in DOMAIN watched}
Got(r) == {got[r][i] : i \in DOMAIN got[r]}

\* No configured interface is lost between the retries: once start() has tried
\* it, it is watched, or waiting to be retried, or in a round of retries.
NoneForgotten ==
  \A e \in 1..(next - 1) \ Unknown :
    \/ e \in Watched \cup failed
    \/ \E r \in Rounds : e \in todo[r] \cup still[r] \cup Got(r)

\* An interface alone under its label whose counter outlives reconnections is
\* rebuilt only after it transmitted nothing for the whole window, in which
\* everything was re-announced.
Alone(e) == \A f \in Entries : LabelOf[f] = LabelOf[e] => f = e
Recycled(e) == link[e] = "online" /\ link'[e] = "removed"
OnlySilentRecycled ==
  [][\A e \in Entries \ Socketed :
       Alone(e) /\ Recycled(e) => silent[e] >= Window /\ asked[e]]_vars

\* An interface the watchdog watches does not stay up for ever in silence.
FrozenIsRecycled ==
  \A e \in Entries :
    Alone(e) => []<>(~armed \/ e \notin Watched \/ link[e] # "online" \/ silent[e] = 0)

\* An interface waiting to be retried is tried again.
FailedIsRetried ==
  \A e \in Entries \ Unknown :
    e \in failed ~> link[e] # "none" \/ \E r \in Rounds : e \in still[r]

\* What recovery.js says of a replacement that could not be built: it
\* "will re-check", so a detached interface is not left alone.
DetachedIsRechecked ==
  \A e \in Entries :
    link[e] = "removed" ~>
      \/ link[e] # "removed"
      \/ \E t \in Ticks : doing[t] = "swap" /\ at[t] # 0 /\ Visited(t) = e

\* What recovery.js says of every interface: it is swapped when it transmits
\* nothing for the window.  It does not hold: a label may have two interfaces.
OnlyWedgedSwapped ==
  [][\A e \in Entries \ Socketed : Recycled(e) => silent[e] >= Window]_vars
=============================================================================
