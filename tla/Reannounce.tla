----------------------------- MODULE Reannounce -----------------------------
(***************************************************************************)
(* Keeping the nodes at the other end of the interfaces told of this       *)
(* node's destinations (plugin/announce.js; its callers in                 *)
(* plugin/index.js: connectivity changes, reconnections, the probe of the  *)
(* freeze watchdog; and the first announce and the periodic loop of each   *)
(* destination where it is set up).                                        *)
(*                                                                         *)
(* What is at the other end of an interface knows only what was announced  *)
(* over the present connection; until it hears an announce again it drops  *)
(* what peers send to the destination: a dead window.  A round             *)
(* (triggerAnnounce) announces one destination after the other, awaiting   *)
(* each; several rounds may be under way.  An action is the code between   *)
(* two awaits.  How the watchdog finds and rebuilds an interface is        *)
(* InterfaceRecovery's; the interfaces and the announce loops that repeat  *)
(* by themselves are the library's.                                        *)
(***************************************************************************)
EXTENDS Integers

CONSTANTS
  Ifaces,        \* the interfaces, connected or to be
  Rounds,        \* bound: rounds under way at once
  MinInterval,   \* minIntervalMs, in ticks
  Horizon,       \* bound: ages are told apart up to here
  Scenarios      \* what the node is set for, and bounds: connections that drop,
                 \* interfaces that wedge, changes of the connectivity path, announces
                 \* that fail, loops that stop, and by how much the clock is set back;
                 \* a behaviour has one of them

\* In the order of triggerAnnounce.
Dests == {"lxmf", "nomadnet", "rfed", "embeddedRfed", "propagation"}
Order == <<"lxmf", "nomadnet", "rfed", "embeddedRfed", "propagation">>
First(S) == Order[CHOOSE k \in 1..5 : Order[k] \in S /\ \A j \in 1..(k - 1) : Order[j] \notin S]

\* The first item of a probe's round: the loop of the LXMF destination is started again.
Items == Dests \cup {"rearm"}

ASSUME ReannounceAssumption ==
  /\ MinInterval \in Nat /\ Horizon \in Nat /\ MinInterval <= Horizon
  /\ Scenarios \subseteq [dests : SUBSET Dests, periodic : {"yes", "no"},
                          telemetry : {"yes", "no"}, drops : Nat, wedges : Nat,
                          changes : Nat, fails : Nat, stops : Nat, clock : Nat]
  /\ \A s \in Scenarios : MinInterval + s.clock <= Horizon

VARIABLES
  link,       \* of each interface: absent, up, wedged (up, but nothing gets out), down
  moved,      \* of each interface: whether it sent anything since the watchdog's window
              \* began; "probed" once the watchdog has had destinations announced
  known,      \* <<i, d>>: what is at the other end of i knows of destination d
  excused,    \* history, <<i, d>>: nothing announced d over i when it was due, for one of
              \* the reasons DeadWindowExplained names
  stage,      \* of each destination, its first announce: none yet, announced, failed
  ready,      \* destinations whose handle is set
  loops,      \* destinations announced periodically
  watching,   \* whether connections are listened to, and the watchdog armed
  listened,   \* the interfaces listened to
  last,       \* lastByPath, of one path
  todo,       \* of each round: what it has yet to announce
  age,        \* now - lastFiredAt, by the wall clock
  elapsed,    \* history: the time since then
  turned,     \* history: by how much the clock has been set back since then
  scenario, left \* bounds: the scenario, and what is left of it

netVars == <<link, moved>>
toldVars == <<known, excused>>
destVars == <<stage, ready, loops>>
watchVars == <<watching, listened, last>>
clockVars == <<age, elapsed, turned>>
vars == <<netVars, toldVars, destVars, watchVars, todo, clockVars, scenario, left>>

\* Those whose set-up is awaited: rounds leave them out.
Pending == {d \in Dests : stage[d] # "none"} \ ready
Up == {i \in Ifaces : link[i] = "up"}
Wedged == {i \in Ifaces : link[i] = "wedged"}
Has(b) == left[b] > 0
Spend(b) == Has(b) /\ left' = [left EXCEPT ![b] = @ - 1]

Init ==
  /\ link \in [Ifaces -> {"absent", "up"}]
  /\ moved = [i \in Ifaces |-> "yes"]
  /\ known = {} /\ excused = {}
  /\ stage = [d \in Dests |-> "none"] /\ ready = {} /\ loops = {}
  /\ watching = "no" /\ listened = {} /\ last = "none"
  /\ todo = [r \in Rounds |-> {}]
  /\ age = Horizon /\ elapsed = Horizon /\ turned = 0
  /\ scenario \in Scenarios
  /\ left = [b \in {"drops", "wedges", "changes", "fails", "stops", "clock"} |-> scenario[b]]

-----------------------------------------------------------------------------
(* An announce, and what is sent *)

\* Destination d is announced over the interfaces that are up.
Emitted(d) ==
  /\ known' = known \cup (Up \X {d})
  /\ excused' = excused \ (Up \X {d})
  /\ moved' = [i \in Ifaces |-> IF i \in Up THEN "yes" ELSE moved[i]]
  /\ UNCHANGED <<link, left>>

\* It is not: the call fails, or (what D holds is due in the round) never settles.
Missed(D) ==
  /\ known' = known
  /\ excused' = excused \cup ((Up \X D) \ known)
  /\ UNCHANGED netVars

Failed(d) == Missed({d}) /\ Spend("fails")

Announced(d) == Emitted(d) \/ Failed(d)

\* A round starts with the handles of the moment.
StartRound(items) ==
  \E r \in Rounds : todo[r] = {} /\ todo' = [todo EXCEPT ![r] = items]

\* A new connection: what is at its other end knows of no destination.
Connected(i) ==
  /\ link' = [link EXCEPT ![i] = "up"]
  /\ moved' = [moved EXCEPT ![i] = "yes"]
  /\ known' = known \ ({i} \X Dests)

-----------------------------------------------------------------------------
(* The destinations *)

\* startAnnouncing: the loops of these are the library's, and start with the announce.
Library == {"lxmf", "nomadnet"}

\* start() sets up one destination after the other, those of "later" after d.
Turn(d, later) ==
  /\ d \in scenario.dests /\ stage[d] = "none"
  /\ watching = "no" /\ Pending \subseteq {"rfed"}
  /\ \A e \in later : stage[e] = "none"

FirstAnnounce(d, outcome) == stage' = [stage EXCEPT ![d] = outcome]

\* The first announce and the library's loop, which a failed announce may leave out.
AnnouncedByLibrary(d) ==
  /\ \/ Emitted(d) /\ FirstAnnounce(d, "announced")
        /\ loops' = IF scenario.periodic = "yes" THEN loops \cup {d} ELSE loops
     \/ Failed(d) /\ FirstAnnounce(d, "failed")
        /\ loops' \in {loops, IF scenario.periodic = "yes" THEN loops \cup {d} ELSE loops}
  /\ UNCHANGED <<ready, watchVars, todo, clockVars, scenario>>

\* setupMessaging: a failed announce is logged, and messaging comes up.
SetUpMessaging == Turn("lxmf", Dests) /\ AnnouncedByLibrary("lxmf")

\* setupNomadNet: likewise.
SetUpSite == Turn("nomadnet", {}) /\ AnnouncedByLibrary("nomadnet")

\* An embedded node announces; a failure costs it the set-up, as if there were none.
AnnouncedEmbedded(d) ==
  /\ Emitted(d) /\ FirstAnnounce(d, "announced")
  /\ UNCHANGED <<ready, loops, watchVars, todo, clockVars, scenario>>

SetUpPropagation ==
  /\ Turn("propagation", {"embeddedRfed", "rfed", "nomadnet"}) /\ "lxmf" \in ready
  /\ AnnouncedEmbedded("propagation")

SetUpEmbeddedRfed ==
  /\ Turn("embeddedRfed", {"rfed", "nomadnet"})
  /\ AnnouncedEmbedded("embeddedRfed")

\* setupRFed, to listen(): the client of an RFed node, which may be discovered at any
\* time; a failed announce is logged.
Listen ==
  /\ "rfed" \in scenario.dests /\ stage["rfed"] = "none"
  /\ "embeddedRfed" \notin ready
  /\ \/ Emitted("rfed") /\ FirstAnnounce("rfed", "announced")
     \/ Failed("rfed") /\ FirstAnnounce("rfed", "failed")
  /\ UNCHANGED <<ready, loops, watchVars, todo, clockVars, scenario>>

\* A mutant: one announce, no loop, where a loop is the plugin's own.
HandleWithoutLoop(d) ==
  /\ d \in Pending
  /\ ready' = ready \cup {d}
  /\ UNCHANGED <<stage, loops, netVars, toldVars, watchVars, todo, clockVars, scenario, left>>

\* The set-up is done: the plugin's own loop of a destination announced, and the handle.
\* A client whose listen() failed and left no destination is none of ours: it has no
\* handle here.
Handle(d) ==
  /\ d \in Pending
  /\ ready' = ready \cup {d}
  /\ loops' = IF scenario.periodic = "yes" /\ d \notin Library /\ stage[d] = "announced"
              THEN loops \cup {d} ELSE loops
  /\ UNCHANGED <<stage, netVars, toldVars, watchVars, todo, clockVars, scenario, left>>

\* A timer of a loop.
LoopAnnounce(d) ==
  /\ d \in loops
  /\ Emitted(d)
  /\ UNCHANGED <<destVars, watchVars, todo, clockVars, scenario>>

\* The loop in the library stops.
LoopStops ==
  /\ "lxmf" \in loops /\ Spend("stops")
  /\ loops' = loops \ {"lxmf"}
  /\ UNCHANGED <<netVars, toldVars, stage, ready, watchVars, todo, clockVars, scenario>>

-----------------------------------------------------------------------------
(* Rounds *)

\* A mutant: a failure aborts the round.
RoundStepAborting(r) ==
  /\ todo[r] # {} /\ "rearm" \notin todo[r]
  /\ LET d == First(todo[r]) IN
     \/ Emitted(d) /\ todo' = [todo EXCEPT ![r] = @ \ {d}]
     \/ Failed(d) /\ todo' = [todo EXCEPT ![r] = {}]
  /\ UNCHANGED <<destVars, watchVars, clockVars, scenario>>

\* triggerAnnounce: the next destination, whose failure does not abort the rest.  The
\* library may await a send that never completes, and with it the round.
RoundStep(r) ==
  /\ todo[r] # {} /\ "rearm" \notin todo[r]
  /\ LET d == First(todo[r]) IN
     \/ Announced(d) /\ todo' = [todo EXCEPT ![r] = @ \ {d}]
     \/ Wedged # {} /\ Missed(todo[r]) /\ todo' = [todo EXCEPT ![r] = {}] /\ UNCHANGED left
  /\ UNCHANGED <<destVars, watchVars, clockVars, scenario>>

\* probeAndRearmAnnounces: the loop is started again, which announces at once, and
\* then everything is announced, whether that failed or not.
Rearm(r) ==
  /\ "rearm" \in todo[r]
  /\ \/ Emitted("lxmf") /\ loops' = loops \cup {"lxmf"}
     \/ Failed("lxmf") /\ UNCHANGED loops
  /\ todo' = [todo EXCEPT ![r] = ready]
  /\ UNCHANGED <<stage, ready, watchVars, clockVars, scenario>>

\* start() attaches its listeners, and arms the watchdog if something is sent regularly.
Attach ==
  /\ watching = "no" /\ Pending \subseteq {"rfed"}
  /\ listened' = {i \in Ifaces : link[i] # "absent"}
  /\ watching' = IF listened' # {} /\ "yes" \in {scenario.periodic, scenario.telemetry}
                 THEN "armed" ELSE "yes"
  /\ UNCHANGED <<netVars, toldVars, destVars, last, todo, clockVars, scenario, left>>

\* The connectivity path is published; a value like the one before starts no round.
Publish(value) ==
  /\ watching # "no" /\ value # last /\ Spend("changes")
  /\ last' = value
  /\ StartRound(ready)
  /\ UNCHANGED <<netVars, toldVars, destVars, watching, listened, clockVars, scenario>>

-----------------------------------------------------------------------------
(* Connections *)

\* An interface that was not there at the start, or whose replacement failed, is
\* brought up by a retry.  Nothing is announced, and nothing listens to it once the
\* others are listened to.
ComeUp(i) ==
  /\ link[i] = "absent"
  /\ Connected(i) /\ excused' = excused \cup ({i} \X Dests)
  /\ UNCHANGED <<destVars, watchVars, todo, clockVars, scenario, left>>

Drop(i) ==
  /\ link[i] \in {"up", "wedged"} /\ Spend("drops")
  /\ link' = [link EXCEPT ![i] = "down"]
  /\ UNCHANGED <<moved, toldVars, destVars, watchVars, todo, clockVars, scenario>>

Wedge(i) ==
  /\ link[i] = "up" /\ Spend("wedges")
  /\ link' = [link EXCEPT ![i] = "wedged"]
  /\ UNCHANGED <<moved, toldVars, destVars, watchVars, todo, clockVars, scenario>>

Fire ==
  /\ age >= MinInterval
  /\ age' = 0 /\ elapsed' = 0 /\ turned' = 0
  /\ StartRound(ready)

Skip == age < MinInterval /\ UNCHANGED <<clockVars, todo>>

\* The interface connects again.  What is due is excused where nothing listens, where a
\* round was fired less than MinInterval ago, as far as the clock can tell, and for a
\* destination whose set-up is awaited.
Reconnect(i) ==
  /\ link[i] = "down"
  /\ Connected(i)
  /\ \/ /\ i \in listened /\ Fire
        /\ excused' = (excused \ ({i} \X Dests)) \cup ({i} \X Pending)
     \/ /\ i \in listened /\ Skip
        /\ excused' = IF elapsed < MinInterval + turned THEN excused \cup ({i} \X Dests)
                      ELSE excused \ ({i} \X Dests)
     \/ /\ i \notin listened
        /\ excused' = excused \cup ({i} \X Dests)
        /\ UNCHANGED <<clockVars, todo>>
  /\ UNCHANGED <<destVars, watchVars, scenario, left>>

\* stallAfterMs: the watchdog's window is longer than the interval of the loops and of
\* telemetry, one of which is sent in each window of an interface that is up.
Silent(i) ==
  \/ link[i] = "wedged"
  \/ link[i] = "up" /\ loops = {} /\ scenario.telemetry = "no"

\* A window begins.
Sample(i) ==
  /\ watching = "armed" /\ Silent(i) /\ moved[i] = "yes"
  /\ moved' = [moved EXCEPT ![i] = "no"]
  /\ UNCHANGED <<link, toldVars, destVars, watchVars, todo, clockVars, scenario, left>>

\* A mutant: the probe only announces.
ProbeOnly(i) ==
  /\ watching = "armed" /\ Silent(i) /\ moved[i] = "no"
  /\ moved' = [moved EXCEPT ![i] = "probed"]
  /\ StartRound(ready)
  /\ UNCHANGED <<link, toldVars, destVars, watchVars, clockVars, scenario, left>>

\* It ends, and nothing was sent: the probe.
Probe(i) ==
  /\ watching = "armed" /\ Silent(i) /\ moved[i] = "no"
  /\ moved' = [moved EXCEPT ![i] = "probed"]
  /\ StartRound(IF scenario.periodic = "yes" /\ "lxmf" \in ready \ loops THEN {"rearm"} ELSE ready)
  /\ UNCHANGED <<link, toldVars, destVars, watchVars, clockVars, scenario, left>>

\* The next ends without anything sent: the interface is replaced by a fresh one,
\* which nothing listens to, or which does not come up.
Swap(i) ==
  /\ watching = "armed" /\ Silent(i) /\ moved[i] = "probed"
  /\ listened' = listened \ {i}
  /\ \/ Connected(i)
     \/ /\ link' = [link EXCEPT ![i] = "absent"]
        /\ UNCHANGED <<moved, known>>
  /\ excused' = excused \cup ({i} \X Dests)
  /\ UNCHANGED <<destVars, watching, last, todo, clockVars, scenario, left>>

-----------------------------------------------------------------------------
(* Time *)

Older(a) == IF a < Horizon THEN a + 1 ELSE a
Tick ==
  /\ age' = Older(age) /\ elapsed' = Older(elapsed)
  /\ UNCHANGED <<netVars, toldVars, destVars, watchVars, todo, turned, scenario, left>>

\* The wall clock is set back.
SetBack ==
  /\ Spend("clock")
  /\ age' = age - 1 /\ turned' = turned + 1
  /\ UNCHANGED <<netVars, toldVars, destVars, watchVars, todo, elapsed, scenario>>

Next ==
  \/ SetUpMessaging \/ SetUpSite \/ SetUpPropagation \/ SetUpEmbeddedRfed \/ Listen
  \/ \E d \in Dests : Handle(d) \/ LoopAnnounce(d)
  \/ LoopStops \/ Attach
  \/ \E r \in Rounds : RoundStep(r) \/ Rearm(r)
  \/ \E v \in {"none", "online", "offline"} : Publish(v)
  \/ \E i \in Ifaces : \/ ComeUp(i) \/ Drop(i) \/ Wedge(i) \/ Reconnect(i)
                       \/ Sample(i) \/ Probe(i) \/ Swap(i)
  \/ Tick \/ SetBack

Spec == Init /\ [][Next]_vars

\* A loop announces at each interval, and some of its announces get out; calls settle
\* unless a send never does; the watchdog's timer goes on.
Fairness ==
  /\ \A d \in Dests : WF_vars(LoopAnnounce(d))
  /\ \A r \in Rounds : WF_vars(RoundStep(r)) /\ WF_vars(Rearm(r))
  /\ \A i \in Ifaces : WF_vars(Sample(i)) /\ WF_vars(Probe(i))

FairSpec == Spec /\ Fairness

-----------------------------------------------------------------------------
(* Properties *)

TypeOK ==
  /\ link \in [Ifaces -> {"absent", "up", "wedged", "down"}]
  /\ moved \in [Ifaces -> {"yes", "no", "probed"}]
  /\ known \subseteq Ifaces \X Dests /\ excused \subseteq Ifaces \X Dests
  /\ stage \in [Dests -> {"none", "announced", "failed"}]
  /\ ready \subseteq Dests /\ loops \subseteq Dests
  /\ watching \in {"no", "yes", "armed"} /\ listened \subseteq Ifaces
  /\ last \in {"none", "online", "offline"}
  /\ todo \in [Rounds -> SUBSET Items]
  /\ age \in Int /\ age <= Horizon /\ elapsed \in 0..Horizon /\ turned \in Nat
  /\ scenario \in Scenarios
  /\ left \in [{"drops", "wedges", "changes", "fails", "stops", "clock"} -> Nat]

\* announce.js:147, "a dead window": whenever an interface is connected to a node that
\* does not know of a destination of ours, a round is on its way to announce it, unless
\* its announce failed or never settled, the connection is one nothing listens to, it
\* came less than MinInterval after the round of another, or of itself, or it came between
\* the first announce of a destination and its handle.  In particular
\* no failure of one destination costs a later one its announce, and a skipped
\* reconnection does not put off those after it.
DeadWindowExplained ==
  \A i \in Up : \A d \in ready :
    <<i, d>> \in known \cup excused \/ \E r \in Rounds : d \in todo[r]

\* index.js:2203, "of up to the re-announce interval": the dead windows that remain end: what
\* is at the other end of an interface that stays up comes to know of every destination
\* whose loop the library runs, and of every other whose first announce went out.  One
\* that failed may leave LXMF and NomadNet without a loop, and does leave so an RFed
\* client (rfed.js:643), whose dead window then lasts until something starts a round.
DeadWindowEnds ==
  \A i \in Ifaces, d \in UNION {s.dests : s \in Scenarios} :
    scenario.periodic = "yes"
      /\ <>[](link[i] = "up" /\ d \in ready
              /\ IF d \in Library THEN d \in loops ELSE stage[d] = "announced")
      => <>[](<<i, d>> \in known)

\* index.js:2134, "The LXMF announce loop stopping entirely is one freeze cause": the
\* watchdog starts it again, where nothing else is sent that would hide its silence.
StoppedLoopRearmed ==
  scenario.periodic = "yes" /\ scenario.telemetry = "no" /\ scenario.dests = {"lxmf"} =>
    \A i \in Ifaces : <>[](watching = "armed" /\ "lxmf" \in ready /\ link[i] = "up")
                        => <>[]("lxmf" \in loops)
=============================================================================
