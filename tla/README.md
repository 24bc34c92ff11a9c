# TLA+ models of signalk-reticulum

signalk-reticulum is a Signal K server plugin that puts a boat on the Reticulum
mesh: it runs a Reticulum node with several interfaces, an LXMF message router, a
NomadNet site, RFed telemetry channels and, optionally, embedded propagation and
RFed nodes. The crew gets alarms, daily briefings and telemetry over the mesh and
can send commands back. It is one Node.js process: nothing runs in parallel, but
every `await`, timer and callback lets another handler run in between, and most of
what can go wrong here goes wrong in such a gap, in the persisted files across a
restart, or in the time limits put around deliveries that go on after the limit.

All paths below are relative to `src/`.

## 1. Inventory

| Component | Source | State it keeps | Operations | Talks to |
|---|---|---|---|---|
| Crew alerts | `plugin/notifications.js` | the `episodes` Map (per path: start, transitions, clearedSince) | notification delta, 60 s sweep, delivery loops | Signal K bus, outbound sender |
| Daily briefing push | `plugin/brief-subscriptions.js`, `plugin/commands/briefing-*.js` | the subscription file (per member: last day, last compile sent), the dispatch chain | compile published, start-up catch-up, subscribe, unsubscribe | bus, file system, outbound sender |
| Inbound messages | `plugin/index.js` (`onLxmfMessage`), `plugin/dedup.js`, `plugin/commands/*.js` | recent-message filter, fallback rate limit | message arrives, sender verified, command handled, reply delivered | LXMF router, Signal K puts and resources |
| Outbound sender | `plugin/messaging.js`, `plugin/propagation.js` | none of its own; reads the propagation node in use | send ladder, hand-off recovery | LXMF router, embedded node, transport |
| Freeze watchdog | `plugin/recovery.js` | per interface: last bytes, phase, time of the stall | tick, probe, rebuild | interfaces |
| Metered throttling | `plugin/traffic.js` | committed metered state, pending change and its timer | bus value, grace elapsed | interfaces, embedded nodes |
| Node discovery | `plugin/discovery.js`, `plugin/propagation.js` | best candidate, grace timer | announce heard, grace elapsed, detach | transport |
| Announces | `plugin/announce.js`, `plugin/announce-health.js`, `plugin/storage.js` | last announce heard, last re-request, reconnect debounce | reconnect, freshness check, connectivity change | interfaces, router |
| Interfaces | `plugin/interfaces.js` | attached and failed interfaces | set up, retry failed | Reticulum |
| Embedded nodes | `plugin/embedded-nodes.js` | stores of the propagation and RFed node, persisted periodically and on the way out | load, ingest, persist, tear down | LXMF router, RFed client, file system |
| Crew and fleet telemetry | `plugin/inbound.js`, `plugin/rfed.js`, `plugin/telemetry.js` | subscriptions, throttle times | telemetry received, snapshot sent, deferred pull | bus, RFed |
| Life cycle | `plugin/index.js` (`start`, `stop`) | `unsubscribes`, the plugin's handles | start, stop, everything above | Signal K server |
| Identity | `plugin/identity.js` | none: the keys are in the plugin's options | load, generate | plugin options |
| NomadNet pages, status, schema, formatting | `plugin/nomadnet.js`, `plugin/status.js`, `plugin/schema.js`, `plugin/briefing.js`, `plugin/appearance.js`, `plugin/compression.js`, `plugin/displayname.js`, `plugin/markdown.js` | none | rendering and configuration schema | – |

### What is hard, and what makes each component correct

* **Crew alerts.** The decision on a delta is synchronous, the delivery is not:
  alert loops, all-clear loops and sweeps overlap. Correct means: an active alarm
  always has an open episode, an alert is forwarded only after a quiet window, an
  all-clear only for a path that has been quiet for the window, nobody gets a
  message twice, every message is tried for everybody unless a delivery of its own
  loop hangs, a cleared alarm is
  eventually reported.
* **Daily briefing push.** Three writers (dispatch, subscribe, unsubscribe) read,
  modify and rewrite one file with awaits in between, through one temporary name;
  the process may stop between a delivery and the write that records it. Correct
  means: at most one briefing per member and day, never the same compile twice, a
  subscription or cancellation the member was told of is not lost, the file is
  always a complete store.
* **Inbound messages.** The same message arrives more than once (retries, another
  propagation sync); it is remembered before its sender is verified, which takes an
  await. Handlers reply through a delivery that may be reported as timed out and
  still arrive. Correct means: a message is acted on at most once, only crew may
  use crew commands, every accepted command is answered once, the fallback help is
  rate limited.
* **Outbound sender.** A ladder of delivery rungs with a late-bound embedded node
  and a recovery path. Correct means: the sender resolves only when some rung took
  the message, recovers only from a declined hand-off, never leaves the ladder
  half way.
* **Freeze watchdog.** Overlapping asynchronous ticks over state keyed by
  interface label; a rebuild that fails leaves no interface to look at. Correct
  means: no interface is rebuilt without a stall, a rebuild happens once per
  stall, a failed rebuild is retried.
* **Metered throttling.** Hysteresis on a bus value, read once before and once
  after a long start. Correct means: only a change that outlasts the grace time is
  committed and the throttle in force is that of the committed state.
* **Discovery, announces.** One choice per discovery out of announces in any order;
  detach racing the grace timer; debounce of reconnects.
* **Interfaces.** A retry timer whose asynchronous ticks overlap. Correct means: a
  failed interface is retried until it comes up, and comes up once.
* **Embedded nodes.** Periodic and final saves against tear-down and restart. Correct
  means: a store is never replaced by an older or an emptier one.
* **Life cycle.** `stop` can run while `start` awaits. Correct means: after `stop`
  no timer, listener or interface of the session is left.

## 2. Plan

The most important behaviour comes first: what the crew is told and when, what a
message from the mesh may do, and whether the boat stays reachable. Every module
is written to be proved about as well as checked: parameters are CONSTANTS with
named assumptions, an operation is one action (or one per outcome), invariants are
conjunctions of named parts, and no module uses a RECURSIVE operator.

| | Module | Models | Abstract promise it is held to | State |
|---|---|---|---|---|
| 1 | `AlertEpisodes` | crew alert forwarding | `OnlyAfterQuiet`: stated on the bus alone, not on the episodes | done, proved but for liveness |
| 2 | `BriefSubscriptions` | daily briefing push, its file and commands | one briefing per day and compile, stated on the members' inboxes | done, proved but for liveness |
| 3 | `InboundMessages` | inbound messages, commands, fallback replies | who may act, what they are told, stated on messages and answers | done, proved |
| 4 | `InterfaceRecovery` | interface set-up, background retry, watchdog | one interface per entry; only silent ones are recycled, stated on the history of silence | done, proved but for liveness |
| 5 | `StoreAndForward`, `NodeDiscovery` | the send function of all deliverers, the embedded propagation node and its store, the choice of a node on the mesh | `ClosestNode`: the closest node heard, once; what was reported as sent is kept somewhere | done, proved |
| 6 | `PluginLifecycle`, `MeteredThrottle` | `start` and `stop` that overlap at each await, the timers and listeners left behind, and the metered policy read on the way | after `stop` nothing of the session is left; the throttle in force is that of the uplink | done, proved |
| 7 | `ShipTelemetry` | ship telemetry over RFed, by the embedded node and its in-process client or as the client of a node elsewhere | what is received updates other vessels only; nothing is kept for a client that never asks | done, proved but for liveness |
| 8 | `Reannounce` | rounds of announces: reconnections, connectivity changes, the watchdog's probe, the loops | a node that is connected knows our destinations, or is about to be told | done, proved but for liveness |
| 9 | `AnnounceHealth`, `Snapshot`, `CrewTelemetry` | the crew's keys, path requests, their persistence; what a snapshot holds; rounds of telemetry and another boat that receives them | a member in reach is served with its present key; what is shown was reported, at one moment | done, proved but for liveness |

Further on: a module that composes `AlertEpisodes` (or `BriefSubscriptions`) with
`StoreAndForward`, to replace the delivery that settles by itself with the one the
ladder gives; an abstract specification of the briefing push (a set of days and
compiles per member) that `BriefSubscriptions` without crashes implements; pure
operators over bounded inputs (command matching, intervals, SI conversions).

*Runs.* One run per question, at most a handful per module. To make room for the
planned modules, runs that refute a statement of the documentation give way to the
sections below, which name every such statement, and small components share a module.

*Theorems.* Every invariant and every safety property of a step that a passing run
checks is also a theorem, in the `*Proofs` module of its component; those of `Reannounce`
and `PluginLifecycle` share `SessionProofs`. Next: for `BriefSubscriptions` with commands,
what holds of the members no command is about; and the two further compositions above,
each by a refinement.

## 3. How to run

    tlc -config MCAlertEpisodes.cfg MCAlertEpisodes.tla      # or any other cfg
    tlapm AlertEpisodesProofs.tla                            # or any other *Proofs

Every `MC*.tla` gives its module's constants their values; a `.cfg` picks them. An
action whose name continues that of another action or operator (`StartRoundEmpty`,
`SightWithoutRefresh`, `Awaiting`/`AwaitingAnyDay`) is a *faulty variant*: what the code
would be after a plausible mistake. No specification uses one; each is there to show
that the property it belongs to notices the mistake. `PROJECT.json` names the
variant, the definition it replaces and the property that is then violated.

## 4. Crew alerts: `AlertEpisodes`

**State and actions.** `episodes` is the `episodes` Map of `plugin/notifications.js`
(`NoEpisode`: no entry). `PublishAlert` and `PublishNormal` are the callback of the
notification subscription in `plugin/index.js` with `shouldWeSendNotification` up to
its return: `OpenEpisode` and `ContinueEpisode` are its two outcomes for an alert,
`BeginClearing` that for anything else. `Sweep` is `sweepNotifications`. A member of
`loops` is one of the `for … await` loops, over recipients or over all-clears and
recipients; `Settle` is one `await` of it, and `Hang` a delivery that turns out never to
end: the loops await `deliver` itself, without the time-out that telemetry, replies and
briefings are delivered under. `Start` and `Stop` are the parts of the
life cycle that matter here: `stop` empties the Map and leaves the loops running.
Time is counted in sweep periods. `bus`, `alertEnded` and `attempted` are history.
An "alarm" and an "emergency" are one state, since only the text tells them apart.

**Checked.**
* `alert_episodes` (`Spec`): one path, two episodes, window of two sweeps, a delivery
  that settles at any time (`MaxSend` beyond the clock's end) or hangs, every combination
  of settings, any number of restarts. `EpisodeMirrorsBus`, `AtMostOncePerMember`,
  `OnlyAfterQuiet`. Two episodes of
  one path with two members are enough for every pair of loops to overlap: an alert
  with its all-clear, with the next alert, and with the loop of a session before.
* `alert_liveness` (`FairSpec`): a delivery that does not hang takes at most one sweep
  period, so that those to both members fit the window; `AlertTriedBeforeClear`, `EveryMemberTried`,
  `ClearIsReported`. With slower deliveries an all-clear can overtake its alert: the
  loops are independent. A delivery that hangs costs the later members of its own loop,
  and they alone: `Hung` in `EveryMemberTried`.

**Fairness.** `Tick` and `Sweep`: timers fire. `SettleMessage`: a delivery that does not
hang settles, since the links and identities it waits for have a time-out
(messaging.js:50). Whether it hangs is left open. Nothing obliges the bus, `start` or `stop`.

**Proved** (`AlertEpisodesProofs`), for any paths, crews, window and delivery times: `TypeOK`
and all properties of `alert_episodes`; `AlertTriedBeforeClear` for those under `CrewFits`.
`EpisodeMirrorsBus` is inductive with `TypeOK` and yields the two action properties;
`AtMostOncePerMember` needs the numbering of episodes as strengthening (`EpisodeLedger`): a
message's number is never reused, and an all-clear's episode is no longer in the Map.
`AlertTriedBeforeClear` is about time: `CrewFits` says that the deliveries to each crew, one
after the other, fit into the window, which is a hypothesis because the code does not see to it
(the run's constants satisfy it). `TriedInv` says that no loop is overdue but one that hangs
and that an alert's loop is due no later than as many deliveries after the episode's start as
it has begun; an episode is closed a window after its start at the earliest, when that loop is
through.

**Documented, and not so** (seen with the model, without a run of their own):
* notifications.js:364 promises the all-clear to "every episode that has stayed
  cleared" for the window. An alert that returns after the window but before the next
  sweep replaces the episode, and its all-clear is never sent
  (`EveryClearedEpisodeReported` is stated in the module and does not hold).
* index.js:934 says that a hung stream write "must never wedge the telemetry loop", and
  bounds it. Nothing bounds it for alerts (index.js:1948) and all-clears (index.js:1969):
  a member whose delivery hangs leaves those after it in the list without the message.
* The window is measured on the wall clock (notifications.js:78): a clock that is set
  (GPS or NTP after boot) lengthens or shortens it. The model's clock only goes on.
* An alert that is published again without a change counts as a transition
  (notifications.js:178, "Times the alert re-occurred while open"), and so does the first one.

## 5. Daily briefing push: `BriefSubscriptions`

**State and actions.** The subscription file is modelled as the directory sees it:
two names (`store`, the temporary one) that lead to inodes with contents, because the
writers share `${file}.tmp` and one may rename what another still writes. A writer is
the dispatcher (`dispatchBriefings`, queued by `queueBriefingDispatch` in `queued`) or
a member's command (`briefing-subscribe.js`, `briefing-unsubscribe.js`); `pc` says at
which `await` it stands, `copy` is the store it holds in memory. `SaveOpen`,
`SaveWrite`, and a rename action are the awaits of `saveSubscriptions`. `Compile` is
the delta that queues a dispatch, `Start` the catch-up, `Crash` the end of the process
at any await. `inbox`, `told` and `tried` are history. `Faults` selects what may go
wrong, so that a run can ask what holds without a given fault.

**Checked.**
* `briefing_push` (`FairSpec`): two subscribers, two days, two compiles, failing
  deliveries, two crashes, a store that is new or left by an earlier process.
  `StoreNeverTorn`, `RecordedOrInFlight`, `RepetitionsNeedCrashes`:
  each gate holds but for one repetition per crash; `EverySubscriberServed`: whoever
  is owed a briefing gets it or has been tried. Two crashes, two days and two compiles
  let a repetition follow a repetition; `MaxInbox` 6 is more than two days
  and two crashes can fill.
* `briefing_faults` (`Spec`): every fault at once, one member, one crash:
  `NeverMarkedUndelivered`. One member and the dispatcher are the two writers it takes
  to overlap in the file.

Deadlock is not checked: days, compiles and crashes are bounded, so the runs end.

**Fairness.** File operations and deliveries end (`withTimeout`, two minutes), and a
process that stopped is started again. Nothing else is obliged to happen.

**Proved** (`BriefSubscriptionsProofs`): `TypeOK` and `NeverMarkedUndelivered` for all
members and faults; `StoreNeverTorn` when no commands run; `RecordedOrInFlight` and,
as a lemma of it, that no compile is delivered twice, when deliveries are reported
truthfully, saves succeed and no command runs, until the first crash. The
strengthening for that (`OnceInv`) says that whatever a member has received is covered by the
store or the dispatcher's copy, that the copy differs from the store only while the
dispatch is under way, and that who is still to be sent the compile lacks it.
Beyond the first crash, `RepetitionsNeedCrashes` for any number of crashes, if besides no
midnight passes during a dispatch (`Steady`; otherwise a delivery counts for the day
before, see below, and repetitions of a day cost no crash). Its invariant is a ledger
(`Ledger`): a member's repetitions, and one more as long as the store a dispatch goes by
(`Current`: its copy once it delivers, else the file) lags behind the inbox, are no more
than the crashes. Only a crash, which loses the copy, makes it lag; a delivery to a member
it lags for may be a repetition, and ends the lag.

**Documented, and not so** (seen with the model, without a run of their own):
* A command that overlaps a dispatch is undone by the older copy the dispatch saves after
  it (brief-subscriptions.js:254), although the member was told "Unsubscribed" (`StoreMatchesReplies` is stated in the module and does not hold).
* brief-subscriptions.js:20-22: a crash between a delivery and the save repeats the
  compile (`crashes` in the two bounds above).
* A delivery that arrives after its time-out is not marked: the member gets a second
  briefing that day. Likewise when midnight passes during a dispatch: `today` is taken
  at its start, so a delivery after midnight counts for the day before.
* With commands, two writers share the temporary name, and the store may be renamed
  from a file just truncated by the other: `StoreNeverTorn` needs a sole writer.

## 6. Inbound messages: `InboundMessages`

**State and actions.** `Arrive` is `onLxmfMessage` up to its first `await`: the
filter of `plugin/dedup.js` (`Sight`; the Map's insertion order is kept as the number
of the call that saw a message last). `Drop` and `Admit` are the outcomes of
`verifySender`; `Answer`, `RefuseToLog`, `StartDeed`, `DeedDone`, `DeedFails` those of
the command that accepts the message; `Fallback` and `FallbackHeld` are
`commands/fallback.js`; the delivery actions are the `await` of the answer with the
`catch` blocks around it. The texts are reduced to what is asked and what is said.
`Restart` is `stop` and `start` of the plugin: a new filter, while the fallback's
module-level table stays and the calls under way go on.

**Checked.**
* `inbound_calls`: either three arrivals of any of seven messages (of the crew, of a
  stranger, who asks for a crew command twice, of a forger in the crew's name), with
  deliveries that fail or arrive late; or, for the filter, six arrivals of three messages
  nobody can prove, with a filter of two and a restart between them. `OnlyProvenCrewAct`,
  `FallbackRateLimited`, `SlotHeldByReply`, `SilenceIsExplained`, `TruthfulAnswers`,
  `DuplicatesAreRecent`. Three overlapping calls are one more than it takes to race for a
  sender's slot; an interval of two and a time-out of one keep their order in the code;
  six arrivals evict, refresh and bring back a message.

Deadlock is not checked: arrivals and the clock are bounded.

**Proved** (`InboundMessagesProofs`), for any messages, senders, settings, intervals
and numbers of calls: everything `inbound_calls` checks. The invariant is per call
(`CallInv`): what a call may already have said or done at each stage, and that a
delivery under way is younger than the time-out, which is what makes the slot of a
failing reply still that reply's own when it is given back. `DuplicatesAreRecent` has an invariant
of its own (`FilterInv`), which is that of any list of what was used last: the filter holds
at most `Capacity` messages, all that came after the last copy of one it holds are in it
too, and after one it no longer holds at least `Capacity` others have come. That the
oldest is the one to go needs a least element of the order in which they were seen
(`Least`).

**Not modelled:** messages without an id (they bypass the filter); the crash of the process
(nothing of this is persisted); a put that is never answered (commands/switching.js:54: the
call then stays in `act`, and its sender is told nothing). Subscribing and unsubscribing are in
`BriefSubscriptions`.

**Documented, and not so:** verifySender solicits the announce of an unknown sender "so
the identity lands and a later copy of this message — a retry, or another sync —
verifies" (messaging.js:503-504), but the copy that was dropped stays in the filter and
the later one is ignored as its duplicate (`LaterCopyIsVerified` is that sentence, and
does not hold). The log command answers "Logging failed" for an entry it
has written when the delivery of its "OK" fails, and both may arrive (README.md:104,
commands/index.js:44-45) – the exception `TruthfulAnswers` spells out. A fallback
reply that arrives after its time-out has freed the slot, so two may reach a sender in
one interval. Telemetry of the crew without a text draws a fallback reply as well
(index.js:1012-1014).

## 7. Interfaces and watchdog: `InterfaceRecovery`

**State and actions.** `BringUp` is one turn of the loop of `start` that brings up the
configured interfaces; `StartRound`, `Attempt` and `EndRound` are
`retryFailedInterfaces` of `plugin/interfaces.js` between its awaits, with the timer
that calls it again whatever became of the round before. `Arm` is `createWatchdog`,
`Poll` the timer of the watchdog, and a tick then visits the interfaces in `watched`
(`recoveryInterfaces`) one by one: `VisitWell`, `VisitStalled` (the re-announce, which
it awaits until `Probed`), `VisitFrozen` (the replacement begins: the old one is
removed and disconnected; `Rebuilt` ends it), `VisitQuiet`. Visits without an `await`
between them run on without a break: `NoScan` guards every other action. The
watchdog's state is kept per label, as in the code, and a label is an interface's
type. `Transmit`, `Drop`, `Reconnect` are the interface's own; a reconnection of one
in `Socketed` restarts its counter. `silent` and `asked` are history: how long nothing
has been transmitted, and whether everything was re-announced meanwhile. Times that
the code only compares with a limit saturate there.

**Checked.**
* `interface_recovery` (`FairSpec`): two interfaces, of which the first counts by its
  socket, two ticks and two rounds in flight. `OneOfEach`,
  `NoneForgotten`, `OnlySilentRecycled`, `FrozenIsRecycled`, `FailedIsRetried`. Two of
  each is what it takes to overlap; a third tick or round finds nothing another does
  not, since a tick holds at most one interface and a round all failures. All times
  are one poll interval: the window is then two, one for each phase.

**Fairness.** `start` gets on and a scan goes on (weak). Timers, retries and what is
awaited are strong: a scan suspends them for the length of a synchronous loop, which
cannot starve them in an event loop but can disable them infinitely often in a model.
Connecting ends in success or failure, and handing an announce to the transport does
not wait for the interface. Traffic, loss and reconnection are up to the mesh.

**Proved** (`InterfaceRecoveryProofs`), for any number of interfaces, ticks and
rounds, any labels and times, however late the ticks: `TypeOK`, `OneOfEach`,
`NoneForgotten`, `OnlySilentRecycled`. None is inductive alone. The
invariant has three parts. *Links*: what a tick rebuilds is "removed" and nobody else
touches it, which makes rebuilds exclusive. *Retries*: at most one round is in flight
and it holds every failure, an entry that waits has no interface and one that is
watched has. *Silence*: a label is tracked only if something is watched under it, and
the window of an interface alone under its label began no earlier than its silence.
Even the type invariant needs the first part: the number of interfaces the node holds
would otherwise fall below zero.

**Assumed:** `disconnect()` takes an interface offline at once and ends its own
reconnection; otherwise a tick that overlaps the rebuild would begin another. A shared
instance counts as an entry whose rebuild may throw. The order of a round's attempts
is left open. **Not modelled:** `stop` (ticks in flight go on after it), and the status
object.

**Documented, and not so:**
* recovery.js:173-178: after a rebuild that failed the watchdog "will re-check", but
  the detached interface stays offline, and an offline interface is skipped
  (`DetachedIsRechecked` is stated in the module and does not hold). CHANGELOG.md:84
  relies on the reconnection that `disconnect` has just ended.
* recovery.js:20-25 and README.md:35 speak of an interface that moves no traffic, but
  the watchdog's label is the interface's type (index.js:725): of two interfaces of one
  type the one that transmits less is recycled while it transmits (`OnlyWedgedSwapped`
  is stated in the module and does not hold).
* A reconnection restarts the counter of an interface in `Socketed` below the sampled
  value: it counts as silent until it has sent as much again, and may be recycled while
  it works. `OnlySilentRecycled` therefore leaves these out.
* recovery.js:116: after the probe the code means to wait `probeGraceMs`; a tick later
  than the whole window probes, and the next one recycles at once.
* CHANGELOG.md:84 says that interfaces brought up later are "enrolled in the
  watchdog"; without any interface at start there is none (index.js:2131).
* CHANGELOG.md:86: an overlapping round that finds nothing to do empties
  `interfacesFailed` while an attempt is pending, and entries whose type is unknown
  disappear from it after the first round.
* With the default times the window is longer than the cool-down, whose guard never
  bites.

## 8. Store and forward: `StoreAndForward`, `NodeDiscovery`, `ClosestNode`

**State and actions.** `NodeDiscovery` is `discoverClosestNode`: `Listen`, `Hear`
(`onAnnounce`), `Finish` (the grace timer) and `Detach`. An announce without a hop count
is one at `Far` hops. `ClosestNode` is its promise, over the history of what was heard
(`best`) alone; `Promise` maps one to the other.

`StoreAndForward` extends it by what the plugin does with the node. A session is one
start of the plugin: `Begin` (`setupMessaging`), then either `LoadStore` and `NodeUp`
(or `NodeFails`, before or after the router serves as a node) of the embedded node, or
`ClientUp` with a configured node or a search; `Stop` is the synchronous part of `stop`
with the tear-down, `StopEnds` what follows `await rns.stop()`. `handle` is
`plugin.embeddedPropagation`, `outbound` the router's `outboundPropagationNode`, `disk`
the persisted store and `saves` the saves nobody waits for. A send (`pc`) holds on to
the router and to the node it read when it began: `Send` is the start of the function
`makeOutboundSender` returns, and the other steps are the ways its awaits can end, the
recovery by submission (`Submitted`, `Rejected`) and by solicitation (`Solicited`)
included. `accepted` and `excused` are history: what an embedded node took in, and what
the code gives up. `Excuse` occurs in the definitions where that happens, so the list of
exceptions is the list of its uses:

* a node torn down, or one that was left behind by a failed start, takes a message in
  (`TakeIn`); a failed start leaves what it had loaded (`NodeFails`);
* a start reads the store while a save of the session before is under way, or cannot
  read it at all and goes on with an empty one (`LoadStore`);
* the last save of a tear-down may be overwritten by a periodic one still under way
  (`Teardown`), or fails (`SaveFails`); a periodic save that fails loses nothing;
* a crash loses what is not on disk, maintenance what has aged, and the embedded node
  what it rejects.

**Checked** by `store_and_forward` (`Spec`, every fault): two sessions of any mode, one
message of the plugin's and one of another client's, two nodes at two distances.
`NothingElseIsLost`: what a deliverer reported as sent, or the node accepted, is with
its recipient, with an external node, in the memory of the session's node, on disk or
being saved, unless excused. `SelectsClosestOnce`: the search implements `ClosestNode`
inside the whole system. Two sessions are what it takes for a save and a send to outlive
their own; two messages let a save hold one and miss the other; two distances with the
larger one unknown give every order of nearer, farther and equal. At most two
(`MaxSaves`) are under way when a periodic one begins: an hour passes between them.

No fairness is assumed and no liveness claimed here; deadlock is not checked, since
sessions and sends are bounded.

**Proved** (`StoreAndForwardProofs`), for any number of sessions, messages and nodes:
`SearchImplements` and `ClosestIsUsed`, the refinement alone and composed; `TypeCorrect`
and `NothingLost`. The refinement needs that the candidate is the closest node heard
(`Tracks`) and that the timer runs only while listening, with a candidate (`Armed`).
`NothingElseIsLost` says where messages are, not why they stay: the strengthening adds
that disk and saves hold no more than the running node does (`FromDisk`), so that a
failed save loses nothing; that every save under way is at least as rich as the disk and
as any other, but for what the running node still holds (`NoPoorer`), so that they may
end in any order; and that a node on its way out is on disk or being saved (`Handed`).

**Assumed:** there is a data directory; messaging comes up; `stop` does not overtake
`start` (section 9 is about that). A save replaces the file by what the store held
when the save began. **Not modelled:** peering with other nodes, the storage limit, the
periodic sync from an external node. The RFed node, whose stores are loaded and saved in
the same way, is in section 10.

**Documented, and not so:**
* messaging.js:17: "a message for an unreachable peer is stored for them instead of
  silently dropped". A send that begins, or is on the ladder, while `stop` awaits
  `rns.stop()` still finds the embedded node, submits to it after its last save and is
  reported as sent (`SentIsKept` is the sentence without exceptions and does not hold).
  The same goes for a message the node counts as rejected (propagation.js:168-173).
* embedded-nodes.js:11: "state survives restarts". The last save is not awaited, and a
  restart may read the store before it is written.

## 9. Sessions: `PluginLifecycle`, `MeteredThrottle`

**State and actions.** `at` is the section of `start` a session has reached, one per
`await` and one per stretch between two in which something is decided; `running` is
the session whose `start` has control. A section that does not end in an `await`
(`Goes`) is followed at once by the next, and nothing else happens; at an `await`
(`Awaits`) anything may. `Begin` to `Rest` are the sections in the order of the code.
What a session leaves running – timers, listeners, watches – is in `live` under the
names of `Things`; `unsubscribes` is the list of cancels of the same name; `handle` and
`listed` are the fields of the plugin, which all sessions share. `messaging`, `initial`,
`router` and `recovers` are the locals of `start`. `Stop` is `stop` up to `await
rns.stop()`, `Stopped` the rest. `tasks` are the asynchronous calls beside a start: the
interface retry, the watchdog's rebuild, and the RFed client brought up by a discovery;
the propagation client needs no await (`PropagationSelected`).
The server is external: it begins a session when `stop` has ended, and stops one without
waiting for its `start`.

`MeteredThrottle` has the tracker of `plugin/traffic.js`: `Published` is `observe`,
`Elapsed` the clock, `Committed` the timer's commit with `applyMeteredPolicy`,
`NodeEnabled` the policy an embedded node starts with.

**Checked** by `plugin_sessions` (`LifecycleSpec`, deadlock included): two sessions, with any of
three sets of features for each, so that both roles are served by a node, by a client of
a known node (with a site) or by one that is searched for.
* `StopsClean`: a stop that overtakes nothing leaves nothing, but for listeners that an
  overtaken start put on another router; and not even those, nor an interface, if none
  was ever overtaken.
* `OneServes`: where messaging came up, the propagation role is served by the embedded
  node, by the client, or by the search for the client's node, also when the embedded
  node's start fails. Where it did not, `bringUpPropagation` skips the client
  (index.js:1528-1533), so that a configured node is served by nothing and a search goes
  on in vain; no client pretends otherwise. In neither role does a client run beside the
  embedded node, and `handle` never points to a node that does not run. That the RFed role
  is served at all is not claimed: its client may fail to come up, and is not tried again.
* `ThrottleFollows`, `ThrottleHeld`: the throttle of a node follows the uplink after the
  grace time, and a state that did not hold that long never reaches it.

The three budgets ask three questions, one per run of events: a call that fails, an
uplink that flips (three times: away, back and away again, within a grace time of one
tick), stops that overtake a start or a task (two, one for each session). Two sessions
are what it takes for something to outlive its own; what an overtaken start of the
second leaves, a third would find as the second finds that of the first.

`stop_during_start` finds that `stop` does not do what index.js says of it when it
comes while `start` awaits: four steps are enough, and the same holds at every later
`await`. What follows from an overtaken start, seen with the model:
* The Reticulum node of that session may stay attached: its interfaces come up after
  `rns.stop()`, or the node is replaced in `plugin.rns` before it was ever stopped.
* The cancel of a listener reads `plugin.lxmf` when it runs. With another session's
  router there, listeners of either survive the stop, and a message is handled twice.
* `start` does not clear `plugin.embeddedPropagation`. If an overtaken start sets it
  between, the next session has neither a node nor a client of the propagation role, and
  hands its messages to the other session's node.

**Proved** (`SessionProofs`), for any number of sessions, any settings, grace time and
budgets: `LifecycleTypeOK` and all four properties of `plugin_sessions`. One invariant
(`LifecycleInv`, first checked by TLC on the run's instance) carries them all. Its first
half holds whatever stops overtake: at most one start has control (`Control`), whatever runs
but a listener has its cancel in the list (`Registered`), and after a stop that overtook
nothing no start and no task is at work (`Quiet`). The second half holds until a start or
a task is overtaken, and is what gives a stop something to rely on: all there is belongs to
the last session (`OwnedByLast`), which has its node before anything else (`NodeFirst`) and
leaves nothing (`NothingLeft`). On that rest `OneServes`, for which each section of `start`
must be known not to have set up yet what a later one decides on (`Serves`), and the two
properties of the throttle: a tracker's pending change is armed exactly while the uplink
differs from what is committed, with as much time left as the uplink has not yet held
(`Tracks`), and a node's filter is what its tracker committed last (`Throttled`).

No liveness is claimed. The overtaken start is what `OneServes` and the throttle's
properties leave out.

**Assumed:** `rns.stop()` succeeds and disconnects what is attached when it is called;
re-announcing and the metered throttle are on, as they are by default. **Not modelled:**
what the things do once they run (the other modules); interfaces of a session one by
one (section 7).

**Documented, and not so:**
* index.js:1155-1158: the tracker "keeps it in sync". The uplink is read for the embedded
  nodes and, two awaits later, adopted by the tracker as its first state without a
  transition. If it changes in between, the node keeps the wrong throttle until the next
  change: the exception `skewed` in `ThrottleFollows`.

## 10. Ship telemetry: `ShipTelemetry`

**State and actions.** A session takes part in the federation as an embedded node
(`setupEmbeddedRFedNode`, with the in-process client of `setupEmbeddedRFedClient`) or as
the client of a node elsewhere (`setupRFed`, `pullDeferredMessages`). `Load`,
`NodeStarted`, `Subscribe`, `TapFanout` are the stretches of the first start between its
awaits, `Connect`, `Connected` those of the second; `guard` is the MMSI read at that
time. `Ingest` is the node's call of its fanout, `Defer` the fanout of the library, which
keeps a blob for a local subscriber that is never online, `Return` the rest of the
wrapper: the drain, and the decoding begun. `Distribute` and `Pull` are the two ways a
blob comes from a node elsewhere. `Handle` is `handleInboundShipTelemetry` on what was
decoded, possibly in a later session. `Maintain` begins a save and `Stop` another that
nobody awaits; `SaveEnds` ends either, in any order. `disk` and `saves` keep the
subscriptions alone, of the four stores. A blob stands for a message and those like it;
what a snapshot carries is reduced to the parts that decide whether it is published
(`Encodes`), shown (`Yields`) and under which context (`Context`).

**Checked** by `ship_telemetry` (`FairSpec`, deadlock included): a fix of another boat that
may claim our MMSI, our own echo, and a boat of which only the name is known, on another
channel; sessions of one role with any settings; an MMSI that is published late; a failure
or a crash.
* `OthersOnly`: neither our echo nor a claim to our MMSI becomes a delta.
* `NoStaleBacklog`: the queue of the local client holds of its channel only what is in the
  fanout.
* `SubscriptionFollowsTap`: the local subscription is there exactly as long as the tap
  needs it, in memory and, after a stop, on disk.
* `EveryBlobHandled`: what the other node keeps for us is handled, and so is what our own
  node ingested under the tap, also when a stop comes first.

The two budgets ask two questions: two blobs on their way with no periodic save, one
blob with a save that may outlive its session. Two fanouts are what it takes for one to
drain the copy of the other; a third adds nothing, since a drain takes all.

**Fairness.** A fanout returns and decoding ends. The client pulls on a timer, and the
node elsewhere does not keep one blob back for ever while it hands out others. Nothing
obliges boats to publish, a session to start or a save to end.

**Proved** (`ShipTelemetryProofs`), for any blobs, settings, failures and numbers of
fanouts and saves: `TypeOK`, `OthersOnly`, `NoStaleBacklog`, `SubscriptionFollowsTap`. The
invariant adds what each leaves unsaid: that the MMSI a session has read, and every blob
being decoded carries with it, is ours unless that has changed (`Guarded`); that only a
serving node has fanouts and only one that is up a tap (`Fanouts`); and that a client
touches no store and a stop without accidents leaves one save, of no subscription
(`Stores`).

**Assumed:** a session keeps the role of the one before, and none overlaps another
(section 9); the embedded node starts (else the client is used, section 9). **Not
modelled:** peer sync and stamps; the blob store, whose content only prevents a second
ingestion; pulled blobs that cannot be decoded, which are lost; re-announcing.

**Documented, and not so:**
* rfed.js:282-283: received telemetry "can only ever update *other* vessels". The MMSI it is
  compared with is read once (index.js:1246, 1697). One that is published later is not
  guarded, and a claim to it by another boat reaches the own vessel: what `settled` leaves
  out of `OthersOnly`.
* index.js:1259-1261: "Every blob the node ingests" is handed to the handler. One that is
  ingested between the node's start and the tap is stored, and neither decoded nor, by a
  subscription that lingered, left in the queue for long: the next drain drops it.
* rfed.js:858-860: the subscription is dropped on teardown "so it doesn't linger". After a
  crash, a failed last save, or one that an older save overwrites, it does, with the
  channel of that time; if the channel has changed since, nothing ever takes it back, and
  its blobs are kept until they age.
* A snapshot that carries only a name is worth publishing (rfed.js:142-145) and is never
  shown, since a name alone yields no values.

## 11. Announces: `Reannounce`

**State and actions.** `link` is the state of an interface's connection, `moved` what the
watchdog's counter says of it. `known` holds the pairs of an interface and a destination of
which the node at its other end has heard over the present connection. A destination comes up
in two stretches, with awaits between: its first announce (`SetUpMessaging`, `SetUpSite`,
`SetUpPropagation`, `SetUpEmbeddedRfed`, `Listen`; its outcome is `stage`), and its handle
(`Handle`), without which rounds leave it out. The loops of LXMF and NomadNet start with the
announce, the plugin's own with the handle, and only if the announce went out. `start` sets
them up one after the other, before it listens to the interfaces; only the client of a
discovered RFed node comes up at any time. `LoopAnnounce` is a turn of a loop. A round (`todo`)
is one call of `triggerAnnounce`: `RoundStep` announces its next destination, which may fail,
or never settle while something is wedged; `Rearm` is what the watchdog's probe does before, in
`probeAndRearmAnnounces`. `Attach` is the part of `start` that listens to the interfaces of the
moment and arms the watchdog, `Publish` the callback of the connectivity paths, `Reconnect`
that of `watchReconnects` with its debounce (`Fire`, `Skip`). `ComeUp` is the background retry,
`Sample`, `Probe` and `Swap` what the watchdog does with a silent interface, whose own state is
in section 7. `age` is the time since the last debounced round by the wall clock, `elapsed` by
a true one. `excused` is history: what was due and was not announced for one of the reasons
that `DeadWindowExplained` names.

**Checked** by `reannounce` (`FairSpec`): two interfaces, two rounds at once, and six
scenarios: LXMF with an RFed client discovered late, while connections drop one after the
other and announces fail, or the connectivity path changes without loops, or an interface
wedges; LXMF alone, while connections drop and the clock is set back, or the loop stops; and
a site beside embedded nodes.
* `DeadWindowExplained`: what is connected and does not know of a destination is about to be
  told, unless its announce failed or hung, nobody listens to its connection, the debounce had
  to skip it, or it connected between the destination's first announce and its handle.
* `DeadWindowEnds`: what stays up comes to know of every destination whose loop runs in the
  library, and of every other whose first announce went out.
* `StoppedLoopRearmed`: a loop of LXMF that stopped runs again, if nothing else is sent.

Two interfaces and two drops are what it takes for one reconnection to be skipped because of
another; two destinations let one fail and the other not. A behaviour has one scenario, since
their product asks nothing more. Drops, failures and changes are bounded, so that deadlock is
not checked.

**Fairness.** A loop's timer fires and one of its announces gets out; calls settle unless a
send never does; the watchdog's timer goes on. Nothing obliges a connection to stay.

**Proved** (`SessionProofs`), for any interfaces, rounds and scenarios: `TypeOK` and
`DeadWindowExplained`. The invariant adds that the wall clock shows at least the true time
less what it was set back (`ClockTruthful`), so that a round is never skipped without another
having fired recently or the clock having been turned; and that a destination's windows are
explained from its first announce on, before it has a handle (`AnnouncedExplained`), since
nothing is announced when the handle is set.

**Assumed:** an announce reaches the nodes behind the interfaces that are up, or fails as a
whole; the watchdog's window is longer than the interval of the loops and of telemetry, as
index.js computes it; an embedded node whose first announce fails is as if it had not been
enabled, and an RFed client whose `listen` left it no destination as if there were none.
**Not modelled:** how announces travel; loops of the library, apart from
running or having stopped.

**Documented, and not so:**
* index.js:2206-2207: "we do the same for every interface". The listeners are attached once, to the
  interfaces of the moment. One that a retry brings up later, or that the watchdog puts in place
  of another, has none, and nothing is announced over it until a loop does.
* A reconnection within the debounce of another is skipped and not made up for at its end
  (announce.js:186); with a clock that is set back the debounce lasts as much longer.
* A failing `listen` of the RFed client is only logged (rfed.js:601-603). The handle is set all
  the same (index.js:1738), and since `deliveryDest` was not taken no loop is made
  (rfed.js:640-644): what the comment above it wants to prevent, the client's path evicted
  within minutes, lasts until a connectivity change, a reconnection or a probe.
* A round fired between the client's announce in `listen` and its handle leaves it out
  (index.js:1726-1738); what reconnected waits for the client's loop.
* An announce has no time limit: a send that never completes keeps the rest of its round from
  being announced over any interface (announce.js:74).
* index.js:2134-2135: the stopped loop is started by the watchdog's probe. The probe needs an
  interface that sends nothing: with telemetry on the loop stays stopped.

## 12. Crew telemetry: `AnnounceHealth`, `Snapshot`, `CrewTelemetry`

**State and actions.** `AnnounceHealth` is what the node knows of its crew. `current` and
`saved` say whose present key is in memory and on disk, `storing` which stores are under way,
which nobody waits for and nothing orders: one of an announce from before may end after that of
the present key, and put the old one in its place. Stores of one member and key are taken as
one, which ends with the last of them; the others change nothing. `Ingest` is the transport's
intake of an announce with the two handlers that listen to it; `unsaved` is history; `Sweep` is
`sweep` of `plugin/announce-health.js`, with `heard` and `requested` its two maps; `Rotate`,
`Move`, `Unanswered`, `Announced`, `Answered` and `AnsweredOld` are the members and the mesh.

`Snapshot` has no state: `Packed` is `buildTelemetrySensors` on what `buildSnapshot` read,
`Reports` whether anything is sent, `Decoded` and `Values` the way back. Units that are
converted on one side and back on the other cancel out; the rounding (`Wire`) stays.

`CrewTelemetry` composes both. A member of `rounds` is a call of `sendTelemetryToCrew` that
awaits a delivery; `Settle` and `TimeOut` are the two ways it goes on, `SendOnce` its start, by
the timer (`TimerFires`), by readiness (`Ready`) or what stands in for it (`FallbackFires`),
the two outcomes of `fireWhenReady`. A delivery may arrive at the member's boat (`wire`), also
after it was given up; `Arrive` is `handleInboundTelemetry` there, and `shown` what it then has
of ours.

**Checked** by `crew_telemetry` (`FairSpec`): crews of one and two, in five scenarios (deliveries
that hang beside a position that comes and goes, new keys, failures with a restart, a member out
of reach, a boat that shows ours while readings disappear and one cannot be packed).
* `SnapshotsFresh`: the k-th member is sent nothing older than k time limits, so that rounds
  that overlap all end.
* `KeysOutliveRestarts`: a present key in memory is on disk, but while its store is under way, or
  if that failed or began while one of an announce from before was under way.
* `KeysComeToDisk`: these exceptions do not last, if the crew stays in reach.
* `ShownIsReported`: position, speed, course and altitude of what another boat shows are of one
  moment, to half a unit of the wire.
* `DeliveryHeals`: a member that stays in reach is again and again sent a snapshot with its
  present key.

Two members are what it takes for one to hold up the other; time limit, interval and the age of
a stale announce are a tick or two, in each order in which they can meet. Every fault is
possible once, which with a restart makes each store and request fail, or come from before.

**Fairness.** Timers fire on time, and no tick passes while one is due. A member that is asked
again and again answers once (strong): a mesh that loses every answer cannot be healed. Stores
end, each of them. Nothing obliges a delivery to succeed, or a snapshot to arrive.

**Proved** (`CrewTelemetryProofs`), for any crew, limits, scenarios, readings and rounding:
`TypeOK`, `SnapshotsFresh`, `KeysOutliveRestarts`, `ShownIsReported`. The age of a snapshot is
bounded together with what its delivery has left (`Aged`); a key needs that an old announce is
being stored beside a present key in memory only where the exception says so (`OldStores`); and
what is shown needs that an arrival replaces all of a location or nothing of it, and that
rounding is off by half a unit at most (`Rounding`).

**Assumed:** fields of a snapshot other than the speed's are
wide enough for what is read (they are for any place and course on Earth). **Not modelled:**
temperature, pressure and humidity, which other programs send and this one does not; the byte
layout; when the router gives up what it still has to deliver.

**Documented, and not so:**
* telemetry.js:340: "Absent readings are simply omitted". A position is packed with zero for an
  absent speed, course or altitude, and another boat shows a boat without instruments as lying
  still, heading north. (If they were left out, it would show them from an earlier moment: that
  is the mutant of `ShownIsReported`.)
* inbound.js:275 stamps what arrives with the time of arrival. A snapshot that is late, which
  with overlapping rounds and deliveries given up it may be, replaces a newer one and passes
  for the present until the next.
* storage.js:43: "so a restart can still reach it". Nothing orders the stores that announces
  begin (storage.js:80): one that ends late leaves on disk the key from before, and a restart
  then encrypts to it, until the next announce of the member.
* A value that is no longer reported is never withdrawn on the other boat.
* A negative speed cannot be written to the unsigned field: `packLocation` throws, and nothing
  is sent, the position neither, while it lasts (telemetry.js:85).
* telemetry.js:473: "Every unpacker tolerates a missing/malformed value". A location of which a
  field is shorter than its integer makes `unpackLocation` throw.
* Readiness that comes after its stand-in starts another round (index.js:150-174).

## 13. What is only model-checked, and what is not modelled

Liveness (`EveryMemberTried`, `ClearIsReported`, `EverySubscriberServed`,
`FrozenIsRecycled`, `FailedIsRetried`, `EveryBlobHandled`, `DeadWindowEnds`,
`StoppedLoopRearmed`, `KeysComeToDisk`, `DeliveryHeals`) is checked by TLC only: the proof system does
not reason about fairness and ENABLED. Every other property of a passing run is proved.
The proofs hold for every value of the constants that the named assumptions admit, and the
runs evaluate each of these. Three conditions of theorems are not assumptions of a module
but hypotheses of the theorem, because the code does not see to them: `CrewFits` (section
4), `Reliable` and `Steady` (section 5). The constants of `alert_liveness` and of
`briefing_push` satisfy them. That without a sole writer the store may be torn, and all
else that holds under a hypothesis only, is named in the section's list of what is
documented and not so.

Not to be modelled: the identity
(decoded from the configuration or generated once, before anything else runs), the rendering of
NomadNet pages, status lines, briefings and help texts, the configuration schema
(formatting without state), and the Reticulum and LXMF libraries, which appear as the
outcomes their calls can have.
