-------------------------- MODULE PluginLifecycle --------------------------
(***************************************************************************)
(* start() and stop() of the plugin (plugin/index.js), over several        *)
(* sessions: what each session creates, in which order, between which      *)
(* awaits, and what its stop takes back.                                   *)
(*                                                                         *)
(* A start has control from the end of one await to the next: `running` is *)
(* the session whose start has it, and nothing else happens meanwhile.  At *)
(* an await, everything else may: the server stops the plugin without      *)
(* waiting for a start to end, and begins the next session once stop() has *)
(* ended.  A start is never cancelled: one that a stop overtakes goes on,  *)
(* with the handles and the cancel list that all sessions share.           *)
(*                                                                         *)
(* A thing is what a session leaves running: a timer, a listener, a watch. *)
(* rns.stop() of the library is taken to disconnect what is attached when  *)
(* it is called, and re-announcing to be on, as it is by default.          *)
(***************************************************************************)
EXTENDS MeteredThrottle

CONSTANTS
  Settings,  \* the settings a session may be started with
  Budgets    \* bounds: how many awaited calls fail, how often the uplink flips,
             \* and how many stops overtake a start or a task

Features == {"embedded propagation", "embedded rfed", "propagation client",
             "propagation node known", "rfed client", "rfed node known", "receive",
             "transmit", "telemetry", "site"}
None == 0

ASSUME SettingsAssumption == Settings \subseteq SUBSET Features
ASSUME BudgetsAssumption == Budgets \subseteq [faults : Nat, flips : Nat, overtakes : Nat]

Handles == {"identity", "rns", "lxmf", "nomadnet", "rfed",
            "embeddedPropagation", "embeddedRfed"}

Awaited == {"identity", "compression", "interfaces", "messaging", "propagation",
            "rfed node", "tap", "rfed client", "site"}
Sections == Awaited \cup
  {"new", "embed propagation", "embed rfed", "publish", "services",
   "federation", "pages", "rest", "ended"}

Things == {"stamper", "crew watch", "interface retry", "lxmf announces", "listener",
           "propagation node", "rfed node", "rfed tap", "rfed publisher", "tracker",
           "status", "propagation client", "propagation discovery", "telemetry",
           "freshness", "rfed discovery", "rfed subscribing", "rfed announces",
           "rfed pulls", "site announces", "site links", "alerts", "briefings",
           "connectivity", "watchdog", "reconnects"}

Tasks == {"retry", "rebuild", "rfed client"}   \* asynchronous, beside a start

VARIABLES
  server,        \* what the server did last: "off", "on" or "stopping"
  session,       \* the session begun last, None before the first
  settings,      \* per session: the features it is set for
  at,            \* per session: the section of start() it is at
  running,       \* the session whose start has control, or None
  handle,        \* per handle of the plugin: the session it belongs to, or None
  listed,        \* the sessions with an interface in plugin.interfaces
  messaging,     \* the sessions whose messaging came up (deliver is set)
  initial,       \* per session: the uplink read for its embedded nodes
  router,        \* per session: the router its embedded node is set up on
  recovers,      \* the sessions with an interface in recoveryInterfaces
  attached,      \* the sessions whose Reticulum node has an interface
  tasks,         \* the tasks in progress, with their sessions
  live,          \* the things that run, with their sessions
  unsubscribes,  \* the things whose cancel is in the list
  overtaken,     \* history: the sessions at work when a stop came
  lastOvertook,  \* history: those of them when the last stop came
  skewed,        \* history: sessions whose uplink changed between the two reads
  budget         \* bound: the failures, flips and overtaking stops left

pluginVars == <<handle, listed>>
thingVars == <<live, unsubscribes>>
localVars == <<messaging, initial, router, recovers>>
serverVars == <<server, session, settings>>
historyVars == <<overtaken, lastOvertook, skewed>>

lifecycleVars == <<meteredVars, pluginVars, thingVars, localVars, serverVars, historyVars,
                   at, running, attached, tasks, budget>>

LifecycleInit ==
  /\ MeteredInit
  /\ server = "off" /\ session = None
  /\ settings = [k \in Sessions |-> {}]
  /\ at = [k \in Sessions |-> "new"]
  /\ running = None
  /\ handle = [h \in Handles |-> None]
  /\ listed = {}
  /\ messaging = {} /\ recovers = {}
  /\ initial = [k \in Sessions |-> "free"]
  /\ router = [k \in Sessions |-> None]
  /\ attached = {} /\ tasks = {}
  /\ live = {} /\ unsubscribes = {}
  /\ overtaken = {} /\ lastOvertook = {} /\ skewed = {}
  /\ budget \in Budgets

-----------------------------------------------------------------------------
(* Control of a start, and the cancel list *)

Resumes(k, s) == running = None /\ at[k] = s
InControl(k, s) == running = k /\ at[k] = s

Goes(k, s) ==
  /\ at' = [at EXCEPT ![k] = s]
  /\ running' = k
Awaits(k, s) ==
  /\ at' = [at EXCEPT ![k] = s]
  /\ running' = None
Ends(k) == Awaits(k, "ended")

\* Things of session k are created and their cancels pushed.
Created(k, S) ==
  /\ live' = live \cup (S \X {k})
  /\ unsubscribes' = unsubscribes \cup (S \X {k})

\* A handle of the plugin is set.
Holds(h, k) ==
  /\ handle' = [handle EXCEPT ![h] = k]
  /\ UNCHANGED listed

\* An awaited call succeeds, or it fails, within the budget.
Fails == budget.faults > 0 /\ budget' = [budget EXCEPT !.faults = @ - 1]
Succeeds == UNCHANGED budget

Set(k, feature) == feature \in settings[k]
If(b, S) == IF b THEN S ELSE {}

\* The sessions at work: a start at an await, or a task in progress.
AtWork == {k \in Sessions : at[k] \in Awaited} \cup {t[2] : t \in tasks}

-----------------------------------------------------------------------------
(* start(), up to the embedded nodes *)

\* start is called: the handles are cleared, but for the two embedded nodes.
Begin(k) ==
  /\ server = "off" /\ running = None
  /\ k = session + 1
  /\ server' = "on"
  /\ session' = k
  /\ \E features \in Settings : settings' = [settings EXCEPT ![k] = features]
  /\ handle' = [h \in Handles |->
       IF h \in {"embeddedPropagation", "embeddedRfed"} THEN handle[h] ELSE None]
  /\ listed' = {}
  /\ Created(k, {"stamper"})
  /\ Awaits(k, "identity")
  /\ UNCHANGED <<meteredVars, localVars, historyVars, attached, tasks, budget>>

\* The identity is there and the node is made; without one the start ends.
Identified(k) ==
  /\ Resumes(k, "identity")
  /\ \/ /\ Succeeds
        /\ handle' = [handle EXCEPT !["identity"] = k, !["rns"] = k]
        /\ Awaits(k, "compression")
     \/ /\ Fails
        /\ Ends(k)
        /\ UNCHANGED handle
  /\ UNCHANGED <<meteredVars, thingVars, localVars, serverVars, historyVars, listed,
                 attached, tasks>>

\* The compression provider is there or it failed; the crew watch is attached.
Compressed(k) ==
  /\ Resumes(k, "compression")
  /\ Created(k, {"crew watch"})
  /\ Awaits(k, "interfaces")
  /\ UNCHANGED <<meteredVars, pluginVars, localVars, serverVars, historyVars,
                 attached, tasks, budget>>

\* The shared instance, or the configured interfaces, were tried.  When some or all
\* failed, they are retried on a timer.
InterfacesUp(k) ==
  /\ Resumes(k, "interfaces")
  /\ \E up \in SUBSET {k} :
       /\ listed' = up
       /\ attached' = attached \cup up
       /\ recovers' = recovers \cup up
       /\ \/ up = {k} /\ Succeeds /\ UNCHANGED thingVars
          \/ Fails /\ Created(k, {"interface retry"})
  /\ Awaits(k, "messaging")
  /\ UNCHANGED <<meteredVars, serverVars, historyVars, handle, messaging, initial,
                 router, tasks>>

\* What messaging leaves running: the announce loop and the router's listeners.
Messaging == {"lxmf announces", "listener"}

\* setupMessaging came back: the announce loop and the listeners, or a failure that
\* the start goes on without.  Then the uplink is read for the embedded nodes.
MessagingUp(k) ==
  /\ Resumes(k, "messaging")
  /\ \/ /\ Succeeds
        /\ Holds("lxmf", k)
        /\ messaging' = messaging \cup {k}
        /\ Created(k, Messaging)
     \/ /\ Fails
        /\ UNCHANGED <<pluginVars, thingVars, messaging>>
  /\ initial' = [initial EXCEPT ![k] = uplink]
  /\ Goes(k, "embed propagation")
  /\ UNCHANGED <<meteredVars, serverVars, historyVars, router, recovers, attached,
                 tasks>>

-----------------------------------------------------------------------------
(* start(): the embedded nodes *)

\* An embedded propagation node is set up, on the router in the plugin's handle.
EmbedPropagation(k) ==
  /\ InControl(k, "embed propagation")
  /\ IF Set(k, "embedded propagation") /\ handle["lxmf"] # None
     THEN /\ router' = [router EXCEPT ![k] = handle["lxmf"]]
          /\ Awaits(k, "propagation")
     ELSE /\ Goes(k, "embed rfed")
          /\ UNCHANGED router
  /\ UNCHANGED <<meteredVars, pluginVars, thingVars, serverVars, historyVars,
                 messaging, initial, recovers, attached, tasks, budget>>

\* The node runs, throttled if the uplink was metered when it was read; when
\* setting it up failed, the handle is set to null.
PropagationNodeUp(k) ==
  /\ Resumes(k, "propagation")
  /\ \/ /\ Succeeds
        /\ NodeEnabled(router[k], initial[k])
        /\ Holds("embeddedPropagation", k)
        /\ Created(k, {"propagation node"})
     \/ /\ Fails
        /\ Holds("embeddedPropagation", None)
        /\ UNCHANGED <<meteredVars, thingVars>>
  /\ Goes(k, "embed rfed")
  /\ UNCHANGED <<localVars, serverVars, historyVars, attached, tasks>>

EmbedRfed(k) ==
  /\ InControl(k, "embed rfed")
  /\ IF Set(k, "embedded rfed") THEN Awaits(k, "rfed node") ELSE Goes(k, "services")
  /\ UNCHANGED <<meteredVars, pluginVars, thingVars, localVars, serverVars,
                 historyVars, attached, tasks, budget>>

\* The node runs, or its handle is null.  Its local client comes next, if the
\* plugin's identity, read again for it, is still there.
RfedNodeUp(k) ==
  /\ Resumes(k, "rfed node")
  /\ \/ /\ Succeeds
        /\ Holds("embeddedRfed", k)
        /\ Created(k, {"rfed node"})
        /\ IF handle["identity"] = None THEN Goes(k, "services")
           ELSE IF Set(k, "receive") THEN Awaits(k, "tap") ELSE Goes(k, "publish")
     \/ /\ Fails
        /\ Holds("embeddedRfed", None)
        /\ Goes(k, "services")
        /\ UNCHANGED thingVars
  /\ UNCHANGED <<meteredVars, localVars, serverVars, historyVars, attached, tasks>>

\* The local client taps the node, or could not.
Tapped(k) ==
  /\ Resumes(k, "tap")
  /\ \/ Succeeds /\ Created(k, {"rfed tap"})
     \/ Fails /\ UNCHANGED thingVars
  /\ Goes(k, "publish")
  /\ UNCHANGED <<meteredVars, pluginVars, localVars, serverVars, historyVars,
                 attached, tasks>>

StartPublisher(k) ==
  /\ InControl(k, "publish")
  /\ Created(k, If(Set(k, "transmit"), {"rfed publisher"}))
  /\ Goes(k, "services")
  /\ UNCHANGED <<meteredVars, pluginVars, localVars, serverVars, historyVars,
                 attached, tasks, budget>>

-----------------------------------------------------------------------------
(* start(): trackers, clients, site, subscriptions *)

\* The client of a role is wanted when no embedded node of the role runs.
WantsPropagation(k) ==
  Set(k, "propagation client") /\ handle["embeddedPropagation"] = None
WantsRfed(k) == Set(k, "rfed client") /\ handle["embeddedRfed"] = None

\* Faulty variant: the client is wired whether or not messaging came up.
Unchecked == {"propagation client"}

\* bringUpPropagation: the client of a node, on the router in the plugin's handle.
\* Without messaging there is nothing to wire.
BroughtUp == If(handle["lxmf"] # None, {"propagation client"})

\* The client of the propagation role: its node is configured, or searched for.
PropagationClient(k) ==
  If(WantsPropagation(k),
     IF Set(k, "propagation node known") THEN BroughtUp ELSE {"propagation discovery"})

\* With messaging: the telemetry loop, and the watch over the crew's announces.
CrewServices(k) ==
  If(k \in messaging, {"freshness"} \cup If(Set(k, "telemetry"), {"telemetry"}))

\* Tracker, status and the services that need no await.
Services(k) ==
  /\ InControl(k, "services")
  /\ Adopted(k)
  /\ skewed' = IF uplink = initial[k] THEN skewed ELSE skewed \cup {k}
  /\ Created(k, {"tracker", "status"} \cup PropagationClient(k) \cup CrewServices(k))
  /\ Goes(k, "federation")
  /\ UNCHANGED <<pluginVars, localVars, serverVars, overtaken, lastOvertook, attached,
                 tasks, budget>>

NoFederation(k) ==
  /\ InControl(k, "federation")
  /\ ~WantsRfed(k)
  /\ Goes(k, "pages")
  /\ UNCHANGED <<meteredVars, pluginVars, thingVars, localVars, serverVars,
                 historyVars, attached, tasks, budget>>

\* The client of a configured node is awaited, an unknown node discovered first.
\* The plugin's identity is read again: without it the start ends with an error.
Federation(k) ==
  /\ InControl(k, "federation")
  /\ WantsRfed(k)
  /\ IF handle["identity"] = None THEN Ends(k) /\ UNCHANGED thingVars
     ELSE IF Set(k, "rfed node known")
          THEN Awaits(k, "rfed client") /\ UNCHANGED thingVars
          ELSE Created(k, {"rfed discovery"}) /\ Goes(k, "pages")
  /\ UNCHANGED <<meteredVars, pluginVars, localVars, serverVars, historyVars,
                 attached, tasks, budget>>

\* What setupRFed leaves running, until its teardown.
RfedClient == {"rfed subscribing", "rfed announces"}

\* bringUpRfed after its await: the client, its handle, and the loops that use it.
RfedClientUp(k) ==
  \/ /\ Succeeds
     /\ Created(k, RfedClient \cup If(Set(k, "receive"), {"rfed pulls"})
                     \cup If(Set(k, "transmit"), {"rfed publisher"}))
     /\ Holds("rfed", k)
  \/ Fails /\ UNCHANGED <<pluginVars, thingVars>>

FederationUp(k) ==
  /\ Resumes(k, "rfed client")
  /\ RfedClientUp(k)
  /\ Goes(k, "pages")
  /\ UNCHANGED <<meteredVars, localVars, serverVars, historyVars, attached, tasks>>

Pages(k) ==
  /\ InControl(k, "pages")
  /\ IF Set(k, "site") THEN Awaits(k, "site") ELSE Goes(k, "rest")
  /\ UNCHANGED <<meteredVars, pluginVars, thingVars, localVars, serverVars,
                 historyVars, attached, tasks, budget>>

\* What setupNomadNet leaves running, until the site's stop().
Site == {"site announces", "site links"}

SiteUp(k) ==
  /\ Resumes(k, "site")
  /\ \/ Succeeds /\ Holds("nomadnet", k) /\ Created(k, Site)
     \/ Fails /\ UNCHANGED <<pluginVars, thingVars>>
  /\ Goes(k, "rest")
  /\ UNCHANGED <<meteredVars, localVars, serverVars, historyVars, attached, tasks>>

\* Subscription and sweep of the alerts, subscription and catch-up of the briefings.
CrewForwards == {"alerts", "briefings"}

\* With an interface to watch: the freeze watchdog and the reconnect watch.
InterfaceWatches(k) == If(k \in recovers, {"watchdog", "reconnects"})

Rest(k) ==
  /\ InControl(k, "rest")
  /\ Created(k, CrewForwards \cup {"connectivity"} \cup InterfaceWatches(k))
  /\ Ends(k)
  /\ UNCHANGED <<meteredVars, pluginVars, localVars, serverVars, historyVars,
                 attached, tasks, budget>>

-----------------------------------------------------------------------------
(* What goes on beside a start *)

\* A tick of the retry timer, and its end: an interface came up, or none did.
RetryStarts(k) ==
  /\ running = None
  /\ <<"interface retry", k>> \in live
  /\ tasks' = tasks \cup {<<"retry", k>>}
  /\ UNCHANGED <<meteredVars, pluginVars, thingVars, localVars, serverVars,
                 historyVars, at, running, attached, budget>>

RetryEnds(k) ==
  /\ running = None
  /\ <<"retry", k>> \in tasks
  /\ tasks' = tasks \ {<<"retry", k>>}
  /\ \E up \in SUBSET {k} :
       /\ attached' = attached \cup up
       /\ listed' = listed \cup up
       /\ recovers' = recovers \cup up
  /\ UNCHANGED <<meteredVars, thingVars, serverVars, historyVars, handle, messaging,
                 initial, router, at, running, budget>>

\* The watchdog rebuilds an interface: it is detached, and perhaps another is
\* attached at the end, which takes its place in plugin.interfaces.
RebuildStarts(k) ==
  /\ running = None
  /\ <<"watchdog", k>> \in live
  /\ tasks' = tasks \cup {<<"rebuild", k>>}
  /\ attached' \in {attached, attached \ {k}}
  /\ UNCHANGED <<meteredVars, pluginVars, thingVars, localVars, serverVars,
                 historyVars, at, running, budget>>

RebuildEnds(k) ==
  /\ running = None
  /\ <<"rebuild", k>> \in tasks
  /\ tasks' = tasks \ {<<"rebuild", k>>}
  /\ attached' \in {attached, attached \cup {k}}
  /\ UNCHANGED <<meteredVars, pluginVars, thingVars, localVars, serverVars,
                 historyVars, at, running, budget>>

\* The discovery of an RFed node selects one, detaches, and brings up the client.
RfedSelected(k) ==
  /\ running = None
  /\ <<"rfed discovery", k>> \in live
  /\ live' = live \ {<<"rfed discovery", k>>}
  /\ tasks' = tasks \cup {<<"rfed client", k>>}
  /\ UNCHANGED <<meteredVars, pluginVars, localVars, serverVars, historyVars,
                 unsubscribes, at, running, attached, budget>>

\* The discovery of a propagation node selects one, detaches, and wires the client.
PropagationSelected(k) ==
  /\ running = None
  /\ <<"propagation discovery", k>> \in live
  /\ live' = (live \ {<<"propagation discovery", k>>}) \cup (BroughtUp \X {k})
  /\ unsubscribes' = unsubscribes \cup (BroughtUp \X {k})
  /\ UNCHANGED <<meteredVars, pluginVars, localVars, serverVars, historyVars, at,
                 running, attached, tasks, budget>>

RfedSetUp(k) ==
  /\ running = None
  /\ <<"rfed client", k>> \in tasks
  /\ tasks' = tasks \ {<<"rfed client", k>>}
  /\ RfedClientUp(k)
  /\ UNCHANGED <<meteredVars, localVars, serverVars, historyVars, at, running,
                 attached>>

\* The uplink's state is published, new or again, to the subscribed trackers.
NetworkState(u) ==
  /\ running = None
  /\ Published({k \in Sessions : <<"tracker", k>> \in live}, u)
  /\ IF u = uplink THEN UNCHANGED budget
     ELSE budget.flips > 0 /\ budget' = [budget EXCEPT !.flips = @ - 1]
  /\ UNCHANGED <<pluginVars, thingVars, localVars, serverVars, historyVars, at,
                 running, attached, tasks>>

ClockTick ==
  /\ running = None
  /\ Elapsed
  /\ UNCHANGED <<pluginVars, thingVars, localVars, serverVars, historyVars, at,
                 running, attached, tasks, budget>>

\* A tracker commits; the policy goes to the router in the plugin's handle.
Throttle(k) ==
  /\ running = None
  /\ Committed(k, handle["lxmf"])
  /\ skewed' = skewed \ {k}
  /\ UNCHANGED <<pluginVars, thingVars, localVars, serverVars, overtaken,
                 lastOvertook, at, running, attached, tasks, budget>>

-----------------------------------------------------------------------------
(* stop() *)

\* Faulty variant: the handles are cleared before the list is run.
CancelledTooLate == {t \in unsubscribes : t[1] # "listener"}

\* What the cancels in the list end.  The cancel of a listener takes it off the
\* router in the plugin's handle, whichever that is.
Cancelled == {t \in unsubscribes : t[1] = "listener" => handle["lxmf"] = t[2]}

Cleared ==
  /\ handle' = [h \in Handles |-> None]
  /\ listed' = {}
  /\ server' = "off"

\* The cancel list is run and emptied; then the node, if there is one, is stopped.
Stop ==
  /\ server = "on" /\ running = None
  /\ live' = live \ Cancelled
  /\ unsubscribes' = {}
  /\ Disposed({k \in Sessions : <<"tracker", k>> \in Cancelled})
  /\ attached' = attached \ {handle["rns"]}
  /\ IF handle["rns"] = None THEN Cleared
     ELSE server' = "stopping" /\ UNCHANGED pluginVars
  /\ lastOvertook' = AtWork
  /\ overtaken' = overtaken \cup AtWork
  /\ IF AtWork = {} THEN UNCHANGED budget
     ELSE budget.overtakes > 0 /\ budget' = [budget EXCEPT !.overtakes = @ - 1]
  /\ UNCHANGED <<localVars, session, settings, skewed, at, running, tasks>>

\* rns.stop() is done: the handles are cleared.
Stopped ==
  /\ server = "stopping" /\ running = None
  /\ Cleared
  /\ UNCHANGED <<meteredVars, thingVars, localVars, historyVars, session, settings,
                 at, running, attached, tasks, budget>>

-----------------------------------------------------------------------------
StartStep(k) ==
  \/ Begin(k) \/ Identified(k) \/ Compressed(k) \/ InterfacesUp(k) \/ MessagingUp(k)
  \/ EmbedPropagation(k) \/ PropagationNodeUp(k)
  \/ EmbedRfed(k) \/ RfedNodeUp(k) \/ Tapped(k) \/ StartPublisher(k)
  \/ Services(k) \/ NoFederation(k) \/ Federation(k) \/ FederationUp(k)
  \/ Pages(k) \/ SiteUp(k) \/ Rest(k)

TaskStep(k) ==
  \/ RetryStarts(k) \/ RetryEnds(k) \/ RebuildStarts(k) \/ RebuildEnds(k)
  \/ RfedSelected(k) \/ RfedSetUp(k) \/ PropagationSelected(k) \/ Throttle(k)

LifecycleNext ==
  \/ \E k \in Sessions : StartStep(k) \/ TaskStep(k)
  \/ \E u \in Uplinks : NetworkState(u)
  \/ ClockTick \/ Stop \/ Stopped

LifecycleSpec == LifecycleInit /\ [][LifecycleNext]_lifecycleVars

-----------------------------------------------------------------------------
(* Properties *)

\* The variables keep their types.
LifecycleTypeOK ==
  /\ MeteredTypeOK
  /\ server \in {"off", "on", "stopping"}
  /\ session \in Sessions \cup {None}
  /\ settings \in [Sessions -> SUBSET Features]
  /\ at \in [Sessions -> Sections]
  /\ running \in Sessions \cup {None}
  /\ handle \in [Handles -> Sessions \cup {None}]
  /\ listed \subseteq Sessions
  /\ messaging \subseteq Sessions
  /\ initial \in [Sessions -> Uplinks]
  /\ router \in [Sessions -> Sessions \cup {None}]
  /\ recovers \subseteq Sessions
  /\ attached \subseteq Sessions
  /\ tasks \subseteq Tasks \X Sessions
  /\ live \subseteq Things \X Sessions
  /\ unsubscribes \subseteq Things \X Sessions
  /\ overtaken \subseteq Sessions
  /\ lastOvertook \subseteq Sessions
  /\ skewed \subseteq Sessions
  /\ budget \in [faults : Nat, flips : Nat, overtakes : Nat]

\* A stop that overtakes nothing clears every handle and leaves nothing running,
\* whatever earlier stops have overtaken, but for listeners that an overtaken
\* start has put on another router.  If none ever overtook anything, it leaves
\* no listener either, no interface, and no timer of a tracker.
StopsClean ==
  server = "off" /\ lastOvertook = {} =>
    /\ handle = [h \in Handles |-> None] /\ listed = {}
    /\ live \subseteq {"listener"} \X Sessions
    /\ overtaken = {} =>
         /\ live = {} /\ attached = {} /\ tasks = {}
         /\ \A k \in Sessions : pending[k] = Unarmed

\* The server's wish in full, which an overtaken start defeats: stop "disconnects
\* every interface, detaches them from the node and clears state".
StopDisconnects ==
  server = "off" =>
    /\ attached = {} /\ live = {}
    /\ handle = [h \in Handles |-> None]

\* When a start is through that no stop has overtaken, the propagation role it was
\* set for is served, provided messaging came up, by the embedded node, by the client
\* or by a search for a node; without messaging no client pretends to serve it.  A
\* client or a search never runs beside the embedded node of its role, propagation or
\* RFed, and the node that deliveries are handed to is the one that runs.
OneServes ==
  LET Runs(k, S) == S \X {k} \cap live # {}
      Client == {"propagation client", "propagation discovery"}
  IN  \A k \in Sessions :
        (/\ server = "on" /\ session = k /\ overtaken = {} /\ at[k] = "ended"
         /\ Runs(k, CrewForwards))
        => /\ ~(Runs(k, {"propagation node"}) /\ Runs(k, Client))
           /\ ~(Runs(k, {"rfed node"}) /\ Runs(k, {"rfed discovery"} \cup RfedClient))
           /\ Set(k, "propagation client") /\ handle["lxmf"] # None
                => Runs(k, {"propagation node"} \cup Client)
           /\ Runs(k, {"propagation client"}) => handle["lxmf"] # None
           /\ handle["embeddedPropagation"] # None => Runs(k, {"propagation node"})

\* The throttle follows the uplink: once that has held for longer than the grace
\* time, the node of a running session that was never overtaken is set for it,
\* unless the uplink changed between the read for the node and the tracker's first.
ThrottleFollows ==
  \A k \in Sessions :
    (/\ {<<"tracker", k>>, <<"propagation node", k>>} \subseteq live
     /\ held > Grace /\ k \notin skewed /\ overtaken = {})
      => filter[k] = uplink

\* A node's filter changes only when the uplink has held for the grace time, to
\* what the uplink is: flapping never reaches it.
ThrottleHeld ==
  [][\A k \in Sessions :
       (filter[k] # "no node" /\ filter'[k] # filter[k] /\ overtaken = {})
         => held >= Grace /\ filter'[k] = uplink]_lifecycleVars

=============================================================================
