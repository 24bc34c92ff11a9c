-------------------------- MODULE StoreAndForward --------------------------
(***************************************************************************)
(* Outbound messages and the propagation nodes that keep them for          *)
(* recipients out of reach: the sender shared by all deliverers            *)
(* (plugin/messaging.js), the hand-over to a node (plugin/propagation.js), *)
(* the node the plugin runs itself with its store on disk                  *)
(* (plugin/embedded-nodes.js), and the choice between that node, a         *)
(* configured one and one discovered on the mesh (plugin/index.js).        *)
(*                                                                         *)
(* Each start of the plugin is a session with a router and, perhaps, an    *)
(* embedded node of its own.  A send outlives its session: it holds on to  *)
(* the router and to the node it read when it began.  A crash ends them    *)
(* all.  Message identity is kept over copies, so a message is in a place  *)
(* or it is not.                                                           *)
(*                                                                         *)
(* External, as the code uses it: LXMRouter.send, recallOrSolicitIdentity, *)
(* ingestBlobs, and a save that replaces the file by what the store held   *)
(* when the save began.  There is a data directory, messaging comes up, and*)
(* start is not overtaken by stop (PluginLifecycle is about that).         *)
(***************************************************************************)
EXTENDS NodeDiscovery, FiniteSets

CONSTANTS
  Sends,        \* messages the plugin sends
  Deposits,     \* messages other mesh clients leave at the embedded node
  Configured,   \* the node named in the configuration
  Modes,        \* how sessions are configured: "embedded", "configured", ...
  MaxSessions,  \* bound: starts of the plugin
  Faults        \* what may go wrong

ASSUME ConfiguredAssumption == Configured \in Nodes
ASSUME ModesAssumption ==
  Modes \subseteq {"off", "configured", "discover", "embedded"}
ASSUME SessionsAssumption == MaxSessions \in Nat \ {0}
ASSUME DisjointAssumption == Sends \cap Deposits = {}

Sessions == 1..MaxSessions
Messages == Sends \cup Deposits
NoSession == 0
MaxSaves == 2         \* bound: an hourly save and one begun an hour before

VARIABLES
  session,    \* the session begun last
  phase,      \* how far its start or stop has come
  mode,       \* what its configuration asks for
  outbound,   \* per session: the router's outboundPropagationNode
  alive,      \* sessions begun since the last crash: their deliverers exist
  handle,     \* plugin.embeddedPropagation: the session of that node, or none
  ready,      \* sessions whose router answers as a propagation node
  torn,       \* sessions whose embedded node has been torn down
  store,      \* per session: what its embedded node holds in memory
  disk,       \* the persisted store
  saves,      \* saves under way: what each will leave on disk
  known,      \* nodes whose identity the transport can recall
  pc,         \* where each send is
  router,     \* the session whose router a send uses
  node,       \* the embedded node a send found when it began, or none
  fallback,   \* whether a send may use a propagation node
  arrived,    \* messages the recipient has
  queued,     \* messages an external node has accepted
  accepted,   \* history: messages an embedded node has accepted
  excused     \* history: messages whose keeping was given up (see Excuse)

sendVars == <<pc, router, node, fallback>>
nodeVars == <<handle, ready, torn, store, disk, saves>>
sessionVars == <<session, phase, mode, outbound, alive>>
fates == <<arrived, queued, accepted, excused>>
vars == <<discoveryVars, sendVars, nodeVars, sessionVars, fates, known>>

Phases == {"down", "messaging", "loading", "up", "stopping"}
Waiting == {"ladder", "submit", "solicit", "resend"}
Places == {"idle", "sent", "failed", "gone"} \cup Waiting

\* A save holds the session that began it and what it writes.
Save == [by : Sessions, content : SUBSET Messages]

Init ==
  /\ DiscoveryInit
  /\ session = NoSession /\ phase = "down" /\ mode = "off"
  /\ outbound = [k \in Sessions |-> NoNode] /\ alive = {}
  /\ handle = NoSession /\ ready = {} /\ torn = {}
  /\ store = [k \in Sessions |-> {}]
  /\ disk = {} /\ saves = {} /\ known = {}
  /\ pc = [s \in Sends |-> "idle"]
  /\ router = [s \in Sends |-> NoSession]
  /\ node = [s \in Sends |-> NoSession]
  /\ fallback = [s \in Sends |-> FALSE]
  /\ arrived = {} /\ queued = {} /\ accepted = {} /\ excused = {}

Excuse(set) == excused' = excused \cup set

-----------------------------------------------------------------------------
(* A session: start, the node it uses, stop, crash.                        *)

\* start(): messaging comes up; sends may begin from here on.
Begin(m) ==
  /\ phase = "down" /\ session < MaxSessions
  /\ session' = session + 1
  /\ phase' = "messaging"
  /\ mode' = m
  /\ alive' = alive \cup {session + 1}
  /\ UNCHANGED <<outbound, nodeVars, sendVars, fates, known, discoveryVars>>

\* setupEmbeddedPropagationNode: the store is read.  What is being written
\* meanwhile is not seen, and a store that cannot be read counts as empty.
LoadStore ==
  /\ phase = "messaging" /\ mode = "embedded"
  /\ phase' = "loading"
  /\ \/ /\ store' = [store EXCEPT ![session] = disk]
        /\ Excuse(UNION {v.content : v \in saves})
     \/ /\ "loadFails" \in Faults
        /\ store' = [store EXCEPT ![session] = {}]
        /\ Excuse(disk \cup UNION {v.content : v \in saves})
  /\ UNCHANGED <<session, mode, outbound, alive, handle, ready, torn, disk, saves,
                 sendVars, known, discoveryVars, arrived, queued, accepted>>

\* enablePropagation and the first announce succeed.
NodeUp ==
  /\ phase = "loading"
  /\ phase' = "up"
  /\ handle' = session
  /\ ready' = ready \cup {session}
  /\ UNCHANGED <<session, mode, outbound, alive, torn, store, disk, saves, sendVars,
                 fates, known, discoveryVars>>

\* bringUpPropagation with the configured node or with a search; a session
\* whose embedded node did not come up may be configured for either.
WireConfigured ==
  /\ outbound' = [outbound EXCEPT ![session] = Configured]
  /\ UNCHANGED discoveryVars
WireSearch == Listen /\ UNCHANGED outbound

UseExternal(m) ==
  CASE m = "configured" -> WireConfigured
    [] m = "discover" -> WireSearch
    [] OTHER -> UNCHANGED <<outbound, discoveryVars>>

\* The node fails to start: before the router serves as one or, at its first
\* announce, after that.  Either way the plugin has neither handle nor teardown.
NodeFails(m) ==
  /\ phase = "loading" /\ "nodeFails" \in Faults
  /\ m \in Modes \ {"embedded"}
  /\ phase' = "up"
  /\ \/ UNCHANGED ready
     \/ ready' = ready \cup {session}
  /\ Excuse(store[session] \ disk)
  /\ UseExternal(m)
  /\ UNCHANGED <<session, mode, alive, handle, torn, store, disk, saves, sendVars,
                 arrived, queued, accepted, known>>

\* A session without an embedded node.
ClientUp ==
  /\ phase = "messaging" /\ mode # "embedded"
  /\ phase' = "up"
  /\ UseExternal(mode)
  /\ UNCHANGED <<session, mode, alive, nodeVars, sendVars, fates, known>>

\* Faulty variant: nothing is saved on the way out.
TeardownWithoutSave ==
  IF handle = NoSession THEN UNCHANGED <<torn, saves, excused>>
  ELSE torn' = torn \cup {handle} /\ UNCHANGED <<saves, excused>>

\* The teardown of the embedded node: timers off, a last save that nobody
\* waits for.  A periodic save still under way may yet overwrite it.
Teardown ==
  IF handle = NoSession THEN UNCHANGED <<torn, saves, excused>>
  ELSE /\ torn' = torn \cup {handle}
       /\ saves' = saves \cup {[by |-> handle, content |-> store[handle]]}
       /\ Excuse(IF saves = {} THEN {} ELSE store[handle])

\* stop(): the unsubscribes run, then rns.stop() is awaited.
Stop ==
  /\ phase = "up"
  /\ phase' = "stopping"
  /\ Detach
  /\ Teardown
  /\ UNCHANGED <<session, mode, outbound, alive, handle, ready, store, disk, sendVars,
                 arrived, queued, accepted, known>>

StopEnds ==
  /\ phase = "stopping"
  /\ phase' = "down"
  /\ handle' = NoSession
  /\ ready' = ready \ {session}
  /\ UNCHANGED <<session, mode, outbound, alive, torn, store, disk, saves, sendVars,
                 fates, known, discoveryVars>>

\* The process dies with everything in memory; a save under way is lost.
Crash ==
  /\ "crash" \in Faults /\ phase # "down"
  /\ phase' = "down"
  /\ handle' = NoSession /\ ready' = {} /\ torn' = torn \cup {session}
  /\ store' = [k \in Sessions |-> {}]
  /\ saves' = {} /\ known' = {} /\ alive' = {}
  /\ pc' = [s \in Sends |-> IF pc[s] \in Waiting THEN "gone" ELSE pc[s]]
  /\ Detach
  /\ Excuse(accepted \ disk)
  /\ UNCHANGED <<session, mode, outbound, disk, router, node, fallback, arrived,
                 queued, accepted>>

-----------------------------------------------------------------------------
(* The embedded node and the mesh.                                         *)

\* A message for a recipient is taken in, and in a node without a teardown, or
\* past it, no save will follow.
TakeIn(m, k) ==
  /\ store' = [store EXCEPT ![k] = @ \cup {m}]
  /\ accepted' = accepted \cup {m}
  /\ Excuse(IF k \in torn \/ handle # k THEN {m} ELSE {})

\* Another client leaves a message at the node.
Deposit(m) ==
  /\ session \in ready /\ m \notin accepted
  /\ TakeIn(m, session)
  /\ UNCHANGED <<sessionVars, handle, ready, torn, disk, saves, sendVars, known,
                 discoveryVars, arrived, queued>>

\* A recipient syncs from the node, which drops the message.
Collect(m) ==
  /\ session \in ready /\ m \in store[session]
  /\ store' = [store EXCEPT ![session] = @ \ {m}]
  /\ arrived' = arrived \cup {m}
  /\ UNCHANGED <<sessionVars, handle, ready, torn, disk, saves, sendVars, known,
                 discoveryVars, queued, accepted, excused>>

\* runMaintenance: aged messages go, what remains is saved.
Maintain(aged) ==
  /\ handle # NoSession /\ handle \notin torn
  /\ Cardinality(saves) < MaxSaves
  /\ store' = [store EXCEPT ![handle] = @ \ aged]
  /\ saves' = saves \cup {[by |-> handle, content |-> store[handle] \ aged]}
  /\ Excuse(aged)
  /\ UNCHANGED <<sessionVars, handle, ready, torn, disk, sendVars, known,
                 discoveryVars, arrived, queued, accepted>>

SaveEnds(v) ==
  /\ v \in saves
  /\ saves' = saves \ {v}
  /\ disk' = v.content
  /\ UNCHANGED <<sessionVars, handle, ready, torn, store, sendVars, fates, known,
                 discoveryVars>>

\* A periodic save is made up for by the next; the last one by nothing.
SaveFails(v) ==
  /\ "saveFails" \in Faults /\ v \in saves
  /\ saves' = saves \ {v}
  /\ Excuse(IF v.by \in torn THEN v.content ELSE {})
  /\ UNCHANGED <<sessionVars, handle, ready, torn, store, disk, sendVars, known,
                 discoveryVars, arrived, queued, accepted>>

\* An announce of a propagation node: the transport learns its identity, and
\* the search hears of it while there is one.
Announce(n, h) ==
  /\ phase # "down"
  /\ known' = known \cup {n}
  /\ IF listening THEN Hear(n, h) ELSE UNCHANGED discoveryVars
  /\ UNCHANGED <<sessionVars, nodeVars, sendVars, fates>>

\* The grace window is over: bringUpPropagation with the node selected.
SearchEnds ==
  /\ Finish
  /\ outbound' = [outbound EXCEPT ![session] = closest.hex]
  /\ UNCHANGED <<session, phase, mode, alive, nodeVars, sendVars, fates, known>>

-----------------------------------------------------------------------------
(* makeOutboundSender.                                                     *)

\* The node in use is looked up now, through the plugin's handle of today and
\* the router of the session the deliverer was made in.
Send(s, k) ==
  /\ pc[s] = "idle" /\ k \in alive
  /\ pc' = [pc EXCEPT ![s] = "ladder"]
  /\ router' = [router EXCEPT ![s] = k]
  /\ node' = [node EXCEPT ![s] = handle]
  /\ fallback' = [fallback EXCEPT ![s] = handle # NoSession \/ outbound[k] # NoNode]
  /\ UNCHANGED <<sessionVars, nodeVars, fates, known, discoveryVars>>

Goes(s, place) ==
  /\ pc' = [pc EXCEPT ![s] = place]
  /\ UNCHANGED <<sessionVars, router, node, fallback, known, discoveryVars>>

OnLadder(s) == pc[s] \in {"ladder", "resend"}

\* Proof of receipt came back, over the link or for the packet.
Proven(s) ==
  /\ OnLadder(s)
  /\ Goes(s, "sent")
  /\ arrived' = arrived \cup {s}
  /\ UNCHANGED <<nodeVars, queued, accepted, excused>>

NodeKnown(s) == outbound[router[s]] \in known

\* No proof: the router hands the message to the external node.
HandedOver(s) ==
  /\ OnLadder(s) /\ fallback[s] /\ NodeKnown(s)
  /\ Goes(s, "sent")
  /\ queued' = queued \cup {s}
  /\ UNCHANGED <<nodeVars, arrived, accepted, excused>>

\* Without proof the message may have arrived all the same.
Unproven(s) ==
  /\ arrived' \in {arrived, arrived \cup {s}}
  /\ UNCHANGED <<nodeVars, queued, accepted, excused>>

\* One recovery per send: a resend that is declined again has failed.
Recovery(s) ==
  IF pc[s] = "resend" THEN "failed"
  ELSE IF node[s] # NoSession THEN "submit" ELSE "solicit"

\* isPropagationHandoffError: the router knows no node, or not its identity.
Declined(s) ==
  /\ OnLadder(s) /\ fallback[s] /\ ~NodeKnown(s)
  /\ Goes(s, Recovery(s))
  /\ Unproven(s)

\* Any other error of the ladder, and every one when there was no node.
LadderFails(s) ==
  /\ OnLadder(s)
  /\ Goes(s, "failed")
  /\ Unproven(s)

\* submitToEmbeddedNode, into the node found when the send began.
Submitted(s) ==
  /\ pc[s] = "submit"
  /\ Goes(s, "sent")
  /\ TakeIn(s, node[s])
  /\ UNCHANGED <<handle, ready, torn, disk, saves, arrived, queued>>

\* The node counts the message among its rejected ones; the count is logged.
Rejected(s) ==
  /\ "rejects" \in Faults /\ pc[s] = "submit"
  /\ Goes(s, "sent")
  /\ Excuse({s})
  /\ UNCHANGED <<nodeVars, arrived, queued, accepted>>

SubmitFails(s) ==
  /\ pc[s] = "submit"
  /\ Goes(s, "failed")
  /\ UNCHANGED <<nodeVars, fates>>

\* recallOrSolicitIdentity: the external node's announce comes in, or not.
Solicited(s) ==
  /\ pc[s] = "solicit" /\ NodeKnown(s)
  /\ Goes(s, "resend")
  /\ UNCHANGED <<nodeVars, fates>>

SolicitTimesOut(s) ==
  /\ pc[s] = "solicit" /\ ~NodeKnown(s)
  /\ Goes(s, "failed")
  /\ UNCHANGED <<nodeVars, fates>>

SendStep(s) ==
  \/ Proven(s) \/ HandedOver(s) \/ Declined(s) \/ LadderFails(s)
  \/ Submitted(s) \/ Rejected(s) \/ SubmitFails(s)
  \/ Solicited(s) \/ SolicitTimesOut(s)

Next ==
  \/ \E m \in Modes : Begin(m) \/ NodeFails(m)
  \/ LoadStore \/ NodeUp \/ ClientUp \/ Stop \/ StopEnds \/ Crash
  \/ \E m \in Deposits : Deposit(m)
  \/ \E m \in Messages : Collect(m)
  \/ Maintain({}) \/ ("ages" \in Faults /\ \E m \in Messages : Maintain({m}))
  \/ \E v \in saves : SaveEnds(v) \/ SaveFails(v)
  \/ \E n \in Nodes, h \in Hops : Announce(n, h)
  \/ SearchEnds
  \/ \E s \in Sends : (\E k \in alive : Send(s, k)) \/ SendStep(s)

Spec == Init /\ [][Next]_vars

-----------------------------------------------------------------------------
\* Every variable keeps its type, sends of ended sessions included.
TypeOK ==
  /\ DiscoveryTypeOK
  /\ session \in 0..MaxSessions /\ phase \in Phases
  /\ mode \in Modes \cup {"off"}
  /\ outbound \in [Sessions -> Nodes \cup {NoNode}] /\ alive \subseteq Sessions
  /\ handle \in 0..MaxSessions /\ ready \subseteq Sessions /\ torn \subseteq Sessions
  /\ store \in [Sessions -> SUBSET Messages]
  /\ disk \subseteq Messages /\ saves \subseteq Save /\ known \subseteq Nodes
  /\ pc \in [Sends -> Places]
  /\ router \in [Sends -> 0..MaxSessions] /\ node \in [Sends -> 0..MaxSessions]
  /\ fallback \in [Sends -> BOOLEAN]
  /\ arrived \subseteq Messages /\ queued \subseteq Sends
  /\ accepted \subseteq Messages /\ excused \subseteq Messages

\* Where a message still is: with its recipient, an external node, the node of
\* this session, on disk, or on its way there.
InMemory == IF phase \in {"loading", "up", "stopping"} THEN store[session] ELSE {}
Kept(m) ==
  m \in arrived \cup queued \cup InMemory \cup disk \cup UNION {v.content : v \in saves}

\* "A message for an unreachable peer is stored for them instead of silently
\* dropped", across stops, crashes and restarts at any point: what a deliverer
\* reported as sent or the node accepted is kept, but for what a definition
\* above excuses - a node torn down or never handed to the plugin took it, a
\* start read the disk before the last save was done, or a fault lost it.
NothingElseIsLost ==
  \A m \in accepted \cup {s \in Sends : pc[s] = "sent"} : Kept(m) \/ m \in excused

\* The same sentence of messaging.js without the exceptions.
SentIsKept == \A s \in Sends : pc[s] = "sent" => Kept(s)
=============================================================================
