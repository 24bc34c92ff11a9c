--------------------------- MODULE ShipTelemetry ---------------------------
(***************************************************************************)
(* Ship-to-ship telemetry over a channel of the RFed federation            *)
(* (plugin/rfed.js, the RFed node of plugin/embedded-nodes.js, and their   *)
(* use in plugin/index.js): from the snapshots other boats publish to the  *)
(* deltas the server is handed.                                            *)
(*                                                                         *)
(* A session takes part through its embedded node, whose fanout it taps,   *)
(* or as the client of a node elsewhere, which delivers to it or keeps what*)
(* it could not deliver until it is pulled.  An action is the code between *)
(* two awaits.  Sessions follow each other without overlap (PluginLifecycle*)
(* is about that), but what an earlier one began may end in a later one:   *)
(* messages being decoded, and saves of the embedded node's stores.        *)
(*                                                                         *)
(* A blob is a message as the channel carries it, with one snapshot; one   *)
(* like it may follow.  The node that stores it, fans it out and defers it *)
(* is the library's; so is the node elsewhere.                             *)
(***************************************************************************)
EXTENDS Integers, FiniteSets

CONSTANTS
  Blobs,                           \* the messages of the federation
  From, Claims, Proof, Channel, Carries, \* of each: its publisher, the MMSI it
                                   \* carries, its signature, its channel, its parts
  Self, NoMmsi,                    \* this node's identity; no MMSI
  Mmsis, Channels,
  Settings,                        \* what a session may be set for
  Budgets                          \* bounds: blobs on their way when another comes, saves
                                   \* under way when a periodic one begins, calls that
                                   \* fail and crashes; a behaviour has one of them

\* The parts of a snapshot that are told apart: what yields a value, what is worth
\* publishing, or both.
Parts == {"name", "vessel", "nav", "env"}
Maybe(S) == S \cup {NoMmsi}

ASSUME BlobsAssumption ==
  /\ Claims \in [Blobs -> Maybe(Mmsis)]
  /\ Proof \in [Blobs -> {"valid", "forged", "unknown"}]
  /\ Channel \in [Blobs -> Channels]
  /\ Carries \in [Blobs -> SUBSET Parts]
ASSUME MmsisAssumption == NoMmsi \notin Mmsis
ASSUME ShipSettingsAssumption ==
  Settings \subseteq [role : {"node", "client"}, channel : Channels,
                      receive : BOOLEAN, transmit : BOOLEAN]
ASSUME ShipBoundsAssumption == Budgets \subseteq [blobs : Nat, saves : Nat, faults : Nat]

VARIABLES
  mmsi,        \* this boat's MMSI on the bus
  phase,       \* how far the session's start is
  setting,     \* what the session is set for
  guard,       \* the MMSI the session has read
  subscribed,  \* embedded node: the channels the local client is subscribed to
  deferred,    \* ... the blobs it keeps for the local client, of those that came by
               \*     the tap: it may keep others, from before the tap or the disk
  tap,         \* ... whether its fanout is tapped, and the tap knows its subscriber
  fanout,      \* ... where each blob's fanout stands
  disk,        \* the channels subscribed to, as persisted
  saves,       \* the contents of saves under way
  listening,   \* client: whether the delivery destination could be set up
  federated,   \* node elsewhere: the channels we are subscribed to
  waiting,     \* ... the blobs it keeps for us
  arriving,    \* blobs being decoded, with the MMSI their session has read
  handled,     \* history: the blob that reached the handler last
  shown,       \* history: ... and became a delta
  unclean,     \* history: whether a crash came, or a save failed or outlived its session
  settled,     \* history: whether this boat's MMSI has always been what it is
  budget       \* bounds: how much more may go on, and go wrong

sessionVars == <<phase, setting, guard>>
nodeVars == <<subscribed, deferred, tap, fanout>>
diskVars == <<disk, saves, unclean>>
clientVars == <<listening, federated, waiting>>
handlerVars == <<arriving, handled, shown>>
vars == <<mmsi, settled, sessionVars, nodeVars, diskVars, clientVars, handlerVars, budget>>

Phases == {"down", "starting", "serving", "subscribed", "connecting", "up"}
NoFanout == [b \in Blobs |-> "none"]

Is(role) == setting.role = role
Ours(b) == Channel[b] = setting.channel

\* Bound: few blobs are fanned out or decoded at once.
Room == Cardinality({b \in Blobs : fanout[b] # "none"}) + Cardinality(arriving) < budget.blobs

Fails == budget.faults > 0 /\ budget' = [budget EXCEPT !.faults = @ - 1]
Succeeds == UNCHANGED budget

Init ==
  /\ mmsi \in Maybe(Mmsis)
  /\ phase = "down" /\ setting \in Settings /\ guard = NoMmsi
  /\ subscribed = {} /\ deferred = {}
  /\ tap = "off" /\ fanout = NoFanout
  /\ disk = {} /\ saves = {}
  /\ listening = "no"
  /\ federated = {} /\ waiting = {}
  /\ arriving = {} /\ handled = {} /\ shown = {}
  /\ unclean = "no" /\ settled = "yes"
  /\ budget \in Budgets

-----------------------------------------------------------------------------
(* The snapshot, and the handler of what arrives *)

\* encodeShipTelemetry: an identity or a fix is worth publishing, weather alone is not.
Encodes(b) == Claims[b] # NoMmsi \/ Carries[b] \cap {"name", "vessel", "nav"} # {}

\* buildShipReadings, sendShipOnce: what this boat publishes carries the MMSI of the
\* moment.
Publishes(b) == setting.transmit /\ Ours(b) /\ Encodes(b) /\ Claims[b] = mmsi

\* shipTelemetryToValues: a name alone yields none.
Yields(b) == Claims[b] # NoMmsi \/ Carries[b] \cap {"vessel", "nav", "env"} # {}

\* buildShipTelemetryDelta: proven, of a known sender, with values.
Delta(b) == Proof[b] = "valid" /\ Yields(b)

\* The context of a delta; that of one's own MMSI is the own vessel's.
Context(b) ==
  IF Claims[b] # NoMmsi THEN <<"mmsi", Claims[b]>> ELSE <<"identity", From[b]>>

\* Faulty variant: the echo is recognised by its MMSI alone.
AcceptsByMmsi(b, g) == Delta(b) /\ (g = NoMmsi \/ Context(b) # <<"mmsi", g>>)

\* handleInboundShipTelemetry: neither our own echo nor another's claim to our MMSI.
Accepts(b, g) ==
  /\ From[b] # Self
  /\ Delta(b)
  /\ g = NoMmsi \/ Context(b) # <<"mmsi", g>>

\* A decoded blob reaches the handler of the session that received it.
Handle(b, g) ==
  /\ <<b, g>> \in arriving
  /\ arriving' = arriving \ {<<b, g>>}
  /\ handled' = {b}
  /\ shown' = IF Accepts(b, g) THEN {b} ELSE {}
  /\ UNCHANGED <<mmsi, settled, sessionVars, nodeVars, diskVars, clientVars, budget>>

\* The bus publishes this boat's MMSI.
MmsiSet(m) ==
  /\ mmsi' = m
  /\ settled' = IF m = mmsi THEN settled ELSE "no"
  /\ UNCHANGED <<sessionVars, nodeVars, diskVars, clientVars, handlerVars, budget>>

-----------------------------------------------------------------------------
(* The embedded node of a session *)

\* The node's stores are loaded, or cannot be and are empty; the node is started.
Load(s) ==
  /\ phase = "down" /\ s.role = "node" /\ Is("node")
  /\ Cardinality(saves) <= budget.saves
  /\ phase' = "starting" /\ setting' = s
  /\ \/ subscribed' = disk /\ Succeeds
     \/ subscribed' = {} /\ Fails
  /\ unclean' = IF saves = {} THEN unclean ELSE "yes"
  /\ UNCHANGED <<mmsi, settled, guard, deferred, tap, fanout, disk, saves, clientVars, handlerVars>>

\* The node runs; the MMSI is read.  With nothing to receive that is all.
NodeStarted ==
  /\ phase = "starting"
  /\ phase' = IF setting.receive THEN "serving" ELSE "up"
  /\ guard' = mmsi
  /\ UNCHANGED <<mmsi, settled, setting, nodeVars, diskVars, clientVars, handlerVars, budget>>

\* setupEmbeddedRFedClient: the local client is subscribed in the node's table.
Subscribe ==
  /\ phase = "serving"
  /\ phase' = "subscribed"
  /\ subscribed' = subscribed \cup {setting.channel}
  /\ UNCHANGED <<mmsi, settled, setting, guard, deferred, tap, fanout, diskVars,
                 clientVars, handlerVars, budget>>

\* ... and the fanout is tapped, also when it could not be subscribed, but not when
\* the channel could not be derived.
TapFanout ==
  /\ phase \in {"serving", "subscribed"}
  /\ phase' = "up"
  /\ \/ phase = "subscribed" /\ tap' = "drains" /\ Succeeds
     \/ phase = "serving" /\ tap' \in {"delivers", "off"} /\ Fails
  /\ UNCHANGED <<mmsi, settled, setting, guard, subscribed, deferred, fanout,
                 diskVars, clientVars, handlerVars>>

Serving == Is("node") /\ phase \notin {"down", "starting"}

\* The node ingests a blob, of the mesh or of its own boat, and calls its fanout,
\* tapped or not.
Ingest(b) ==
  /\ Serving /\ Room
  /\ fanout[b] = "none"
  /\ From[b] = Self => Publishes(b)
  /\ fanout' = [fanout EXCEPT ![b] = IF tap = "off" THEN "plain" ELSE "tapped"]
  /\ UNCHANGED <<mmsi, settled, sessionVars, subscribed, deferred, tap, diskVars, clientVars,
                 handlerVars, budget>>

\* The node's own fanout: the local client is never online, so the blob is deferred
\* for it if it subscribes.  Untapped, that is all.
Defer(b) ==
  /\ fanout[b] \in {"plain", "tapped"}
  /\ fanout' = [fanout EXCEPT ![b] = IF @ = "plain" THEN "none" ELSE "returns"]
  /\ deferred' = IF fanout[b] = "tapped" /\ Channel[b] \in subscribed
                 THEN deferred \cup {b} ELSE deferred
  /\ UNCHANGED <<mmsi, settled, sessionVars, subscribed, tap, diskVars, clientVars,
                 handlerVars, budget>>

\* Faulty variant: the queue is not drained.
ReturnUndrained(b) ==
  /\ fanout[b] = "returns"
  /\ fanout' = [fanout EXCEPT ![b] = "none"]
  /\ arriving' = IF Ours(b) THEN arriving \cup {<<b, guard>>} ELSE arriving
  /\ UNCHANGED <<mmsi, settled, sessionVars, subscribed, deferred, tap, diskVars, clientVars,
                 handled, shown, budget>>

\* The tap, when the node's fanout returns: a blob of the channel empties the local
\* client's queue and goes on to be decoded.
Return(b) ==
  /\ fanout[b] = "returns"
  /\ fanout' = [fanout EXCEPT ![b] = "none"]
  /\ arriving' = IF Ours(b) THEN arriving \cup {<<b, guard>>} ELSE arriving
  /\ deferred' = IF Ours(b) /\ tap = "drains" THEN {} ELSE deferred
  /\ UNCHANGED <<mmsi, settled, sessionVars, subscribed, tap, diskVars, clientVars, handled,
                 shown, budget>>

\* A maintenance interval: what has aged goes, and a save begins.
Maintain ==
  /\ Serving
  /\ Cardinality(saves) < budget.saves
  /\ \E aged \in SUBSET deferred : deferred' = deferred \ aged
  /\ saves' = saves \cup {subscribed}
  /\ UNCHANGED <<mmsi, settled, sessionVars, subscribed, tap, fanout, disk, unclean, clientVars,
                 handlerVars, budget>>

SaveEnds(c) ==
  /\ c \in saves
  /\ saves' = saves \ {c}
  /\ \/ disk' = c /\ Succeeds /\ UNCHANGED unclean
     \/ Fails /\ unclean' = "yes" /\ UNCHANGED disk
  /\ UNCHANGED <<mmsi, settled, sessionVars, nodeVars, clientVars, handlerVars>>

-----------------------------------------------------------------------------
(* The client of a node elsewhere *)

\* bringUpRfed: the MMSI has been read; the client is made and begins to listen.
Connect(s) ==
  /\ phase = "down" /\ s.role = "client" /\ Is("client")
  /\ phase' = "connecting" /\ setting' = s /\ guard' = mmsi
  /\ UNCHANGED <<mmsi, settled, nodeVars, diskVars, clientVars, handlerVars, budget>>

\* Whether or not it can listen, it is up, and subscribes and pulls on timers.
Connected ==
  /\ phase = "connecting"
  /\ phase' = "up"
  /\ \/ listening' = "yes" /\ Succeeds
     \/ UNCHANGED listening /\ Fails
  /\ UNCHANGED <<mmsi, settled, setting, guard, nodeVars, diskVars, federated, waiting,
                 handlerVars>>

Client == Is("client") /\ phase = "up"

\* subscribeOnce succeeds.
Federate ==
  /\ Client
  /\ federated' = federated \cup {setting.channel}
  /\ UNCHANGED <<mmsi, settled, sessionVars, nodeVars, diskVars, listening, waiting,
                 handlerVars, budget>>

\* onRFedMessage with what arrived: dropped before the handler if not to be received.
Received(S) == IF setting.receive THEN S \X {guard} ELSE {}

\* The node elsewhere distributes a blob: a subscriber that listens gets it, or it is
\* kept.
Distribute(b) ==
  /\ Room
  /\ From[b] = Self => Client /\ Publishes(b)
  /\ Channel[b] \in federated
  /\ \/ waiting' = waiting \cup {b} /\ UNCHANGED arriving
     \/ /\ Client /\ listening = "yes"
        /\ arriving' = arriving \cup Received({b})
        /\ UNCHANGED waiting
  /\ UNCHANGED <<mmsi, settled, sessionVars, nodeVars, diskVars, listening, federated, handled,
                 shown, budget>>

\* Faulty variant: one answer is taken for all there is, and the rest given up.
PullOnce ==
  /\ Client /\ setting.receive
  /\ \E S \in SUBSET {b \in waiting : Ours(b)} :
       /\ S # {}
       /\ waiting' = {b \in waiting : ~Ours(b)}
       /\ arriving' = arriving \cup Received(S)
  /\ UNCHANGED <<mmsi, settled, sessionVars, nodeVars, diskVars, listening, federated,
                 handled, shown, budget>>

\* pullDeferredMessages gets an answer: some of what waits on the channel.  It asks
\* again while there is more.
Pull ==
  /\ Client /\ setting.receive
  /\ \E S \in SUBSET {b \in waiting : Ours(b)} :
       /\ S # {}
       /\ waiting' = waiting \ S
       /\ arriving' = arriving \cup Received(S)
  /\ UNCHANGED <<mmsi, settled, sessionVars, nodeVars, diskVars, listening, federated,
                 handled, shown, budget>>

-----------------------------------------------------------------------------
(* The end of a session *)

\* The embedded node's memory is gone; tapped fanouts under way still deliver.
NodeGone ==
  /\ subscribed' = {} /\ deferred' = {}
  /\ tap' = "off" /\ fanout' = NoFanout

\* Faulty variant: the tap is not torn down before the stores are persisted.
FinalWithTap == subscribed

\* What the last save of the session writes: the tap's teardown has taken the local
\* client's subscription back by then.
Final ==
  IF tap = "drains" THEN subscribed \ {setting.channel} ELSE subscribed

\* stop, when the start is through: the node is torn down, then the tap; a save
\* begins that nobody waits for.
Stop ==
  /\ phase = "up"
  /\ phase' = "down" /\ guard' = NoMmsi
  /\ arriving' = arriving \cup
       ({b \in Blobs : fanout[b] \in {"tapped", "returns"} /\ Ours(b)} \X {guard})
  /\ saves' = IF Is("node") THEN saves \cup {Final} ELSE saves
  /\ unclean' = IF saves = {} THEN unclean ELSE "yes"
  /\ NodeGone
  /\ listening' = "no"
  /\ UNCHANGED <<mmsi, settled, setting, disk, federated, waiting, handled, shown, budget>>

\* The process ends, at any time.
Crash ==
  /\ Fails
  /\ phase' = "down" /\ guard' = NoMmsi
  /\ NodeGone
  /\ saves' = {} /\ arriving' = {} /\ listening' = "no"
  /\ unclean' = "yes"
  /\ UNCHANGED <<mmsi, settled, setting, disk, federated, waiting, handled, shown>>

-----------------------------------------------------------------------------
Next ==
  \/ \E m \in Mmsis : MmsiSet(m)
  \/ \E s \in Settings : Load(s) \/ Connect(s)
  \/ NodeStarted \/ Subscribe \/ TapFanout \/ Maintain
  \/ Connected \/ Federate \/ Pull
  \/ \E b \in Blobs : Ingest(b) \/ Defer(b) \/ Return(b) \/ Distribute(b)
  \/ \E b \in Blobs : \E g \in Maybe(Mmsis) : Handle(b, g)
  \/ \E c \in saves : SaveEnds(c)
  \/ Stop \/ Crash

Spec == Init /\ [][Next]_vars

\* Fanouts and decoding get on; pulls are repeated, on a timer, and the node elsewhere
\* does not keep a blob back for ever.  Nothing else is obliged to happen.
Fairness ==
  /\ \A b \in Blobs : WF_vars(b \in waiting /\ Pull /\ b \notin waiting')
  /\ \A b \in Blobs : WF_vars(Defer(b)) /\ WF_vars(Return(b))
  /\ \A b \in Blobs : \A g \in Maybe(Mmsis) : WF_vars(Handle(b, g))

FairSpec == Spec /\ Fairness

-----------------------------------------------------------------------------
(* Properties *)

\* The variables keep their types.
TypeOK ==
  /\ mmsi \in Maybe(Mmsis) /\ guard \in Maybe(Mmsis)
  /\ phase \in Phases
  /\ setting \in Settings
  /\ {deferred, waiting, handled, shown} \subseteq SUBSET Blobs
  /\ {subscribed, federated} \subseteq SUBSET Channels
  /\ tap \in {"off", "drains", "delivers"}
  /\ fanout \in [Blobs -> {"none", "plain", "tapped", "returns"}]
  /\ saves \cup {disk} \subseteq SUBSET Channels
  /\ arriving \subseteq Blobs \X Maybe(Mmsis)
  /\ {listening, unclean, settled} \subseteq {"yes", "no"}
  /\ budget \in [blobs : Nat, saves : Nat, faults : Nat]

\* What becomes a delta never updates the own vessel: it is not our own echo, and,
\* unless our MMSI changed while the process ran, not another's claim to it
\* (rfed.js:282-283: "can only ever update *other* vessels").
OthersOnly ==
  \A b \in shown :
    /\ From[b] # Self
    /\ settled = "yes" => Claims[b] = NoMmsi \/ Claims[b] # mmsi

\* The queue the node keeps for the local client, which nobody ever pulls, holds no
\* blob of the channel that went through the tap, but for those whose fanout is under
\* way (rfed.js:753-758: "free of a stale, never-pulled backlog").  That of another
\* channel, to which a subscription lingers from before a crash, it may hold.
NoStaleBacklog ==
  tap # "delivers" =>
    {b \in deferred : Ours(b)} \subseteq {b \in Blobs : fanout[b] = "returns"}

\* The local client is subscribed to the channel it taps and to no other, and to
\* none when it taps none; nor does the disk say otherwise after a stop, when no
\* save is left under way.  It takes a crash, a save that fails or one that
\* outlives its session for a subscription to linger.
SubscriptionFollowsTap ==
  unclean = "no" =>
    /\ subscribed \subseteq
         IF phase = "subscribed" \/ tap = "drains" THEN {setting.channel} ELSE {}
    /\ phase = "down" /\ saves = {} => disk = {}

\* What a node elsewhere keeps for us is pulled and handled while the session lasts,
\* and what an embedded node ingests under the tap is handled even if it stops.
EveryBlobHandled ==
  \A b \in Blobs :
    /\ (Client /\ setting.receive /\ b \in waiting /\ Ours(b))
         ~> (b \in handled \/ phase = "down")
    /\ (fanout[b] = "tapped" /\ Ours(b)) ~> (b \in handled \/ unclean = "yes")

=============================================================================
