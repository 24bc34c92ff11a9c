------------------------ MODULE ShipTelemetryProofs ------------------------
(***************************************************************************)
(* Proofs about ship telemetry, for any blobs, settings and bounds: the    *)
(* type invariant, who a received snapshot may update, what the node keeps *)
(* for the local client, and how long that client is subscribed.           *)
(***************************************************************************)
EXTENDS ShipTelemetry, TLAPS

\* A session past its reading of the MMSI.
Informed == phase \notin {"down", "starting"}

\* The MMSI a session has read is ours, in what is being decoded as well.
Guarded ==
  settled = "yes" =>
    /\ Informed => guard = mmsi
    /\ \A b \in Blobs : \A g \in Maybe(Mmsis) : <<b, g>> \in arriving => g = mmsi

\* Only a node that serves has fanouts, tapped ones only under a tap; a tap comes
\* with the end of the start.
Fanouts ==
  /\ \A b \in Blobs : fanout[b] # "none" => Informed
  /\ \A b \in Blobs : fanout[b] \in {"tapped", "returns"} => tap # "off"
  /\ tap # "off" => phase = "up"
  /\ phase = "down" => deferred = {}

\* A client leaves the stores alone, and what a session without accidents leaves is
\* empty of subscriptions.
Stores ==
  /\ Is("client") => saves = {} /\ disk = {} /\ subscribed = {} /\ tap = "off"
  /\ phase \in {"starting", "serving", "subscribed"} => Is("node")
  /\ unclean = "no" /\ phase = "down" => saves \subseteq {{}} /\ (saves = {} => disk = {})

IInv == TypeOK /\ Guarded /\ OthersOnly /\ Fanouts /\ NoStaleBacklog
          /\ Stores /\ SubscriptionFollowsTap

-----------------------------------------------------------------------------
(* Types *)

LEMMA TypeInitial == Init => TypeOK
BY ShipBoundsAssumption DEF Init, TypeOK, NoFanout, Phases, Maybe

LEMMA TypePreserved == TypeOK /\ [Next]_vars => TypeOK'
<1> USE DEF Succeeds, Fails, Maybe, Phases
<1> SUFFICES ASSUME TypeOK, [Next]_vars PROVE TypeOK'
  OBVIOUS
<1>1. ASSUME NEW m \in Mmsis, MmsiSet(m) PROVE TypeOK'
  BY <1>1 DEF TypeOK, MmsiSet, sessionVars, nodeVars, diskVars, clientVars, handlerVars
<1>2. ASSUME NEW s \in Settings, Load(s) PROVE TypeOK'
  BY <1>2 DEF TypeOK, Load, clientVars, handlerVars
<1>3. ASSUME NEW s \in Settings, Connect(s) PROVE TypeOK'
  BY <1>3 DEF TypeOK, Connect, nodeVars, diskVars, clientVars, handlerVars
<1>4. CASE NodeStarted
  BY <1>4 DEF TypeOK, NodeStarted, nodeVars, diskVars, clientVars, handlerVars
<1>5. CASE Subscribe
  BY <1>5, ShipSettingsAssumption DEF TypeOK, Subscribe, diskVars, clientVars, handlerVars
<1>6. CASE TapFanout
  BY <1>6 DEF TypeOK, TapFanout, diskVars, clientVars, handlerVars
<1>7. CASE Maintain
  BY <1>7 DEF TypeOK, Maintain, sessionVars, clientVars, handlerVars
<1>8. CASE Connected
  BY <1>8 DEF TypeOK, Connected, nodeVars, diskVars, handlerVars
<1>9. CASE Federate
  BY <1>9, ShipSettingsAssumption DEF TypeOK, Federate, sessionVars, nodeVars, diskVars, handlerVars
<1>10. CASE Pull
  BY <1>10 DEF TypeOK, Pull, Received, sessionVars, nodeVars, diskVars
<1>11. ASSUME NEW b \in Blobs, Ingest(b) PROVE TypeOK'
  BY <1>11 DEF TypeOK, Ingest, sessionVars, diskVars, clientVars, handlerVars
<1>12. ASSUME NEW b \in Blobs, Defer(b) PROVE TypeOK'
  BY <1>12 DEF TypeOK, Defer, sessionVars, diskVars, clientVars, handlerVars
<1>13. ASSUME NEW b \in Blobs, Return(b) PROVE TypeOK'
  BY <1>13 DEF TypeOK, Return, sessionVars, diskVars, clientVars
<1>14. ASSUME NEW b \in Blobs, Distribute(b) PROVE TypeOK'
  BY <1>14 DEF TypeOK, Distribute, Received, sessionVars, nodeVars, diskVars
<1>15. ASSUME NEW b \in Blobs, NEW g \in Maybe(Mmsis), Handle(b, g) PROVE TypeOK'
  BY <1>15 DEF TypeOK, Handle, sessionVars, nodeVars, diskVars, clientVars
<1>16. ASSUME NEW c \in saves, SaveEnds(c) PROVE TypeOK'
  BY <1>16 DEF TypeOK, SaveEnds, sessionVars, nodeVars, clientVars, handlerVars
<1>17. CASE Stop
  BY <1>17 DEF TypeOK, Stop, NodeGone, NoFanout, Final
<1>18. CASE Crash
  BY <1>18 DEF TypeOK, Crash, NodeGone, NoFanout
<1>19. CASE UNCHANGED vars
  BY <1>19 DEF TypeOK, vars, sessionVars, nodeVars, diskVars, clientVars, handlerVars
<1>20. QED
  BY <1>1, <1>2, <1>3, <1>4, <1>5, <1>6, <1>7, <1>8, <1>9, <1>10, <1>11, <1>12, <1>13, <1>14,
     <1>15, <1>16, <1>17, <1>18, <1>19 DEF Next

\* The variables keep their types.
THEOREM TypeCorrect == Spec => []TypeOK
BY TypeInitial, TypePreserved, PTL DEF Spec

-----------------------------------------------------------------------------
(* Identity *)

\* A blob is decoded for a session that serves, which has read the MMSI; and what the
\* handler accepts then is neither ours nor a claim to it.
LEMMA IdentityPreserved == IInv /\ [Next]_vars => (Guarded /\ OthersOnly)'
<1> SUFFICES ASSUME IInv, [Next]_vars PROVE (Guarded /\ OthersOnly)'
  OBVIOUS
<1> USE DEF IInv, TypeOK, Guarded, OthersOnly, Fanouts, Informed, Maybe, Phases
<1>1. ASSUME NEW m \in Mmsis, MmsiSet(m) PROVE (Guarded /\ OthersOnly)'
  BY <1>1 DEF MmsiSet, sessionVars, nodeVars, diskVars, clientVars, handlerVars
<1>2. ASSUME NEW s \in Settings, Load(s) PROVE (Guarded /\ OthersOnly)'
  BY <1>2 DEF Load, sessionVars, nodeVars, diskVars, clientVars, handlerVars
<1>3. ASSUME NEW s \in Settings, Connect(s) PROVE (Guarded /\ OthersOnly)'
  BY <1>3 DEF Connect, sessionVars, nodeVars, diskVars, clientVars, handlerVars
<1>4. CASE NodeStarted
  BY <1>4 DEF NodeStarted, sessionVars, nodeVars, diskVars, clientVars, handlerVars
<1>5. CASE Subscribe
  BY <1>5 DEF Subscribe, sessionVars, nodeVars, diskVars, clientVars, handlerVars
<1>6. CASE TapFanout
  BY <1>6 DEF TapFanout, sessionVars, nodeVars, diskVars, clientVars, handlerVars
<1>7. CASE Maintain
  BY <1>7 DEF Maintain, sessionVars, nodeVars, diskVars, clientVars, handlerVars
<1>8. CASE Connected
  BY <1>8 DEF Connected, sessionVars, nodeVars, diskVars, clientVars, handlerVars
<1>9. CASE Federate
  BY <1>9 DEF Federate, sessionVars, nodeVars, diskVars, clientVars, handlerVars
<1>10. CASE Pull
  BY <1>10 DEF Pull, Received, Client, sessionVars, nodeVars, diskVars, clientVars, handlerVars
<1>11. ASSUME NEW b \in Blobs, Ingest(b) PROVE (Guarded /\ OthersOnly)'
  BY <1>11 DEF Ingest, sessionVars, nodeVars, diskVars, clientVars, handlerVars
<1>12. ASSUME NEW b \in Blobs, Defer(b) PROVE (Guarded /\ OthersOnly)'
  BY <1>12 DEF Defer, sessionVars, nodeVars, diskVars, clientVars, handlerVars
<1>13. ASSUME NEW b \in Blobs, Return(b) PROVE (Guarded /\ OthersOnly)'
  BY <1>13 DEF Return, sessionVars, nodeVars, diskVars, clientVars, handlerVars
<1>14. ASSUME NEW b \in Blobs, Distribute(b) PROVE (Guarded /\ OthersOnly)'
  BY <1>14 DEF Distribute, Received, Client, sessionVars, nodeVars, diskVars, clientVars, handlerVars
<1>15. ASSUME NEW b \in Blobs, NEW g \in Maybe(Mmsis), Handle(b, g) PROVE (Guarded /\ OthersOnly)'
  BY <1>15 DEF Handle, Accepts, Delta, Context, sessionVars, nodeVars, diskVars, clientVars, handlerVars
<1>16. ASSUME NEW c \in saves, SaveEnds(c) PROVE (Guarded /\ OthersOnly)'
  BY <1>16 DEF SaveEnds, sessionVars, nodeVars, diskVars, clientVars, handlerVars
<1>17. CASE Stop
  BY <1>17 DEF Stop, NodeGone, NoFanout, sessionVars, nodeVars, diskVars, clientVars, handlerVars
<1>18. CASE Crash
  BY <1>18 DEF Crash, NodeGone, NoFanout, sessionVars, nodeVars, diskVars, clientVars, handlerVars
<1>19. CASE UNCHANGED vars
  BY <1>19 DEF vars, sessionVars, nodeVars, diskVars, clientVars, handlerVars
<1>20. QED
  BY <1>1, <1>2, <1>3, <1>4, <1>5, <1>6, <1>7, <1>8, <1>9, <1>10, <1>11, <1>12, <1>13, <1>14,
     <1>15, <1>16, <1>17, <1>18, <1>19 DEF Next

-----------------------------------------------------------------------------
(* The queue *)

\* The fanout that defers a blob is still under way until the tap has drained it.
LEMMA QueuePreserved == IInv /\ [Next]_vars => (Fanouts /\ NoStaleBacklog)'
<1> SUFFICES ASSUME IInv, [Next]_vars PROVE (Fanouts /\ NoStaleBacklog)'
  OBVIOUS
<1> USE DEF IInv, TypeOK, Fanouts, NoStaleBacklog, Stores, Informed, Phases, Ours, Is
<1>1. ASSUME NEW m \in Mmsis, MmsiSet(m) PROVE (Fanouts /\ NoStaleBacklog)'
  BY <1>1 DEF MmsiSet, sessionVars, nodeVars, diskVars, clientVars, handlerVars
<1>2. ASSUME NEW s \in Settings, Load(s) PROVE (Fanouts /\ NoStaleBacklog)'
  BY <1>2 DEF Load, sessionVars, nodeVars, diskVars, clientVars, handlerVars
<1>3. ASSUME NEW s \in Settings, Connect(s) PROVE (Fanouts /\ NoStaleBacklog)'
  BY <1>3 DEF Connect, sessionVars, nodeVars, diskVars, clientVars, handlerVars
<1>4. CASE NodeStarted
  BY <1>4 DEF NodeStarted, sessionVars, nodeVars, diskVars, clientVars, handlerVars
<1>5. CASE Subscribe
  BY <1>5 DEF Subscribe, sessionVars, nodeVars, diskVars, clientVars, handlerVars
<1>6. CASE TapFanout
  BY <1>6 DEF TapFanout, sessionVars, nodeVars, diskVars, clientVars, handlerVars
<1>7. CASE Maintain
  BY <1>7 DEF Maintain, Serving, sessionVars, nodeVars, diskVars, clientVars, handlerVars
<1>8. CASE Connected
  BY <1>8 DEF Connected, sessionVars, nodeVars, diskVars, clientVars, handlerVars
<1>9. CASE Federate
  BY <1>9 DEF Federate, sessionVars, nodeVars, diskVars, clientVars, handlerVars
<1>10. CASE Pull
  BY <1>10 DEF Pull, sessionVars, nodeVars, diskVars, clientVars, handlerVars
<1>11. ASSUME NEW b \in Blobs, Ingest(b) PROVE (Fanouts /\ NoStaleBacklog)'
  BY <1>11 DEF Ingest, Serving, sessionVars, nodeVars, diskVars, clientVars, handlerVars
<1>12. ASSUME NEW b \in Blobs, Defer(b) PROVE (Fanouts /\ NoStaleBacklog)'
  BY <1>12 DEF Defer, sessionVars, nodeVars, diskVars, clientVars, handlerVars
<1>13. ASSUME NEW b \in Blobs, Return(b) PROVE (Fanouts /\ NoStaleBacklog)'
  BY <1>13 DEF Return, sessionVars, nodeVars, diskVars, clientVars, handlerVars
<1>14. ASSUME NEW b \in Blobs, Distribute(b) PROVE (Fanouts /\ NoStaleBacklog)'
  BY <1>14 DEF Distribute, sessionVars, nodeVars, diskVars, clientVars, handlerVars
<1>15. ASSUME NEW b \in Blobs, NEW g \in Maybe(Mmsis), Handle(b, g) PROVE (Fanouts /\ NoStaleBacklog)'
  BY <1>15 DEF Handle, sessionVars, nodeVars, diskVars, clientVars, handlerVars
<1>16. ASSUME NEW c \in saves, SaveEnds(c) PROVE (Fanouts /\ NoStaleBacklog)'
  BY <1>16 DEF SaveEnds, sessionVars, nodeVars, diskVars, clientVars, handlerVars
<1>17. CASE Stop
  BY <1>17 DEF Stop, NodeGone, NoFanout, sessionVars, nodeVars, diskVars, clientVars, handlerVars
<1>18. CASE Crash
  BY <1>18 DEF Crash, NodeGone, NoFanout, sessionVars, nodeVars, diskVars, clientVars, handlerVars
<1>19. CASE UNCHANGED vars
  BY <1>19 DEF vars, sessionVars, nodeVars, diskVars, clientVars, handlerVars
<1>20. QED
  BY <1>1, <1>2, <1>3, <1>4, <1>5, <1>6, <1>7, <1>8, <1>9, <1>10, <1>11, <1>12, <1>13, <1>14,
     <1>15, <1>16, <1>17, <1>18, <1>19 DEF Next

-----------------------------------------------------------------------------
(* The subscription *)

\* The one save begun by a stop without accidents follows the tap's tear-down.
LEMMA StoresPreserved == IInv /\ [Next]_vars => (Stores /\ SubscriptionFollowsTap)'
<1> SUFFICES ASSUME IInv, [Next]_vars PROVE (Stores /\ SubscriptionFollowsTap)'
  OBVIOUS
<1> USE DEF IInv, TypeOK, Fanouts, Stores, SubscriptionFollowsTap, Phases, Is
<1>1. ASSUME NEW m \in Mmsis, MmsiSet(m) PROVE (Stores /\ SubscriptionFollowsTap)'
  BY <1>1 DEF MmsiSet, sessionVars, nodeVars, diskVars, clientVars, handlerVars
<1>2. ASSUME NEW s \in Settings, Load(s) PROVE (Stores /\ SubscriptionFollowsTap)'
  BY <1>2 DEF Load, sessionVars, nodeVars, diskVars, clientVars, handlerVars
<1>3. ASSUME NEW s \in Settings, Connect(s) PROVE (Stores /\ SubscriptionFollowsTap)'
  BY <1>3 DEF Connect, sessionVars, nodeVars, diskVars, clientVars, handlerVars
<1>4. CASE NodeStarted
  BY <1>4 DEF NodeStarted, sessionVars, nodeVars, diskVars, clientVars, handlerVars
<1>5. CASE Subscribe
  BY <1>5 DEF Subscribe, sessionVars, nodeVars, diskVars, clientVars, handlerVars
<1>6. CASE TapFanout
  BY <1>6 DEF TapFanout, sessionVars, nodeVars, diskVars, clientVars, handlerVars
<1>7. CASE Maintain
  BY <1>7 DEF Maintain, Serving, sessionVars, nodeVars, diskVars, clientVars, handlerVars
<1>8. CASE Connected
  BY <1>8 DEF Connected, sessionVars, nodeVars, diskVars, clientVars, handlerVars
<1>9. CASE Federate
  BY <1>9 DEF Federate, Client, sessionVars, nodeVars, diskVars, clientVars, handlerVars
<1>10. CASE Pull
  BY <1>10 DEF Pull, sessionVars, nodeVars, diskVars, clientVars, handlerVars
<1>11. ASSUME NEW b \in Blobs, Ingest(b) PROVE (Stores /\ SubscriptionFollowsTap)'
  BY <1>11 DEF Ingest, Serving, sessionVars, nodeVars, diskVars, clientVars, handlerVars
<1>12. ASSUME NEW b \in Blobs, Defer(b) PROVE (Stores /\ SubscriptionFollowsTap)'
  BY <1>12 DEF Defer, sessionVars, nodeVars, diskVars, clientVars, handlerVars
<1>13. ASSUME NEW b \in Blobs, Return(b) PROVE (Stores /\ SubscriptionFollowsTap)'
  BY <1>13 DEF Return, sessionVars, nodeVars, diskVars, clientVars, handlerVars
<1>14. ASSUME NEW b \in Blobs, Distribute(b) PROVE (Stores /\ SubscriptionFollowsTap)'
  BY <1>14 DEF Distribute, sessionVars, nodeVars, diskVars, clientVars, handlerVars
<1>15. ASSUME NEW b \in Blobs, NEW g \in Maybe(Mmsis), Handle(b, g) PROVE (Stores /\ SubscriptionFollowsTap)'
  BY <1>15 DEF Handle, sessionVars, nodeVars, diskVars, clientVars, handlerVars
<1>16. ASSUME NEW c \in saves, SaveEnds(c) PROVE (Stores /\ SubscriptionFollowsTap)'
  BY <1>16 DEF SaveEnds, Fails, sessionVars, nodeVars, diskVars, clientVars, handlerVars
<1>17. CASE Stop
  <2>1. phase = "up" /\ phase' = "down" /\ subscribed' = {} /\ tap' = "off" /\ disk' = disk
        /\ setting' = setting
    BY <1>17 DEF Stop, NodeGone
  <2>2. unclean' = "no" => saves = {} /\ unclean = "no"
    BY <1>17 DEF Stop
  <2>3. unclean' = "no" => subscribed \subseteq {setting.channel} /\ Final = {}
    BY <2>1, <2>2 DEF Final
  <2>4. CASE Is("node")
    <3>1. saves' = saves \cup {Final}
      BY <1>17, <2>4 DEF Stop
    <3>2. unclean' = "no" => saves' = {{}}
      BY <2>2, <2>3, <3>1
    <3>3. setting'.role # "client"
      BY <2>1, <2>4
    <3>4. QED  BY <2>1, <3>2, <3>3
  <2>5. CASE ~Is("node")
    <3>1. saves' = {} /\ disk' = {}
      BY <1>17, <2>1, <2>5, ShipSettingsAssumption DEF Stop
    <3>2. QED  BY <2>1, <3>1
  <2>6. QED  BY <2>4, <2>5
<1>18. CASE Crash
  BY <1>18 DEF Crash, NodeGone, sessionVars, nodeVars, diskVars, clientVars, handlerVars
<1>19. CASE UNCHANGED vars
  BY <1>19 DEF vars, sessionVars, nodeVars, diskVars, clientVars, handlerVars
<1>20. QED
  BY <1>1, <1>2, <1>3, <1>4, <1>5, <1>6, <1>7, <1>8, <1>9, <1>10, <1>11, <1>12, <1>13, <1>14,
     <1>15, <1>16, <1>17, <1>18, <1>19 DEF Next

-----------------------------------------------------------------------------
(* The theorems *)

LEMMA Invariance == Spec => []IInv
<1>1. Init => IInv
  BY TypeInitial DEF Init, IInv, Guarded, OthersOnly, Fanouts, NoStaleBacklog, Stores,
     SubscriptionFollowsTap, NoFanout, Informed, Is, Ours, Maybe
<1>2. IInv /\ [Next]_vars => IInv'
  BY TypePreserved, IdentityPreserved, QueuePreserved, StoresPreserved DEF IInv
<1>3. QED  BY <1>1, <1>2, PTL DEF Spec

\* Neither our echo nor a claim to our MMSI becomes a delta.
THEOREM OnlyOthersUpdated == Spec => []OthersOnly
BY Invariance, PTL DEF IInv

\* The queue of the local client holds no blob of its channel but what is in the fanout.
THEOREM BacklogDrained == Spec => []NoStaleBacklog
BY Invariance, PTL DEF IInv

\* The local subscription is there as long as the tap needs it, and not on disk after.
THEOREM SubscriptionTied == Spec => []SubscriptionFollowsTap
BY Invariance, PTL DEF IInv

=============================================================================
