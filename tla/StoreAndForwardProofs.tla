----------------------- MODULE StoreAndForwardProofs -----------------------
(***************************************************************************)
(* Proofs about StoreAndForward and about the search it contains: types,   *)
(* the search implements ClosestNode, and no message is lost but in the    *)
(* ways the module names.                                                  *)
(***************************************************************************)
EXTENDS StoreAndForward, TLAPS

-----------------------------------------------------------------------------
(* The search.                                                             *)

\* The running candidate is the closest node heard, and the first of those.
Tracks ==
  /\ closest = Nobody => \A n \in Nodes : best[n] = Unheard
  /\ closest # Nobody =>
       /\ best[closest.hex] = closest.hops
       /\ \A n \in Nodes : best[n] # Unheard => closest.hops <= best[n]

\* A search that listens has selected nothing; one that counts down has heard
\* something to select.
Armed ==
  /\ listening => selected = NoNode
  /\ grace => listening /\ closest # Nobody

SearchInv == DiscoveryTypeOK /\ Tracks /\ Armed

LEMMA SearchInitial == DiscoveryInit => SearchInv
BY FarAssumption
   DEF DiscoveryInit, SearchInv, DiscoveryTypeOK, Tracks, Armed, Nobody, Candidate,
       Hops, Unheard

LEMMA SearchStep ==
  ASSUME SearchInv, [DiscoveryNext]_discoveryVars
  PROVE  SearchInv'
<1> USE FarAssumption, NoNodeAssumption
<1> USE DEF SearchInv, DiscoveryTypeOK, Tracks, Armed, Nobody, Candidate, Hops,
            Unheard
<1>1. CASE Listen  BY <1>1 DEF Listen
<1>2. ASSUME NEW n \in Nodes, NEW h \in Hops, Hear(n, h)
      PROVE  SearchInv'
  <2>1. best' \in [Nodes -> Hops \cup {Unheard}]  BY <1>2 DEF Hear, HeardAt
  <2>2. best'[n] # Unheard /\ best'[n] <= h
    BY <1>2 DEF Hear, HeardAt
  <2>3. \A o \in Nodes : o # n => best'[o] = best[o]  BY <1>2 DEF Hear, HeardAt
  <2>4. best[n] # Unheard /\ best[n] <= h => best'[n] = best[n]
    BY <1>2 DEF Hear, HeardAt
  <2>5. best[n] = Unheard \/ h < best[n] => best'[n] = h
    BY <1>2 DEF Hear, HeardAt
  <2>6. CASE Closer(n, h)
    <3>1. closest' = [hex |-> n, hops |-> h] /\ grace' /\ listening' /\ listening
      BY <1>2, <2>6 DEF Hear
    <3>2. best'[n] = h  BY <2>5, <2>6 DEF Closer
    <3>3. \A o \in Nodes : best'[o] # Unheard => h <= best'[o]
      BY <2>1, <2>3, <3>2, <2>6 DEF Closer
    <3> QED  BY <1>2, <2>1, <3>1, <3>2, <3>3 DEF Hear
  <2>7. CASE ~Closer(n, h)
    <3>1. UNCHANGED <<closest, grace, listening, selected>>  BY <1>2, <2>7 DEF Hear
    <3>2. closest # Nobody /\ closest.hops <= h  BY <2>7 DEF Closer
    <3>3. best'[closest.hex] = closest.hops
      BY <2>3, <2>4, <3>2
    <3>4. \A o \in Nodes : best'[o] # Unheard => closest.hops <= best'[o]
      BY <2>1, <2>3, <2>4, <2>5, <3>2
    <3> QED  BY <2>1, <3>1, <3>2, <3>3, <3>4
  <2> QED  BY <2>6, <2>7
<1>3. CASE Finish  BY <1>3 DEF Finish
<1>4. CASE Detach  BY <1>4 DEF Detach
<1>5. CASE UNCHANGED discoveryVars  BY <1>5 DEF discoveryVars
<1> QED  BY <1>1, <1>2, <1>3, <1>4, <1>5 DEF DiscoveryNext

\* A step of the search is one of the abstract search, or none.
LEMMA SearchSimulates ==
  ASSUME SearchInv, [DiscoveryNext]_discoveryVars
  PROVE  [Promise!Next]_(Promise!vars)
<1> USE DEF Promise!Next, Promise!vars, Promise!Unheard, Unheard
<1>1. CASE Listen  BY <1>1 DEF Listen, Promise!Restart
<1>2. ASSUME NEW n \in Nodes, NEW h \in Hops, Hear(n, h)
      PROVE  Promise!Hear(n, h)
  BY <1>2 DEF Hear, HeardAt, Promise!Hear, Promise!Heard
<1>3. CASE Finish
  <2>1. closest.hex \in Nodes /\ selected = NoNode /\ closest # Nobody
    BY <1>3, NoNodeAssumption
       DEF Finish, SearchInv, Armed, DiscoveryTypeOK, Candidate
  <2>2. Promise!Closest(closest.hex)
    BY <2>1 DEF SearchInv, Tracks, DiscoveryTypeOK, Candidate, Hops,
                Promise!Closest, Promise!Heard
  <2>3. Promise!Choose(closest.hex)  BY <1>3, <2>1, <2>2 DEF Finish, Promise!Choose
  <2> QED  BY <2>1, <2>3
<1>4. CASE Detach  BY <1>4 DEF Detach, Promise!Restart
<1>5. CASE UNCHANGED discoveryVars  BY <1>5 DEF discoveryVars
<1> QED  BY <1>1, <1>2, <1>3, <1>4, <1>5 DEF DiscoveryNext

\* discoverClosestNode implements its promise, whatever announces come and
\* whenever the caller detaches or starts over.
THEOREM SearchImplements == DiscoverySpec => SelectsClosestOnce
<1>1. DiscoveryInit => Promise!Init
  BY DEF DiscoveryInit, Promise!Init, Promise!Unheard, Unheard
<1> QED
  BY <1>1, SearchInitial, SearchStep, SearchSimulates, PTL
     DEF DiscoverySpec, SelectsClosestOnce, Promise!Spec

-----------------------------------------------------------------------------
(* What is kept where.                                                     *)

\* The node that runs under the plugin's handle, and what it holds.
Running == phase = "up" /\ handle # NoSession
Live == IF Running THEN store[session] ELSE {}

\* What needs no keeping any more.
Over == arrived \cup excused

\* The handle is that of the current session between its start and its stop.
HandleInv ==
  /\ handle # NoSession => handle = session /\ phase \in {"up", "stopping"}
  /\ phase # "down" => session # NoSession
  /\ \A k \in torn : k <= session
  /\ session \in torn => phase \in {"stopping", "down"}
  /\ handle # NoSession /\ phase = "stopping" => handle \in torn
  /\ \A s \in Sends : pc[s] = "submit" => node[s] # NoSession
  /\ \A v \in saves : v.by \notin torn => Running /\ handle = v.by

\* The disk and every save under way hold what the node that was started from
\* the disk holds, until the teardown of the node.
FromDisk ==
  phase = "loading" \/ Running =>
    /\ disk \subseteq store[session] \cup Over
    /\ \A v \in saves : v.content \subseteq store[session] \cup Over

\* A save that ends replaces the disk by something no poorer.
NoPoorer ==
  /\ \A v \in saves : disk \subseteq v.content \cup Live \cup Over
  /\ \A v, w \in saves : w.content \subseteq v.content \cup Live \cup Over

OnItsWay == disk \cup UNION {v.content : v \in saves}

\* Nothing is left in a memory about to go.
Handed ==
  /\ phase = "stopping" \/ (phase = "up" /\ handle = NoSession) =>
       store[session] \subseteq OnItsWay \cup Over
  /\ \A k \in Sessions : k > session \/ (k = session /\ phase = "messaging") =>
       store[k] \subseteq excused

SentBy == \A s \in Sends :
  pc[s] = "sent" => s \in arrived \cup queued \cup excused \cup accepted

IInv ==
  /\ TypeOK
  /\ HandleInv
  /\ FromDisk
  /\ NoPoorer
  /\ Handed
  /\ SentBy
  /\ NothingElseIsLost

LEMMA ComposedSearch ==
  ASSUME [Next]_vars
  PROVE  [DiscoveryNext]_discoveryVars
<1> USE DEF DiscoveryNext
<1>1. CASE UNCHANGED vars  BY <1>1 DEF vars
<1>2. ASSUME NEW m \in Modes, Begin(m) \/ NodeFails(m)
      PROVE  [DiscoveryNext]_discoveryVars
  BY <1>2 DEF Begin, NodeFails, UseExternal, WireConfigured, WireSearch
<1>3. CASE LoadStore \/ NodeUp \/ StopEnds  BY <1>3 DEF LoadStore, NodeUp, StopEnds
<1>4. CASE ClientUp
  BY <1>4 DEF ClientUp, UseExternal, WireConfigured, WireSearch
<1>5. CASE Stop \/ Crash  BY <1>5 DEF Stop, Crash
<1>6. ASSUME NEW m \in Messages, Deposit(m) \/ Collect(m)
      PROVE  [DiscoveryNext]_discoveryVars
  BY <1>6 DEF Deposit, Collect
<1>7. ASSUME NEW aged, Maintain(aged)
      PROVE  [DiscoveryNext]_discoveryVars
  BY <1>7 DEF Maintain
<1>8. ASSUME NEW v \in saves, SaveEnds(v) \/ SaveFails(v)
      PROVE  [DiscoveryNext]_discoveryVars
  BY <1>8 DEF SaveEnds, SaveFails
<1>9. ASSUME NEW n \in Nodes, NEW h \in Hops, Announce(n, h)
      PROVE  [DiscoveryNext]_discoveryVars
  BY <1>9 DEF Announce
<1>10. CASE SearchEnds  BY <1>10 DEF SearchEnds
<1>11. ASSUME NEW s \in Sends, NEW k \in alive, Send(s, k)
       PROVE  [DiscoveryNext]_discoveryVars
  BY <1>11 DEF Send
<1>12. ASSUME NEW s \in Sends, SendStep(s)
       PROVE  [DiscoveryNext]_discoveryVars
  BY <1>12 DEF SendStep, Proven, HandedOver, Declined, LadderFails, Submitted,
               Rejected, SubmitFails, Solicited, SolicitTimesOut, Goes
<1> QED
  BY <1>1, <1>2, <1>3, <1>4, <1>5, <1>6, <1>7, <1>8, <1>9, <1>10, <1>11, <1>12
     DEF Next, Messages

\* The search keeps its promise in every session, inside the whole system.
THEOREM ClosestIsUsed == Spec => SelectsClosestOnce
<1>1. Init => DiscoveryInit  BY DEF Init
<1>2. DiscoveryInit => Promise!Init
  BY DEF DiscoveryInit, Promise!Init, Promise!Unheard, Unheard
<1> QED
  BY <1>1, <1>2, SearchInitial, ComposedSearch, SearchStep, SearchSimulates, PTL
     DEF Spec, SelectsClosestOnce, Promise!Spec

-----------------------------------------------------------------------------
(* Types.                                                                  *)

LEMMA TypeInitial == Init => TypeOK
<1> SUFFICES ASSUME Init PROVE TypeOK  OBVIOUS
<1>1. DiscoveryTypeOK  BY SearchInitial DEF Init, SearchInv
<1> QED
  BY <1>1, SessionsAssumption
     DEF Init, TypeOK, Phases, Places, Waiting, Sessions, NoSession, Messages

\* A step of the session keeps the types.
LEMMA TypeStep ==
  ASSUME TypeOK, HandleInv, SearchInv, Next
  PROVE  TypeOK'
<1> USE SessionsAssumption, ModesAssumption, ConfiguredAssumption
<1>0. DiscoveryTypeOK'  BY ComposedSearch, SearchStep DEF SearchInv
<1>m. \A v \in saves : v \in Save /\ v.by \in Sessions /\ v.content \subseteq Messages
  BY DEF TypeOK, Save
<1> USE <1>0 DEF TypeOK, Phases, Sessions, NoSession
<1>1. ASSUME NEW m \in Modes, Begin(m)
      PROVE  TypeOK'
  BY <1>1 DEF Begin, nodeVars, sendVars, fates
<1>2. ASSUME NEW m \in Modes, UseExternal(m), session \in Sessions
      PROVE  outbound' \in [Sessions -> Nodes \cup {NoNode}]
  BY <1>2 DEF UseExternal, WireConfigured, WireSearch
<1>3. ASSUME NEW m \in Modes, NodeFails(m)
      PROVE  TypeOK'
  <2>1. session \in Sessions  BY <1>3 DEF NodeFails, HandleInv
  <2>2. outbound' \in [Sessions -> Nodes \cup {NoNode}]
    BY <1>2, <1>3, <2>1 DEF NodeFails
  <2>3. excused' \subseteq Messages /\ ready' \subseteq Sessions
    BY <1>3, <2>1 DEF NodeFails, Excuse
  <2> QED  BY <1>3, <2>2, <2>3 DEF NodeFails, sendVars
<1>4. CASE LoadStore
  <2>1. UNION {v.content : v \in saves} \subseteq Messages  BY <1>m
  <2>2. excused' \subseteq Messages /\ store' \in [Sessions -> SUBSET Messages]
    BY <1>4, <2>1 DEF LoadStore, Excuse
  <2> QED  BY <1>4, <2>2 DEF LoadStore, sendVars
<1>5. CASE NodeUp  BY <1>5 DEF NodeUp, sendVars, fates, HandleInv
<1>6. CASE ClientUp
  <2>1. mode \in Modes \/ mode = "off"  OBVIOUS
  <2>2. outbound' \in [Sessions -> Nodes \cup {NoNode}]
    BY <1>6 DEF ClientUp, UseExternal, WireConfigured, WireSearch, HandleInv
  <2> QED  BY <1>6, <2>2 DEF ClientUp, nodeVars, sendVars, fates
<1>7. CASE Stop
  <2>1. torn' \subseteq Sessions /\ saves' \subseteq Save /\ excused' \subseteq Messages
    <3>1. CASE handle = 0  BY <1>7, <3>1 DEF Stop, Teardown
    <3>2. CASE handle # 0
      <4>1. handle \in Sessions /\ store[handle] \subseteq Messages  BY <3>2
      <4>2. [by |-> handle, content |-> store[handle]] \in Save  BY <4>1 DEF Save
      <4>3. /\ torn' = torn \cup {handle}
            /\ saves' = saves \cup {[by |-> handle, content |-> store[handle]]}
            /\ excused' = excused \cup IF saves = {} THEN {} ELSE store[handle]
        BY <1>7, <3>2 DEF Stop, Teardown, Excuse
      <4> QED  BY <4>1, <4>2, <4>3
    <3> QED  BY <3>1, <3>2
  <2> QED  BY <1>7, <2>1 DEF Stop, sendVars
<1>8. CASE StopEnds  BY <1>8 DEF StopEnds, sendVars, fates
<1>9. CASE Crash
  BY <1>9 DEF Crash, Excuse, HandleInv, Places, Waiting
<1>10. ASSUME NEW m \in Messages, NEW k \in Sessions, TakeIn(m, k)
       PROVE  /\ store' \in [Sessions -> SUBSET Messages]
              /\ accepted' \subseteq Messages /\ excused' \subseteq Messages
  BY <1>10 DEF TakeIn, Excuse
<1>11. ASSUME NEW m \in Deposits, Deposit(m)
       PROVE  TypeOK'
  BY <1>10, <1>11 DEF Deposit, sessionVars, sendVars, Messages
<1>12. ASSUME NEW m \in Messages, Collect(m)
       PROVE  TypeOK'
  BY <1>12 DEF Collect, sessionVars, sendVars
<1>13. ASSUME NEW aged \in SUBSET Messages, Maintain(aged)
       PROVE  TypeOK'
  BY <1>13 DEF Maintain, Excuse, sessionVars, sendVars, Save
<1>14. ASSUME NEW v \in saves, SaveEnds(v)
       PROVE  TypeOK'
  BY <1>14, <1>m DEF SaveEnds, sessionVars, sendVars, fates
<1>15. ASSUME NEW v \in saves, SaveFails(v)
       PROVE  TypeOK'
  BY <1>15, <1>m DEF SaveFails, Excuse, sessionVars, sendVars
<1>16. ASSUME NEW n \in Nodes, NEW h \in Hops, Announce(n, h)
       PROVE  TypeOK'
  BY <1>16 DEF Announce, sessionVars, nodeVars, sendVars, fates
<1>17. CASE SearchEnds
  <2>1. closest.hex \in Nodes \cup {NoNode}
    BY DEF DiscoveryTypeOK, Candidate, Nobody
  <2> QED  BY <1>17, <2>1 DEF SearchEnds, nodeVars, sendVars, fates
<1>18. ASSUME NEW s \in Sends, NEW k \in alive, Send(s, k)
       PROVE  TypeOK'
  BY <1>18 DEF Send, sessionVars, nodeVars, fates, Places, Waiting
<1>19. ASSUME NEW s \in Sends, NEW place \in Places, Goes(s, place)
       PROVE  /\ pc' \in [Sends -> Places]
              /\ UNCHANGED <<session, phase, mode, outbound, alive, router, node,
                             fallback, known>>
  BY <1>19 DEF Goes, sessionVars
<1>20. ASSUME NEW s \in Sends, SendStep(s)
       PROVE  TypeOK'
  <2>0. /\ s \in Messages
        /\ \A x \in {"sent", "failed", "submit", "solicit", "resend"} : x \in Places
    BY DEF Messages, Places, Waiting
  <2>1. CASE Proven(s) \/ HandedOver(s)
    BY <2>0, <2>1, <1>19 DEF Proven, HandedOver, nodeVars
  <2>2. CASE Declined(s) \/ LadderFails(s)
    <3>1. Recovery(s) \in Places  BY <2>0 DEF Recovery
    <3> QED  BY <2>0, <2>2, <3>1, <1>19 DEF Declined, LadderFails, Unproven, nodeVars
  <2>3. CASE Submitted(s)
    <3>1. node[s] \in Sessions  BY <2>3 DEF Submitted, HandleInv
    <3> QED  BY <2>0, <2>3, <3>1, <1>10, <1>19 DEF Submitted
  <2>4. CASE Rejected(s)
    BY <2>0, <2>4, <1>19 DEF Rejected, Excuse, nodeVars
  <2>5. CASE SubmitFails(s) \/ Solicited(s) \/ SolicitTimesOut(s)
    BY <2>0, <2>5, <1>19
       DEF SubmitFails, Solicited, SolicitTimesOut, nodeVars, fates
  <2> QED  BY <1>20, <2>1, <2>2, <2>3, <2>4, <2>5 DEF SendStep
<1> QED
  BY <1>1, <1>3, <1>4, <1>5, <1>6, <1>7, <1>8, <1>9, <1>11, <1>12, <1>13, <1>14,
     <1>15, <1>16, <1>17, <1>18, <1>20
     DEF Next, Messages

-----------------------------------------------------------------------------
(* Steps by what they do to what is kept.                                  *)

\* Memory, disk and saves stay as they are; messages may arrive.
Quiet ==
  /\ UNCHANGED <<session, phase, handle, torn, store, disk, saves>>
  /\ arrived \subseteq arrived' /\ excused \subseteq excused'

\* A node takes a message in.
Takes ==
  \E m \in Messages, k \in Sessions :
    /\ TakeIn(m, k)
    /\ UNCHANGED <<session, phase, handle, torn, disk, saves, arrived>>

SessionStep ==
  \/ \E m \in Modes : Begin(m) \/ NodeFails(m)
  \/ LoadStore \/ NodeUp \/ ClientUp \/ Stop \/ StopEnds \/ Crash

NodeStep ==
  \/ \E m \in Messages : Collect(m)
  \/ \E aged \in SUBSET Messages : Maintain(aged)
  \/ \E v \in saves : SaveEnds(v) \/ SaveFails(v)

LEMMA SendCases ==
  ASSUME TypeOK, HandleInv, NEW s \in Sends, SendStep(s)
  PROVE  Quiet \/ Takes
<1>1. CASE Submitted(s)
  <2>1. node[s] \in Sessions /\ s \in Messages
    BY <1>1 DEF Submitted, HandleInv, TypeOK, Sessions, NoSession, Messages
  <2> QED  BY <1>1, <2>1 DEF Submitted, Goes, sessionVars, Takes
<1>2. CASE Declined(s) \/ LadderFails(s)
  BY <1>2 DEF Declined, LadderFails, Unproven, Goes, Quiet, sessionVars, nodeVars
<1>3. CASE Proven(s) \/ HandedOver(s)
  BY <1>3 DEF Proven, HandedOver, Goes, Quiet, sessionVars, nodeVars
<1>4. CASE Rejected(s)
  BY <1>4 DEF Rejected, Excuse, Goes, Quiet, sessionVars, nodeVars
<1>5. CASE SubmitFails(s) \/ Solicited(s) \/ SolicitTimesOut(s)
  BY <1>5 DEF SubmitFails, Solicited, SolicitTimesOut, Goes, Quiet, sessionVars,
              nodeVars, fates
<1> QED  BY <1>1, <1>2, <1>3, <1>4, <1>5 DEF SendStep

LEMMA NextCases ==
  ASSUME TypeOK, HandleInv, Next
  PROVE  Quiet \/ Takes \/ SessionStep \/ NodeStep
<1>1. ASSUME NEW m \in Deposits, Deposit(m)
      PROVE  Takes
  <2>1. session \in Sessions /\ m \in Messages
    BY <1>1 DEF Deposit, TypeOK, Messages
  <2> QED  BY <1>1, <2>1 DEF Deposit, Takes, sessionVars
<1>2. ASSUME NEW n \in Nodes, NEW h \in Hops, Announce(n, h)
      PROVE  Quiet
  BY <1>2 DEF Announce, Quiet, sessionVars, nodeVars, fates
<1>3. SearchEnds => Quiet  BY DEF SearchEnds, Quiet, nodeVars, fates
<1>4. ASSUME NEW s \in Sends, NEW k \in alive, Send(s, k)
      PROVE  Quiet
  BY <1>4 DEF Send, Quiet, sessionVars, nodeVars, fates
<1>5. \A m \in Messages : {m} \in SUBSET Messages  OBVIOUS
<1> QED
  BY <1>1, <1>2, <1>3, <1>4, <1>5, SendCases DEF Next, SessionStep, NodeStep

LEMMA HandleInitial == Init => HandleInv
BY DEF Init, HandleInv, NoSession

LEMMA HandleStep ==
  ASSUME TypeOK, HandleInv, Next
  PROVE  HandleInv'
<1> USE SessionsAssumption DEF HandleInv, Running, NoSession
<1>t. session \in Nat /\ handle \in Nat
  BY DEF TypeOK
<1>s. \A s \in Sends : pc[s] = "submit" => node[s] # 0  OBVIOUS
<1>1. ASSUME NEW m \in Modes, Begin(m) \/ NodeFails(m)
      PROVE  HandleInv'
  <2>1. CASE Begin(m)
    <3>1. handle = 0 /\ \A v \in saves : v.by \in torn
      BY <2>1, <1>t DEF Begin
    <3>2. session + 1 \notin torn /\ \A k \in torn : k <= session + 1
      BY <1>t DEF TypeOK, Sessions
    <3>3. /\ session' = session + 1 /\ phase' = "messaging"
          /\ UNCHANGED <<handle, torn, saves, pc, node>>
      BY <2>1 DEF Begin, nodeVars, sendVars
    <3> QED  BY <3>1, <3>2, <3>3, <1>t
  <2>2. CASE NodeFails(m)
    <3>1. handle = 0 /\ \A v \in saves : v.by \in torn
      BY <2>2, <1>t DEF NodeFails
    <3> QED  BY <2>2, <3>1, <1>t DEF NodeFails, sendVars
  <2> QED  BY <1>1, <2>1, <2>2
<1>2. CASE LoadStore \/ NodeUp \/ ClientUp
  BY <1>2, <1>t DEF LoadStore, NodeUp, ClientUp, nodeVars, sendVars
<1>3. CASE Stop
  <2>1. CASE handle = 0  BY <1>3, <2>1 DEF Stop, Teardown, sendVars
  <2>2. CASE handle # 0
    <3>1. /\ torn' = torn \cup {handle}
          /\ saves' = saves \cup {[by |-> handle, content |-> store[handle]]}
      BY <1>3, <2>2 DEF Stop, Teardown
    <3>2. \A v \in saves' : v.by \in torn'  BY <2>2, <3>1
    <3> QED  BY <1>3, <1>t, <2>2, <3>1, <3>2 DEF Stop, sendVars
  <2> QED  BY <2>1, <2>2
<1>4. CASE StopEnds  BY <1>4, <1>t DEF StopEnds, sendVars
<1>5. CASE Crash
  <2>1. \A s \in Sends : pc'[s] # "submit"
    BY <1>5 DEF Crash, Waiting, TypeOK
  <2> QED  BY <1>5, <1>t, <2>1 DEF Crash
<1>6. ASSUME NEW m \in Messages, Deposit(m) \/ Collect(m)
      PROVE  HandleInv'
  BY <1>6 DEF Deposit, Collect, sessionVars, sendVars
<1>7. ASSUME NEW aged, Maintain(aged)
      PROVE  HandleInv'
  BY <1>7 DEF Maintain, sessionVars, sendVars
<1>8. ASSUME NEW v \in saves, SaveEnds(v) \/ SaveFails(v)
      PROVE  HandleInv'
  BY <1>8 DEF SaveEnds, SaveFails, sessionVars, sendVars
<1>9. ASSUME NEW n \in Nodes, NEW h \in Hops, Announce(n, h)
      PROVE  HandleInv'
  BY <1>9 DEF Announce, sessionVars, nodeVars, sendVars
<1>10. CASE SearchEnds  BY <1>10 DEF SearchEnds, nodeVars, sendVars
<1>11. ASSUME NEW s \in Sends, NEW k \in alive, Send(s, k)
       PROVE  HandleInv'
  BY <1>11 DEF Send, sessionVars, nodeVars, TypeOK
<1>12. ASSUME NEW s \in Sends, SendStep(s)
       PROVE  HandleInv'
  <2>1. UNCHANGED <<session, phase, handle, torn, saves, node>>
    BY <1>12
       DEF SendStep, Proven, HandedOver, Declined, LadderFails, Unproven, Submitted,
           Rejected, SubmitFails, Solicited, SolicitTimesOut, Goes, sessionVars,
           nodeVars
  <2>2. Recovery(s) = "submit" => node[s] # 0  BY DEF Recovery
  <2>3. \A r \in Sends : pc'[r] = "submit" => node[r] # 0
    BY <1>12, <2>2
       DEF SendStep, Proven, HandedOver, Declined, LadderFails, Submitted,
           Rejected, SubmitFails, Solicited, SolicitTimesOut, Goes, TypeOK
  <2> QED  BY <2>1, <2>3
<1> QED
  BY <1>1, <1>2, <1>3, <1>4, <1>5, <1>6, <1>7, <1>8, <1>9, <1>10, <1>11, <1>12
     DEF Next, Messages
-----------------------------------------------------------------------------
(* The disk.                                                               *)

DiskInv == FromDisk /\ NoPoorer /\ Handed

LEMMA DiskInitial == Init => DiskInv
BY DEF Init, DiskInv, FromDisk, NoPoorer, Handed, Running, NoSession

LEMMA DiskAtQuiet ==
  ASSUME DiskInv, Quiet
  PROVE  DiskInv'
<1>1. Over \subseteq Over' /\ excused \subseteq excused'  BY DEF Over, Quiet
<1> QED
  BY <1>1 DEF Quiet, DiskInv, FromDisk, NoPoorer, Handed, Running, Live, OnItsWay

LEMMA DiskAtTakes ==
  ASSUME TypeOK, HandleInv, DiskInv, Takes
  PROVE  DiskInv'
<1>1. PICK m \in Messages, k \in Sessions :
        /\ TakeIn(m, k)
        /\ UNCHANGED <<session, phase, handle, torn, disk, saves, arrived>>
  BY DEF Takes
<1>2. /\ Over \subseteq Over' /\ excused \subseteq excused'
      /\ k \in torn \/ handle # k => m \in excused' /\ m \in Over'
      /\ \A j \in Sessions : store[j] \subseteq store'[j]
      /\ \A j \in Sessions : j # k => store'[j] = store[j]
      /\ store'[k] = store[k] \cup {m}
  BY <1>1 DEF TakeIn, Excuse, Over, TypeOK
<1>3. session \in Nat /\ handle \in Nat /\ 0 \notin Sessions /\ NoSession = 0
  BY DEF TypeOK, Sessions, NoSession
<1>4. FromDisk'
  <2> SUFFICES ASSUME phase = "loading" \/ Running
               PROVE  FromDisk'
    BY <1>1 DEF FromDisk, Running
  <2>1. session \in Sessions
    BY <1>3 DEF HandleInv, Running, TypeOK, Sessions
  <2> QED  BY <1>1, <1>2, <2>1 DEF DiskInv, FromDisk
<1>5. Live \subseteq Live'
  BY <1>1, <1>2, <1>3 DEF Live, Running, HandleInv, TypeOK, Sessions
<1>6. NoPoorer'  BY <1>1, <1>2, <1>5 DEF DiskInv, NoPoorer
<1>7. Handed'
  <2>1. ASSUME phase = "stopping" \/ (phase = "up" /\ handle = NoSession)
        PROVE  store'[session] \subseteq OnItsWay \cup Over'
    <3>1. session \in Sessions
      BY <1>3, <2>1 DEF HandleInv, TypeOK, Sessions
    <3>2. k = session => m \in Over'
      BY <1>2, <1>3, <2>1, <3>1 DEF HandleInv
    <3> QED  BY <1>2, <2>1, <3>1, <3>2 DEF DiskInv, Handed
  <2>2. ASSUME NEW j \in Sessions, j > session \/ (j = session /\ phase = "messaging")
        PROVE  store'[j] \subseteq excused'
    <3>1. handle # j  BY <1>3, <2>2 DEF HandleInv
    <3> QED  BY <1>2, <2>2, <3>1 DEF DiskInv, Handed
  <2> QED  BY <1>1, <2>1, <2>2 DEF Handed, OnItsWay
<1> QED  BY <1>4, <1>6, <1>7 DEF DiskInv

\* Where a session begins or ends.
LEMMA DiskAtSessions ==
  ASSUME TypeOK, HandleInv, DiskInv, SessionStep
  PROVE  DiskInv'
<1> USE DEF Running, NoSession
<1>t. session \in Nat /\ handle \in Nat /\ Sessions \subseteq Nat
  BY DEF TypeOK, Sessions
<1>1. ASSUME NEW m \in Modes, Begin(m)
      PROVE  DiskInv'
  <2>1. /\ Live = {} /\ Live' = {} /\ Over' = Over /\ excused' = excused
        /\ UNCHANGED <<disk, saves, store>>
        /\ phase' = "messaging" /\ session' = session + 1
    BY <1>1 DEF Begin, Live, Over, nodeVars, fates
  <2>2. FromDisk' /\ NoPoorer'  BY <2>1 DEF DiskInv, FromDisk, NoPoorer
  <2>3. Handed'  BY <2>1, <1>t DEF DiskInv, Handed
  <2> QED  BY <2>2, <2>3 DEF DiskInv
<1>2. ASSUME NEW m \in Modes, NodeFails(m)
      PROVE  DiskInv'
  <2>1. /\ handle = 0 /\ Live = {} /\ Live' = {} /\ Over \subseteq Over'
        /\ excused \subseteq excused' /\ store[session] \ disk \subseteq excused'
        /\ phase' = "up" /\ excused' \subseteq Over'
        /\ UNCHANGED <<disk, saves, store, session, handle>>
    BY <1>2 DEF NodeFails, Live, Over, HandleInv, Excuse
  <2>2. FromDisk' /\ NoPoorer'  BY <2>1 DEF DiskInv, FromDisk, NoPoorer
  <2>3. Handed'  BY <2>1, <1>t DEF DiskInv, Handed, OnItsWay
  <2> QED  BY <2>2, <2>3 DEF DiskInv
<1>3. CASE LoadStore
  <2>1. /\ Live = {} /\ Live' = {} /\ Over \subseteq Over'
        /\ excused \subseteq excused' /\ excused' \subseteq Over'
        /\ UNCHANGED <<disk, saves, session, handle>>
        /\ phase' = "loading"
    BY <1>3 DEF LoadStore, Live, Over, Excuse
  <2>2. session \in Sessions
    BY <1>3, <1>t DEF LoadStore, HandleInv, TypeOK, Sessions
  <2>3. disk \subseteq store'[session] \cup excused'
    BY <1>3, <2>2 DEF LoadStore, Excuse, TypeOK
  <2>4. UNION {v.content : v \in saves} \subseteq excused'
    BY <1>3 DEF LoadStore, Excuse
  <2>5. \A j \in Sessions : j > session => store'[j] = store[j]
    BY <1>3, <1>t, <2>2 DEF LoadStore, TypeOK
  <2>6. \A v \in saves : v.content \subseteq excused'  BY <2>4
  <2>7. FromDisk'  BY <2>1, <2>3, <2>6 DEF FromDisk
  <2>8. NoPoorer'  BY <2>1 DEF DiskInv, NoPoorer
  <2>9. Handed'  BY <2>1, <2>5 DEF DiskInv, Handed
  <2> QED  BY <2>7, <2>8, <2>9 DEF DiskInv
<1>4. CASE NodeUp
  <2>1. /\ Live = {} /\ Over' = Over /\ excused' = excused
        /\ UNCHANGED <<disk, saves, session, store>>
        /\ phase = "loading" /\ phase' = "up" /\ handle' = session /\ session # 0
    BY <1>4 DEF NodeUp, Live, Over, fates, HandleInv
  <2>2. FromDisk' /\ NoPoorer'  BY <2>1 DEF DiskInv, FromDisk, NoPoorer
  <2>3. Handed'  BY <2>1 DEF DiskInv, Handed
  <2> QED  BY <2>2, <2>3 DEF DiskInv
<1>5. CASE ClientUp
  <2>1. /\ Live = {} /\ Live' = {} /\ Over' = Over /\ excused' = excused
        /\ UNCHANGED <<disk, saves, session, store, handle>>
        /\ phase = "messaging" /\ phase' = "up" /\ handle = 0 /\ session \in Sessions
    BY <1>5, <1>t
       DEF ClientUp, Live, Over, nodeVars, fates, HandleInv, TypeOK, Sessions
  <2>2. FromDisk' /\ NoPoorer'  BY <2>1 DEF DiskInv, FromDisk, NoPoorer
  <2>3. Handed'  BY <2>1, <1>t DEF DiskInv, Handed, Over
  <2> QED  BY <2>2, <2>3 DEF DiskInv
<1>6. CASE Stop
  <2>1. /\ phase = "up" /\ phase' = "stopping" /\ Live' = {}
        /\ UNCHANGED <<disk, session, store, handle, arrived>>
    BY <1>6 DEF Stop, Live
  <2>2. CASE handle = 0
    <3>1. Live = {} /\ Over' = Over /\ UNCHANGED <<saves, excused>>
      BY <1>6, <2>1, <2>2 DEF Stop, Teardown, Live, Over
    <3>2. FromDisk' /\ NoPoorer'  BY <2>1, <3>1 DEF DiskInv, FromDisk, NoPoorer
    <3>3. Handed'  BY <2>1, <2>2, <3>1 DEF DiskInv, Handed, OnItsWay
    <3> QED  BY <3>2, <3>3 DEF DiskInv
  <2>3. CASE handle # 0
    <3> DEFINE last == [by |-> handle, content |-> store[session]]
    <3>1. /\ saves' = saves \cup {last}
          /\ excused' = excused \cup IF saves = {} THEN {} ELSE store[session]
          /\ Live = store[session]
      BY <1>6, <2>1, <2>3 DEF Stop, Teardown, Excuse, HandleInv, Live
    <3>2. /\ Over \subseteq Over' /\ excused \subseteq excused'
          /\ saves # {} => store[session] \subseteq Over'
          /\ last.content = store[session]
      BY <2>1, <3>1 DEF Over
    <3>3. /\ disk \subseteq store[session] \cup Over
          /\ \A v \in saves : v.content \subseteq store[session] \cup Over
      BY <2>1, <2>3 DEF DiskInv, FromDisk
    <3>4. FromDisk'  BY <2>1 DEF FromDisk
    <3>5. \A v \in saves' : disk \subseteq v.content \cup Over'
      BY <3>1, <3>2, <3>3 DEF DiskInv, NoPoorer
    <3>6. \A v, w \in saves' : w.content \subseteq v.content \cup Over'
      BY <3>1, <3>2, <3>3 DEF DiskInv, NoPoorer
    <3>7. NoPoorer'  BY <2>1, <3>5, <3>6 DEF NoPoorer
    <3>8. last \in saves' /\ store[session] \subseteq UNION {v.content : v \in saves'}
      BY <3>1, <3>2
    <3>9. Handed'  BY <2>1, <3>2, <3>8 DEF DiskInv, Handed, OnItsWay
    <3> QED  BY <3>4, <3>7, <3>9 DEF DiskInv
  <2> QED  BY <2>2, <2>3
<1>7. CASE StopEnds
  <2>1. /\ Live = {} /\ Live' = {} /\ Over' = Over /\ excused' = excused
        /\ UNCHANGED <<disk, saves, session, store>>
        /\ phase' = "down"
    BY <1>7 DEF StopEnds, Live, Over, fates
  <2>2. FromDisk' /\ NoPoorer'  BY <2>1 DEF DiskInv, FromDisk, NoPoorer
  <2>3. Handed'  BY <2>1 DEF DiskInv, Handed
  <2> QED  BY <2>2, <2>3 DEF DiskInv
<1>8. CASE Crash
  <2>1. /\ saves' = {} /\ phase' = "down"
        /\ \A k \in Sessions : store'[k] = {}
    BY <1>8 DEF Crash
  <2> QED  BY <2>1 DEF DiskInv, FromDisk, NoPoorer, Handed
<1> QED
  BY <1>1, <1>2, <1>3, <1>4, <1>5, <1>6, <1>7, <1>8 DEF SessionStep

\* What the embedded node does.
LEMMA DiskAtNodes ==
  ASSUME TypeOK, HandleInv, DiskInv, NodeStep
  PROVE  DiskInv'
<1> USE DEF Running, NoSession
<1>t. session \in Nat /\ handle \in Nat /\ 0 \notin Sessions
  BY DEF TypeOK, Sessions
<1>0. \A s \in Sessions : Running /\ s = session => Live = store[s]  BY DEF Live
<1>1. ASSUME NEW m \in Messages, Collect(m)
      PROVE  DiskInv'
  <2>1. /\ Over \subseteq Over' /\ m \in Over' /\ session \in Sessions
        /\ UNCHANGED <<session, phase, handle, disk, saves, excused>>
    BY <1>1 DEF Collect, Over, sessionVars, TypeOK
  <2>2. /\ store[session] \subseteq store'[session] \cup {m}
        /\ \A j \in Sessions : store'[j] \subseteq store[j]
    BY <1>1 DEF Collect, TypeOK
  <2>3. Live \subseteq Live' \cup {m}  BY <2>1, <2>2 DEF Live
  <2>4. FromDisk'  BY <2>1, <2>2 DEF DiskInv, FromDisk
  <2>5. NoPoorer'  BY <2>1, <2>3 DEF DiskInv, NoPoorer
  <2>6. Handed'  BY <2>1, <2>2 DEF DiskInv, Handed, OnItsWay
  <2> QED  BY <2>4, <2>5, <2>6 DEF DiskInv
<1>2. ASSUME NEW aged \in SUBSET Messages, Maintain(aged)
      PROVE  DiskInv'
  <2> DEFINE next == [by |-> handle, content |-> store[handle] \ aged]
  <2>1. /\ handle = session /\ phase = "up" /\ session \in Sessions
        /\ UNCHANGED <<session, phase, handle, disk, arrived>>
        /\ saves' = saves \cup {next} /\ excused' = excused \cup aged
    BY <1>2, <1>t DEF Maintain, Excuse, HandleInv, sessionVars, TypeOK, Sessions
  <2>2. /\ store'[session] = store[session] \ aged
        /\ \A j \in Sessions : j # session => store'[j] = store[j]
        /\ next.content = store'[session]
    BY <1>2, <2>1 DEF Maintain, TypeOK
  <2>3. /\ Over \subseteq Over' /\ aged \subseteq Over'
        /\ Live = store[session] /\ Live' = store'[session]
    BY <1>t, <2>1 DEF Over, Live
  <2>4. /\ disk \subseteq store[session] \cup Over
        /\ \A v \in saves : v.content \subseteq store[session] \cup Over
    BY <1>t, <2>1 DEF DiskInv, FromDisk
  <2>5. /\ disk \subseteq store'[session] \cup Over'
        /\ \A v \in saves' : v.content \subseteq store'[session] \cup Over'
    BY <2>1, <2>2, <2>3, <2>4
  <2>6. FromDisk'  BY <2>1, <2>5 DEF FromDisk
  <2>7. NoPoorer'  BY <2>1, <2>3, <2>5 DEF NoPoorer
  <2>8. Handed'  BY <1>t, <2>1, <2>2 DEF DiskInv, Handed
  <2> QED  BY <2>6, <2>7, <2>8 DEF DiskInv
<1>3. ASSUME NEW v \in saves, SaveEnds(v)
      PROVE  DiskInv'
  <2>1. /\ UNCHANGED <<session, phase, handle, store, arrived, excused>>
        /\ saves' = saves \ {v} /\ disk' = v.content
        /\ Over' = Over /\ Live' = Live
    BY <1>3 DEF SaveEnds, sessionVars, fates, Over, Live
  <2>2. FromDisk'  BY <2>1 DEF DiskInv, FromDisk
  <2>3. NoPoorer'  BY <2>1 DEF DiskInv, NoPoorer
  <2>4. disk \subseteq v.content \cup Live \cup Over  BY DEF DiskInv, NoPoorer
  <2>5. OnItsWay \subseteq OnItsWay' \cup Live \cup Over
    BY <2>1, <2>4 DEF OnItsWay
  <2>6. Handed'
    <3>1. phase = "stopping" \/ (phase = "up" /\ handle = NoSession) => Live = {}
      BY DEF Live
    <3> QED  BY <2>1, <2>5, <3>1 DEF DiskInv, Handed
  <2> QED  BY <2>2, <2>3, <2>6 DEF DiskInv
<1>4. ASSUME NEW v \in saves, SaveFails(v)
      PROVE  DiskInv'
  <2>1. /\ UNCHANGED <<session, phase, handle, torn, store, disk, arrived>>
        /\ saves' = saves \ {v} /\ Live' = Live
        /\ Over \subseteq Over' /\ excused \subseteq excused'
        /\ v.by \in torn => v.content \subseteq Over'
    BY <1>4 DEF SaveFails, sessionVars, Excuse, Over, Live
  <2>2. FromDisk'  BY <2>1 DEF DiskInv, FromDisk
  <2>3. NoPoorer'  BY <2>1 DEF DiskInv, NoPoorer
  <2>4. phase = "stopping" \/ (phase = "up" /\ handle = NoSession) => v.by \in torn
    BY DEF HandleInv
  <2>5. v.by \in torn => OnItsWay \subseteq OnItsWay' \cup Over'
    BY <2>1 DEF OnItsWay
  <2>6. Handed'  BY <2>1, <2>4, <2>5 DEF DiskInv, Handed
  <2> QED  BY <2>2, <2>3, <2>6 DEF DiskInv
<1> QED  BY <1>1, <1>2, <1>3, <1>4 DEF NodeStep

LEMMA DiskStep ==
  ASSUME TypeOK, HandleInv, DiskInv, Next
  PROVE  DiskInv'
BY NextCases, DiskAtQuiet, DiskAtTakes, DiskAtSessions, DiskAtNodes

-----------------------------------------------------------------------------
(* What is reported as sent.                                               *)

\* No step takes a message back from where it was handed over for good.
FatesGrow ==
  /\ arrived \subseteq arrived' /\ queued \subseteq queued'
  /\ accepted \subseteq accepted' /\ excused \subseteq excused'

LEMMA FatesStep == Next => FatesGrow
<1> SUFFICES ASSUME Next PROVE FatesGrow  OBVIOUS
<1> USE DEF FatesGrow, Excuse, fates
<1>1. ASSUME NEW m \in Modes, Begin(m) \/ NodeFails(m)
      PROVE  FatesGrow
  BY <1>1 DEF Begin, NodeFails
<1>2. CASE LoadStore \/ NodeUp \/ ClientUp \/ StopEnds
  BY <1>2 DEF LoadStore, NodeUp, ClientUp, StopEnds
<1>3. CASE Stop \/ Crash  BY <1>3 DEF Stop, Teardown, Crash
<1>4. ASSUME NEW m \in Messages, Deposit(m) \/ Collect(m)
      PROVE  FatesGrow
  BY <1>4 DEF Deposit, TakeIn, Collect
<1>5. ASSUME NEW aged, Maintain(aged)
      PROVE  FatesGrow
  BY <1>5 DEF Maintain
<1>6. ASSUME NEW v \in saves, SaveEnds(v) \/ SaveFails(v)
      PROVE  FatesGrow
  BY <1>6 DEF SaveEnds, SaveFails
<1>7. ASSUME NEW n \in Nodes, NEW h \in Hops, Announce(n, h)
      PROVE  FatesGrow
  BY <1>7 DEF Announce
<1>8. CASE SearchEnds  BY <1>8 DEF SearchEnds
<1>9. ASSUME NEW s \in Sends, NEW k \in alive, Send(s, k)
      PROVE  FatesGrow
  BY <1>9 DEF Send
<1>10. ASSUME NEW s \in Sends, SendStep(s)
       PROVE  FatesGrow
  BY <1>10 DEF SendStep, Proven, HandedOver, Declined, LadderFails, Unproven,
               Submitted, TakeIn, Rejected, SubmitFails, Solicited, SolicitTimesOut
<1> QED
  BY <1>1, <1>2, <1>3, <1>4, <1>5, <1>6, <1>7, <1>8, <1>9, <1>10 DEF Next, Messages

\* Who reports a message as sent has put it somewhere.
LEMMA SentStep ==
  ASSUME TypeOK, SentBy, Next
  PROVE  SentBy'
<1>1. FatesGrow  BY FatesStep
<1> SUFFICES ASSUME NEW s \in Sends, pc'[s] = "sent", pc[s] # "sent"
             PROVE  s \in arrived' \cup queued' \cup excused' \cup accepted'
  BY <1>1 DEF SentBy, FatesGrow
<1>2. UNCHANGED pc => FALSE  OBVIOUS
<1>3. ASSUME NEW m \in Modes, Begin(m) \/ NodeFails(m)
      PROVE  FALSE
  BY <1>3 DEF Begin, NodeFails, sendVars
<1>4. CASE LoadStore \/ NodeUp \/ ClientUp \/ Stop \/ StopEnds
  BY <1>4 DEF LoadStore, NodeUp, ClientUp, Stop, StopEnds, sendVars
<1>5. CASE Crash  BY <1>5 DEF Crash
<1>6. ASSUME NEW m \in Messages, Deposit(m) \/ Collect(m)
      PROVE  FALSE
  BY <1>6 DEF Deposit, Collect, sendVars
<1>7. ASSUME NEW aged, Maintain(aged)
      PROVE  FALSE
  BY <1>7 DEF Maintain, sendVars
<1>8. ASSUME NEW v \in saves, SaveEnds(v) \/ SaveFails(v)
      PROVE  FALSE
  BY <1>8 DEF SaveEnds, SaveFails, sendVars
<1>9. ASSUME NEW n \in Nodes, NEW h \in Hops, Announce(n, h)
      PROVE  FALSE
  BY <1>9 DEF Announce, sendVars
<1>10. CASE SearchEnds  BY <1>10 DEF SearchEnds, sendVars
<1>11. ASSUME NEW r \in Sends, NEW k \in alive, Send(r, k)
       PROVE  FALSE
  BY <1>11 DEF Send, TypeOK
<1>12. ASSUME NEW r \in Sends, SendStep(r)
       PROVE  s \in arrived' \cup queued' \cup excused' \cup accepted'
  <2>1. ASSUME NEW place, Goes(r, place), place # "sent"
        PROVE  FALSE
    BY <2>1 DEF Goes, TypeOK
  <2>2. ASSUME Goes(r, "sent")
        PROVE  r = s
    BY <2>2 DEF Goes, TypeOK
  <2>3. CASE Proven(r)  BY <2>2, <2>3 DEF Proven
  <2>4. CASE HandedOver(r)  BY <2>2, <2>4 DEF HandedOver
  <2>5. CASE Submitted(r)  BY <2>2, <2>5 DEF Submitted, TakeIn
  <2>6. CASE Rejected(r)  BY <2>2, <2>6 DEF Rejected, Excuse
  <2>7. Recovery(r) # "sent"  BY DEF Recovery
  <2>8. CASE Declined(r)  BY <2>1, <2>7, <2>8 DEF Declined
  <2>9. CASE LadderFails(r) \/ SubmitFails(r) \/ Solicited(r) \/ SolicitTimesOut(r)
    BY <2>1, <2>9 DEF LadderFails, SubmitFails, Solicited, SolicitTimesOut
  <2> QED  BY <1>12, <2>3, <2>4, <2>5, <2>6, <2>8, <2>9 DEF SendStep
<1> QED
  BY <1>3, <1>4, <1>5, <1>6, <1>7, <1>8, <1>9, <1>10, <1>11, <1>12 DEF Next, Messages

-----------------------------------------------------------------------------
(* What is kept.                                                           *)

\* Where Kept looks, and what it need not find.
Somewhere == InMemory \cup OnItsWay \cup arrived \cup queued \cup excused

\* What was kept is, but in a crash, which spares the disk alone.
LEMMA SomewhereStep ==
  ASSUME TypeOK, HandleInv, DiskInv, Next, ~Crash
  PROVE  Somewhere \subseteq Somewhere'
<1> USE DEF Running, NoSession, InMemory
<1>t. session \in Nat /\ handle \in Nat /\ 0 \notin Sessions
  BY DEF TypeOK, Sessions
<1>g. FatesGrow  BY FatesStep
<1> SUFFICES InMemory \cup OnItsWay \subseteq Somewhere'
  BY <1>g DEF Somewhere, FatesGrow
<1>1. CASE Quiet
  BY <1>1 DEF Quiet, Somewhere, OnItsWay
<1>2. CASE Takes
  <2>1. PICK m \in Messages, k \in Sessions :
          /\ TakeIn(m, k)
          /\ UNCHANGED <<session, phase, handle, torn, disk, saves, arrived>>
    BY <1>2 DEF Takes
  <2>2. \A j \in Sessions : store[j] \subseteq store'[j]  BY <2>1 DEF TakeIn, TypeOK
  <2>3. phase \in {"loading", "up", "stopping"} => session \in Sessions
    BY <1>t DEF HandleInv, TypeOK, Sessions
  <2> QED  BY <2>1, <2>2, <2>3 DEF Somewhere, OnItsWay
<1>3. CASE SessionStep
  <2>1. ASSUME NEW m \in Modes, Begin(m)
        PROVE  InMemory \cup OnItsWay \subseteq Somewhere'
    BY <2>1 DEF Begin, nodeVars, Somewhere, OnItsWay
  <2>2. ASSUME NEW m \in Modes, NodeFails(m)
        PROVE  InMemory \cup OnItsWay \subseteq Somewhere'
    BY <2>2 DEF NodeFails, Somewhere, OnItsWay
  <2>3. CASE LoadStore  BY <2>3 DEF LoadStore, Somewhere, OnItsWay
  <2>4. CASE NodeUp  BY <2>4 DEF NodeUp, Somewhere, OnItsWay
  <2>5. CASE ClientUp  BY <2>5 DEF ClientUp, nodeVars, Somewhere, OnItsWay
  <2>6. CASE Stop
    <3>1. /\ UNCHANGED <<session, disk, store>> /\ saves \subseteq saves'
          /\ phase' = "stopping" /\ phase = "up"
      BY <2>6 DEF Stop, Teardown
    <3> QED  BY <3>1 DEF Somewhere, OnItsWay
  <2>7. CASE StopEnds
    <3>1. store[session] \subseteq OnItsWay \cup Over
      BY <2>7 DEF StopEnds, DiskInv, Handed
    <3> QED  BY <2>7, <3>1 DEF StopEnds, fates, Somewhere, OnItsWay, Over
  <2> QED
    BY <1>3, <2>1, <2>2, <2>3, <2>4, <2>5, <2>6, <2>7 DEF SessionStep
<1>4. ASSUME NEW m \in Messages, Collect(m)
      PROVE  InMemory \cup OnItsWay \subseteq Somewhere'
  <2>1. /\ UNCHANGED <<session, phase, disk, saves>> /\ m \in arrived'
        /\ store[session] \subseteq store'[session] \cup {m}
    BY <1>4 DEF Collect, sessionVars, TypeOK
  <2> QED  BY <2>1 DEF Somewhere, OnItsWay
<1>5. ASSUME NEW aged \in SUBSET Messages, Maintain(aged)
      PROVE  InMemory \cup OnItsWay \subseteq Somewhere'
  <2>1. handle = session /\ session \in Sessions
    BY <1>5, <1>t DEF Maintain, HandleInv, TypeOK, Sessions
  <2>2. /\ UNCHANGED <<session, phase, disk>> /\ saves \subseteq saves'
        /\ aged \subseteq excused' /\ store[session] \subseteq store'[session] \cup aged
    BY <1>5, <2>1 DEF Maintain, sessionVars, Excuse, TypeOK
  <2> QED  BY <2>2 DEF Somewhere, OnItsWay
<1>6. ASSUME NEW v \in saves, SaveEnds(v)
      PROVE  InMemory \cup OnItsWay \subseteq Somewhere'
  <2>1. /\ UNCHANGED <<session, phase, store>> /\ disk' = v.content
        /\ saves' = saves \ {v} /\ Over' = Over
    BY <1>6 DEF SaveEnds, sessionVars, fates, Over
  <2>2. disk \subseteq v.content \cup Live \cup Over  BY DEF DiskInv, NoPoorer
  <2>3. OnItsWay \subseteq OnItsWay' \cup Live \cup Over
    BY <2>1, <2>2 DEF OnItsWay
  <2>4. Live \subseteq InMemory  BY DEF Live
  <2> QED  BY <2>1, <2>3, <2>4 DEF Somewhere, Over
<1>7. ASSUME NEW v \in saves, SaveFails(v)
      PROVE  InMemory \cup OnItsWay \subseteq Somewhere'
  <2>1. /\ UNCHANGED <<session, phase, store, disk>> /\ saves' = saves \ {v}
        /\ v.by \in torn => v.content \subseteq excused'
    BY <1>7 DEF SaveFails, sessionVars, Excuse
  <2>2. v.by \notin torn => v.content \subseteq store[session] \cup Over /\ phase = "up"
    BY DEF HandleInv, DiskInv, FromDisk
  <2>3. v.content \subseteq InMemory' \cup Over'
    BY <1>g, <2>1, <2>2 DEF Over, FatesGrow
  <2>4. OnItsWay \subseteq OnItsWay' \cup v.content  BY <2>1 DEF OnItsWay
  <2> QED  BY <2>1, <2>3, <2>4 DEF Somewhere, Over
<1> QED
  BY <1>1, <1>2, <1>3, <1>4, <1>5, <1>6, <1>7, NextCases DEF NodeStep

\* A message taken in is in the memory of the session, or excused.
LEMMA TakenIsKept ==
  ASSUME TypeOK, HandleInv, Next,
         NEW m \in accepted', m \notin accepted
  PROVE  m \in Somewhere'
<1>t. session \in Nat /\ handle \in Nat /\ 0 \notin Sessions
  BY DEF TypeOK, Sessions
<1>1. ASSUME NEW k \in Sessions, NEW n \in Messages, TakeIn(n, k),
             UNCHANGED <<session, phase, handle, torn>>
      PROVE  m \in Somewhere'
  <2>1. m = n /\ m \in store'[k]  BY <1>1 DEF TakeIn, TypeOK
  <2>2. CASE k \in torn \/ handle # k
    BY <1>1, <2>1, <2>2 DEF TakeIn, Excuse, Somewhere
  <2>3. CASE k \notin torn /\ handle = k
    <3>1. k = session /\ phase = "up"
      BY <1>t, <2>3 DEF HandleInv, NoSession
    <3> QED  BY <1>1, <2>1, <3>1 DEF Somewhere, InMemory
  <2> QED  BY <2>2, <2>3
<1>2. accepted' = accepted => FALSE  OBVIOUS
<1>3. ASSUME NEW d \in Deposits, Deposit(d)
      PROVE  m \in Somewhere'
  <2>1. session \in Sessions /\ d \in Messages /\ TakeIn(d, session)
        /\ UNCHANGED <<session, phase, handle, torn>>
    BY <1>3 DEF Deposit, TypeOK, Messages, sessionVars
  <2> QED  BY <1>1, <2>1
<1>4. ASSUME NEW s \in Sends, SendStep(s)
      PROVE  m \in Somewhere'
  <2>1. CASE Submitted(s)
    <3>1. /\ node[s] \in Sessions /\ s \in Messages /\ TakeIn(s, node[s])
          /\ UNCHANGED <<session, phase, handle, torn>>
      BY <2>1 DEF Submitted, Goes, sessionVars, HandleInv, TypeOK, Sessions,
                  NoSession, Messages
    <3> QED  BY <1>1, <3>1
  <2> QED
    BY <1>2, <1>4, <2>1
       DEF SendStep, Proven, HandedOver, Declined, LadderFails, Unproven, Rejected,
           SubmitFails, Solicited, SolicitTimesOut, fates
<1>5. ASSUME NEW x \in Modes, Begin(x) \/ NodeFails(x)
      PROVE  FALSE
  BY <1>2, <1>5 DEF Begin, NodeFails, fates
<1>6. CASE LoadStore \/ NodeUp \/ ClientUp \/ Stop \/ StopEnds \/ Crash
  BY <1>2, <1>6 DEF LoadStore, NodeUp, ClientUp, Stop, StopEnds, Crash, fates
<1>7. ASSUME NEW x \in Messages, Collect(x)
      PROVE  FALSE
  BY <1>2, <1>7 DEF Collect
<1>8. ASSUME NEW aged, Maintain(aged)
      PROVE  FALSE
  BY <1>2, <1>8 DEF Maintain
<1>9. ASSUME NEW v \in saves, SaveEnds(v) \/ SaveFails(v)
      PROVE  FALSE
  BY <1>2, <1>9 DEF SaveEnds, SaveFails, fates
<1>10. ASSUME NEW n \in Nodes, NEW h \in Hops, Announce(n, h)
       PROVE  FALSE
  BY <1>2, <1>10 DEF Announce, fates
<1>11. ~SearchEnds  BY <1>2 DEF SearchEnds, fates
<1>12. ASSUME NEW s \in Sends, NEW k \in alive, Send(s, k)
       PROVE  FALSE
  BY <1>2, <1>12 DEF Send, fates
<1> QED
  BY <1>3, <1>4, <1>5, <1>6, <1>7, <1>8, <1>9, <1>10, <1>11, <1>12 DEF Next

LEMMA KeptStep ==
  ASSUME TypeOK, HandleInv, DiskInv, NothingElseIsLost, SentBy', Next
  PROVE  NothingElseIsLost'
<1>1. \A m : Kept(m) \/ m \in excused <=> m \in Somewhere
  BY DEF Kept, Somewhere, OnItsWay
<1>2. \A m : Kept(m)' \/ m \in excused' <=> m \in Somewhere'
  BY DEF Kept, Somewhere, OnItsWay
<1>3. ASSUME NEW m \in accepted'
      PROVE  m \in Somewhere'
  <2>1. CASE m \notin accepted  BY <2>1, TakenIsKept
  <2>2. CASE m \in accepted /\ ~Crash
    BY <1>1, <2>2, SomewhereStep DEF NothingElseIsLost
  <2>3. CASE m \in accepted /\ Crash
    BY <2>3 DEF Crash, Excuse, Somewhere, OnItsWay
  <2> QED  BY <2>1, <2>2, <2>3
<1>4. \A s \in Sends : pc'[s] = "sent" => s \in Somewhere'
  BY <1>3 DEF SentBy, Somewhere
<1> QED  BY <1>2, <1>3, <1>4 DEF NothingElseIsLost

-----------------------------------------------------------------------------
(* The theorems.                                                           *)

LEMMA Inductive ==
  /\ Init => IInv /\ SearchInv
  /\ IInv /\ SearchInv /\ [Next]_vars => IInv' /\ SearchInv'
<1>1. ASSUME Init
      PROVE  IInv /\ SearchInv
  <2>1. TypeOK /\ HandleInv /\ DiskInv
    BY <1>1, TypeInitial, HandleInitial, DiskInitial
  <2>2. SearchInv  BY <1>1, SearchInitial DEF Init
  <2>3. SentBy /\ NothingElseIsLost
    BY <1>1 DEF Init, SentBy, NothingElseIsLost
  <2> QED  BY <2>1, <2>2, <2>3 DEF IInv, DiskInv
<1>2. ASSUME IInv, SearchInv, Next
      PROVE  IInv' /\ SearchInv'
  <2>1. DiskInv  BY <1>2 DEF IInv, DiskInv
  <2>2. TypeOK' /\ HandleInv' /\ DiskInv' /\ SentBy' /\ SearchInv'
    BY <1>2, <2>1, TypeStep, HandleStep, DiskStep, SentStep, ComposedSearch,
       SearchStep DEF IInv
  <2>3. NothingElseIsLost'  BY <1>2, <2>1, <2>2, KeptStep DEF IInv
  <2> QED  BY <2>2, <2>3 DEF IInv, DiskInv
<1>3. ASSUME IInv, SearchInv, UNCHANGED vars
      PROVE  IInv' /\ SearchInv'
  BY <1>3
     DEF vars, discoveryVars, sendVars, nodeVars, sessionVars, fates, IInv, TypeOK,
         SearchInv, DiscoveryTypeOK, Tracks, Armed, HandleInv, FromDisk, NoPoorer,
         Handed, SentBy, NothingElseIsLost, Kept, InMemory, Running, Live, Over,
         OnItsWay
<1> QED  BY <1>1, <1>2, <1>3

\* Types hold in every session, whatever the mesh, the disk and the faults do.
THEOREM TypeCorrect == Spec => []TypeOK
<1>1. IInv => TypeOK  BY DEF IInv
<1> QED  BY <1>1, Inductive, PTL DEF Spec

\* What a deliverer reported as sent, or the embedded node accepted, is kept
\* somewhere unless one of the named exceptions lost it.
THEOREM NothingLost == Spec => []NothingElseIsLost
<1>1. IInv => NothingElseIsLost  BY DEF IInv
<1> QED  BY <1>1, Inductive, PTL DEF Spec
=============================================================================
