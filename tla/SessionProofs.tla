--------------------------- MODULE SessionProofs ---------------------------
(***************************************************************************)
(* Proofs about a session of the plugin.  First its announces (Reannounce),*)
(* for any interfaces, rounds and bounds: types, and that a dead window is *)
(* always explained.  Then its life cycle (PluginLifecycle, with the       *)
(* trackers of MeteredThrottle), for any number of sessions, settings and  *)
(* bounds: types, that a stop which overtakes nothing leaves nothing, that *)
(* each role is served once, and that the throttle follows the uplink and  *)
(* nothing but the uplink.                                                 *)
(***************************************************************************)
EXTENDS Reannounce, PluginLifecycle, TLAPS


\* The wall clock shows at least the time since the last round it fired, less what it
\* was set back by: no skip is without a round fired recently.
ClockTruthful == age >= elapsed - turned

\* A handle is set after the first announce.
AnnouncedFirst == \A d \in ready : stage[d] # "none"

\* The windows of a destination are explained from its first announce on; a round does
\* so only once the handle is set.
AnnouncedExplained ==
  \A i \in Up : \A d \in Dests : stage[d] # "none" =>
    <<i, d>> \in known \cup excused \/ (d \in ready /\ \E r \in Rounds : d \in todo[r])

IInv == TypeOK /\ ClockTruthful /\ AnnouncedFirst /\ AnnouncedExplained

-----------------------------------------------------------------------------
(* The next destination of a round *)

LEMMA FirstIsMember ==
  ASSUME NEW S \in SUBSET Dests, S # {}
  PROVE  First(S) \in S
<1> DEFINE Q(k) == Order[k] \in S /\ \A j \in 1..(k - 1) : Order[j] \notin S
<1>1. /\ Order[1] = "lxmf" /\ Order[2] = "nomadnet" /\ Order[3] = "rfed"
      /\ Order[4] = "embeddedRfed" /\ Order[5] = "propagation"
  BY DEF Order
<1>2. \E k \in 1..5 : Q(k)
  <2>1. CASE "lxmf" \in S
    BY <1>1, <2>1 DEF Dests
  <2>2. CASE "lxmf" \notin S /\ "nomadnet" \in S
    <3>1. Q(2)
      BY <1>1, <2>2
    <3> QED
      BY <3>1
  <2>3. CASE "lxmf" \notin S /\ "nomadnet" \notin S /\ "rfed" \in S
    <3>1. Q(3)
      BY <1>1, <2>3
    <3> QED
      BY <3>1
  <2>4. CASE "lxmf" \notin S /\ "nomadnet" \notin S /\ "rfed" \notin S /\ "embeddedRfed" \in S
    <3>1. Q(4)
      BY <1>1, <2>4
    <3> QED
      BY <3>1
  <2>5. CASE "lxmf" \notin S /\ "nomadnet" \notin S /\ "rfed" \notin S /\ "embeddedRfed" \notin S
    <3>1. "propagation" \in S
      BY <2>5 DEF Dests
    <3>2. Q(5)
      BY <1>1, <2>5, <3>1
    <3> QED
      BY <3>2
  <2> QED
    BY <2>1, <2>2, <2>3, <2>4, <2>5
<1>3. Q(CHOOSE k \in 1..5 : Q(k))
  BY <1>2
<1> QED
  BY <1>3 DEF First

LEMMA NextInRound ==
  ASSUME TypeOK, NEW r \in Rounds, todo[r] # {}, "rearm" \notin todo[r]
  PROVE  First(todo[r]) \in Dests
<1>1. todo[r] \in SUBSET Dests
  BY DEF TypeOK, Items
<1> QED
  BY <1>1, FirstIsMember

-----------------------------------------------------------------------------
(* Types *)

LEMMA TypeInitial == Init => TypeOK
<1> SUFFICES ASSUME Init PROVE TypeOK
  OBVIOUS
<1>1. /\ scenario.drops \in Nat /\ scenario.wedges \in Nat /\ scenario.changes \in Nat
      /\ scenario.fails \in Nat /\ scenario.stops \in Nat /\ scenario.clock \in Nat
  BY ReannounceAssumption DEF Init
<1>2. left \in [{"drops", "wedges", "changes", "fails", "stops", "clock"} -> Nat]
  BY <1>1 DEF Init
<1> QED
  BY <1>2, ReannounceAssumption DEF Init, TypeOK, Items, Dests

LEMMA TypePreserved == TypeOK /\ [Next]_vars => TypeOK'
<1> USE DEF TypeOK, Spend, Has, netVars, toldVars, destVars, watchVars, clockVars, Up
<1> SUFFICES ASSUME TypeOK, [Next]_vars PROVE TypeOK'
  OBVIOUS
<1>a. Dests \subseteq Items /\ "lxmf" \in Dests
  BY DEF Items, Dests
<1>1. CASE SetUpMessaging \/ SetUpSite
  <2>1. PICK d \in {"lxmf", "nomadnet"} : AnnouncedByLibrary(d)
    BY <1>1 DEF SetUpMessaging, SetUpSite
  <2>2. d \in Dests
    BY DEF Dests
  <2>3. CASE Emitted(d)
    BY <2>1, <2>2, <2>3 DEF AnnouncedByLibrary, FirstAnnounce, Emitted, Failed, Missed
  <2>4. CASE Failed(d)
    <3>1. known' \subseteq Ifaces \X Dests /\ excused' \subseteq Ifaces \X Dests /\ UNCHANGED netVars
      BY <2>2, <2>4 DEF Failed, Missed
    <3>2. left' \in [{"drops", "wedges", "changes", "fails", "stops", "clock"} -> Nat]
      BY <2>4 DEF Failed
    <3>3. stage' \in [Dests -> {"none", "announced", "failed"}]
      BY <2>1 DEF AnnouncedByLibrary, FirstAnnounce
    <3>4. loops' \subseteq Dests /\ UNCHANGED <<ready, watchVars, todo, clockVars, scenario>>
      BY <2>1, <2>2 DEF AnnouncedByLibrary
    <3> QED
      BY <3>1, <3>2, <3>3, <3>4
  <2> QED
    BY <2>1, <2>3, <2>4 DEF AnnouncedByLibrary
<1>18. CASE SetUpPropagation \/ SetUpEmbeddedRfed
  <2>1. PICK d \in {"propagation", "embeddedRfed"} : AnnouncedEmbedded(d)
    BY <1>18 DEF SetUpPropagation, SetUpEmbeddedRfed
  <2>2. d \in Dests
    BY DEF Dests
  <2> QED
    BY <2>1, <2>2 DEF AnnouncedEmbedded, FirstAnnounce, Emitted
<1>19. CASE Listen
  <2>1. "rfed" \in Dests
    BY DEF Dests
  <2> QED
    BY <1>19, <2>1 DEF Listen, FirstAnnounce, Emitted, Failed, Missed
<1>20. ASSUME NEW d \in Dests, Handle(d) PROVE TypeOK'
  BY <1>20 DEF Handle
<1>2. ASSUME NEW d \in Dests, LoopAnnounce(d) PROVE TypeOK'
  BY <1>2 DEF LoopAnnounce, Emitted
<1>3. CASE LoopStops
  BY <1>3 DEF LoopStops
<1>4. CASE Attach
  BY <1>4 DEF Attach
<1>5. ASSUME NEW r \in Rounds, RoundStep(r) PROVE TypeOK'
  <2>1. PICK d \in Dests : d = First(todo[r])
    BY <1>5, NextInRound DEF RoundStep
  <2>2. todo[r] \subseteq Dests
    BY <1>5 DEF RoundStep, Items
  <2>3. CASE Emitted(d) /\ todo' = [todo EXCEPT ![r] = @ \ {d}]
    BY <1>5, <2>3 DEF RoundStep, Emitted
  <2>4. CASE Failed(d) /\ todo' = [todo EXCEPT ![r] = @ \ {d}]
    BY <1>5, <2>4 DEF RoundStep, Failed, Missed
  <2>5. CASE Missed(todo[r]) /\ todo' = [todo EXCEPT ![r] = {}] /\ UNCHANGED left
    BY <1>5, <2>2, <2>5 DEF RoundStep, Missed
  <2> QED
    BY <1>5, <2>1, <2>3, <2>4, <2>5 DEF RoundStep, Announced
<1>6. ASSUME NEW r \in Rounds, Rearm(r) PROVE TypeOK'
  BY <1>a, <1>6 DEF Rearm, Emitted, Failed, Missed
<1>7. ASSUME NEW v \in {"none", "online", "offline"}, Publish(v) PROVE TypeOK'
  BY <1>a, <1>7 DEF Publish, StartRound
<1>8. ASSUME NEW i \in Ifaces, ComeUp(i) PROVE TypeOK'
  BY <1>8 DEF ComeUp, Connected
<1>9. ASSUME NEW i \in Ifaces, Drop(i) PROVE TypeOK'
  BY <1>9 DEF Drop
<1>10. ASSUME NEW i \in Ifaces, Wedge(i) PROVE TypeOK'
  BY <1>10 DEF Wedge
<1>11. ASSUME NEW i \in Ifaces, Reconnect(i) PROVE TypeOK'
  <2>1. link' \in [Ifaces -> {"absent", "up", "wedged", "down"}] /\ moved' \in [Ifaces -> {"yes", "no", "probed"}]
    BY <1>11 DEF Reconnect, Connected
  <2>2. known' \subseteq Ifaces \X Dests /\ excused' \subseteq Ifaces \X Dests
    BY <1>11 DEF Reconnect, Connected, Pending
  <2>3. todo' \in [Rounds -> SUBSET Items] /\ age' \in Int /\ age' <= Horizon
        /\ elapsed' \in 0..Horizon /\ turned' \in Nat
    BY <1>a, <1>11, ReannounceAssumption DEF Reconnect, Fire, Skip, StartRound
  <2> QED
    BY <1>11, <2>1, <2>2, <2>3 DEF Reconnect
<1>12. ASSUME NEW i \in Ifaces, Sample(i) PROVE TypeOK'
  BY <1>12 DEF Sample
<1>13. ASSUME NEW i \in Ifaces, Probe(i) PROVE TypeOK'
  BY <1>a, <1>13 DEF Probe, StartRound, Items
<1>14. ASSUME NEW i \in Ifaces, Swap(i) PROVE TypeOK'
  BY <1>14 DEF Swap, Connected
<1>15. CASE Tick
  BY <1>15, ReannounceAssumption DEF Tick, Older
<1>16. CASE SetBack
  BY <1>16, ReannounceAssumption DEF SetBack
<1>17. CASE UNCHANGED vars
  BY <1>17 DEF vars
<1> QED
  BY <1>1, <1>2, <1>3, <1>4, <1>5, <1>6, <1>7, <1>8, <1>9, <1>10, <1>11, <1>12, <1>13,
     <1>14, <1>15, <1>16, <1>17, <1>18, <1>19, <1>20 DEF Next

\* Type correctness, for any interfaces, rounds and scenarios.
THEOREM TypeCorrect == Spec => []TypeOK
<1>1. Init => TypeOK
  BY TypeInitial
<1>2. TypeOK /\ [Next]_vars => TypeOK'
  BY TypePreserved
<1> QED
  BY <1>1, <1>2, PTL DEF Spec

-----------------------------------------------------------------------------
(* Dead windows *)

LEMMA Initial == Init => ClockTruthful /\ AnnouncedFirst /\ AnnouncedExplained
BY ReannounceAssumption DEF Init, ClockTruthful, AnnouncedFirst, AnnouncedExplained

LEMMA ClockPreserved == IInv /\ [Next]_vars => ClockTruthful'
<1> SUFFICES ASSUME IInv, [Next]_vars PROVE ClockTruthful'
  OBVIOUS
<1> USE DEF IInv, ClockTruthful, clockVars
<1>1. CASE Tick
  BY <1>1, ReannounceAssumption DEF Tick, Older, TypeOK
<1>2. CASE SetBack
  BY <1>2 DEF SetBack, TypeOK
<1>3. ASSUME NEW i \in Ifaces, Reconnect(i) PROVE ClockTruthful'
  BY <1>3 DEF Reconnect, Fire, Skip
<1>4. CASE UNCHANGED clockVars
  BY <1>4
<1> QED
  BY <1>1, <1>2, <1>3, <1>4 DEF Next, vars, SetUpMessaging,
     SetUpSite, SetUpPropagation, SetUpEmbeddedRfed, AnnouncedByLibrary, AnnouncedEmbedded,
     Listen, Handle, LoopAnnounce, LoopStops, Attach, RoundStep,
     Rearm, Publish, ComeUp, Drop, Wedge, Sample, Probe, Swap

LEMMA FirstPreserved == IInv /\ [Next]_vars => AnnouncedFirst'
<1> SUFFICES ASSUME IInv, [Next]_vars PROVE AnnouncedFirst'
  OBVIOUS
<1> USE DEF IInv, AnnouncedFirst, destVars
<1>1. CASE SetUpMessaging \/ SetUpSite
  <2>1. PICK d \in {"lxmf", "nomadnet"}, o \in {"announced", "failed"} : ready' = ready /\ FirstAnnounce(d, o)
    BY <1>1 DEF SetUpMessaging, SetUpSite, AnnouncedByLibrary
  <2> QED
    BY <2>1 DEF FirstAnnounce, TypeOK
<1>2. CASE SetUpPropagation \/ SetUpEmbeddedRfed
  <2>1. PICK d \in {"propagation", "embeddedRfed"} : ready' = ready /\ FirstAnnounce(d, "announced")
    BY <1>2 DEF SetUpPropagation, SetUpEmbeddedRfed, AnnouncedEmbedded
  <2> QED
    BY <2>1 DEF FirstAnnounce, TypeOK
<1>3. CASE Listen
  BY <1>3 DEF Listen, FirstAnnounce, TypeOK
<1>4. ASSUME NEW d \in Dests, Handle(d) PROVE AnnouncedFirst'
  BY <1>4 DEF Handle, Pending
<1>5. CASE UNCHANGED <<stage, ready>>
  BY <1>5
<1> QED
  BY <1>1, <1>2, <1>3, <1>4, <1>5 DEF Next, vars, LoopAnnounce, LoopStops, Attach, RoundStep,
     Rearm, Publish, ComeUp, Drop, Wedge, Reconnect, Sample, Probe, Swap, Tick, SetBack

LEMMA ExplainedPreserved == IInv /\ [Next]_vars => AnnouncedExplained'
<1> USE DEF AnnouncedExplained, Up, netVars, toldVars, destVars, watchVars
<1> SUFFICES ASSUME IInv, [Next]_vars PROVE AnnouncedExplained'
  OBVIOUS
<1>t. TypeOK /\ AnnouncedExplained /\ ClockTruthful /\ AnnouncedFirst
  BY DEF IInv
<1>1. CASE SetUpMessaging \/ SetUpSite
  <2>1. PICK d \in {"lxmf", "nomadnet"} : AnnouncedByLibrary(d)
    BY <1>1 DEF SetUpMessaging, SetUpSite
  <2>2. /\ link' = link /\ todo' = todo /\ ready' = ready
        /\ known \cup excused \subseteq (known \cup excused)'
        /\ \A i \in Up : <<i, d>> \in (known \cup excused)'
    BY <2>1 DEF AnnouncedByLibrary, Emitted, Failed, Missed
  <2>3. \A e \in Dests : e # d => stage'[e] = stage[e]
    BY <1>t, <2>1 DEF AnnouncedByLibrary, FirstAnnounce, TypeOK
  <2> QED
    BY <1>t, <2>2, <2>3
<1>18. CASE SetUpPropagation \/ SetUpEmbeddedRfed
  <2>1. PICK d \in {"propagation", "embeddedRfed"} : AnnouncedEmbedded(d)
    BY <1>18 DEF SetUpPropagation, SetUpEmbeddedRfed
  <2>2. /\ link' = link /\ todo' = todo /\ ready' = ready
        /\ known \cup excused \subseteq (known \cup excused)'
        /\ \A i \in Up : <<i, d>> \in (known \cup excused)'
    BY <2>1 DEF AnnouncedEmbedded, Emitted
  <2>3. \A e \in Dests : e # d => stage'[e] = stage[e]
    BY <1>t, <2>1 DEF AnnouncedEmbedded, FirstAnnounce, TypeOK
  <2> QED
    BY <1>t, <2>2, <2>3
<1>19. CASE Listen
  <2>2. /\ link' = link /\ todo' = todo /\ ready' = ready
        /\ known \cup excused \subseteq (known \cup excused)'
        /\ \A i \in Up : <<i, "rfed">> \in (known \cup excused)'
    BY <1>19 DEF Listen, Emitted, Failed, Missed
  <2>3. \A e \in Dests : e # "rfed" => stage'[e] = stage[e]
    BY <1>t, <1>19 DEF Listen, FirstAnnounce, TypeOK
  <2> QED
    BY <1>t, <2>2, <2>3
<1>20. ASSUME NEW d \in Dests, Handle(d) PROVE AnnouncedExplained'
  BY <1>t, <1>20 DEF Handle
<1>2. ASSUME NEW d \in Dests, LoopAnnounce(d) PROVE AnnouncedExplained'
  BY <1>t, <1>2 DEF LoopAnnounce, Emitted
<1>3. CASE LoopStops
  BY <1>t, <1>3 DEF LoopStops
<1>4. CASE Attach
  BY <1>t, <1>4 DEF Attach
<1>5. ASSUME NEW r \in Rounds, RoundStep(r) PROVE AnnouncedExplained'
  <2>1. PICK d \in Dests : d = First(todo[r])
    BY <1>t, <1>5, NextInRound DEF RoundStep
  <2>2. CASE Emitted(d) /\ todo' = [todo EXCEPT ![r] = @ \ {d}]
    BY <1>t, <1>5, <2>2 DEF RoundStep, Emitted, TypeOK
  <2>3. CASE Failed(d) /\ todo' = [todo EXCEPT ![r] = @ \ {d}]
    BY <1>t, <1>5, <2>3 DEF RoundStep, Failed, Missed, TypeOK
  <2>4. CASE Missed(todo[r]) /\ todo' = [todo EXCEPT ![r] = {}] /\ UNCHANGED left
    BY <1>t, <1>5, <2>4 DEF RoundStep, Missed, TypeOK
  <2> QED
    BY <1>5, <2>1, <2>2, <2>3, <2>4 DEF RoundStep, Announced
<1>6. ASSUME NEW r \in Rounds, Rearm(r) PROVE AnnouncedExplained'
  <2>1. /\ \A q \in Rounds : q # r => todo'[q] = todo[q]
        /\ todo'[r] = ready /\ ready' = ready /\ stage' = stage /\ link' = link
        /\ known \cup excused \subseteq (known \cup excused)'
    BY <1>t, <1>6 DEF Rearm, TypeOK, Emitted, Failed, Missed
  <2> QED
    BY <1>t, <2>1
<1>7. ASSUME NEW v \in {"none", "online", "offline"}, Publish(v) PROVE AnnouncedExplained'
  BY <1>t, <1>7 DEF Publish, StartRound, TypeOK
<1>8. ASSUME NEW i \in Ifaces, ComeUp(i) PROVE AnnouncedExplained'
  BY <1>t, <1>8 DEF ComeUp, Connected, TypeOK
<1>9. ASSUME NEW i \in Ifaces, Drop(i) PROVE AnnouncedExplained'
  BY <1>t, <1>9 DEF Drop, TypeOK
<1>10. ASSUME NEW i \in Ifaces, Wedge(i) PROVE AnnouncedExplained'
  BY <1>t, <1>10 DEF Wedge, TypeOK
<1>11. ASSUME NEW i \in Ifaces, Reconnect(i) PROVE AnnouncedExplained'
  <2>1. CASE i \in listened /\ Fire /\ excused' = (excused \ ({i} \X Dests)) \cup ({i} \X Pending)
    <3>1. PICK r \in Rounds : todo[r] = {} /\ todo' = [todo EXCEPT ![r] = ready]
      BY <2>1 DEF Fire, StartRound
    <3>2. todo'[r] = ready /\ \A q \in Rounds : q # r => todo'[q] = todo[q]
      BY <1>t, <3>1 DEF TypeOK
    <3>3. stage' = stage /\ ready' = ready /\ \A j \in Ifaces : j # i => link'[j] = link[j]
      BY <1>t, <1>11 DEF Reconnect, Connected, TypeOK
    <3>4. \A j \in Ifaces, d \in Dests : j # i /\ <<j, d>> \in known \cup excused => <<j, d>> \in (known \cup excused)'
      BY <1>11, <2>1 DEF Reconnect, Connected
    <3>5. \A d \in Dests : stage[d] # "none" => d \in ready \/ <<i, d>> \in excused'
      BY <2>1 DEF Pending
    <3> QED
      BY <1>t, <3>1, <3>2, <3>3, <3>4, <3>5
  <2>2. CASE Skip /\ excused' = IF elapsed < MinInterval + turned THEN excused \cup ({i} \X Dests)
                               ELSE excused \ ({i} \X Dests)
    <3>1. elapsed < MinInterval + turned
      BY <1>t, <2>2, ReannounceAssumption DEF Skip, ClockTruthful, TypeOK
    <3>2. excused' = excused \cup ({i} \X Dests)
      BY <2>2, <3>1
    <3> QED
      BY <1>t, <1>11, <2>2, <3>2 DEF Reconnect, Connected, Skip, TypeOK
  <2>3. CASE excused' = excused \cup ({i} \X Dests) /\ UNCHANGED <<clockVars, todo>>
    BY <1>t, <1>11, <2>3 DEF Reconnect, Connected, TypeOK
  <2> QED
    BY <1>11, <2>1, <2>2, <2>3 DEF Reconnect
<1>12. ASSUME NEW i \in Ifaces, Sample(i) PROVE AnnouncedExplained'
  BY <1>t, <1>12 DEF Sample
<1>13. ASSUME NEW i \in Ifaces, Probe(i) PROVE AnnouncedExplained'
  BY <1>t, <1>13 DEF Probe, StartRound, TypeOK
<1>14. ASSUME NEW i \in Ifaces, Swap(i) PROVE AnnouncedExplained'
  BY <1>t, <1>14 DEF Swap, Connected, TypeOK
<1>15. CASE Tick
  BY <1>t, <1>15 DEF Tick
<1>16. CASE SetBack
  BY <1>t, <1>16 DEF SetBack
<1>17. CASE UNCHANGED vars
  BY <1>t, <1>17 DEF vars
<1> QED
  BY <1>1, <1>2, <1>3, <1>4, <1>5, <1>6, <1>7, <1>8, <1>9, <1>10, <1>11, <1>12, <1>13,
     <1>14, <1>15, <1>16, <1>17, <1>18, <1>19, <1>20 DEF Next

\* Whatever connections drop, announces fail and clocks do, an interface that is up leads
\* to a node that knows of a destination, or a round is about to announce it, or what
\* kept it from being announced is one of the reasons DeadWindowExplained names.
THEOREM WindowsExplained == Spec => []DeadWindowExplained
<1>1. Init => IInv
  BY TypeInitial, Initial DEF IInv
<1>2. IInv /\ [Next]_vars => IInv'
  BY TypePreserved, ClockPreserved, FirstPreserved, ExplainedPreserved DEF IInv
<1>3. IInv => DeadWindowExplained
  BY DEF IInv, AnnouncedFirst, AnnouncedExplained, DeadWindowExplained, TypeOK
<1> QED
  BY <1>1, <1>2, <1>3, PTL DEF Spec

-----------------------------------------------------------------------------
(* The life cycle: what holds of it in every state *)

\* The sections a start has control in.
InHand == Sections \ (Awaited \cup {"new", "ended"})

\* The sections up to the end of: the propagation node, the RFed node, the services.
BeforeNode == {"new", "identity", "compression", "interfaces", "messaging",
               "embed propagation", "propagation"}
BeforeRfed == BeforeNode \cup {"embed rfed", "rfed node"}
BeforeServices == BeforeRfed \cup {"tap", "publish", "services"}
AfterServices == {"federation", "rfed client", "pages", "site", "rest"}

\* At most one start has control; sessions that have not begun are new.
Control ==
  /\ session \in 0..MaxSessions
  /\ server = "on" => session # None
  /\ \A k \in Sessions : at[k] = "new" <=> k > session
  /\ \A k \in Sessions : at[k] \in InHand <=> running = k

\* What runs can be cancelled, but for listeners.
Registered == \A t \in live : t[1] # "listener" => t \in unsubscribes

\* After a stop that overtook nothing there is nothing at work.
Quiet ==
  (server # "on" /\ lastOvertook = {}) =>
    /\ running = None /\ AtWork = {}
    /\ live \subseteq {"listener"} \X Sessions
    /\ server = "off" => handle = [h \in Handles |-> None] /\ listed = {}

\* While no stop has overtaken anything, all there is belongs to the last session, ...
OwnedByLast ==
  /\ \A t \in live : t[2] = session /\ t \in unsubscribes
  /\ \A t \in tasks : t[2] = session
  /\ attached \subseteq {session}
  /\ \A h \in Handles : handle[h] \in {None, session}
  /\ \A k \in Sessions : at[k] \in Awaited \cup InHand => k = session

\* ... which has a node unless it has not got beyond its stamper, ...
NodeFirst ==
  \/ handle["rns"] = session
  \/ /\ attached = {} /\ tasks = {}
     /\ \A t \in live : t[1] = "stamper"
     /\ \A k \in Sessions : at[k] \in {"new", "identity", "ended"}

\* ... and nothing is left of it once it is stopped.
NothingLeft ==
  /\ server # "on" => live = {} /\ attached = {}
  /\ \A k \in Sessions : pending[k] # Unarmed => <<"tracker", k>> \in live
  /\ \A k \in Sessions : <<"listener", k>> \in live => handle["lxmf"] = k

\* Who serves a role: the node, and its handle with it, or the client, on messaging, or
\* the search for the client's node.
Serves(k) ==
  /\ at[k] \in BeforeNode => <<"propagation node", k>> \notin live
  /\ at[k] \in BeforeRfed => <<"rfed node", k>> \notin live
  /\ at[k] \in BeforeServices =>
       /\ \A x \in {"tracker", "propagation client", "propagation discovery",
                    "rfed discovery"} \cup RfedClient \cup CrewForwards : <<x, k>> \notin live
       /\ <<"rfed client", k>> \notin tasks
  /\ <<"propagation node", k>> \in live => handle["embeddedPropagation"] = k
  /\ <<"rfed node", k>> \in live => handle["embeddedRfed"] = k
  /\ server = "on" /\ handle["embeddedPropagation"] = k => <<"propagation node", k>> \in live
  /\ <<"propagation client", k>> \in live =>
       handle["embeddedPropagation"] = None /\ handle["lxmf"] # None
  /\ <<"propagation discovery", k>> \in live => handle["embeddedPropagation"] = None
  /\ (\/ \E x \in {"rfed discovery"} \cup RfedClient : <<x, k>> \in live
      \/ <<"rfed client", k>> \in tasks \/ at[k] = "rfed client")
       => handle["embeddedRfed"] = None
  /\ (/\ at[k] \in AfterServices \/ \E x \in CrewForwards : <<x, k>> \in live
      /\ Set(k, "propagation client") /\ handle["lxmf"] # None)
       => \E x \in {"propagation node", "propagation client", "propagation discovery"} :
            <<x, k>> \in live

\* The tracker is in step with the uplink, and the node's filter with the tracker.
Tracks(k) ==
  <<"tracker", k>> \in live =>
    /\ committed[k] \in Uplinks
    /\ committed[k] = uplink => pending[k] = Unarmed
    /\ committed[k] # uplink => pending[k] # Unarmed /\ pending[k] + held = Grace

\* The filter of a node that runs is what it was set up with, then what its tracker
\* committed, unless the uplink changed between the two reads.
Throttled(k) ==
  <<"propagation node", k>> \in live =>
    /\ handle["lxmf"] = k
    /\ filter[k] \in Uplinks
    /\ <<"tracker", k>> \notin live => filter[k] = initial[k]
    /\ <<"tracker", k>> \in live /\ k \notin skewed => filter[k] = committed[k]

\* A node is set up once, on the router of its own session.
Routed(k) ==
  /\ at[k] \in BeforeNode => filter[k] = "no node"
  /\ at[k] = "propagation" => router[k] = k /\ handle["lxmf"] = k

\* What holds whatever stops overtake, and what holds of where things are while they
\* overtake nothing.
Base ==
  /\ LifecycleTypeOK /\ Control /\ Registered /\ Quiet
  /\ lastOvertook \subseteq overtaken

Ordered == OwnedByLast /\ NodeFirst /\ NothingLeft

LifecycleInv ==
  /\ Base
  /\ overtaken = {} =>
       /\ Ordered
       /\ \A k \in Sessions : Serves(k) /\ Tracks(k) /\ Throttled(k) /\ Routed(k)

-----------------------------------------------------------------------------
(* What the steps of a start have in common *)

\* What session k's start does between two awaits, whatever it sets up there.
Advances(k) ==
  /\ \/ running = None /\ at[k] \in Awaited
     \/ running = k /\ at[k] \in InHand
  /\ \E s \in Sections \ {"new"} :
       /\ at' = [at EXCEPT ![k] = s]
       /\ running' = IF s \in InHand THEN k ELSE None
  /\ \E S \in SUBSET Things : Created(k, S)
  /\ UNCHANGED <<serverVars, overtaken, lastOvertook, tasks>>

LEMMA GoesOn ==
  ASSUME NEW k \in Sessions, NEW s \in InHand, Goes(k, s)
  PROVE  \E q \in Sections \ {"new"} :
           /\ at' = [at EXCEPT ![k] = q]
           /\ running' = IF q \in InHand THEN k ELSE None
BY DEF Goes, InHand

LEMMA LetsGo ==
  ASSUME NEW k \in Sessions, NEW s \in Awaited \cup {"ended"}, Awaits(k, s)
  PROVE  \E q \in Sections \ {"new"} :
           /\ at' = [at EXCEPT ![k] = q]
           /\ running' = IF q \in InHand THEN k ELSE None
<1>1. s \in Sections \ {"new"} /\ s \notin InHand
  BY DEF InHand, Sections, Awaited
<1> QED
  BY <1>1 DEF Awaits

LEMMA Makes ==
  ASSUME NEW k \in Sessions, NEW S, S \subseteq Things, Created(k, S)
  PROVE  \E q \in SUBSET Things : Created(k, q)
OBVIOUS

LEMMA MakesNothing ==
  ASSUME NEW k \in Sessions, UNCHANGED thingVars
  PROVE  \E q \in SUBSET Things : Created(k, q)
<1>1. Created(k, {})
  BY DEF Created, thingVars
<1> QED
  BY <1>1

LEMMA Sectioned ==
  /\ {"embed propagation", "embed rfed", "publish", "services", "federation", "pages",
      "rest"} = InHand
  /\ \A s \in Sections : s \in Awaited \/ s \in InHand \/ s = "new" \/ s = "ended"
  /\ Awaited \cap InHand = {} /\ {"new", "ended"} \cap (Awaited \cup InHand) = {}
BY DEF InHand, Sections, Awaited

LEMMA StartAdvances ==
  ASSUME NEW k \in Sessions, StartStep(k), ~Begin(k)
  PROVE  Advances(k)
<1> USE DEF serverVars, historyVars, Resumes, InControl, Ends
<1>a. Awaited = {"identity", "compression", "interfaces", "messaging", "propagation",
                 "rfed node", "tap", "rfed client", "site"}
  BY DEF Awaited
<1>1. CASE Identified(k)
  BY <1>1, <1>a, LetsGo, MakesNothing DEF Identified, Advances
<1>2. CASE Compressed(k)
  <2>1. {"crew watch"} \subseteq Things
    BY DEF Things
  <2> QED
    BY <1>2, <1>a, <2>1, LetsGo, Makes DEF Compressed, Advances
<1>3. CASE InterfacesUp(k)
  <2>1. {"interface retry"} \subseteq Things
    BY DEF Things
  <2>2. \E q \in SUBSET Things : Created(k, q)
    BY <1>3, <2>1, Makes, MakesNothing DEF InterfacesUp
  <2> QED
    BY <1>3, <1>a, <2>2, LetsGo DEF InterfacesUp, Advances
<1>4. CASE MessagingUp(k)
  <2>1. Messaging \subseteq Things
    BY DEF Things, Messaging
  <2>2. \E q \in SUBSET Things : Created(k, q)
    BY <1>4, <2>1, Makes, MakesNothing DEF MessagingUp
  <2> QED
    BY <1>4, <1>a, <2>2, GoesOn, Sectioned DEF MessagingUp, Advances
<1>5. CASE EmbedPropagation(k)
  BY <1>5, <1>a, LetsGo, GoesOn, Sectioned, MakesNothing DEF EmbedPropagation, Advances
<1>6. CASE PropagationNodeUp(k)
  <2>1. {"propagation node"} \subseteq Things
    BY DEF Things
  <2>2. \E q \in SUBSET Things : Created(k, q)
    BY <1>6, <2>1, Makes, MakesNothing DEF PropagationNodeUp
  <2> QED
    BY <1>6, <1>a, <2>2, GoesOn, Sectioned DEF PropagationNodeUp, Advances
<1>7. CASE EmbedRfed(k)
  BY <1>7, <1>a, LetsGo, GoesOn, Sectioned, MakesNothing DEF EmbedRfed, Advances
<1>8. CASE RfedNodeUp(k)
  <2>1. {"rfed node"} \subseteq Things
    BY DEF Things
  <2>2. \E q \in SUBSET Things : Created(k, q)
    BY <1>8, <2>1, Makes, MakesNothing DEF RfedNodeUp
  <2>3. Goes(k, "services") \/ Awaits(k, "tap") \/ Goes(k, "publish")
    BY <1>8 DEF RfedNodeUp
  <2>4. running = None /\ at[k] = "rfed node"
        /\ UNCHANGED <<serverVars, overtaken, lastOvertook, tasks>>
    BY <1>8 DEF RfedNodeUp
  <2>5. \E q \in Sections \ {"new"} :
           /\ at' = [at EXCEPT ![k] = q]
           /\ running' = IF q \in InHand THEN k ELSE None
    BY <1>a, <2>3, GoesOn, LetsGo, Sectioned
  <2> QED
    BY <1>a, <2>2, <2>4, <2>5 DEF Advances
<1>9. CASE Tapped(k)
  <2>1. {"rfed tap"} \subseteq Things
    BY DEF Things
  <2>2. \E q \in SUBSET Things : Created(k, q)
    BY <1>9, <2>1, Makes, MakesNothing DEF Tapped
  <2> QED
    BY <1>9, <1>a, <2>2, GoesOn, Sectioned DEF Tapped, Advances
<1>10. CASE StartPublisher(k)
  <2>1. If(Set(k, "transmit"), {"rfed publisher"}) \subseteq Things
    BY DEF If, Things
  <2> QED
    BY <1>10, <2>1, GoesOn, Sectioned, Makes DEF StartPublisher, Advances
<1>11. CASE Services(k)
  <2>1. {"tracker", "status"} \cup PropagationClient(k) \cup CrewServices(k) \subseteq Things
    BY DEF If, Things, PropagationClient, BroughtUp, CrewServices
  <2> QED
    BY <1>11, <2>1, GoesOn, Sectioned, Makes DEF Services, Advances
<1>12. CASE NoFederation(k)
  BY <1>12, GoesOn, Sectioned, MakesNothing DEF NoFederation, Advances
<1>13. CASE Federation(k)
  <2>1. {"rfed discovery"} \subseteq Things
    BY DEF Things
  <2>2. \E q \in SUBSET Things : Created(k, q)
    BY <1>13, <2>1, Makes, MakesNothing DEF Federation
  <2>3. Awaits(k, "ended") \/ Awaits(k, "rfed client") \/ Goes(k, "pages")
    BY <1>13 DEF Federation
  <2>4. running = k /\ at[k] = "federation"
        /\ UNCHANGED <<serverVars, overtaken, lastOvertook, tasks>>
    BY <1>13 DEF Federation
  <2>5. \E q \in Sections \ {"new"} :
           /\ at' = [at EXCEPT ![k] = q]
           /\ running' = IF q \in InHand THEN k ELSE None
    BY <1>a, <2>3, GoesOn, LetsGo, Sectioned
  <2> QED
    BY <2>2, <2>4, <2>5, Sectioned DEF Advances
<1>14. CASE FederationUp(k)
  <2>1. RfedClient \cup If(Set(k, "receive"), {"rfed pulls"})
          \cup If(Set(k, "transmit"), {"rfed publisher"}) \subseteq Things
    BY DEF If, Things, RfedClient
  <2>2. \E q \in SUBSET Things : Created(k, q)
    BY <1>14, <2>1, Makes, MakesNothing DEF FederationUp, RfedClientUp
  <2> QED
    BY <1>14, <1>a, <2>2, GoesOn, Sectioned DEF FederationUp, Advances
<1>15. CASE Pages(k)
  BY <1>15, <1>a, LetsGo, GoesOn, Sectioned, MakesNothing DEF Pages, Advances
<1>16. CASE SiteUp(k)
  <2>1. Site \subseteq Things
    BY DEF Things, Site
  <2>2. \E q \in SUBSET Things : Created(k, q)
    BY <1>16, <2>1, Makes, MakesNothing DEF SiteUp
  <2> QED
    BY <1>16, <1>a, <2>2, GoesOn, Sectioned DEF SiteUp, Advances
<1>17. CASE Rest(k)
  <2>1. CrewForwards \cup {"connectivity"} \cup InterfaceWatches(k) \subseteq Things
    BY DEF If, Things, CrewForwards, InterfaceWatches
  <2> QED
    BY <1>17, <2>1, LetsGo, Sectioned, Makes DEF Rest, Advances
<1> QED
  BY <1>1, <1>2, <1>3, <1>4, <1>5, <1>6, <1>7, <1>8, <1>9, <1>10, <1>11, <1>12, <1>13,
     <1>14, <1>15, <1>16, <1>17 DEF StartStep
-----------------------------------------------------------------------------
(* The life cycle: types *)

LEMMA LifecycleTypeInitial == LifecycleInit => LifecycleTypeOK
<1> SUFFICES ASSUME LifecycleInit PROVE LifecycleTypeOK
  OBVIOUS
<1>1. MeteredTypeOK
  <2>1. held = Grace + 1 /\ Grace \in Nat
    BY GraceAssumption DEF LifecycleInit, MeteredInit
  <2>2. held \in 0..(Grace + 1)
    BY <2>1
  <2> QED
    BY <2>2 DEF LifecycleInit, MeteredInit, MeteredTypeOK
<1> QED
  BY <1>1, BudgetsAssumption DEF LifecycleInit, LifecycleTypeOK, Sections, Uplinks

LEMMA MeteredPreserved ==
  ASSUME MeteredTypeOK,
         \/ UNCHANGED meteredVars
         \/ \E k, r : Committed(k, r) \/ (k \in Sessions /\ Adopted(k))
         \/ \E r, u : u \in Uplinks /\ NodeEnabled(r, u)
         \/ \E K, u : u \in Uplinks /\ Published(K, u)
         \/ \E K : Disposed(K)
         \/ Elapsed
  PROVE  MeteredTypeOK'
<1>g. Grace \in Nat /\ held \in 0..(Grace + 1)
  BY GraceAssumption DEF MeteredTypeOK
<1> DEFINE Left == 0..Grace \cup {Unarmed}
<1>p. pending \in [Sessions -> Left]
  BY DEF MeteredTypeOK
<1>u. Unarmed \in Left /\ Grace \in Left
  BY <1>g
<1>d. \A n \in Left : n # Unarmed /\ n # 0 => n - 1 \in Left
  BY <1>g
<1> HIDE DEF Left
<1>r. ASSUME uplink' \in Uplinks, held' \in 0..(Grace + 1), pending' \in [Sessions -> Left],
             committed' \in [Sessions -> Uplinks \cup {"unknown"}],
             filter' \in [Sessions -> Uplinks \cup {"no node"}]
      PROVE  MeteredTypeOK'
  BY <1>r DEF MeteredTypeOK, Left
<1>h. ASSUME UNCHANGED held PROVE held' \in 0..(Grace + 1)
  BY <1>g, <1>h
<1>t. /\ uplink \in Uplinks /\ committed \in [Sessions -> Uplinks \cup {"unknown"}]
      /\ filter \in [Sessions -> Uplinks \cup {"no node"}]
  BY DEF MeteredTypeOK
<1>1. CASE UNCHANGED meteredVars
  BY <1>1, <1>h, <1>p, <1>r, <1>t DEF meteredVars
<1>2. ASSUME NEW k, NEW r, Committed(k, r) PROVE MeteredTypeOK'
  <2>1. \A u : Other(u) \in Uplinks
    BY DEF Other, Uplinks
  <2>2. pending' \in [Sessions -> Left]
    BY <1>2, <1>p, <1>u DEF Committed
  <2> QED
    BY <1>2, <1>h, <1>r, <1>t, <2>1, <2>2 DEF Committed
<1>3. ASSUME NEW k \in Sessions, Adopted(k) PROVE MeteredTypeOK'
  BY <1>3, <1>h, <1>p, <1>r, <1>t DEF Adopted
<1>4. ASSUME NEW r, NEW u \in Uplinks, NodeEnabled(r, u) PROVE MeteredTypeOK'
  BY <1>4, <1>h, <1>p, <1>r, <1>t DEF NodeEnabled
<1>5. ASSUME NEW K, NEW u \in Uplinks, Published(K, u) PROVE MeteredTypeOK'
  <2>1. \A k \in Sessions : Timer(k, u) \in Left
    BY <1>p, <1>u DEF Timer
  <2>2. held' \in 0..(Grace + 1)
    <3>1. held' = held \/ held' = 0
      BY <1>5 DEF Published
    <3> QED
      BY <1>g, <3>1
  <2>3. pending' \in [Sessions -> Left]
    BY <1>5, <1>p, <2>1 DEF Published
  <2> QED
    BY <1>5, <1>r, <1>t, <2>2, <2>3 DEF Published
<1>6. ASSUME NEW K, Disposed(K) PROVE MeteredTypeOK'
  BY <1>6, <1>h, <1>p, <1>r, <1>t, <1>u DEF Disposed
<1>7. CASE Elapsed
  <2>1. held' \in 0..(Grace + 1)
    <3>1. held' = IF held > Grace THEN held ELSE held + 1
      BY <1>7 DEF Elapsed
    <3> QED
      BY <1>g, <3>1
  <2>2. pending' \in [Sessions -> Left]
    BY <1>7, <1>d, <1>p, <1>u DEF Elapsed
  <2> QED
    BY <1>7, <1>r, <1>t, <2>1, <2>2 DEF Elapsed
<1> QED
  BY <1>1, <1>2, <1>3, <1>4, <1>5, <1>6, <1>7

\* The types of what a start's steps have in common.
LEMMA AdvancesTyped ==
  ASSUME LifecycleTypeOK, NEW k \in Sessions, Advances(k)
  PROVE  /\ server' \in {"off", "on", "stopping"} /\ session' \in Sessions \cup {None}
         /\ settings' \in [Sessions -> SUBSET Features]
         /\ at' \in [Sessions -> Sections] /\ running' \in Sessions \cup {None}
         /\ tasks' \subseteq Tasks \X Sessions /\ live' \subseteq Things \X Sessions
         /\ unsubscribes' \subseteq Things \X Sessions
         /\ overtaken' \subseteq Sessions /\ lastOvertook' \subseteq Sessions
<1>1. PICK S \in SUBSET Things : Created(k, S)
  BY DEF Advances
<1>2. live' \subseteq Things \X Sessions /\ unsubscribes' \subseteq Things \X Sessions
  BY <1>1 DEF Created, LifecycleTypeOK
<1>3. at' \in [Sessions -> Sections] /\ running' \in Sessions \cup {None}
  BY DEF Advances, LifecycleTypeOK
<1> QED
  BY <1>2, <1>3 DEF Advances, LifecycleTypeOK, serverVars

LEMMA BudgetTyped ==
  ASSUME LifecycleTypeOK, Succeeds \/ Fails
  PROVE  budget' \in [faults : Nat, flips : Nat, overtakes : Nat]
BY DEF LifecycleTypeOK, Succeeds, Fails

LEMMA StartTyped ==
  ASSUME LifecycleTypeOK, NEW k \in Sessions, StartStep(k), ~Begin(k)
  PROVE  LifecycleTypeOK'
<1>a. Advances(k)
  BY StartAdvances
<1> DEFINE Untyped ==
      /\ MeteredTypeOK
      /\ handle \in [Handles -> Sessions \cup {None}] /\ listed \subseteq Sessions
      /\ messaging \subseteq Sessions /\ initial \in [Sessions -> Uplinks]
      /\ router \in [Sessions -> Sessions \cup {None}] /\ recovers \subseteq Sessions
      /\ attached \subseteq Sessions /\ skewed \subseteq Sessions
      /\ budget \in [faults : Nat, flips : Nat, overtakes : Nat]
<1>b. Untyped
  BY DEF LifecycleTypeOK
<1>c. SUFFICES Untyped'
  BY <1>a, AdvancesTyped DEF LifecycleTypeOK
<1>m. ASSUME UNCHANGED meteredVars PROVE MeteredTypeOK'
  BY <1>b, <1>m, MeteredPreserved
<1>h. /\ "identity" \in Handles /\ "rns" \in Handles /\ "lxmf" \in Handles
      /\ "nomadnet" \in Handles /\ "rfed" \in Handles
      /\ "embeddedPropagation" \in Handles /\ "embeddedRfed" \in Handles
  BY DEF Handles
<1> USE DEF pluginVars, localVars, historyVars, Holds
<1>1. CASE Identified(k)
  BY <1>1, <1>b, <1>m, <1>h, BudgetTyped DEF Identified
<1>2. CASE Compressed(k)
  BY <1>2, <1>b, <1>m DEF Compressed
<1>3. CASE InterfacesUp(k)
  <2>1. Succeeds \/ Fails
    BY <1>3 DEF InterfacesUp
  <2>2. PICK up \in SUBSET {k} :
          listed' = up /\ attached' = attached \cup up /\ recovers' = recovers \cup up
    BY <1>3 DEF InterfacesUp
  <2>3. /\ UNCHANGED <<meteredVars, handle, messaging, initial, router>>
        /\ UNCHANGED historyVars
    BY <1>3 DEF InterfacesUp
  <2> QED
    BY <1>b, <1>m, <2>1, <2>2, <2>3, BudgetTyped
<1>4. CASE MessagingUp(k)
  <2>1. uplink \in Uplinks
    BY <1>b DEF MeteredTypeOK
  <2> QED
    BY <1>4, <1>b, <1>m, <1>h, <2>1, BudgetTyped DEF MessagingUp
<1>5. CASE EmbedPropagation(k)
  BY <1>5, <1>b, <1>m, <1>h DEF EmbedPropagation
<1>6. CASE PropagationNodeUp(k)
  <2>1. initial[k] \in Uplinks
    BY <1>b
  <2>2. MeteredTypeOK'
    <3>1. CASE NodeEnabled(router[k], initial[k])
      BY <1>b, <2>1, <3>1, MeteredPreserved
    <3> QED
      BY <1>6, <1>m, <3>1 DEF PropagationNodeUp
  <2> QED
    BY <1>6, <1>b, <1>h, <2>2, BudgetTyped DEF PropagationNodeUp
<1>7. CASE EmbedRfed(k)
  BY <1>7, <1>b, <1>m DEF EmbedRfed
<1>8. CASE RfedNodeUp(k)
  BY <1>8, <1>b, <1>m, <1>h, BudgetTyped DEF RfedNodeUp
<1>9. CASE Tapped(k)
  BY <1>9, <1>b, <1>m, BudgetTyped DEF Tapped
<1>10. CASE StartPublisher(k)
  BY <1>10, <1>b, <1>m DEF StartPublisher
<1>11. CASE Services(k)
  <2>1. MeteredTypeOK'
    BY <1>11, <1>b, MeteredPreserved DEF Services
  <2> QED
    BY <1>11, <1>b, <2>1 DEF Services
<1>12. CASE NoFederation(k)
  BY <1>12, <1>b, <1>m DEF NoFederation
<1>13. CASE Federation(k)
  BY <1>13, <1>b, <1>m DEF Federation
<1>14. CASE FederationUp(k)
  BY <1>14, <1>b, <1>m, <1>h, BudgetTyped DEF FederationUp, RfedClientUp
<1>15. CASE Pages(k)
  BY <1>15, <1>b, <1>m DEF Pages
<1>16. CASE SiteUp(k)
  BY <1>16, <1>b, <1>m, <1>h, BudgetTyped DEF SiteUp
<1>17. CASE Rest(k)
  BY <1>17, <1>b, <1>m DEF Rest
<1> QED
  BY <1>1, <1>2, <1>3, <1>4, <1>5, <1>6, <1>7, <1>8, <1>9, <1>10, <1>11, <1>12, <1>13,
     <1>14, <1>15, <1>16, <1>17 DEF StartStep

LEMMA TaskTyped ==
  ASSUME LifecycleTypeOK, NEW k \in Sessions, TaskStep(k)
  PROVE  LifecycleTypeOK'
<1>m. ASSUME UNCHANGED meteredVars PROVE MeteredTypeOK'
  BY <1>m, MeteredPreserved DEF LifecycleTypeOK
<1>t. <<"retry", k>> \in Tasks \X Sessions /\ <<"rebuild", k>> \in Tasks \X Sessions
      /\ <<"rfed client", k>> \in Tasks \X Sessions
  BY DEF Tasks
<1> USE DEF LifecycleTypeOK, pluginVars, thingVars, localVars, serverVars, historyVars
<1>1. CASE RetryStarts(k)
  BY <1>1, <1>m, <1>t DEF RetryStarts
<1>2. CASE RetryEnds(k)
  BY <1>2, <1>m DEF RetryEnds
<1>3. CASE RebuildStarts(k)
  BY <1>3, <1>m, <1>t DEF RebuildStarts
<1>4. CASE RebuildEnds(k)
  BY <1>4, <1>m DEF RebuildEnds
<1>5. CASE RfedSelected(k)
  BY <1>5, <1>m, <1>t DEF RfedSelected
<1>6. CASE RfedSetUp(k)
  <2>1. RfedClient \cup If(Set(k, "receive"), {"rfed pulls"})
          \cup If(Set(k, "transmit"), {"rfed publisher"}) \subseteq Things
    BY DEF If, Things, RfedClient
  <2>2. live' \subseteq Things \X Sessions /\ unsubscribes' \subseteq Things \X Sessions
    BY <1>6, <2>1 DEF RfedSetUp, RfedClientUp, Created
  <2>3. handle' \in [Handles -> Sessions \cup {None}] /\ listed' \subseteq Sessions
    BY <1>6 DEF RfedSetUp, RfedClientUp, Holds, Handles
  <2>4. budget' \in [faults : Nat, flips : Nat, overtakes : Nat]
    BY <1>6, BudgetTyped DEF RfedSetUp, RfedClientUp
  <2> QED
    BY <1>6, <1>m, <2>2, <2>3, <2>4 DEF RfedSetUp
<1>7. CASE Throttle(k)
  <2>1. MeteredTypeOK'
    BY <1>7, MeteredPreserved DEF Throttle
  <2> QED
    BY <1>7, <2>1 DEF Throttle
<1>8. CASE PropagationSelected(k)
  <2>1. BroughtUp \subseteq Things
    BY DEF BroughtUp, If, Things
  <2> QED
    BY <1>8, <1>m, <2>1 DEF PropagationSelected
<1> QED
  BY <1>1, <1>2, <1>3, <1>4, <1>5, <1>6, <1>7, <1>8 DEF TaskStep

LEMMA LifecycleTypePreserved ==
  LifecycleTypeOK /\ [LifecycleNext]_lifecycleVars => LifecycleTypeOK'
<1> SUFFICES ASSUME LifecycleTypeOK, [LifecycleNext]_lifecycleVars PROVE LifecycleTypeOK'
  OBVIOUS
<1>m. ASSUME UNCHANGED meteredVars PROVE MeteredTypeOK'
  BY <1>m, MeteredPreserved DEF LifecycleTypeOK
<1>1. ASSUME NEW k \in Sessions, StartStep(k) PROVE LifecycleTypeOK'
  <2>1. CASE Begin(k)
    <3>1. {"stamper"} \subseteq Things /\ "identity" \in Sections
      BY DEF Things, Sections, Awaited
    <3>2. live' \subseteq Things \X Sessions /\ unsubscribes' \subseteq Things \X Sessions
      BY <2>1, <3>1 DEF Begin, Created, LifecycleTypeOK
    <3>3. at' \in [Sessions -> Sections] /\ running' \in Sessions \cup {None}
      BY <2>1, <3>1 DEF Begin, Awaits, LifecycleTypeOK
    <3>4. settings' \in [Sessions -> SUBSET Features]
      BY <2>1, SettingsAssumption DEF Begin, LifecycleTypeOK
    <3>5. handle' \in [Handles -> Sessions \cup {None}]
      BY <2>1 DEF Begin, LifecycleTypeOK
    <3> QED
      BY <1>m, <2>1, <3>2, <3>3, <3>4, <3>5 DEF Begin, LifecycleTypeOK, localVars, historyVars
  <2> QED
    BY <1>1, <2>1, StartTyped
<1>2. ASSUME NEW k \in Sessions, TaskStep(k) PROVE LifecycleTypeOK'
  BY <1>2, TaskTyped
<1> USE DEF LifecycleTypeOK, pluginVars, thingVars, localVars, serverVars, historyVars
<1>3. ASSUME NEW u \in Uplinks, NetworkState(u) PROVE LifecycleTypeOK'
  <2>1. MeteredTypeOK'
    BY <1>3, MeteredPreserved DEF NetworkState
  <2> QED
    BY <1>3, <2>1 DEF NetworkState
<1>4. CASE ClockTick
  <2>1. MeteredTypeOK'
    BY <1>4, MeteredPreserved DEF ClockTick
  <2> QED
    BY <1>4, <2>1 DEF ClockTick
<1>5. CASE Stop
  <2>1. MeteredTypeOK'
    BY <1>5, MeteredPreserved DEF Stop
  <2>2. AtWork \subseteq Sessions
    BY DEF AtWork
  <2> QED
    BY <1>5, <2>1, <2>2 DEF Stop, Cleared
<1>6. CASE Stopped
  BY <1>6, <1>m DEF Stopped, Cleared
<1>7. CASE UNCHANGED lifecycleVars
  BY <1>7, <1>m DEF lifecycleVars
<1> QED
  BY <1>1, <1>2, <1>3, <1>4, <1>5, <1>6, <1>7 DEF LifecycleNext

\* The life cycle's variables keep their types, for any settings and bounds.
THEOREM LifecycleTyped == LifecycleSpec => []LifecycleTypeOK
<1>1. LifecycleInit => LifecycleTypeOK
  BY LifecycleTypeInitial
<1>2. LifecycleTypeOK /\ [LifecycleNext]_lifecycleVars => LifecycleTypeOK'
  BY LifecycleTypePreserved
<1> QED
  BY <1>1, <1>2, PTL DEF LifecycleSpec
-----------------------------------------------------------------------------
(* Control, cancels, and stops that overtake nothing *)

LEMMA NoneOutside == None \notin Sessions
<1>1. \A k \in Sessions : k > 0
  BY SessionsAssumption DEF Sessions
<1> QED
  BY <1>1 DEF None

\* What goes on beside the starts moves none of them, nor the server.
LEMMA AsideMovesNothing ==
  ASSUME \/ \E k \in Sessions : TaskStep(k)
         \/ \E u \in Uplinks : NetworkState(u)
         \/ ClockTick
  PROVE  UNCHANGED <<at, running, server, session, settings, overtaken, lastOvertook>>
BY DEF TaskStep, RetryStarts, RetryEnds, RebuildStarts, RebuildEnds, RfedSelected, RfedSetUp,
       PropagationSelected, Throttle, NetworkState, ClockTick, serverVars, historyVars

LEMMA ControlPreserved ==
  LifecycleTypeOK /\ Control /\ [LifecycleNext]_lifecycleVars => Control'
<1> SUFFICES ASSUME LifecycleTypeOK, Control, [LifecycleNext]_lifecycleVars PROVE Control'
  OBVIOUS
<1>t. at \in [Sessions -> Sections] /\ None \notin Sessions /\ MaxSessions \in Nat
  BY NoneOutside, SessionsAssumption DEF LifecycleTypeOK
<1>s. \A k \in Sessions : k \in Nat /\ k <= MaxSessions
  BY <1>t DEF Sessions
<1>1. ASSUME NEW k \in Sessions, Begin(k) PROVE Control'
  <2>1. k = session + 1 /\ session' = k /\ running = None /\ running' = None
        /\ at' = [at EXCEPT ![k] = "identity"]
    BY <1>1 DEF Begin, Awaits
  <2>2. session' \in 0..MaxSessions /\ session' # None
    BY <1>s, <1>t, <2>1
  <2>3. ASSUME NEW j \in Sessions PROVE at'[j] = "new" <=> j > session'
    <3>1. at[j] = "new" <=> j > session
      BY DEF Control
    <3>2. session \in Nat
      BY <1>t DEF Control
    <3> QED
      BY <1>s, <1>t, <2>1, <3>1, <3>2
  <2>4. ASSUME NEW j \in Sessions PROVE at'[j] \in InHand <=> running' = j
    <3>1. "identity" \notin InHand
      BY DEF InHand, Awaited
    <3> QED
      BY <1>t, <2>1, <3>1 DEF Control
  <2> QED
    BY <2>2, <2>3, <2>4 DEF Control
<1>2. ASSUME NEW k \in Sessions, Advances(k) PROVE Control'
  <2>1. PICK s \in Sections \ {"new"} :
          at' = [at EXCEPT ![k] = s] /\ running' = IF s \in InHand THEN k ELSE None
    BY <1>2 DEF Advances
  <2>2. server' = server /\ session' = session /\ running \in {None, k} /\ at[k] # "new"
    BY <1>2, Sectioned DEF Advances, serverVars
  <2>3. ASSUME NEW j \in Sessions PROVE at'[j] \in InHand <=> running' = j
    BY <1>t, <2>1, <2>2 DEF Control
  <2>4. ASSUME NEW j \in Sessions PROVE at'[j] = "new" <=> j > session'
    BY <1>t, <2>1, <2>2 DEF Control
  <2> QED
    BY <2>2, <2>3, <2>4 DEF Control
<1>3. ASSUME UNCHANGED <<at, running, session>>, server' = server \/ server' # "on"
      PROVE  Control'
  BY <1>3 DEF Control
<1>4. CASE Stop
  BY <1>3, <1>4 DEF Stop, Cleared
<1>5. CASE Stopped
  BY <1>3, <1>5 DEF Stopped, Cleared
<1>6. CASE UNCHANGED lifecycleVars
  BY <1>3, <1>6 DEF lifecycleVars, serverVars
<1> QED
  BY <1>1, <1>2, <1>3, <1>4, <1>5, <1>6, StartAdvances, AsideMovesNothing DEF LifecycleNext

\* What steps do to the things that run, and to their cancels.
LEMMA RegisteredPreserved ==
  LifecycleTypeOK /\ Registered /\ [LifecycleNext]_lifecycleVars => Registered'
<1> SUFFICES ASSUME LifecycleTypeOK, Registered, [LifecycleNext]_lifecycleVars PROVE Registered'
  OBVIOUS
<1>1. ASSUME NEW k, NEW S, Created(k, S) PROVE Registered'
  BY <1>1 DEF Created, Registered
<1>2. ASSUME UNCHANGED thingVars PROVE Registered'
  BY <1>2 DEF thingVars, Registered
<1>3. ASSUME NEW k \in Sessions, Begin(k) PROVE Registered'
  BY <1>1, <1>3 DEF Begin
<1>4. ASSUME NEW k \in Sessions, Advances(k) PROVE Registered'
  BY <1>1, <1>4 DEF Advances
<1>5. ASSUME NEW k \in Sessions, TaskStep(k) PROVE Registered'
  <2>1. CASE RfedSelected(k)
    BY <2>1 DEF RfedSelected, Registered
  <2>2. CASE RfedSetUp(k)
    BY <1>1, <1>2, <2>2 DEF RfedSetUp, RfedClientUp
  <2>3. CASE PropagationSelected(k)
    BY <2>3 DEF PropagationSelected, Registered
  <2> QED
    BY <1>2, <1>5, <2>1, <2>2, <2>3
       DEF TaskStep, RetryStarts, RetryEnds, RebuildStarts, RebuildEnds, Throttle
<1>6. CASE Stop
  BY <1>6 DEF Stop, Cancelled, Registered
<1> QED
  BY <1>2, <1>3, <1>4, <1>5, <1>6, StartAdvances
     DEF LifecycleNext, NetworkState, ClockTick, Stopped, lifecycleVars

\* A stop that overtakes nothing ends all that runs but listeners; nothing wakes after it.
LEMMA QuietPreserved ==
  LifecycleTypeOK /\ Registered /\ Quiet /\ [LifecycleNext]_lifecycleVars => Quiet'
<1> SUFFICES ASSUME LifecycleTypeOK, Registered, Quiet, [LifecycleNext]_lifecycleVars
             PROVE  Quiet'
  OBVIOUS
<1>1. ASSUME UNCHANGED <<server, lastOvertook, running, at, tasks, live, handle, listed>>
      PROVE  Quiet'
  BY <1>1 DEF Quiet, AtWork
<1>2. ASSUME NEW k \in Sessions, at[k] \in Awaited \/ running = k
                                   \/ (\E x \in Tasks : <<x, k>> \in tasks)
                                   \/ \E x \in Things \ {"listener"} : <<x, k>> \in live,
             UNCHANGED <<server, lastOvertook>>
      PROVE  Quiet'
  <2> SUFFICES ASSUME server # "on", lastOvertook = {} PROVE FALSE
    BY <1>2 DEF Quiet
  <2>1. running = None /\ AtWork = {} /\ live \subseteq {"listener"} \X Sessions
    BY DEF Quiet
  <2>2. at[k] \notin Awaited /\ running # k
    BY <2>1, NoneOutside DEF AtWork
  <2>3. ASSUME NEW x \in Tasks, <<x, k>> \in tasks PROVE FALSE
    <3>1. <<x, k>>[2] = k
      OBVIOUS
    <3>2. k \in AtWork
      BY <2>3, <3>1 DEF AtWork
    <3> QED
      BY <2>1, <3>2
  <2>4. ASSUME NEW x \in Things \ {"listener"}, <<x, k>> \in live PROVE FALSE
    BY <2>1, <2>4
  <2> QED
    BY <1>2, <2>2, <2>3, <2>4
<1>3. ASSUME NEW k \in Sessions, Begin(k) PROVE Quiet'
  BY <1>3 DEF Begin, Quiet
<1>4. ASSUME NEW k \in Sessions, Advances(k) PROVE Quiet'
  BY <1>2, <1>4 DEF Advances, serverVars
<1>5. ASSUME NEW k \in Sessions, TaskStep(k) PROVE Quiet'
  <2>a. UNCHANGED <<server, lastOvertook>>
    BY <1>5, AsideMovesNothing
  <2>b. /\ Tasks = {"retry", "rebuild", "rfed client"}
        /\ {"interface retry", "watchdog", "rfed discovery", "propagation discovery"}
             \subseteq Things \ {"listener"}
    BY DEF Tasks, Things
  <2>1. CASE RetryStarts(k) \/ RebuildStarts(k) \/ RfedSelected(k) \/ PropagationSelected(k)
    BY <1>2, <2>a, <2>b, <2>1
       DEF RetryStarts, RebuildStarts, RfedSelected, PropagationSelected
  <2>2. CASE RetryEnds(k) \/ RebuildEnds(k) \/ RfedSetUp(k)
    BY <1>2, <2>a, <2>b, <2>2 DEF RetryEnds, RebuildEnds, RfedSetUp
  <2>3. CASE Throttle(k)
    BY <1>1, <2>a, <2>3 DEF Throttle, pluginVars, thingVars
  <2> QED
    BY <1>5, <2>1, <2>2, <2>3 DEF TaskStep
<1>6. CASE Stop
  <2>1. AtWork' = AtWork /\ running' = None /\ lastOvertook' = AtWork
    BY <1>6 DEF Stop, AtWork
  <2>2. live' \subseteq {"listener"} \X Sessions
    <3>1. \A t \in live' : t \in Things \X Sessions /\ t[1] = "listener"
      BY <1>6 DEF Stop, Cancelled, Registered, LifecycleTypeOK
    <3> QED
      BY <3>1
  <2>3. server' = "off" => handle' = [h \in Handles |-> None] /\ listed' = {}
    BY <1>6 DEF Stop, Cleared
  <2> QED
    BY <2>1, <2>2, <2>3 DEF Quiet
<1>7. CASE Stopped
  BY <1>7 DEF Stopped, Cleared, Quiet, AtWork, thingVars, historyVars
<1> QED
  BY <1>1, <1>3, <1>4, <1>5, <1>6, <1>7, StartAdvances, AsideMovesNothing
     DEF LifecycleNext, NetworkState, ClockTick, lifecycleVars, pluginVars, thingVars,
         serverVars, historyVars
-----------------------------------------------------------------------------
(* While no stop has overtaken anything *)

\* What a start's steps set, and what they leave alone.
LEMMA StartSets ==
  ASSUME LifecycleTypeOK, NEW k \in Sessions, StartStep(k), ~Begin(k)
  PROVE  /\ attached' \subseteq attached \cup {k}
         /\ \A h \in Handles :
              \/ handle'[h] = handle[h] \/ handle'[h] = k
              \/ h \in {"embeddedPropagation", "embeddedRfed"} /\ handle'[h] = None
         /\ <<"listener", k>> \in live' => <<"listener", k>> \in live \/ handle'["lxmf"] = k
         /\ UNCHANGED pending
<1> USE DEF LifecycleTypeOK, pluginVars, thingVars, meteredVars, Holds, Created, Handles
<1>1. CASE Identified(k)
  BY <1>1 DEF Identified
<1>2. CASE Compressed(k)
  BY <1>2 DEF Compressed
<1>3. CASE InterfacesUp(k)
  BY <1>3 DEF InterfacesUp
<1>4. CASE MessagingUp(k)
  BY <1>4 DEF MessagingUp, Messaging
<1>5. CASE EmbedPropagation(k)
  BY <1>5 DEF EmbedPropagation
<1>6. CASE PropagationNodeUp(k)
  BY <1>6 DEF PropagationNodeUp, NodeEnabled
<1>7. CASE EmbedRfed(k)
  BY <1>7 DEF EmbedRfed
<1>8. CASE RfedNodeUp(k)
  BY <1>8 DEF RfedNodeUp
<1>9. CASE Tapped(k)
  BY <1>9 DEF Tapped
<1>10. CASE StartPublisher(k)
  BY <1>10 DEF StartPublisher, If
<1>11. CASE Services(k)
  BY <1>11 DEF Services, Adopted, PropagationClient, BroughtUp, CrewServices, If
<1>12. CASE NoFederation(k)
  BY <1>12 DEF NoFederation
<1>13. CASE Federation(k)
  <2>1. UNCHANGED thingVars \/ Created(k, {"rfed discovery"})
    BY <1>13 DEF Federation
  <2>2. UNCHANGED <<attached, handle, pending>>
    BY <1>13 DEF Federation
  <2> QED
    BY <2>1, <2>2
<1>14. CASE FederationUp(k)
  BY <1>14 DEF FederationUp, RfedClientUp, RfedClient, If
<1>15. CASE Pages(k)
  BY <1>15 DEF Pages
<1>16. CASE SiteUp(k)
  BY <1>16 DEF SiteUp, Site
<1>17. CASE Rest(k)
  BY <1>17 DEF Rest, CrewForwards, InterfaceWatches, If
<1> QED
  BY <1>1, <1>2, <1>3, <1>4, <1>5, <1>6, <1>7, <1>8, <1>9, <1>10, <1>11, <1>12, <1>13,
     <1>14, <1>15, <1>16, <1>17 DEF StartStep

\* A session at work, or with something that runs, is the last one, and it is on.
LEMMA OnlyLast ==
  ASSUME Base, overtaken = {}, Ordered, NEW k \in Sessions,
         \/ at[k] \in Awaited \/ running = k
         \/ \E x : <<x, k>> \in tasks \/ <<x, k>> \in live
  PROVE  server = "on" /\ k = session
<1>1. ~(server # "on" /\ (at[k] \in Awaited \/ running = k))
  BY NoneOutside DEF Base, Quiet, AtWork
<1>2. ASSUME server # "on", NEW x, <<x, k>> \in tasks PROVE FALSE
  <2>1. AtWork = {}
    BY <1>2 DEF Base, Quiet
  <2>2. <<x, k>>[2] = k
    OBVIOUS
  <2>3. k \in AtWork
    BY <1>2, <2>2 DEF AtWork
  <2> QED
    BY <2>1, <2>3
<1>3. ASSUME server # "on", NEW x, <<x, k>> \in live PROVE FALSE
  BY <1>3 DEF Ordered, NothingLeft
<1>4. at[k] \in Awaited \/ running = k => k = session
  BY DEF Ordered, OwnedByLast, Base, Control
<1>5. ASSUME NEW x, <<x, k>> \in tasks \/ <<x, k>> \in live PROVE k = session
  <2>1. <<x, k>>[2] = session
    BY <1>5 DEF Ordered, OwnedByLast
  <2> QED
    BY <2>1
<1> QED
  BY <1>1, <1>2, <1>3, <1>4, <1>5

LEMMA AdvancesLast ==
  ASSUME Base, overtaken = {}, Ordered, NEW k \in Sessions, Advances(k)
  PROVE  server = "on" /\ k = session /\ server' = "on" /\ session' = k
<1>1. at[k] \in Awaited \/ running = k
  BY DEF Advances
<1>2. server = "on" /\ k = session
  BY <1>1, OnlyLast
<1> QED
  BY <1>2 DEF Advances, serverVars

\* A stop that overtakes nothing finds all at rest.
LEMMA AtRest ==
  ASSUME LifecycleTypeOK, Control, running = None, AtWork = {}
  PROVE  tasks = {} /\ \A k \in Sessions : at[k] \in {"new", "ended"}
<1>1. tasks = {}
  BY DEF AtWork
<1>2. ASSUME NEW k \in Sessions PROVE at[k] \in {"new", "ended"}
  <2>1. at[k] \notin Awaited
    BY DEF AtWork
  <2>2. at[k] \notin InHand
    BY NoneOutside DEF Control
  <2>3. at[k] \in Sections
    BY DEF LifecycleTypeOK
  <2> QED
    BY <2>1, <2>2, <2>3, Sectioned
<1> QED
  BY <1>1, <1>2

LEMMA BeginOrdered ==
  ASSUME Base, overtaken = {}, Ordered, NEW k \in Sessions, Begin(k)
  PROVE  Ordered'
<1>1. /\ running = None /\ AtWork = {} /\ handle = [h \in Handles |-> None]
      /\ live = {} /\ attached = {}
  BY DEF Begin, Base, Quiet, Ordered, NothingLeft
<1>2. tasks = {} /\ \A j \in Sessions : at[j] \in {"new", "ended"}
  BY <1>1, AtRest DEF Base
<1>3. /\ tasks' = {} /\ attached' = {} /\ server' = "on" /\ session' = k
      /\ live' = {<<"stamper", k>>} /\ live' \subseteq unsubscribes'
      /\ UNCHANGED pending
  BY <1>1, <1>2 DEF Begin, Created, meteredVars
<1>4. \A j \in Sessions : at'[j] = IF j = k THEN "identity" ELSE at[j]
  BY DEF Begin, Awaits, Base, LifecycleTypeOK
<1>5. \A h \in Handles : handle'[h] = None
  BY <1>1 DEF Begin
<1>6. OwnedByLast'
  <2>1. \A j \in Sessions : at'[j] \in Awaited \cup InHand => j = k
    BY <1>2, <1>4, Sectioned
  <2>2. \A t \in live' : t[2] = k
    BY <1>3
  <2> QED
    BY <1>3, <1>5, <2>1, <2>2 DEF OwnedByLast
<1>7. NodeFirst'
  <2>1. \A j \in Sessions : at'[j] \in {"new", "identity", "ended"}
    BY <1>2, <1>4
  <2>2. \A t \in live' : t[1] = "stamper"
    BY <1>3
  <2> QED
    BY <1>3, <2>1, <2>2 DEF NodeFirst
<1>8. NothingLeft'
  <2>1. \A j \in Sessions : pending[j] = Unarmed
    BY <1>1 DEF Ordered, NothingLeft
  <2>2. \A j \in Sessions : <<"listener", j>> \notin live'
    BY <1>3
  <2> QED
    BY <1>3, <2>1, <2>2 DEF NothingLeft
<1> QED
  BY <1>6, <1>7, <1>8 DEF Ordered

LEMMA StartOrdered ==
  ASSUME Base, overtaken = {}, Ordered, NEW k \in Sessions, StartStep(k), ~Begin(k)
  PROVE  Ordered'
<1>t. LifecycleTypeOK /\ at \in [Sessions -> Sections]
  BY DEF Base, LifecycleTypeOK
<1>1. Advances(k)
  BY StartAdvances
<1>2. server = "on" /\ k = session /\ server' = "on" /\ session' = k /\ tasks' = tasks
  BY <1>1, AdvancesLast DEF Advances
<1>3. /\ attached' \subseteq attached \cup {k}
      /\ \A h \in Handles :
              \/ handle'[h] = handle[h] \/ handle'[h] = k
              \/ h \in {"embeddedPropagation", "embeddedRfed"} /\ handle'[h] = None
      /\ <<"listener", k>> \in live' => <<"listener", k>> \in live \/ handle'["lxmf"] = k
      /\ UNCHANGED pending
  BY <1>t, StartSets
<1>4. PICK S \in SUBSET Things : Created(k, S)
  BY <1>1 DEF Advances
<1>5. \A j \in Sessions : j # k => at'[j] = at[j]
  BY <1>t, <1>1 DEF Advances
<1>6. OwnedByLast'
  <2>1. \A t \in live' : t[2] = k /\ t \in unsubscribes'
    BY <1>2, <1>4 DEF Created, Ordered, OwnedByLast
  <2>2. \A j \in Sessions : at'[j] \in Awaited \cup InHand => j = k
    BY <1>2, <1>5 DEF Ordered, OwnedByLast
  <2>3. \A h \in Handles : handle'[h] \in {None, k}
    BY <1>2, <1>3 DEF Ordered, OwnedByLast
  <2>4. attached' \subseteq {k} /\ \A t \in tasks' : t[2] = k
    BY <1>2, <1>3 DEF Ordered, OwnedByLast
  <2> QED
    BY <1>2, <2>1, <2>2, <2>3, <2>4 DEF OwnedByLast
<1>7. NodeFirst'
  <2>1. CASE handle["rns"] = session
    <3>1. handle'["rns"] = k
      BY <1>2, <1>3, <2>1 DEF Handles
    <3> QED
      BY <1>2, <3>1 DEF NodeFirst
  <2>2. CASE handle["rns"] # session
    <3>1. /\ attached = {} /\ tasks = {} /\ \A t \in live : t[1] = "stamper"
          /\ \A j \in Sessions : at[j] \in {"new", "identity", "ended"}
      BY <2>2 DEF Ordered, NodeFirst
    <3>2. at[k] = "identity"
      BY <1>1, <3>1, Sectioned DEF Advances
    <3>3. Identified(k)
      BY <3>2 DEF StartStep, Resumes, InControl, Compressed, InterfacesUp, MessagingUp,
         EmbedPropagation, PropagationNodeUp, EmbedRfed, RfedNodeUp, Tapped, StartPublisher,
         Services, NoFederation, Federation, FederationUp, Pages, SiteUp, Rest
    <3>4. CASE handle' = [handle EXCEPT !["identity"] = k, !["rns"] = k]
      <4>1. handle'["rns"] = k
        BY <1>t, <3>4 DEF LifecycleTypeOK, Handles
      <4> QED
        BY <1>2, <4>1 DEF NodeFirst
    <3>5. CASE Ends(k)
      <4>1. \A j \in Sessions : at'[j] \in {"new", "identity", "ended"}
        BY <1>t, <3>1, <3>5 DEF Ends, Awaits
      <4>2. UNCHANGED <<attached, tasks, live>>
        BY <3>3 DEF Identified, thingVars
      <4> QED
        BY <3>1, <4>1, <4>2 DEF NodeFirst
    <3> QED
      BY <3>3, <3>4, <3>5 DEF Identified
  <2> QED
    BY <2>1, <2>2
<1>8. NothingLeft'
  <2>1. \A j \in Sessions : pending'[j] # Unarmed => <<"tracker", j>> \in live'
    BY <1>3, <1>4 DEF Created, Ordered, NothingLeft
  <2>2. ASSUME NEW j \in Sessions, <<"listener", j>> \in live' PROVE handle'["lxmf"] = j
    <3>1. j = k
      <4>1. <<"listener", j>>[2] = k
        BY <1>2, <1>6, <2>2 DEF OwnedByLast
      <4> QED
        BY <4>1
    <3>2. <<"listener", k>> \in live => handle["lxmf"] = k
      BY DEF Ordered, NothingLeft
    <3>3. handle'["lxmf"] = handle["lxmf"] \/ handle'["lxmf"] = k
      BY <1>3 DEF Handles
    <3> QED
      BY <1>3, <2>2, <3>1, <3>2, <3>3
  <2> QED
    BY <1>2, <2>1, <2>2 DEF NothingLeft
<1> QED
  BY <1>6, <1>7, <1>8 DEF Ordered

\* The selection of a propagation node ends the search; with messaging, the client runs.
LEMMA SelectedRuns ==
  ASSUME NEW k, PropagationSelected(k)
  PROVE  /\ \A x : <<x, k>> \in live' <=>
                \/ <<x, k>> \in live /\ x # "propagation discovery"
                \/ x = "propagation client" /\ handle["lxmf"] # None
         /\ \A t \in live' :
              t \in live \/ (t[2] = k /\ t[1] = "propagation client" /\ t \in unsubscribes')
         /\ \A x, j : <<x, j>> \in live /\ x # "propagation discovery" => <<x, j>> \in live'
         /\ unsubscribes \subseteq unsubscribes'
BY DEF PropagationSelected, BroughtUp, If

LEMMA TaskOrdered ==
  ASSUME Base, overtaken = {}, Ordered, NEW k \in Sessions, TaskStep(k)
  PROVE  Ordered'
<1>t. LifecycleTypeOK
  BY DEF Base
<1>a. UNCHANGED <<at, running, server, session>>
  BY AsideMovesNothing
<1>1. ASSUME UNCHANGED <<pluginVars, thingVars, pending>>, server = "on" /\ k = session,
             handle["rns"] = session,
             attached' \subseteq attached \cup {k},
             \A t \in tasks' : t \in tasks \/ t[2] = k
      PROVE  Ordered'
  BY <1>1, <1>a DEF Ordered, OwnedByLast, NodeFirst, NothingLeft, pluginVars, thingVars
<1>2. ASSUME NEW x \in Things \ {"stamper"}, <<x, k>> \in live
      PROVE  server = "on" /\ k = session /\ handle["rns"] = session
  <2>1. <<x, k>>[1] # "stamper"
    BY <1>2
  <2> QED
    BY <1>2, <2>1, OnlyLast DEF Ordered, NodeFirst
<1>3. ASSUME NEW x, <<x, k>> \in tasks
      PROVE  server = "on" /\ k = session /\ handle["rns"] = session
  BY <1>3, OnlyLast DEF Ordered, NodeFirst
<1>e. \A x : <<x, k>>[2] = k
  OBVIOUS
<1>4. {"interface retry", "watchdog", "rfed discovery", "propagation discovery", "tracker"}
        \subseteq Things \ {"stamper"}
  BY DEF Things
<1>5. CASE RetryStarts(k)
  <2>1. <<"interface retry", k>> \in live /\ tasks' = tasks \cup {<<"retry", k>>}
        /\ UNCHANGED <<pluginVars, thingVars, pending, attached>>
    BY <1>5 DEF RetryStarts, meteredVars
  <2>2. server = "on" /\ k = session /\ handle["rns"] = session
    BY <1>2, <1>4, <2>1
  <2>3. \A t \in tasks' : t \in tasks \/ t[2] = k
    BY <1>e, <2>1
  <2> QED
    BY <1>1, <2>1, <2>2, <2>3
<1>6. CASE RetryEnds(k)
  <2>1. server = "on" /\ k = session /\ handle["rns"] = session
    BY <1>3, <1>6 DEF RetryEnds
  <2>2. UNCHANGED <<handle, thingVars, pending>> /\ tasks' \subseteq tasks
        /\ attached' \subseteq attached \cup {k}
    BY <1>6 DEF RetryEnds, meteredVars
  <2> QED
    BY <2>1, <2>2, <1>a DEF Ordered, OwnedByLast, NodeFirst, NothingLeft, thingVars
<1>7. CASE RebuildStarts(k)
  <2>1. /\ <<"watchdog", k>> \in live /\ tasks' = tasks \cup {<<"rebuild", k>>}
        /\ UNCHANGED <<pluginVars, thingVars, pending>> /\ attached' \subseteq attached \cup {k}
    BY <1>7 DEF RebuildStarts, meteredVars
  <2>2. server = "on" /\ k = session /\ handle["rns"] = session
    BY <1>2, <1>4, <2>1
  <2>3. \A t \in tasks' : t \in tasks \/ t[2] = k
    BY <1>e, <2>1
  <2> QED
    BY <1>1, <2>1, <2>2, <2>3
<1>8. CASE RebuildEnds(k)
  BY <1>1, <1>3, <1>8 DEF RebuildEnds, meteredVars
<1>9. CASE RfedSelected(k)
  <2>1. server = "on" /\ k = session /\ handle["rns"] = session
    BY <1>2, <1>4, <1>9 DEF RfedSelected
  <2>2. /\ live' = live \ {<<"rfed discovery", k>>} /\ tasks' = tasks \cup {<<"rfed client", k>>}
        /\ UNCHANGED <<handle, unsubscribes, attached, pending>>
    BY <1>9 DEF RfedSelected, meteredVars, pluginVars
  <2>3. OwnedByLast'
    <3>1. \A t \in tasks' : t[2] = session
      BY <1>e, <2>1, <2>2 DEF Ordered, OwnedByLast
    <3> QED
      BY <1>a, <2>1, <2>2, <3>1 DEF Ordered, OwnedByLast
  <2>4. \A j \in Sessions : <<"tracker", j>> \in live => <<"tracker", j>> \in live'
    BY <2>2
  <2>5. NothingLeft' /\ NodeFirst'
    BY <1>a, <2>1, <2>2, <2>4 DEF Ordered, NothingLeft, NodeFirst
  <2> QED
    BY <2>3, <2>5 DEF Ordered
<1>10. CASE RfedSetUp(k)
  <2>1. server = "on" /\ k = session /\ handle["rns"] = session
    BY <1>3, <1>10 DEF RfedSetUp
  <2>2. /\ UNCHANGED <<attached, pending>> /\ tasks' \subseteq tasks
        /\ \A h \in Handles : handle'[h] = handle[h] \/ (h = "rfed" /\ handle'[h] = k)
    BY <1>t, <1>10 DEF RfedSetUp, RfedClientUp, Holds, meteredVars, LifecycleTypeOK, pluginVars
  <2>3. PICK S \in SUBSET Things : Created(k, S) /\ "listener" \notin S
    <3>1. CASE UNCHANGED thingVars
      <4>1. Created(k, {})
        BY <3>1 DEF Created, thingVars
      <4> QED
        BY <4>1
    <3>2. RfedClient \cup If(Set(k, "receive"), {"rfed pulls"})
            \cup If(Set(k, "transmit"), {"rfed publisher"}) \subseteq Things \ {"listener"}
      BY DEF If, Things, RfedClient
    <3> QED
      BY <1>10, <3>1, <3>2 DEF RfedSetUp, RfedClientUp
  <2>4. handle'["rns"] = handle["rns"] /\ handle'["lxmf"] = handle["lxmf"]
    BY <2>2 DEF Handles
  <2>5. OwnedByLast'
    <3>1. \A t \in live' : t[2] = k /\ t \in unsubscribes'
      BY <2>1, <2>3 DEF Created, Ordered, OwnedByLast
    <3> QED
      BY <1>a, <2>1, <2>2, <3>1 DEF Ordered, OwnedByLast
  <2>6. NothingLeft'
    <3>1. \A j \in Sessions : <<"tracker", j>> \in live => <<"tracker", j>> \in live'
      BY <2>3 DEF Created
    <3>2. \A j \in Sessions : <<"listener", j>> \in live' => <<"listener", j>> \in live
      BY <2>3 DEF Created
    <3> QED
      BY <1>a, <2>1, <2>2, <2>4, <3>1, <3>2 DEF Ordered, NothingLeft
  <2> QED
    BY <1>a, <2>1, <2>4, <2>5, <2>6 DEF Ordered, NodeFirst
<1>11. CASE Throttle(k)
  <2>1. UNCHANGED <<handle, live, unsubscribes, attached, tasks>>
        /\ \A j \in Sessions : pending'[j] = pending[j] \/ pending'[j] = Unarmed
    BY <1>t, <1>11 DEF Throttle, Committed, pluginVars, thingVars, LifecycleTypeOK, MeteredTypeOK
  <2> QED
    BY <1>a, <2>1 DEF Ordered, OwnedByLast, NodeFirst, NothingLeft
<1>12. CASE PropagationSelected(k)
  <2>1. server = "on" /\ k = session /\ handle["rns"] = session
    BY <1>2, <1>4, <1>12 DEF PropagationSelected
  <2>2. UNCHANGED <<handle, attached, pending, tasks>>
    BY <1>12 DEF PropagationSelected, meteredVars, pluginVars
  <2>3. OwnedByLast'
    <3>1. \A t \in live' : t[2] = session /\ t \in unsubscribes'
      BY <1>12, <2>1, SelectedRuns DEF Ordered, OwnedByLast
    <3> QED
      BY <1>a, <2>2, <3>1 DEF Ordered, OwnedByLast
  <2>4. \A j \in Sessions : <<"tracker", j>> \in live => <<"tracker", j>> \in live'
    BY <1>12, SelectedRuns
  <2>5. \A j \in Sessions : <<"listener", j>> \in live' => <<"listener", j>> \in live
    <3>1. \A j : <<"listener", j>>[1] = "listener"
      OBVIOUS
    <3> QED
      BY <1>12, <3>1, SelectedRuns
  <2>6. NothingLeft' /\ NodeFirst'
    BY <1>a, <2>1, <2>2, <2>4, <2>5 DEF Ordered, NothingLeft, NodeFirst
  <2> QED
    BY <2>3, <2>6 DEF Ordered
<1> QED
  BY <1>5, <1>6, <1>7, <1>8, <1>9, <1>10, <1>11, <1>12 DEF TaskStep

LEMMA StopOrdered ==
  ASSUME Base, overtaken = {}, Ordered, Stop, overtaken' = {}
  PROVE  Ordered'
<1>1. server = "on" /\ running = None /\ AtWork = {} /\ session # None
  BY DEF Stop, Base, Control
<1>2. tasks = {} /\ \A j \in Sessions : at[j] \in {"new", "ended"}
  BY <1>1, AtRest DEF Base
<1>3. UNCHANGED <<at, running, session, tasks>>
  BY DEF Stop
<1>4. live' = {}
  <2>1. ASSUME NEW t \in live PROVE t \in Cancelled
    <3>1. t \in unsubscribes /\ t \in Things \X Sessions
      BY DEF Ordered, OwnedByLast, Base, LifecycleTypeOK
    <3>2. t[1] = "listener" => handle["lxmf"] = t[2]
      <4>1. t = <<t[1], t[2]>> /\ t[2] \in Sessions
        BY <3>1
      <4> QED
        BY <4>1 DEF Ordered, NothingLeft
    <3> QED
      BY <3>1, <3>2 DEF Cancelled
  <2> QED
    BY <2>1 DEF Stop
<1>5. attached' = {}
  <2>1. attached = {} \/ handle["rns"] = session
    BY DEF Ordered, NodeFirst
  <2> QED
    BY <2>1 DEF Stop, Ordered, OwnedByLast
<1>6. \A j \in Sessions : pending'[j] = Unarmed
  <2>1. ASSUME NEW j \in Sessions, pending[j] # Unarmed PROVE <<"tracker", j>> \in Cancelled
    <3>1. <<"tracker", j>> \in unsubscribes
      BY <2>1 DEF Ordered, NothingLeft, OwnedByLast
    <3> QED
      BY <3>1 DEF Cancelled
  <2>2. pending' = [j \in Sessions |->
                      IF j \in {k \in Sessions : <<"tracker", k>> \in Cancelled}
                      THEN Unarmed ELSE pending[j]]
    BY DEF Stop, Disposed
  <2> QED
    BY <2>1, <2>2
<1>7. /\ server' # "on" /\ \A h \in Handles : handle'[h] \in {None, session}
  BY DEF Stop, Cleared, pluginVars, Ordered, OwnedByLast
<1>8. OwnedByLast'
  BY <1>2, <1>3, <1>4, <1>5, <1>7, Sectioned DEF OwnedByLast
<1>9. NodeFirst'
  BY <1>2, <1>3, <1>4, <1>5 DEF NodeFirst
<1>10. NothingLeft'
  BY <1>4, <1>5, <1>6 DEF NothingLeft
<1> QED
  BY <1>8, <1>9, <1>10 DEF Ordered

LEMMA StoppedOrdered ==
  ASSUME Base, overtaken = {}, Ordered, Stopped
  PROVE  Ordered'
<1>1. running = None /\ AtWork = {} /\ live = {} /\ attached = {}
  BY DEF Stopped, Base, Quiet, Ordered, NothingLeft
<1>2. tasks = {} /\ \A j \in Sessions : at[j] \in {"new", "ended"}
  BY <1>1, AtRest DEF Base
<1>3. /\ UNCHANGED <<at, running, session, tasks, live, attached, pending, unsubscribes>>
      /\ \A h \in Handles : handle'[h] = None
  BY DEF Stopped, Cleared, thingVars, meteredVars
<1> QED
  BY <1>1, <1>2, <1>3, Sectioned DEF Ordered, OwnedByLast, NodeFirst, NothingLeft

LEMMA OrderedPreserved ==
  ASSUME Base, overtaken = {}, Ordered, [LifecycleNext]_lifecycleVars, overtaken' = {}
  PROVE  Ordered'
<1>t. LifecycleTypeOK
  BY DEF Base
<1>1. ASSUME UNCHANGED <<at, running, server, session, handle, live, unsubscribes, attached,
                         tasks>>,
             \A j \in Sessions : pending'[j] # Unarmed =>
                                   pending[j] # Unarmed \/ <<"tracker", j>> \in live
      PROVE  Ordered'
  BY <1>1 DEF Ordered, OwnedByLast, NodeFirst, NothingLeft
<1>2. ASSUME NEW u \in Uplinks, NetworkState(u) PROVE Ordered'
  BY <1>1, <1>2 DEF NetworkState, Published, pluginVars, thingVars, serverVars
<1>3. CASE ClockTick
  BY <1>1, <1>3 DEF ClockTick, Elapsed, pluginVars, thingVars, serverVars
<1>4. CASE UNCHANGED lifecycleVars
  BY <1>1, <1>4 DEF lifecycleVars, pluginVars, thingVars, serverVars, meteredVars
<1> QED
  BY <1>2, <1>3, <1>4, BeginOrdered, StartOrdered, TaskOrdered, StopOrdered, StoppedOrdered
     DEF LifecycleNext
-----------------------------------------------------------------------------
(* Who serves a role *)

\* Of the other sessions there is nothing that serves.
LEMMA OthersServe ==
  ASSUME Ordered', NEW j \in Sessions, j # session'
  PROVE  Serves(j)'
<1>1. \A x : <<x, j>> \notin live' /\ <<x, j>> \notin tasks'
  <2>1. \A x : <<x, j>>[2] = j
    OBVIOUS
  <2> QED
    BY <2>1 DEF Ordered, OwnedByLast
<1>2. \A h \in Handles : handle'[h] # j
  BY NoneOutside DEF Ordered, OwnedByLast
<1>3. at'[j] \notin AfterServices
  <2>1. AfterServices \subseteq Awaited \cup InHand
    BY DEF AfterServices, Awaited, InHand, Sections
  <2> QED
    BY <2>1 DEF Ordered, OwnedByLast
<1>4. "embeddedPropagation" \in Handles /\ "embeddedRfed" \in Handles
      /\ "rfed client" \in AfterServices
  BY DEF Handles, AfterServices
<1> QED
  BY <1>1, <1>2, <1>3, <1>4 DEF Serves

\* Nor is there anything that serves once the server has stopped the plugin.
LEMMA StoppedServes ==
  ASSUME Ordered', NEW j \in Sessions, server' # "on", tasks' = {}, at'[j] \in {"new", "ended"}
  PROVE  Serves(j)'
<1>1. live' = {}
  BY DEF Ordered, NothingLeft
<1>2. at'[j] # "rfed client" /\ at'[j] \notin AfterServices
  BY DEF AfterServices
<1> QED
  BY <1>1, <1>2 DEF Serves

LEMMA BeginServes ==
  ASSUME Base, overtaken = {}, Ordered, NEW k \in Sessions, Begin(k)
  PROVE  Serves(k)'
<1>1. /\ running = None /\ AtWork = {} /\ handle = [h \in Handles |-> None] /\ live = {}
  BY DEF Begin, Base, Quiet, Ordered, NothingLeft
<1>2. tasks' = {}
  BY <1>1, AtRest DEF Base, Begin
<1>3. \A x : <<x, k>> \in live' => x = "stamper"
  BY <1>1 DEF Begin, Created
<1>4. at'[k] = "identity"
  BY DEF Begin, Awaits, Base, LifecycleTypeOK
<1>5. handle'["embeddedPropagation"] = None /\ handle'["embeddedRfed"] = None
  BY <1>1 DEF Begin, Handles
<1> QED
  BY <1>2, <1>3, <1>4, <1>5, NoneOutside DEF Serves, AfterServices, RfedClient, CrewForwards

LEMMA CreatedRuns ==
  ASSUME NEW k, NEW S, Created(k, S)
  PROVE  \A x : <<x, k>> \in live' <=> <<x, k>> \in live \/ x \in S
BY DEF Created

LEMMA RfedClientRuns ==
  ASSUME NEW k \in Sessions, RfedClientUp(k)
  PROVE  \A x : <<x, k>> \in live' => \/ <<x, k>> \in live
                                     \/ x \in RfedClient \cup {"rfed pulls", "rfed publisher"}
<1>1. CASE UNCHANGED thingVars
  BY <1>1 DEF thingVars
<1>2. CASE Created(k, RfedClient \cup If(Set(k, "receive"), {"rfed pulls"})
                        \cup If(Set(k, "transmit"), {"rfed publisher"}))
  <2>1. RfedClient \cup If(Set(k, "receive"), {"rfed pulls"})
          \cup If(Set(k, "transmit"), {"rfed publisher"})
          \subseteq RfedClient \cup {"rfed pulls", "rfed publisher"}
    BY DEF If
  <2> QED
    BY <1>2, <2>1, CreatedRuns
<1> QED
  BY <1>1, <1>2 DEF RfedClientUp

LEMMA ServicesCreate ==
  ASSUME NEW k \in Sessions, Services(k)
  PROVE  /\ <<"propagation client", k>> \in live' => \/ <<"propagation client", k>> \in live
                                                     \/ /\ WantsPropagation(k)
                                                        /\ handle["lxmf"] # None
         /\ <<"propagation discovery", k>> \in live' => \/ <<"propagation discovery", k>> \in live
                                                        \/ WantsPropagation(k)
         /\ WantsPropagation(k) /\ handle["lxmf"] # None =>
              \E x \in {"propagation client", "propagation discovery"} : <<x, k>> \in live'
         /\ <<"tracker", k>> \in live'
         /\ \A x \in {"propagation node", "rfed node", "rfed discovery"} \cup RfedClient
                      \cup CrewForwards : <<x, k>> \in live' <=> <<x, k>> \in live
<1> DEFINE S == {"tracker", "status"} \cup PropagationClient(k) \cup CrewServices(k)
<1>1. \A x : <<x, k>> \in live' <=> <<x, k>> \in live \/ x \in S
  BY CreatedRuns DEF Services
<1>2. /\ "propagation client" \in S => WantsPropagation(k) /\ handle["lxmf"] # None
      /\ "propagation discovery" \in S => WantsPropagation(k)
      /\ WantsPropagation(k) /\ handle["lxmf"] # None =>
           "propagation client" \in S \/ "propagation discovery" \in S
  BY DEF PropagationClient, BroughtUp, CrewServices, If
<1>3. "tracker" \in S
  OBVIOUS
<1>4. \A x \in {"propagation node", "rfed node", "rfed discovery"} \cup RfedClient
              \cup CrewForwards : x \notin S
  BY DEF PropagationClient, BroughtUp, CrewServices, If, RfedClient, CrewForwards
<1> HIDE DEF S
<1> QED
  BY <1>1, <1>2, <1>3, <1>4

LEMMA StartServes ==
  ASSUME Base, overtaken = {}, Ordered, NEW k \in Sessions, StartStep(k), ~Begin(k), Serves(k)
  PROVE  Serves(k)'
<1>a. server' = "on" /\ server = "on" /\ tasks' = tasks /\ settings' = settings
  BY StartAdvances, AdvancesLast DEF Advances, serverVars
<1>t. at \in [Sessions -> Sections] /\ handle \in [Handles -> Sessions \cup {None}]
  BY DEF Base, LifecycleTypeOK
<1>n. k # None
  BY NoneOutside
<1> USE <1>a, <1>t, <1>n DEF Serves, Set, BeforeNode, BeforeRfed, BeforeServices, AfterServices,
      RfedClient, CrewForwards, Handles, Created, Holds, Goes, Awaits, Ends, Resumes, InControl,
      pluginVars, thingVars
<1>1. CASE Identified(k)
  BY <1>1 DEF Identified
<1>2. CASE Compressed(k)
  BY <1>2 DEF Compressed
<1>3. CASE InterfacesUp(k)
  BY <1>3 DEF InterfacesUp
<1>4. CASE MessagingUp(k)
  BY <1>4 DEF MessagingUp, Messaging
<1>5. CASE EmbedPropagation(k)
  BY <1>5 DEF EmbedPropagation
<1>6. CASE PropagationNodeUp(k)
  <2>1. at[k] = "propagation" /\ at'[k] = "embed rfed"
        /\ handle'["embeddedRfed"] = handle["embeddedRfed"]
    BY <1>6 DEF PropagationNodeUp
  <2>2. CASE Holds("embeddedPropagation", k) /\ Created(k, {"propagation node"})
    <3>1. \A x : <<x, k>> \in live' <=> <<x, k>> \in live \/ x = "propagation node"
      BY <2>2, CreatedRuns
    <3>2. handle'["embeddedPropagation"] = k
      BY <2>2
    <3> QED
      BY <2>1, <3>1, <3>2
  <2>3. CASE Holds("embeddedPropagation", None) /\ UNCHANGED thingVars
    BY <2>1, <2>3
  <2> QED
    BY <1>6, <2>2, <2>3 DEF PropagationNodeUp
<1>7. CASE EmbedRfed(k)
  BY <1>7 DEF EmbedRfed
<1>8. CASE RfedNodeUp(k)
  BY <1>8 DEF RfedNodeUp
<1>9. CASE Tapped(k)
  BY <1>9 DEF Tapped
<1>10. CASE StartPublisher(k)
  BY <1>10 DEF StartPublisher, If
<1>11. CASE Services(k)
  <2>1. at[k] = "services" /\ at'[k] = "federation" /\ UNCHANGED handle
    BY <1>11 DEF Services
  <2>2. WantsPropagation(k)
          <=> Set(k, "propagation client") /\ handle["embeddedPropagation"] = None
    BY DEF WantsPropagation
  <2>3. handle["embeddedPropagation"] \in {None, k}
    BY StartAdvances, AdvancesLast DEF Ordered, OwnedByLast
  <2>4. <<"propagation client", k>> \notin live /\ <<"propagation discovery", k>> \notin live
    BY <2>1
  <2> QED
    BY <1>11, <2>1, <2>2, <2>3, <2>4, ServicesCreate
<1>12. CASE NoFederation(k)
  BY <1>12 DEF NoFederation
<1>13. CASE Federation(k)
  <2>1. at[k] = "federation" /\ UNCHANGED handle /\ handle["embeddedRfed"] = None
    BY <1>13 DEF Federation, WantsRfed
  <2>2. CASE UNCHANGED thingVars /\ at'[k] \in {"ended", "rfed client"}
    BY <2>1, <2>2
  <2>3. CASE Created(k, {"rfed discovery"}) /\ at'[k] = "pages"
    <3>1. \A x : <<x, k>> \in live' <=> <<x, k>> \in live \/ x = "rfed discovery"
      BY <2>3, CreatedRuns
    <3> QED
      BY <2>1, <2>3, <3>1
  <2> QED
    BY <1>13, <2>2, <2>3 DEF Federation
<1>14. CASE FederationUp(k)
  <2>1. at[k] = "rfed client" /\ at'[k] = "pages"
        /\ handle'["embeddedPropagation"] = handle["embeddedPropagation"]
        /\ handle'["embeddedRfed"] = handle["embeddedRfed"]
        /\ handle'["lxmf"] = handle["lxmf"]
    BY <1>14 DEF FederationUp, RfedClientUp
  <2>2. \A x : <<x, k>> \in live => <<x, k>> \in live'
    BY <1>14 DEF FederationUp, RfedClientUp
  <2>3. \A x : <<x, k>> \in live' => \/ <<x, k>> \in live
                                     \/ x \in RfedClient \cup {"rfed pulls", "rfed publisher"}
    BY <1>14, RfedClientRuns DEF FederationUp
  <2>4. \A x \in {"propagation node", "rfed node", "rfed discovery", "propagation client",
                   "propagation discovery"} \cup CrewForwards :
          <<x, k>> \in live' <=> <<x, k>> \in live
    BY <2>2, <2>3
  <2>5. handle["embeddedRfed"] = None /\ <<"rfed node", k>> \notin live'
    <3>1. handle["embeddedRfed"] = None /\ <<"rfed node", k>> \notin live
      BY <2>1
    <3> QED
      BY <2>4, <3>1
  <2> QED
    BY <2>1, <2>4, <2>5
<1>15. CASE Pages(k)
  BY <1>15 DEF Pages
<1>16. CASE SiteUp(k)
  BY <1>16 DEF SiteUp, Site
<1>17. CASE Rest(k)
  BY <1>17 DEF Rest, InterfaceWatches, If
<1> QED
  BY <1>1, <1>2, <1>3, <1>4, <1>5, <1>6, <1>7, <1>8, <1>9, <1>10, <1>11, <1>12, <1>13,
     <1>14, <1>15, <1>16, <1>17 DEF StartStep

LEMMA TaskServes ==
  ASSUME Base, overtaken = {}, Ordered, NEW k \in Sessions, TaskStep(k), Serves(k)
  PROVE  Serves(k)'
<1>a. UNCHANGED <<at, server, settings>>
  BY AsideMovesNothing
<1>1. ASSUME UNCHANGED <<handle, live>>,
             <<"rfed client", k>> \in tasks' => <<"rfed client", k>> \in tasks
      PROVE  Serves(k)'
  BY <1>a, <1>1 DEF Serves, Set
<1>2. CASE RetryStarts(k)
  BY <1>1, <1>2 DEF RetryStarts, pluginVars, thingVars
<1>3. CASE RetryEnds(k)
  BY <1>1, <1>3 DEF RetryEnds, thingVars
<1>4. CASE RebuildStarts(k)
  BY <1>1, <1>4 DEF RebuildStarts, pluginVars, thingVars
<1>5. CASE RebuildEnds(k)
  BY <1>1, <1>5 DEF RebuildEnds, pluginVars, thingVars
<1>6. CASE RfedSelected(k)
  BY <1>a, <1>6 DEF RfedSelected, Serves, Set, pluginVars, CrewForwards
<1>7. CASE RfedSetUp(k)
  <2>1. /\ <<"rfed client", k>> \in tasks
        /\ handle'["embeddedPropagation"] = handle["embeddedPropagation"]
        /\ handle'["embeddedRfed"] = handle["embeddedRfed"]
        /\ handle'["lxmf"] = handle["lxmf"]
        /\ tasks' = tasks \ {<<"rfed client", k>>}
    BY <1>7 DEF RfedSetUp, RfedClientUp, Holds, pluginVars, Base, LifecycleTypeOK, Handles
  <2>2. \A x : <<x, k>> \in live => <<x, k>> \in live'
    BY <1>7 DEF RfedSetUp, RfedClientUp, Created, thingVars
  <2>3. \A x : <<x, k>> \in live' => \/ <<x, k>> \in live
                                     \/ x \in RfedClient \cup {"rfed pulls", "rfed publisher"}
    BY <1>7, RfedClientRuns DEF RfedSetUp
  <2>4. \A x \in {"propagation node", "rfed node", "rfed discovery", "propagation client",
                   "propagation discovery", "tracker"} \cup CrewForwards :
          <<x, k>> \in live' <=> <<x, k>> \in live
    BY <2>2, <2>3 DEF RfedClient, CrewForwards
  <2>5. handle["embeddedRfed"] = None /\ <<"rfed node", k>> \notin live'
    BY <2>1, <2>4, NoneOutside DEF Serves
  <2>6. at[k] \notin BeforeServices
    BY <2>1 DEF Serves
  <2> QED
    BY <1>a, <2>1, <2>4, <2>5, <2>6 DEF Serves, Set, RfedClient, CrewForwards
<1>8. CASE Throttle(k)
  BY <1>1, <1>8 DEF Throttle, pluginVars, thingVars
<1>9. CASE PropagationSelected(k)
  <2>1. <<"propagation discovery", k>> \in live /\ UNCHANGED <<handle, tasks>>
    BY <1>9 DEF PropagationSelected, pluginVars
  <2>2. handle["embeddedPropagation"] = None /\ at[k] \notin BeforeServices
    BY <2>1 DEF Serves
  <2>3. \A x : <<x, k>> \in live' <=>
                \/ <<x, k>> \in live /\ x # "propagation discovery"
                \/ x = "propagation client" /\ handle["lxmf"] # None
    BY <1>9, SelectedRuns
  <2>4. \A x \in {"propagation node", "rfed node", "rfed discovery", "tracker"} \cup RfedClient
                 \cup CrewForwards : <<x, k>> \in live' <=> <<x, k>> \in live
    BY <2>3 DEF RfedClient, CrewForwards
  <2>5. /\ <<"propagation discovery", k>> \notin live'
        /\ <<"propagation client", k>> \in live' => handle["lxmf"] # None
        /\ handle["lxmf"] # None => <<"propagation client", k>> \in live'
    <3>1. <<"propagation client", k>> \in live => handle["lxmf"] # None
      BY DEF Serves
    <3>2. <<"propagation discovery", k>> \notin live'
      BY <1>9, "propagation discovery" # "propagation client" DEF PropagationSelected, BroughtUp, If
    <3>3. <<"propagation client", k>> \in live' <=>
            <<"propagation client", k>> \in live \/ handle["lxmf"] # None
      BY <2>3
    <3> QED
      BY <3>1, <3>2, <3>3
  <2> QED
    BY <1>a, <2>1, <2>2, <2>4, <2>5 DEF Serves, Set, RfedClient
<1> QED
  BY <1>2, <1>3, <1>4, <1>5, <1>6, <1>7, <1>8, <1>9 DEF TaskStep

LEMMA ServesPreserved ==
  ASSUME Base, overtaken = {}, Ordered, [LifecycleNext]_lifecycleVars, overtaken' = {},
         \A k \in Sessions : Serves(k)
  PROVE  \A k \in Sessions : Serves(k)'
<1>o. Ordered'
  BY OrderedPreserved
<1>1. ASSUME NEW k \in Sessions, StartStep(k) PROVE session' = k /\ Serves(k)'
  <2>1. CASE Begin(k)
    BY <2>1, BeginServes DEF Begin
  <2>2. CASE ~Begin(k)
    BY <1>1, <2>2, StartAdvances, AdvancesLast, StartServes
  <2> QED
    BY <2>1, <2>2
<1>2. ASSUME NEW k \in Sessions, TaskStep(k), NEW j \in Sessions PROVE Serves(j)'
  <2>1. CASE j = k
    BY <1>2, <2>1, TaskServes
  <2>2. CASE j # k /\ j = session
    <3>1. Throttle(k)
      <4>1. ~\E x : <<x, k>> \in tasks \/ <<x, k>> \in live
        BY <2>2, OnlyLast
      <4> QED
        BY <1>2, <4>1 DEF TaskStep, RetryStarts, RetryEnds, RebuildStarts, RebuildEnds,
           RfedSelected, RfedSetUp, PropagationSelected
    <3> QED
      BY <3>1 DEF Throttle, Serves, Set, pluginVars, thingVars, serverVars
  <2>3. CASE j # session
    BY <1>2, <1>o, <2>3, AsideMovesNothing, OthersServe
  <2> QED
    BY <2>1, <2>2, <2>3
<1>3. ASSUME UNCHANGED <<at, server, settings, handle, live, tasks>>
      PROVE  \A k \in Sessions : Serves(k)'
  BY <1>3 DEF Serves, Set
<1>4. CASE Stop \/ Stopped
  <2>1. AtWork = {} /\ running = None /\ server' # "on"
    BY <1>4 DEF Stop, Stopped, Cleared, Base, Quiet
  <2>2. tasks' = {} /\ \A k \in Sessions : at'[k] \in {"new", "ended"}
    BY <1>4, <2>1, AtRest DEF Stop, Stopped, Base
  <2> QED
    BY <1>o, <2>1, <2>2, StoppedServes
<1>5. CASE \E u \in Uplinks : NetworkState(u)
  BY <1>3, <1>5 DEF NetworkState, pluginVars, thingVars, serverVars
<1>6. CASE ClockTick
  BY <1>3, <1>6 DEF ClockTick, pluginVars, thingVars, serverVars
<1>7. CASE UNCHANGED lifecycleVars
  BY <1>3, <1>7 DEF lifecycleVars, pluginVars, thingVars, serverVars
<1> QED
  BY <1>o, <1>1, <1>2, <1>4, <1>5, <1>6, <1>7, OthersServe DEF LifecycleNext
-----------------------------------------------------------------------------
(* Uplink, tracker and filter *)

\* Most steps of a start leave trackers, filters and routers alone.
LEMMA StartFrame ==
  ASSUME Base, NEW k \in Sessions, StartStep(k),
         ~Begin(k), ~MessagingUp(k), ~EmbedPropagation(k), ~PropagationNodeUp(k), ~Services(k)
  PROVE  /\ UNCHANGED <<meteredVars, skewed, initial, router>>
         /\ handle'["lxmf"] = handle["lxmf"]
         /\ \A x \in {"tracker", "propagation node"} : <<x, k>> \in live' <=> <<x, k>> \in live
         /\ at'[k] \in BeforeNode => at[k] \in BeforeNode
         /\ at'[k] # "propagation"
<1>t. at \in [Sessions -> Sections] /\ handle \in [Handles -> Sessions \cup {None}]
  BY DEF Base, LifecycleTypeOK
<1> USE <1>t DEF BeforeNode, Handles, Created, Holds, Goes, Awaits, Ends, Resumes, InControl,
      pluginVars, thingVars, localVars, historyVars
<1>1. CASE Identified(k)
  BY <1>1 DEF Identified
<1>2. CASE Compressed(k)
  BY <1>2 DEF Compressed
<1>3. CASE InterfacesUp(k)
  BY <1>3 DEF InterfacesUp
<1>7. CASE EmbedRfed(k)
  BY <1>7 DEF EmbedRfed
<1>8. CASE RfedNodeUp(k)
  BY <1>8 DEF RfedNodeUp
<1>9. CASE Tapped(k)
  BY <1>9 DEF Tapped
<1>10. CASE StartPublisher(k)
  BY <1>10 DEF StartPublisher, If
<1>12. CASE NoFederation(k)
  BY <1>12 DEF NoFederation
<1>13. CASE Federation(k)
  <2>1. UNCHANGED thingVars \/ Created(k, {"rfed discovery"})
    BY <1>13 DEF Federation
  <2>2. UNCHANGED <<meteredVars, handle, skewed, initial, router>>
    BY <1>13 DEF Federation
  <2>3. at'[k] \in {"ended", "rfed client", "pages"}
    BY <1>13 DEF Federation
  <2> QED
    BY <2>1, <2>2, <2>3
<1>14. CASE FederationUp(k)
  <2>1. \A x \in {"tracker", "propagation node"} : <<x, k>> \in live' <=> <<x, k>> \in live
    <3>1. \A x : <<x, k>> \in live => <<x, k>> \in live'
      BY <1>14 DEF FederationUp, RfedClientUp
    <3> QED
      BY <1>14, <3>1, RfedClientRuns DEF FederationUp, RfedClient
  <2> QED
    BY <1>14, <2>1 DEF FederationUp, RfedClientUp
<1>15. CASE Pages(k)
  BY <1>15 DEF Pages
<1>16. CASE SiteUp(k)
  BY <1>16 DEF SiteUp, Site
<1>17. CASE Rest(k)
  BY <1>17 DEF Rest, InterfaceWatches, If, CrewForwards
<1> QED
  BY <1>1, <1>2, <1>3, <1>7, <1>8, <1>9, <1>10, <1>12, <1>13, <1>14, <1>15, <1>16, <1>17
     DEF StartStep

\* A step of a start keeps its session's tracker and filter in step.
LEMMA StartInStep ==
  ASSUME Base, overtaken = {}, Ordered, NEW k \in Sessions, StartStep(k), ~Begin(k),
         Serves(k), Tracks(k), Throttled(k), Routed(k)
  PROVE  /\ Tracks(k)' /\ Throttled(k)' /\ Routed(k)'
         /\ \A j \in Sessions : j # k => filter'[j] = filter[j]
<1>t. /\ at \in [Sessions -> Sections] /\ handle \in [Handles -> Sessions \cup {None}]
      /\ initial \in [Sessions -> Uplinks] /\ filter \in [Sessions -> Uplinks \cup {"no node"}]
      /\ committed \in [Sessions -> Uplinks \cup {"unknown"}] /\ uplink \in Uplinks
      /\ router \in [Sessions -> Sessions \cup {None}]
  BY DEF Base, LifecycleTypeOK, MeteredTypeOK
<1>k. k = session /\ k # None
  BY StartAdvances, AdvancesLast, NoneOutside
<1>1. CASE ~MessagingUp(k) /\ ~EmbedPropagation(k) /\ ~PropagationNodeUp(k) /\ ~Services(k)
  BY <1>1, StartFrame DEF Tracks, Throttled, Routed, meteredVars
<1>2. CASE MessagingUp(k)
  <2>1. /\ at[k] = "messaging" /\ at'[k] = "embed propagation" /\ UNCHANGED meteredVars
        /\ \A x \in {"tracker", "propagation node"} : <<x, k>> \in live' <=> <<x, k>> \in live
    BY <1>2, <1>t DEF MessagingUp, Messaging, Resumes, Goes, Created, thingVars
  <2>2. <<"propagation node", k>> \notin live' /\ <<"tracker", k>> \notin live'
        /\ filter'[k] = "no node"
    BY <2>1 DEF Serves, Routed, BeforeNode, BeforeRfed, BeforeServices, meteredVars
  <2> QED
    BY <2>1, <2>2 DEF Tracks, Throttled, Routed, meteredVars
<1>3. CASE EmbedPropagation(k)
  <2>1. /\ at[k] = "embed propagation" /\ at'[k] \in {"propagation", "embed rfed"}
        /\ UNCHANGED <<meteredVars, handle, live>>
        /\ at'[k] = "propagation" => router'[k] = handle["lxmf"] /\ handle["lxmf"] # None
    BY <1>3, <1>t DEF EmbedPropagation, InControl, Goes, Awaits, pluginVars, thingVars
  <2>2. <<"propagation node", k>> \notin live' /\ <<"tracker", k>> \notin live'
        /\ filter'[k] = "no node"
    BY <2>1 DEF Serves, Routed, BeforeNode, BeforeRfed, BeforeServices, meteredVars
  <2>3. handle["lxmf"] \in {None, k}
    BY <1>k DEF Ordered, OwnedByLast, Handles
  <2> QED
    BY <2>1, <2>2, <2>3 DEF Tracks, Throttled, Routed, meteredVars
<1>4. CASE PropagationNodeUp(k)
  <2>1. /\ at[k] = "propagation" /\ at'[k] = "embed rfed" /\ handle'["lxmf"] = handle["lxmf"]
        /\ UNCHANGED <<initial, router, uplink, held, committed, pending, skewed>>
    BY <1>4, <1>t DEF PropagationNodeUp, NodeEnabled, Resumes, Goes, Holds, Handles, localVars,
       historyVars, meteredVars
  <2>2. router[k] = k /\ handle["lxmf"] = k
    BY <2>1 DEF Routed
  <2>3. <<"propagation node", k>> \notin live /\ <<"tracker", k>> \notin live
    BY <2>1 DEF Serves, BeforeNode, BeforeRfed, BeforeServices
  <2>4. <<"tracker", k>> \notin live'
    <3>1. UNCHANGED thingVars \/ Created(k, {"propagation node"})
      BY <1>4 DEF PropagationNodeUp
    <3>2. CASE UNCHANGED thingVars
      BY <2>3, <3>2 DEF thingVars
    <3>3. CASE Created(k, {"propagation node"})
      <4>1. \A x : <<x, k>> \in live' <=> <<x, k>> \in live \/ x = "propagation node"
        BY <3>3 DEF Created
      <4> QED
        BY <2>3, <4>1
    <3> QED
      BY <3>1, <3>2, <3>3
  <2>5. at'[k] \notin BeforeNode /\ at'[k] # "propagation"
    BY <2>1 DEF BeforeNode
  <2>6. CASE NodeEnabled(router[k], initial[k])
    BY <1>t, <2>1, <2>2, <2>4, <2>5, <2>6 DEF NodeEnabled, Tracks, Throttled, Routed
  <2>7. CASE UNCHANGED <<meteredVars, thingVars>>
    BY <2>3, <2>5, <2>7 DEF Tracks, Throttled, Routed, meteredVars, thingVars
  <2> QED
    BY <1>4, <2>6, <2>7 DEF PropagationNodeUp
<1>5. CASE Services(k)
  <2>1. /\ at[k] = "services" /\ at'[k] = "federation" /\ Adopted(k)
        /\ UNCHANGED <<handle, initial>>
        /\ skewed' = IF uplink = initial[k] THEN skewed ELSE skewed \cup {k}
    BY <1>5, <1>t DEF Services, InControl, Goes, pluginVars, localVars
  <2>2. <<"tracker", k>> \notin live
    BY <2>1 DEF Serves, BeforeServices
  <2>3. pending[k] = Unarmed
    BY <2>2 DEF Ordered, NothingLeft
  <2>4. /\ <<"tracker", k>> \in live'
        /\ <<"propagation node", k>> \in live' => <<"propagation node", k>> \in live
    BY <1>5, ServicesCreate
  <2>5. committed'[k] = uplink /\ UNCHANGED <<uplink, held, pending, filter>>
    BY <1>t, <2>1 DEF Adopted
  <2>6. Tracks(k)'
    BY <1>t, <2>3, <2>5 DEF Tracks
  <2>7. Throttled(k)'
    <3>1. ASSUME <<"propagation node", k>> \in live
          PROVE  handle["lxmf"] = k /\ filter[k] = initial[k] /\ filter[k] \in Uplinks
      BY <2>2, <3>1 DEF Throttled
    <3>2. k \notin skewed' => uplink = initial[k]
      BY <2>1
    <3>3. filter'[k] = filter[k] /\ handle'["lxmf"] = handle["lxmf"]
      BY <2>1, <2>5
    <3> QED
      BY <2>4, <2>5, <3>1, <3>2, <3>3 DEF Throttled
  <2>8. Routed(k)'
    BY <2>1 DEF Routed, BeforeNode
  <2> QED
    BY <2>5, <2>6, <2>7, <2>8
<1> QED
  BY <1>1, <1>2, <1>3, <1>4, <1>5

\* A tracker that commits has seen the uplink hold for the grace time, and commits to it.
LEMMA CommitFollows ==
  ASSUME Base, overtaken = {}, Ordered, NEW k \in Sessions, Tracks(k), Throttle(k)
  PROVE  /\ <<"tracker", k>> \in live /\ held = Grace /\ committed[k] # uplink
         /\ committed[k] \in Uplinks /\ Other(committed[k]) = uplink
<1>1. pending[k] = 0 /\ uplink \in Uplinks
  BY DEF Throttle, Committed, Base, LifecycleTypeOK, MeteredTypeOK
<1>2. <<"tracker", k>> \in live
  BY <1>1 DEF Ordered, NothingLeft, Unarmed
<1>3. committed[k] \in Uplinks /\ committed[k] # uplink /\ pending[k] + held = Grace
  BY <1>1, <1>2 DEF Tracks, Unarmed
<1>4. held = Grace
  <2>1. held \in 0..(Grace + 1) /\ Grace \in Nat
    BY GraceAssumption DEF Base, LifecycleTypeOK, MeteredTypeOK
  <2> QED
    BY <1>1, <1>3, <2>1
<1>5. Other(committed[k]) = uplink
  BY <1>1, <1>3 DEF Other, Uplinks
<1> QED
  BY <1>2, <1>3, <1>4, <1>5

\* Trackers that observe the uplink stay in step with it, and with the time it has held.
LEMMA ObservedTracks ==
  ASSUME Base, NEW k \in Sessions, NEW u \in Uplinks, Tracks(k), UNCHANGED live,
         Published({j \in Sessions : <<"tracker", j>> \in live}, u)
  PROVE  Tracks(k)'
<1> SUFFICES ASSUME <<"tracker", k>> \in live PROVE Tracks(k)'
  BY DEF Tracks
<1>1. /\ committed[k] \in Uplinks /\ uplink \in Uplinks /\ held \in 0..(Grace + 1)
      /\ Grace \in Nat /\ Unarmed = -1
  BY GraceAssumption DEF Tracks, Base, LifecycleTypeOK, MeteredTypeOK, Unarmed
<1>2. /\ uplink' = u /\ committed' = committed
      /\ held' = (IF u = uplink THEN held ELSE 0) /\ pending'[k] = Timer(k, u)
  BY DEF Published
<1>3. CASE committed[k] = u
  BY <1>1, <1>2, <1>3 DEF Tracks, Timer
<1>4. CASE committed[k] # u /\ u = uplink
  BY <1>1, <1>2, <1>4 DEF Tracks, Timer
<1>5. CASE committed[k] # u /\ u # uplink
  <2>1. committed[k] = uplink
    BY <1>1, <1>5 DEF Uplinks
  <2>2. pending'[k] = Grace /\ held' = 0
    BY <1>2, <1>5, <2>1 DEF Tracks, Timer
  <2>3. pending'[k] + held' = Grace /\ pending'[k] # Unarmed
    BY <1>1, <2>2
  <2> QED
    BY <1>1, <1>2, <1>5, <2>3 DEF Tracks
<1> QED
  BY <1>3, <1>4, <1>5

LEMMA ElapsedTracks ==
  ASSUME Base, NEW k \in Sessions, Tracks(k), UNCHANGED live, Elapsed
  PROVE  Tracks(k)'
<1> SUFFICES ASSUME <<"tracker", k>> \in live PROVE Tracks(k)'
  BY DEF Tracks
<1>1. /\ held \in 0..(Grace + 1) /\ Grace \in Nat /\ Unarmed = -1
      /\ pending[k] \in 0..Grace \cup {Unarmed} /\ committed[k] \in Uplinks
  BY GraceAssumption DEF Tracks, Base, LifecycleTypeOK, MeteredTypeOK, Unarmed
<1>2. /\ uplink' = uplink /\ committed' = committed /\ pending[k] # 0
      /\ held' = (IF held > Grace THEN held ELSE held + 1)
      /\ pending'[k] = IF pending[k] = Unarmed THEN Unarmed ELSE pending[k] - 1
  BY DEF Elapsed
<1>3. CASE committed[k] = uplink
  BY <1>1, <1>2, <1>3 DEF Tracks
<1>4. CASE committed[k] # uplink
  <2>1. pending[k] # Unarmed /\ pending[k] + held = Grace
    BY <1>4 DEF Tracks
  <2>2. pending'[k] = pending[k] - 1 /\ held' = held + 1
    BY <1>1, <1>2, <2>1
  <2>3. pending'[k] # Unarmed /\ pending'[k] + held' = Grace
    BY <1>1, <1>2, <2>1, <2>2
  <2> QED
    BY <1>1, <1>2, <1>4, <2>3 DEF Tracks
<1> QED
  BY <1>3, <1>4

\* Of the other sessions no tracker and no node runs, and no router is used.
LEMMA OthersInStep ==
  ASSUME Ordered', NEW j \in Sessions, j # session',
         at'[j] \in BeforeNode => filter'[j] = "no node"
  PROVE  Tracks(j)' /\ Throttled(j)' /\ Routed(j)'
<1>1. \A x : <<x, j>> \notin live'
  <2>1. \A x : <<x, j>>[2] = j
    OBVIOUS
  <2> QED
    BY <2>1 DEF Ordered, OwnedByLast
<1>2. at'[j] # "propagation"
  BY DEF Ordered, OwnedByLast, Awaited
<1> QED
  BY <1>1, <1>2 DEF Tracks, Throttled, Routed

LEMMA InStepPreserved ==
  ASSUME Base, overtaken = {}, Ordered, [LifecycleNext]_lifecycleVars, overtaken' = {},
         \A k \in Sessions : Serves(k) /\ Tracks(k) /\ Throttled(k) /\ Routed(k)
  PROVE  \A k \in Sessions : Tracks(k)' /\ Throttled(k)' /\ Routed(k)'
<1>t. /\ at \in [Sessions -> Sections]
      /\ filter \in [Sessions -> Uplinks \cup {"no node"}]
  BY DEF Base, LifecycleTypeOK, MeteredTypeOK
<1>o. Ordered'
  BY OrderedPreserved
<1>1. ASSUME NEW k \in Sessions, Begin(k), NEW j \in Sessions
      PROVE  Tracks(j)' /\ Throttled(j)' /\ Routed(j)'
  <2>1. at' = [at EXCEPT ![k] = "identity"] /\ UNCHANGED meteredVars /\ session' = k
        /\ k = session + 1 /\ live' = live \cup ({"stamper"} \X {k})
    BY <1>1 DEF Begin, Awaits, Created
  <2>2. at[k] = "new"
    <3>1. session \in Nat /\ k > session
      BY <2>1, SessionsAssumption DEF Base, Control
    <3> QED
      BY <3>1 DEF Base, Control
  <2>3. at'[j] \in BeforeNode => filter'[j] = "no node"
    BY <1>t, <2>1, <2>2 DEF Routed, BeforeNode, meteredVars
  <2>4. CASE j = k
    <3>1. live = {}
      BY <1>1 DEF Begin, Ordered, NothingLeft
    <3>2. <<"tracker", k>> \notin live' /\ <<"propagation node", k>> \notin live'
      BY <2>1, <3>1
    <3> QED
      BY <1>t, <2>1, <2>3, <2>4, <3>2 DEF Tracks, Throttled, Routed
  <2> QED
    BY <1>o, <2>1, <2>3, <2>4, OthersInStep
<1>2. ASSUME NEW k \in Sessions, StartStep(k), ~Begin(k), NEW j \in Sessions
      PROVE  Tracks(j)' /\ Throttled(j)' /\ Routed(j)'
  <2>1. Advances(k) /\ session' = k
    BY <1>2, StartAdvances, AdvancesLast
  <2>2. CASE j = k
    BY <1>2, <2>2, StartInStep
  <2>3. CASE j # k
    <3>1. at'[j] = at[j]
      BY <1>t, <2>1, <2>3 DEF Advances
    <3>2. filter'[j] = filter[j]
      BY <1>2, <2>3, StartInStep
    <3> QED
      BY <1>o, <2>1, <2>3, <3>1, <3>2, OthersInStep DEF Routed
  <2> QED
    BY <2>2, <2>3
<1>3. ASSUME UNCHANGED <<at, handle, router, initial, filter, skewed>>, NEW j \in Sessions,
             \A x \in {"tracker", "propagation node"} : <<x, j>> \in live' => <<x, j>> \in live,
             <<"tracker", j>> \in live => <<"tracker", j>> \in live',
             \/ UNCHANGED <<uplink, held, committed, pending>>
             \/ Tracks(j)' /\ UNCHANGED committed
      PROVE  Tracks(j)' /\ Throttled(j)' /\ Routed(j)'
  BY <1>3 DEF Tracks, Throttled, Routed
<1>4. ASSUME NEW k \in Sessions, TaskStep(k), ~Throttle(k), NEW j \in Sessions
      PROVE  Tracks(j)' /\ Throttled(j)' /\ Routed(j)'
  <2>1. UNCHANGED <<at, session>>
    BY <1>4, AsideMovesNothing
  <2>2. UNCHANGED <<router, initial, skewed, meteredVars>> /\ handle'["lxmf"] = handle["lxmf"]
    BY <1>4 DEF TaskStep, RetryStarts, RetryEnds, RebuildStarts, RebuildEnds, RfedSelected,
       RfedSetUp, RfedClientUp, PropagationSelected, Holds, localVars, historyVars, pluginVars, Base,
       LifecycleTypeOK, Handles
  <2>3. CASE j # session
    BY <1>o, <1>t, <2>1, <2>2, <2>3, OthersInStep DEF Routed, meteredVars
  <2>4. CASE j = session
    <3>1. j = k
      <4>1. \E x : <<x, k>> \in tasks \/ <<x, k>> \in live
        BY <1>4 DEF TaskStep, RetryStarts, RetryEnds, RebuildStarts, RebuildEnds,
           RfedSelected, RfedSetUp, PropagationSelected
      <4> QED
        BY <2>4, <4>1, OnlyLast
    <3>2. \A x \in {"tracker", "propagation node"} : <<x, k>> \in live' <=> <<x, k>> \in live
      <4>1. CASE RfedSetUp(k)
        <5>1. \A x : <<x, k>> \in live => <<x, k>> \in live'
          BY <4>1 DEF RfedSetUp, RfedClientUp, Created, thingVars
        <5> QED
          BY <4>1, <5>1, RfedClientRuns DEF RfedSetUp, RfedClient
      <4>2. CASE PropagationSelected(k)
        BY <4>2, SelectedRuns
      <4> QED
        BY <1>4, <4>1, <4>2 DEF TaskStep, RetryStarts, RetryEnds, RebuildStarts, RebuildEnds,
           RfedSelected, thingVars
    <3> QED
      BY <2>1, <2>2, <3>1, <3>2 DEF Tracks, Throttled, Routed, meteredVars
  <2> QED
    BY <2>3, <2>4
<1>5. ASSUME NEW k \in Sessions, Throttle(k), NEW j \in Sessions
      PROVE  Tracks(j)' /\ Throttled(j)' /\ Routed(j)'
  <2>1. /\ <<"tracker", k>> \in live /\ committed[k] \in Uplinks /\ Other(committed[k]) = uplink
        /\ uplink \in Uplinks
    BY <1>5, CommitFollows DEF Base, LifecycleTypeOK, MeteredTypeOK
  <2>2. k = session
    BY <2>1, OnlyLast
  <2>3. /\ UNCHANGED <<at, session, live, handle, router, initial, uplink, held>>
        /\ skewed' = skewed \ {k} /\ pending'[k] = Unarmed /\ committed'[k] = uplink
        /\ filter' = [i \in Sessions |-> IF i = handle["lxmf"] /\ filter[i] # "no node"
                                          THEN uplink ELSE filter[i]]
    <3>1. UNCHANGED <<at, session, live, handle, router, initial>> /\ skewed' = skewed \ {k}
          /\ Committed(k, handle["lxmf"])
      BY <1>5, AsideMovesNothing DEF TaskStep, Throttle, pluginVars, thingVars, localVars
    <3>2. committed' = [committed EXCEPT ![k] = Other(@)]
          /\ pending' = [pending EXCEPT ![k] = Unarmed] /\ UNCHANGED <<uplink, held>>
          /\ filter' = [i \in Sessions |-> IF i = handle["lxmf"] /\ filter[i] # "no node"
                                            THEN Other(committed[k]) ELSE filter[i]]
      BY <3>1 DEF Committed
    <3>3. pending'[k] = Unarmed /\ committed'[k] = uplink
      BY <2>1, <3>2 DEF Base, LifecycleTypeOK, MeteredTypeOK
    <3> QED
      BY <2>1, <3>1, <3>2, <3>3
  <2>4. CASE j = k
    <3>1. Tracks(k)'
      BY <2>1, <2>3 DEF Tracks
    <3>2. Throttled(k)'
      <4>1. uplink # "no node" /\ "no node" \notin Uplinks
        BY <2>1 DEF Uplinks
      <4> QED
        BY <2>1, <2>3, <4>1 DEF Throttled
    <3>3. Routed(k)'
      BY <2>3 DEF Routed
    <3> QED
      BY <2>4, <3>1, <3>2, <3>3
  <2>5. CASE j # k
    <3>1. at'[j] \in BeforeNode => filter'[j] = "no node"
      BY <2>3 DEF Routed
    <3> QED
      BY <1>o, <2>2, <2>3, <2>5, <3>1, OthersInStep
  <2> QED
    BY <2>4, <2>5
<1>6. ASSUME NEW u \in Uplinks, NetworkState(u), NEW j \in Sessions
      PROVE  Tracks(j)' /\ Throttled(j)' /\ Routed(j)'
  <2>1. /\ UNCHANGED <<at, handle, router, initial, filter, skewed, live, committed>>
        /\ Published({i \in Sessions : <<"tracker", i>> \in live}, u)
    BY <1>6 DEF NetworkState, Published, pluginVars, thingVars, localVars, historyVars
  <2>2. Tracks(j)'
    BY <2>1, ObservedTracks
  <2> QED
    BY <1>3, <2>1, <2>2
<1>7. ASSUME ClockTick, NEW j \in Sessions
      PROVE  Tracks(j)' /\ Throttled(j)' /\ Routed(j)'
  <2>1. /\ UNCHANGED <<at, handle, router, initial, filter, skewed, live, committed>> /\ Elapsed
    BY <1>7 DEF ClockTick, Elapsed, pluginVars, thingVars, localVars, historyVars
  <2>2. Tracks(j)'
    BY <2>1, ElapsedTracks
  <2> QED
    BY <1>3, <2>1, <2>2
<1>8. ASSUME Stop \/ Stopped, NEW j \in Sessions
      PROVE  Tracks(j)' /\ Throttled(j)' /\ Routed(j)'
  <2>1. UNCHANGED <<at, filter, router>> /\ server' # "on" /\ AtWork = {} /\ running = None
    BY <1>8 DEF Stop, Stopped, Disposed, Cleared, meteredVars, localVars, Base, Quiet
  <2>2. live' = {}
    BY <1>o, <2>1 DEF Ordered, NothingLeft
  <2>3. at'[j] \in {"new", "ended"}
    BY <2>1, AtRest DEF Base
  <2> QED
    BY <2>1, <2>2, <2>3 DEF Tracks, Throttled, Routed
<1>9. ASSUME UNCHANGED lifecycleVars, NEW j \in Sessions
      PROVE  Tracks(j)' /\ Throttled(j)' /\ Routed(j)'
  BY <1>3, <1>9 DEF lifecycleVars, meteredVars, pluginVars, thingVars, localVars, historyVars
<1> QED
  BY <1>1, <1>2, <1>4, <1>5, <1>6, <1>7, <1>8, <1>9 DEF LifecycleNext
-----------------------------------------------------------------------------
(* The theorems *)

LEMMA LifecycleInvInitial == LifecycleInit => LifecycleInv
<1> SUFFICES ASSUME LifecycleInit PROVE LifecycleInv
  OBVIOUS
<1>1. LifecycleTypeOK
  BY LifecycleTypeInitial
<1>2. AtWork = {}
  BY DEF LifecycleInit, AtWork, Awaited
<1>3. Control
  <2>1. \A k \in Sessions : k > session
    BY SessionsAssumption DEF LifecycleInit, Sessions, None
  <2>2. \A k \in Sessions : running # k
    BY NoneOutside DEF LifecycleInit
  <2>3. 0 \in 0..MaxSessions
    BY SessionsAssumption
  <2> QED
    BY <2>1, <2>2, <2>3, Sectioned DEF LifecycleInit, Control, None
<1>4. Base
  BY <1>1, <1>2, <1>3 DEF LifecycleInit, Base, Registered, Quiet
<1>5. Ordered
  BY Sectioned DEF LifecycleInit, MeteredInit, Ordered, OwnedByLast, NodeFirst, NothingLeft, Handles
<1>6. ASSUME NEW k \in Sessions PROVE Serves(k) /\ Tracks(k) /\ Throttled(k) /\ Routed(k)
  <2>1. at[k] = "new" /\ filter[k] = "no node" /\ live = {} /\ tasks = {} /\ server = "off"
    BY <1>6 DEF LifecycleInit, MeteredInit
  <2>2. "new" \notin AfterServices
    BY DEF AfterServices
  <2> QED
    BY <2>1, <2>2 DEF Serves, Tracks, Throttled, Routed
<1> QED
  BY <1>4, <1>5, <1>6 DEF LifecycleInv

LEMMA BasePreserved == Base /\ [LifecycleNext]_lifecycleVars => Base'
<1> SUFFICES ASSUME Base, [LifecycleNext]_lifecycleVars PROVE Base'
  OBVIOUS
<1>1. (lastOvertook \subseteq overtaken)'
  <2>1. CASE Stop
    BY <2>1 DEF Stop
  <2>2. CASE UNCHANGED <<overtaken, lastOvertook>>
    BY <2>2 DEF Base
  <2>3. ASSUME NEW k \in Sessions, StartStep(k) PROVE UNCHANGED <<overtaken, lastOvertook>>
    <3>1. CASE Begin(k)
      BY <3>1 DEF Begin, historyVars
    <3> QED
      BY <2>3, <3>1, StartAdvances DEF Advances
  <2> QED
    BY <2>1, <2>2, <2>3, AsideMovesNothing DEF LifecycleNext, Stopped, lifecycleVars, historyVars
<1> QED
  BY <1>1, LifecycleTypePreserved, ControlPreserved, RegisteredPreserved, QuietPreserved DEF Base

LEMMA OvertakenStays ==
  ASSUME [LifecycleNext]_lifecycleVars, overtaken' = {}
  PROVE  overtaken = {}
<1>1. CASE Stop
  BY <1>1 DEF Stop
<1>2. ASSUME NEW k \in Sessions, StartStep(k) PROVE UNCHANGED overtaken
  <2>1. CASE Begin(k)
    BY <2>1 DEF Begin, historyVars
  <2> QED
    BY <1>2, <2>1, StartAdvances DEF Advances
<1> QED
  BY <1>1, <1>2, AsideMovesNothing DEF LifecycleNext, Stopped, lifecycleVars, historyVars

LEMMA LifecycleInvPreserved == LifecycleInv /\ [LifecycleNext]_lifecycleVars => LifecycleInv'
<1> SUFFICES ASSUME LifecycleInv, [LifecycleNext]_lifecycleVars PROVE LifecycleInv'
  OBVIOUS
<1>1. Base /\ Base'
  BY BasePreserved DEF LifecycleInv
<1>2. ASSUME overtaken' = {}
      PROVE  /\ Ordered'
             /\ \A k \in Sessions : Serves(k)' /\ Tracks(k)' /\ Throttled(k)' /\ Routed(k)'
  <2>1. /\ overtaken = {} /\ Ordered
        /\ \A k \in Sessions : Serves(k) /\ Tracks(k) /\ Throttled(k) /\ Routed(k)
    BY <1>2, OvertakenStays DEF LifecycleInv
  <2> QED
    BY <1>1, <1>2, <2>1, OrderedPreserved, ServesPreserved, InStepPreserved
<1> QED
  BY <1>1, <1>2 DEF LifecycleInv

LEMMA LifecycleInvariant == LifecycleSpec => []LifecycleInv
<1>1. LifecycleInit => LifecycleInv
  BY LifecycleInvInitial
<1>2. LifecycleInv /\ [LifecycleNext]_lifecycleVars => LifecycleInv'
  BY LifecycleInvPreserved
<1> QED
  BY <1>1, <1>2, PTL DEF LifecycleSpec

LEMMA InvStopsClean == LifecycleInv => StopsClean
<1> SUFFICES ASSUME LifecycleInv, server = "off", lastOvertook = {}
             PROVE  /\ handle = [h \in Handles |-> None] /\ listed = {}
                    /\ live \subseteq {"listener"} \X Sessions
                    /\ overtaken = {} =>
                         /\ live = {} /\ attached = {} /\ tasks = {}
                         /\ \A k \in Sessions : pending[k] = Unarmed
  BY DEF StopsClean
<1>1. /\ handle = [h \in Handles |-> None] /\ listed = {}
      /\ live \subseteq {"listener"} \X Sessions /\ running = None /\ AtWork = {}
  BY DEF LifecycleInv, Base, Quiet
<1>2. tasks = {}
  BY <1>1, AtRest DEF LifecycleInv, Base
<1>3. ASSUME overtaken = {}
      PROVE  live = {} /\ attached = {} /\ \A k \in Sessions : pending[k] = Unarmed
  BY <1>3 DEF LifecycleInv, Ordered, NothingLeft
<1> QED
  BY <1>1, <1>2, <1>3

\* A stop that overtakes nothing clears every handle and leaves nothing running but, at
\* most, listeners that an overtaken start has put on another router; if no stop ever
\* overtook anything, no interface, task or timer either.
THEOREM StopIsClean == LifecycleSpec => []StopsClean
BY LifecycleInvariant, InvStopsClean, PTL

LEMMA Crossing ==
  ASSUME NEW k, NEW S, NEW L
  PROVE  S \X {k} \cap L # {} <=> \E x \in S : <<x, k>> \in L
<1>1. ASSUME NEW t \in S \X {k}, t \in L PROVE \E x \in S : <<x, k>> \in L
  <2>1. t[1] \in S /\ t = <<t[1], k>>
    OBVIOUS
  <2> QED
    BY <1>1, <2>1
<1>2. ASSUME NEW x \in S, <<x, k>> \in L PROVE S \X {k} \cap L # {}
  BY <1>2
<1> QED
  BY <1>1, <1>2

LEMMA CrossingOne ==
  ASSUME NEW k, NEW x, NEW L
  PROVE  {x} \X {k} \cap L # {} <=> <<x, k>> \in L
BY Crossing

LEMMA InvOneServes == LifecycleInv => OneServes
<1> DEFINE Runs(k, S) == S \X {k} \cap live # {}
           Client == {"propagation client", "propagation discovery"}
<1> SUFFICES ASSUME LifecycleInv, NEW k \in Sessions, server = "on", session = k,
                    overtaken = {}, at[k] = "ended", Runs(k, CrewForwards)
             PROVE  /\ ~(Runs(k, {"propagation node"}) /\ Runs(k, Client))
                    /\ ~(Runs(k, {"rfed node"}) /\ Runs(k, {"rfed discovery"} \cup RfedClient))
                    /\ Set(k, "propagation client") /\ handle["lxmf"] # None
                         => Runs(k, {"propagation node"} \cup Client)
                    /\ Runs(k, {"propagation client"}) => handle["lxmf"] # None
                    /\ handle["embeddedPropagation"] # None => Runs(k, {"propagation node"})
  BY DEF OneServes
<1>1. Serves(k) /\ handle["embeddedPropagation"] \in {None, k} /\ k # None
  BY NoneOutside DEF LifecycleInv, Ordered, OwnedByLast, Handles
<1>2. \A S : Runs(k, S) <=> \E x \in S : <<x, k>> \in live
  BY Crossing
<1>3. Runs(k, {"propagation node"}) <=> <<"propagation node", k>> \in live
  BY CrossingOne
<1>4. Runs(k, {"propagation client"}) <=> <<"propagation client", k>> \in live
  BY CrossingOne
<1>5. Runs(k, {"rfed node"}) <=> <<"rfed node", k>> \in live
  BY CrossingOne
<1> HIDE DEF Runs
<1>6. \E x \in CrewForwards : <<x, k>> \in live
  BY <1>2
<1>7. ~(<<"propagation node", k>> \in live /\ \E x \in Client : <<x, k>> \in live)
  BY <1>1 DEF Serves
<1>8. ~(/\ <<"rfed node", k>> \in live
        /\ \E x \in {"rfed discovery"} \cup RfedClient : <<x, k>> \in live)
  BY <1>1 DEF Serves
<1>9. Set(k, "propagation client") /\ handle["lxmf"] # None
        => \E x \in {"propagation node"} \cup Client : <<x, k>> \in live
  BY <1>1, <1>6 DEF Serves
<1>10. handle["embeddedPropagation"] # None => <<"propagation node", k>> \in live
  BY <1>1 DEF Serves
<1>11. <<"propagation client", k>> \in live => handle["lxmf"] # None
  BY <1>1 DEF Serves
<1> QED
  BY <1>2, <1>3, <1>4, <1>5, <1>7, <1>8, <1>9, <1>10, <1>11

\* Once a start is through that no stop has overtaken: where messaging came up, the
\* propagation role it was set for is not left out; where it did not, no client pretends
\* to serve it; neither role is served twice; and the handle deliveries go to is that of
\* a node that runs.
THEOREM RolesServedOnce == LifecycleSpec => []OneServes
BY LifecycleInvariant, InvOneServes, PTL

LEMMA GraceTime ==
  /\ Grace >= Grace
  /\ \A n \in 0..Grace, h \in 0..(Grace + 1) : h > Grace => n + h # Grace
<1>1. Grace \in Nat
  BY GraceAssumption
<1> QED
  BY <1>1

LEMMA InvThrottleFollows == LifecycleInv => ThrottleFollows
<1> SUFFICES ASSUME LifecycleInv, NEW k \in Sessions,
                    <<"tracker", k>> \in live, <<"propagation node", k>> \in live,
                    held > Grace, k \notin skewed, overtaken = {}
             PROVE  filter[k] = uplink
  BY DEF ThrottleFollows
<1>1. filter[k] = committed[k]
  BY DEF LifecycleInv, Throttled
<1>2. CASE committed[k] # uplink
  <2>1. pending[k] # Unarmed /\ pending[k] + held = Grace
    BY <1>2 DEF LifecycleInv, Tracks
  <2>2. pending[k] \in 0..Grace /\ held \in 0..(Grace + 1)
    BY <2>1 DEF LifecycleInv, Base, LifecycleTypeOK, MeteredTypeOK
  <2> QED
    BY <2>1, <2>2, GraceTime
<1> QED
  BY <1>1, <1>2

\* Once the uplink has held for longer than the grace time, the embedded node's throttle is
\* set for it, in every session no stop has overtaken and whose two reads of it agreed.
THEOREM ThrottleIsCurrent == LifecycleSpec => []ThrottleFollows
BY LifecycleInvariant, InvThrottleFollows, PTL

\* What changes a filter that is set: a commit, and nothing else.
LEMMA FilterChanges ==
  ASSUME LifecycleInv, [LifecycleNext]_lifecycleVars, NEW k \in Sessions,
         filter[k] # "no node", filter'[k] # filter[k], overtaken = {}
  PROVE  held >= Grace /\ filter'[k] = uplink
<1>a. /\ Base /\ Ordered
      /\ \A j \in Sessions : Serves(j) /\ Tracks(j) /\ Throttled(j) /\ Routed(j)
  BY DEF LifecycleInv
<1>1. ASSUME NEW j \in Sessions, StartStep(j) PROVE FALSE
  <2>1. CASE Begin(j)
    BY <2>1 DEF Begin, meteredVars
  <2>2. CASE PropagationNodeUp(j)
    <3>1. at[j] = "propagation"
      BY <2>2 DEF PropagationNodeUp, Resumes
    <3>2. router[j] = j /\ filter[j] = "no node"
      BY <1>a, <3>1 DEF Routed, BeforeNode
    <3>3. k # j /\ filter'[k] = filter[k]
      BY <2>2, <3>2, <1>a DEF PropagationNodeUp, NodeEnabled, meteredVars, Base,
         LifecycleTypeOK, MeteredTypeOK
    <3> QED
      BY <3>3
  <2>3. CASE MessagingUp(j) \/ EmbedPropagation(j) \/ Services(j)
    BY <2>3 DEF MessagingUp, EmbedPropagation, Services, Adopted, meteredVars
  <2> QED
    BY <1>1, <1>a, <2>1, <2>2, <2>3, StartFrame DEF meteredVars
<1>2. ASSUME NEW j \in Sessions, TaskStep(j) PROVE held >= Grace /\ filter'[k] = uplink
  <2>1. Throttle(j)
    BY <1>2 DEF TaskStep, RetryStarts, RetryEnds, RebuildStarts, RebuildEnds, RfedSelected,
       RfedSetUp, PropagationSelected, meteredVars
  <2>2. held = Grace /\ Other(committed[j]) = uplink
    BY <1>a, <2>1, CommitFollows
  <2>3. filter'[k] = Other(committed[j])
    BY <2>1 DEF Throttle, Committed
  <2>4. held >= Grace
    BY <2>2, GraceTime
  <2> QED
    BY <2>2, <2>3, <2>4
<1> QED
  BY <1>1, <1>2 DEF LifecycleNext, NetworkState, Published, ClockTick, Elapsed, Stop, Disposed,
     Stopped, lifecycleVars, meteredVars

\* A throttle that is set changes only after the uplink has held for the grace time, and
\* then to what it is: flapping never reaches the node.
THEOREM ThrottleHolds == LifecycleSpec => ThrottleHeld
<1>1. LifecycleInv /\ [LifecycleNext]_lifecycleVars
        => [\A k \in Sessions :
              (filter[k] # "no node" /\ filter'[k] # filter[k] /\ overtaken = {})
                => held >= Grace /\ filter'[k] = uplink]_lifecycleVars
  BY FilterChanges
<1> QED
  BY <1>1, LifecycleInvariant, PTL DEF LifecycleSpec, ThrottleHeld
=============================================================================
