------------------------- MODULE BriefSubscriptions -------------------------
(***************************************************************************)
(* The daily briefing push (plugin/brief-subscriptions.js and the commands *)
(* that subscribe and unsubscribe a crew member).                          *)
(*                                                                         *)
(* One file keeps, per subscriber, the day of the last send and the compile*)
(* last sent.  Three kinds of asynchronous operation read it, work on the  *)
(* copy and write it back through one temporary name: the dispatches, which*)
(* are queued one behind the other, and the subscribe and unsubscribe      *)
(* commands, which are not queued behind anything.  An action is the code  *)
(* between two awaits.  The process may stop anywhere and start again.     *)
(*                                                                         *)
(* Days and compiles are numbered in time order; 0 is "none yet".  The     *)
(* payload's text is left out.                                             *)
(***************************************************************************)
EXTENDS Integers, Sequences, FiniteSets

CONSTANTS
  Members,       \* lxmf.delivery hashes that may appear in the file
  Crew,          \* those of the configured crew
  InitialStores, \* what the file may hold when the process first starts
  Faults,        \* which of AllFaults may happen
  Blank, Torn,   \* contents of a file that are not one store's text
  MaxDay, MaxCompile, MaxQueue, MaxInbox, MaxCrashes  \* bounds

AllFaults == {
  "fails",     \* a delivery fails
  "noLines",   \* the cached briefing cannot be read or has nothing to show
  "late",      \* a delivery is reported as timed out, yet arrives
  "saveFails", \* the file system refuses a write
  "midnight",  \* the day changes while a dispatch is under way
  "commands"}  \* members subscribe and unsubscribe

ASSUME CrewAssumption == Crew \subseteq Members /\ IsFiniteSet(Members)
ASSUME MembersAssumption == "dispatcher" \notin Members
ASSUME FaultsAssumption == Faults \subseteq AllFaults
ASSUME BriefBoundsAssumption ==
  /\ {MaxDay, MaxCompile, MaxQueue, MaxInbox, MaxCrashes} \subseteq Nat
  /\ MaxDay > 0

Dispatcher == "dispatcher"
Writers == Members \cup {Dispatcher}

\* floor is lastSentFetchedAt or, in a store older than it, lastSentAt.
Entry == [day : Nat, floor : Nat]
NoEntry == [day |-> 0, floor |-> -1]
NewEntry == [day |-> 0, floor |-> 0]
Store == [Members -> Entry \cup {NoEntry}]
EmptyStore == [m \in Members |-> NoEntry]
Subscribers(s) == {m \in Members : s[m] # NoEntry}

ASSUME StoresAssumption ==
  InitialStores \subseteq Store /\ Blank \notin Store /\ Torn \notin Store

\* Files are inodes, so that a writer goes on writing to a file that has been
\* renamed under it.  Blank: created or truncated, nothing written yet.
NoFile == 0
Inodes == 1..(Cardinality(Members) + 3)

VARIABLES
  day, compile,   \* today; the newest compile in the briefing plugin's cache
  alive, crashes, \* the process is running; how often it has stopped
  queued,         \* dispatches waiting in dispatchChain
  pc, copy, fd,   \* per writer: where it stands, its store, its open file
  today, loaded, todo, sent, \* of the dispatch under way
  names, content, \* the two names of the directory; the inodes' contents
  inbox,          \* history: briefings each member has received
  told,           \* history: what each member was last answered
  tried           \* history: deliveries tried since the last compile or start

dispatchVars == <<today, loaded, todo, sent>>
fileVars == <<names, content>>
world == <<day, compile, alive, crashes>>
vars == <<world, queued, pc, copy, fd, dispatchVars, fileVars, inbox, told,
          tried>>

-----------------------------------------------------------------------------
Init ==
  /\ day = 1
  /\ alive = FALSE /\ crashes = 0
  /\ queued = 0
  /\ pc = [w \in Writers |-> "idle"]
  /\ copy = [w \in Writers |-> EmptyStore]
  /\ fd = [w \in Writers |-> NoFile]
  /\ today = 0 /\ loaded = 0 /\ todo = {} /\ sent = FALSE
  /\ \E s \in InitialStores :
       /\ names = [store |-> 1, tmp |-> NoFile]
       /\ content = [i \in Inodes |-> IF i = 1 THEN s ELSE Blank]
       /\ compile \in 0..MaxCompile
       /\ \A m \in Members : s[m].day <= 1 /\ s[m].floor <= compile
       /\ inbox = [m \in Members |->
            IF s[m].floor > 0
              THEN <<[day |-> s[m].day, compile |-> s[m].floor]>> ELSE <<>>]
  /\ told = [m \in Members |-> "nothing"] /\ tried = {}

\* loadSubscriptions: a missing or unreadable file is an empty store.
Read ==
  IF names.store = NoFile THEN EmptyStore
  ELSE IF content[names.store] \in {Blank, Torn} THEN EmptyStore
  ELSE content[names.store]

\* A writer is done: its copy and its file descriptor are gone.
Done(w) ==
  /\ pc' = [pc EXCEPT ![w] = "idle"]
  /\ copy' = [copy EXCEPT ![w] = EmptyStore]
  /\ fd' = [fd EXCEPT ![w] = NoFile]

GoTo(w, where) == pc' = [pc EXCEPT ![w] = where]

-----------------------------------------------------------------------------
(* The world: days pass, the briefing plugin compiles, the process dies.   *)

NextDay ==
  /\ day < MaxDay
  /\ "midnight" \in Faults \/ pc[Dispatcher] = "idle"
  /\ day' = day + 1
  /\ UNCHANGED <<compile, alive, crashes, queued, pc, copy, fd, dispatchVars,
                 fileVars, inbox, told, tried>>

\* A compile stamps generatedAt on the bus, which queues a dispatch.
Compile ==
  /\ compile < MaxCompile
  /\ queued < MaxQueue
  /\ compile' = compile + 1
  /\ queued' = IF alive THEN queued + 1 ELSE queued
  /\ tried' = {}
  /\ UNCHANGED <<day, alive, crashes, pc, copy, fd, dispatchVars, fileVars,
                 inbox, told>>

Crash ==
  /\ crashes < MaxCrashes
  /\ alive
  /\ alive' = FALSE
  /\ crashes' = crashes + 1
  /\ queued' = 0
  /\ pc' = [w \in Writers |-> "idle"]
  /\ copy' = [w \in Writers |-> EmptyStore]
  /\ fd' = [w \in Writers |-> NoFile]
  /\ today' = 0 /\ loaded' = 0 /\ todo' = {} /\ sent' = FALSE
  /\ UNCHANGED <<day, compile, fileVars, inbox, told, tried>>

\* Faulty variant: no catch-up after a restart.
StartWithoutCatchup ==
  /\ ~alive
  /\ alive' = TRUE
  /\ queued' = 0
  /\ tried' = {}
  /\ UNCHANGED <<day, compile, crashes, pc, copy, fd, dispatchVars, fileVars,
                 inbox, told>>

\* start() and, 15 s later, its catch-up dispatch.
Start ==
  /\ ~alive
  /\ alive' = TRUE
  /\ queued' = 1
  /\ tried' = {}
  /\ UNCHANGED <<day, compile, crashes, pc, copy, fd, dispatchVars, fileVars,
                 inbox, told>>

-----------------------------------------------------------------------------
(* saveSubscriptions, by any writer: open the temporary file, write, rename*)

\* The first inode that neither has a name nor is open.
InUse == {names.store, names.tmp} \cup {fd[w] : w \in Writers}
NextFree == {i \in Inodes \ InUse : \A j \in Inodes \ InUse : i <= j}

\* Faulty variant: the store itself is opened and truncated.
SaveOpenInPlace(w) ==
  /\ pc[w] = "open"
  /\ GoTo(w, "write")
  /\ fd' = [fd EXCEPT ![w] = names.store]
  /\ content' = [content EXCEPT ![names.store] = Blank]
  /\ UNCHANGED <<world, queued, copy, dispatchVars, names, inbox, told, tried>>

\* writeFile opens the temporary name: created, or truncated if it exists.
SaveOpen(w) ==
  /\ pc[w] = "open"
  /\ GoTo(w, "write")
  /\ \E i \in IF names.tmp = NoFile THEN NextFree ELSE {names.tmp} :
       /\ fd' = [fd EXCEPT ![w] = i]
       /\ names' = [names EXCEPT !.tmp = i]
       /\ content' = [content EXCEPT ![i] = Blank]
  /\ UNCHANGED <<world, queued, copy, dispatchVars, inbox, told, tried>>

\* Two texts written to one file leave the later one only when it is not the
\* shorter; which is the case depends on entries left out here.
SaveWrite(w) ==
  /\ pc[w] = "write"
  /\ GoTo(w, "rename")
  /\ \E text \in {copy[w], Torn} :
       /\ text = Torn => content[fd[w]] \notin {Blank, copy[w]}
       /\ content' = [content EXCEPT ![fd[w]] = text]
  /\ UNCHANGED <<world, queued, copy, fd, dispatchVars, names,
                 inbox, told, tried>>

\* The temporary name takes the place of the store; the old file is gone.
Renames ==
  /\ names.tmp # NoFile
  /\ names' = [store |-> names.tmp, tmp |-> NoFile]
  /\ content' = IF names.store = NoFile THEN content
                ELSE [content EXCEPT ![names.store] = Blank]

\* The rename finds no temporary file, or the file system refuses a write.
SaveRefused(w) ==
  /\ \/ pc[w] = "rename" /\ names.tmp = NoFile
     \/ pc[w] \in {"open", "write", "rename"} /\ "saveFails" \in Faults
  /\ UNCHANGED fileVars

-----------------------------------------------------------------------------
(* dispatchBriefings, queued by queueBriefingDispatch.                     *)

\* The dispatch whose turn it is takes the time; it needs somebody to send to.
DispatchStart ==
  /\ queued > 0
  /\ pc[Dispatcher] = "idle"
  /\ queued' = queued - 1
  /\ IF Crew = {} THEN UNCHANGED <<pc, today>>
     ELSE GoTo(Dispatcher, "load") /\ today' = day
  /\ UNCHANGED <<world, copy, fd, loaded, todo, sent, fileVars,
                 inbox, told, tried>>

\* Faulty variant: no day gate.
AwaitingAnyDay(s) == Crew \cap Subscribers(s)

\* The day gate.
Awaiting(s) == {m \in Crew \cap Subscribers(s) : s[m].day # today}

DispatchLoad ==
  /\ pc[Dispatcher] = "load"
  /\ IF Awaiting(Read) = {} THEN Done(Dispatcher)
     ELSE /\ GoTo(Dispatcher, "briefing")
          /\ copy' = [copy EXCEPT ![Dispatcher] = Read]
          /\ UNCHANGED fd
  /\ UNCHANGED <<world, queued, dispatchVars, fileVars, inbox, told, tried>>

\* The compile gate.
Pending(s) == {m \in Awaiting(s) : s[m].floor < compile}

\* Nothing cached, nobody pending or no lines to show end the dispatch.
DispatchBriefing ==
  /\ pc[Dispatcher] = "briefing"
  /\ \/ /\ \/ compile = 0 \/ Pending(copy[Dispatcher]) = {}
           \/ "noLines" \in Faults
        /\ Done(Dispatcher)
        /\ UNCHANGED dispatchVars
     \/ /\ compile > 0
        /\ Pending(copy[Dispatcher]) # {}
        /\ GoTo(Dispatcher, "send")
        /\ todo' = Pending(copy[Dispatcher])
        /\ loaded' = compile
        /\ sent' = FALSE
        /\ UNCHANGED <<copy, fd, today>>
  /\ UNCHANGED <<world, queued, fileVars, inbox, told, tried>>

Receives(m) ==
  /\ Len(inbox[m]) < MaxInbox
  /\ inbox' = [inbox EXCEPT ![m] = Append(@, [day |-> day, compile |-> loaded])]

\* After the last delivery the copy is saved if anybody was sent anything.
AfterDelivery(m, anySent) ==
  /\ todo' = todo \ {m}
  /\ tried' = tried \cup {m}
  /\ IF todo # {m} THEN UNCHANGED <<pc, fd>> /\ sent' = anySent
     ELSE /\ sent' = FALSE
          /\ UNCHANGED fd
          /\ GoTo(Dispatcher, IF anySent THEN "open" ELSE "idle")
  /\ UNCHANGED <<world, queued, today, loaded, fileVars, told>>

\* A delivery succeeds, and the copy is marked; the file is not, yet.
DeliverOk(m) ==
  /\ pc[Dispatcher] = "send" /\ m \in todo
  /\ Receives(m)
  /\ copy' = [copy EXCEPT ![Dispatcher][m] = [day |-> today, floor |-> loaded]]
  /\ AfterDelivery(m, TRUE)

\* Faulty variant: every recipient is marked, delivered to or not.
DeliverFailedMarked(m) ==
  /\ pc[Dispatcher] = "send" /\ m \in todo
  /\ "fails" \in Faults /\ UNCHANGED inbox
  /\ copy' = [copy EXCEPT ![Dispatcher][m] = [day |-> today, floor |-> loaded]]
  /\ AfterDelivery(m, TRUE)

\* Faulty variant: a failure forgets the deliveries before it.
DeliverFailedForgetting(m) ==
  /\ pc[Dispatcher] = "send" /\ m \in todo
  /\ "fails" \in Faults /\ UNCHANGED <<inbox, copy>>
  /\ AfterDelivery(m, FALSE)

\* A delivery fails or times out; after a timeout it may still arrive.
DeliverFailed(m) ==
  /\ pc[Dispatcher] = "send" /\ m \in todo
  /\ \/ "fails" \in Faults /\ UNCHANGED inbox
     \/ "late" \in Faults /\ Receives(m)
  /\ copy' = IF todo = {m} /\ ~sent
               THEN [copy EXCEPT ![Dispatcher] = EmptyStore] ELSE copy
  /\ AfterDelivery(m, sent)

DispatchRename ==
  /\ pc[Dispatcher] = "rename"
  /\ Renames
  /\ Done(Dispatcher)
  /\ UNCHANGED <<world, queued, dispatchVars, inbox, told, tried>>

\* A failed save is logged; what was sent stays unrecorded.
DispatchSaveFails ==
  /\ SaveRefused(Dispatcher)
  /\ Done(Dispatcher)
  /\ UNCHANGED <<world, queued, dispatchVars, inbox, told, tried>>

-----------------------------------------------------------------------------
(* The commands.  A member's next command waits for the answer to the last.*)

Commands == {"subscribe", "unsubscribe"}
Loading(kind) == IF kind = "subscribe" THEN "loadSub" ELSE "loadUnsub"

CommandStart(m, kind) ==
  /\ "commands" \in Faults
  /\ alive
  /\ m \in Crew /\ pc[m] = "idle"
  /\ GoTo(m, Loading(kind))
  /\ told' = [told EXCEPT ![m] = "nothing"]
  /\ UNCHANGED <<world, queued, copy, fd, dispatchVars, fileVars,
                 inbox, tried>>

\* The answer may fail to reach the member.
Answer(m, text) ==
  \/ told' = [told EXCEPT ![m] = text]
  \/ "fails" \in Faults /\ UNCHANGED told

Wanted(m, kind) == IF kind = "subscribe" THEN NewEntry ELSE NoEntry
Answered(kind) == IF kind = "subscribe" THEN "subscribed" ELSE "unsubscribed"

\* Nothing to change is answered at once; otherwise the changed copy is saved.
CommandLoad(m, kind) ==
  /\ pc[m] = Loading(kind)
  /\ IF (m \in Subscribers(Read)) <=> (kind = "subscribe")
       THEN Done(m) /\ Answer(m, Answered(kind))
       ELSE /\ GoTo(m, "open")
            /\ copy' = [copy EXCEPT ![m] = [Read EXCEPT ![m] = Wanted(m, kind)]]
            /\ UNCHANGED <<fd, told>>
  /\ UNCHANGED <<world, queued, dispatchVars, fileVars, inbox, tried>>

CommandRename(m) ==
  /\ pc[m] = "rename"
  /\ Renames
  /\ Done(m)
  /\ Answer(m, IF copy[m][m] = NoEntry THEN "unsubscribed" ELSE "subscribed")
  /\ UNCHANGED <<world, queued, dispatchVars, inbox, tried>>

CommandFails(m) ==
  /\ SaveRefused(m)
  /\ Done(m)
  /\ Answer(m, "failed")
  /\ UNCHANGED <<world, queued, dispatchVars, inbox, tried>>

-----------------------------------------------------------------------------
DispatchStep ==
  \/ DispatchStart \/ DispatchLoad \/ DispatchBriefing
  \/ \E m \in todo : DeliverOk(m) \/ DeliverFailed(m)
  \/ SaveOpen(Dispatcher) \/ SaveWrite(Dispatcher)
  \/ DispatchRename \/ DispatchSaveFails

CommandStep(m) ==
  \/ \E kind \in Commands : CommandStart(m, kind) \/ CommandLoad(m, kind)
  \/ SaveOpen(m) \/ SaveWrite(m)
  \/ CommandRename(m) \/ CommandFails(m)

Next ==
  \/ NextDay \/ Compile \/ Crash \/ Start
  \/ DispatchStep
  \/ \E m \in Members : CommandStep(m)

Spec == Init /\ [][Next]_vars

\* Awaited file operations and deliveries, which time out after two minutes,
\* settle; a stopped process is started again.
FairSpec == Spec /\ WF_vars(DispatchStep) /\ WF_vars(Start)

-----------------------------------------------------------------------------
(* Properties.                                                             *)

Whereabouts == {"idle", "load", "loadSub", "loadUnsub", "briefing", "send",
                "open", "write", "rename"}

\* Every variable keeps its type, whatever fails and whoever interleaves.
TypeOK ==
  /\ day \in 1..MaxDay /\ compile \in 0..MaxCompile
  /\ alive \in BOOLEAN /\ crashes \in 0..MaxCrashes
  /\ queued \in Nat
  /\ pc \in [Writers -> Whereabouts]
  /\ copy \in [Writers -> Store]
  /\ fd \in [Writers -> Inodes \cup {NoFile}]
  /\ today \in 0..MaxDay /\ loaded \in 0..MaxCompile
  /\ todo \subseteq Crew /\ sent \in BOOLEAN
  /\ names \in [store : Inodes, tmp : Inodes \cup {NoFile}]
  /\ content \in [Inodes -> Store \cup {Blank, Torn}]
  /\ inbox \in [Members -> Seq([day : Nat, compile : Nat])]
  /\ told \in [Members -> {"nothing", "subscribed", "unsubscribed", "failed"}]
  /\ tried \subseteq Members

\* dispatchBriefings marks "successfully delivered recipients only": whatever
\* fails and whichever writers overlap, an entry that any file or any writer's
\* copy marks with a compile belongs to a member who has received it.
Backed(s) == \A m \in Members :
  s[m].floor > 0 => \E i \in DOMAIN inbox[m] : inbox[m][i].compile = s[m].floor

NeverMarkedUndelivered ==
  /\ \A i \in Inodes : content[i] \in {Blank, Torn} \/ Backed(content[i])
  /\ \A w \in Writers : Backed(copy[w])

\* The store's name always leads to one complete text (saveSubscriptions: "a
\* crash mid-write can never leave a truncated store behind").
StoreNeverTorn == content[names.store] \notin {Blank, Torn}

\* A briefing a member has received is recorded in the store, or the dispatch
\* that sent it is still to save it, or a crash came in between.
Recorded(m, c) ==
  \/ Read[m].floor >= c
  \/ pc[Dispatcher] \in {"send", "open", "write", "rename"}
       /\ copy[Dispatcher][m].floor >= c
RecordedOrInFlight ==
  crashes = 0 =>
    \A m \in Members : \A i \in DOMAIN inbox[m] : Recorded(m, inbox[m][i].compile)

\* "A compile is delivered at most once per subscriber", and "at most one briefing
\* goes out per local day": every repetition of either kind is paid for by a crash
\* between a delivery and its save.
Compiles(m) == {inbox[m][i].compile : i \in DOMAIN inbox[m]}
Days(m) == {inbox[m][i].day : i \in DOMAIN inbox[m]}
RepetitionsNeedCrashes ==
  \A m \in Members :
    /\ Len(inbox[m]) - Cardinality(Compiles(m)) <= crashes
    /\ Len(inbox[m]) - Cardinality(Days(m)) <= crashes

\* The documented promise; proved for as long as the process has not crashed.
CompileAtMostOnce == \A m \in Members :
  \A i, j \in DOMAIN inbox[m] :
    i # j => inbox[m][i].compile # inbox[m][j].compile

\* When everything is at rest, a member who was told "Unsubscribed - no more
\* daily briefings" or "Subscribed" is what the answer said.
Quiescent == queued = 0 /\ \A w \in Writers : pc[w] = "idle"
StoreMatchesReplies ==
  Quiescent => \A m \in Members :
    /\ told[m] = "unsubscribed" => m \notin Subscribers(Read)
    /\ told[m] = "subscribed" => m \in Subscribers(Read)

\* "Restarts neither lose": a subscriber who has not had a briefing today and
\* lacks the newest compile is sent it, through the queued dispatch or, when the
\* process is down or goes down, through the catch-up.
Owed(m, d, c) ==
  /\ queued > 0 \/ ~alive
  /\ day = d /\ compile = c /\ c > 0
  /\ m \in Crew \cap Subscribers(Read)
Served(m, d, c) ==
  \E i \in DOMAIN inbox[m] : inbox[m][i].day >= d \/ inbox[m][i].compile >= c
EverySubscriberServed ==
  \A m \in Members : \A d \in 1..MaxDay : \A c \in 1..MaxCompile :
    Owed(m, d, c) ~> Served(m, d, c) \/ m \in tried
=============================================================================
