---------------------- MODULE BriefSubscriptionsProofs ----------------------
(***************************************************************************)
(* Proofs about BriefSubscriptions, for any crew and any bounds.           *)
(***************************************************************************)
EXTENDS BriefSubscriptions, FiniteSetTheorems, TLAPS

\* The form in which the provers take a change to one member's value.
LEMMA ExceptType ==
  ASSUME NEW D, NEW S, NEW f \in [D -> S], NEW x \in D, NEW v \in S
  PROVE  [f EXCEPT ![x] = v] \in [D -> S]
OBVIOUS

LEMMA Bounds ==
  /\ MaxDay \in Nat \ {0} /\ MaxCompile \in Nat /\ MaxCrashes \in Nat
BY BriefBoundsAssumption

LEMMA InodesType == Inodes \subseteq Nat \ {0} /\ 1 \in Inodes /\ NoFile \notin Inodes
<1>1. Cardinality(Members) \in Nat  BY FS_CardinalityType, CrewAssumption
<1>2. QED  BY <1>1 DEF Inodes, NoFile

LEMMA EntryTypes ==
  /\ EmptyStore \in Store
  /\ NewEntry \in Entry
  /\ \A d, f \in Nat : [day |-> d, floor |-> f] \in Entry
BY DEF EmptyStore, Store, NewEntry, Entry

\* What loadSubscriptions returns is a store, whatever the file holds.
LEMMA ReadType == ASSUME TypeOK PROVE Read \in Store
<1>1. names.store \in Inodes  BY DEF TypeOK
<1>2. content[names.store] \in Store \cup {Blank, Torn}  BY <1>1 DEF TypeOK
<1>3. QED  BY <1>2, EntryTypes DEF Read

-----------------------------------------------------------------------------
LEMMA InitType == Init => TypeOK
<1> SUFFICES ASSUME Init PROVE TypeOK
  OBVIOUS
<1>1. PICK s \in InitialStores :
       /\ names = [store |-> 1, tmp |-> NoFile]
       /\ content = [i \in Inodes |-> IF i = 1 THEN s ELSE Blank]
       /\ compile \in 0..MaxCompile
       /\ inbox = [m \in Members |->
            IF s[m].floor > 0
              THEN <<[day |-> s[m].day, compile |-> s[m].floor]>> ELSE <<>>]
  BY DEF Init
<1>2. s \in Store  BY StoresAssumption
<1>3. names \in [store : Inodes, tmp : Inodes \cup {NoFile}]
  BY <1>1, InodesType
<1>4. content \in [Inodes -> Store \cup {Blank, Torn}]  BY <1>1, <1>2
<1>5. inbox \in [Members -> Seq([day : Nat, compile : Nat])]
  <2>1. \A m \in Members : s[m].floor > 0 => s[m] \in [day : Nat, floor : Nat]
    BY <1>2 DEF Store, Entry, NoEntry
  <2> DEFINE Had(m) == IF s[m].floor > 0
                THEN <<[day |-> s[m].day, compile |-> s[m].floor]>> ELSE <<>>
  <2>2. ASSUME NEW m \in Members PROVE Had(m) \in Seq([day : Nat, compile : Nat])
    <3>1. CASE s[m].floor > 0
      <4>1. [day |-> s[m].day, compile |-> s[m].floor] \in [day : Nat, compile : Nat]
        BY <2>1, <3>1
      <4>2. <<[day |-> s[m].day, compile |-> s[m].floor]>>
              \in Seq([day : Nat, compile : Nat])
        BY <4>1
      <4>3. QED  BY <4>2, <3>1
    <3>2. CASE ~(s[m].floor > 0)
      BY <3>2
    <3>3. QED  BY <3>1, <3>2
  <2>3. inbox = [m \in Members |-> Had(m)]
    BY <1>1
  <2> HIDE DEF Had
  <2>4. QED  BY <2>2, <2>3
<1>6. /\ pc \in [Writers -> Whereabouts]
      /\ copy \in [Writers -> Store]
      /\ fd \in [Writers -> Inodes \cup {NoFile}]
      /\ told \in [Members -> {"nothing", "subscribed", "unsubscribed", "failed"}]
  BY EntryTypes DEF Init, Whereabouts
<1>7. /\ day \in 1..MaxDay /\ crashes \in 0..MaxCrashes /\ queued \in Nat
      /\ today \in 0..MaxDay /\ loaded \in 0..MaxCompile
  BY Bounds DEF Init
<1>8. alive \in BOOLEAN /\ todo \subseteq Crew /\ sent \in BOOLEAN
  BY DEF Init
<1>9. tried \subseteq Members  BY DEF Init
<1>10. QED  BY <1>1, <1>3, <1>4, <1>5, <1>6, <1>7, <1>8, <1>9 DEF TypeOK

\* A delivery appends a briefing to one member's inbox.
LEMMA ReceivesType ==
  ASSUME TypeOK, NEW m \in Members, Receives(m)
  PROVE  inbox' \in [Members -> Seq([day : Nat, compile : Nat])]
<1>1. [day |-> day, compile |-> loaded] \in [day : Nat, compile : Nat]
  BY Bounds DEF TypeOK
<1>2. Append(inbox[m], [day |-> day, compile |-> loaded])
        \in Seq([day : Nat, compile : Nat])
  BY <1>1 DEF TypeOK
<1>3. inbox' = [inbox EXCEPT ![m] =
                 Append(inbox[m], [day |-> day, compile |-> loaded])]
  BY DEF Receives
<1>4. inbox \in [Members -> Seq([day : Nat, compile : Nat])]  BY DEF TypeOK
<1>5. QED  BY <1>2, <1>3, <1>4, ExceptType

LEMMA DoneType ==
  ASSUME TypeOK, NEW w \in Writers, Done(w)
  PROVE  /\ pc' \in [Writers -> Whereabouts]
         /\ copy' \in [Writers -> Store]
         /\ fd' \in [Writers -> Inodes \cup {NoFile}]
BY EntryTypes DEF Done, TypeOK, Whereabouts

LEMMA GoToType ==
  ASSUME TypeOK, NEW w \in Writers, NEW x \in Whereabouts, GoTo(w, x)
  PROVE  pc' \in [Writers -> Whereabouts]
BY DEF GoTo, TypeOK

LEMMA WriterSets == Dispatcher \in Writers /\ Members \subseteq Writers
BY DEF Writers

\* Opening and writing a temporary file keep the types, whoever does it.
LEMMA SaveType ==
  ASSUME TypeOK, NEW w \in Writers, SaveOpen(w) \/ SaveWrite(w)
  PROVE  TypeOK'
<1>1. CASE SaveOpen(w)
  <2>1. PICK i \in IF names.tmp = NoFile THEN NextFree ELSE {names.tmp} :
          /\ fd' = [fd EXCEPT ![w] = i]
          /\ names' = [names EXCEPT !.tmp = i]
          /\ content' = [content EXCEPT ![i] = Blank]
    BY <1>1 DEF SaveOpen
  <2>2. i \in Inodes  BY <2>1 DEF NextFree, TypeOK
  <2>3. GoTo(w, "write") /\ "write" \in Whereabouts
    BY <1>1 DEF SaveOpen, Whereabouts
  <2>4. pc' \in [Writers -> Whereabouts]  BY <2>3, GoToType
  <2>5. /\ fd' \in [Writers -> Inodes \cup {NoFile}]
        /\ names' \in [store : Inodes, tmp : Inodes \cup {NoFile}]
        /\ content' \in [Inodes -> Store \cup {Blank, Torn}]
    BY <2>1, <2>2 DEF TypeOK
  <2>6. UNCHANGED <<world, queued, copy, dispatchVars, inbox, told, tried>>
    BY <1>1 DEF SaveOpen
  <2>7. QED  BY <2>4, <2>5, <2>6 DEF TypeOK, world, dispatchVars
<1>2. CASE SaveWrite(w)
  <2>1. PICK text \in {copy[w], Torn} : content' = [content EXCEPT ![fd[w]] = text]
    BY <1>2 DEF SaveWrite
  <2>2. text \in Store \cup {Blank, Torn}  BY <2>1 DEF TypeOK
  <2>3. content' \in [Inodes -> Store \cup {Blank, Torn}]
    BY <2>1, <2>2 DEF TypeOK
  <2>4. GoTo(w, "rename") /\ "rename" \in Whereabouts
    BY <1>2 DEF SaveWrite, Whereabouts
  <2>5. pc' \in [Writers -> Whereabouts]  BY <2>4, GoToType
  <2>6. UNCHANGED <<world, queued, copy, fd, dispatchVars, names, inbox, told, tried>>
    BY <1>2 DEF SaveWrite
  <2>7. QED  BY <2>3, <2>5, <2>6 DEF TypeOK, world, dispatchVars
<1>3. QED  BY <1>1, <1>2

LEMMA RenamesType ==
  ASSUME TypeOK, Renames
  PROVE  /\ names' \in [store : Inodes, tmp : Inodes \cup {NoFile}]
         /\ content' \in [Inodes -> Store \cup {Blank, Torn}]
<1>1. names.tmp \in Inodes  BY DEF Renames, TypeOK
<1>2. names' = [store |-> names.tmp, tmp |-> NoFile]  BY DEF Renames
<1>3. names' \in [store : Inodes, tmp : Inodes \cup {NoFile}]  BY <1>1, <1>2
<1>4. content' = content \/ content' = [content EXCEPT ![names.store] = Blank]
  BY DEF Renames
<1>5. content' \in [Inodes -> Store \cup {Blank, Torn}]  BY <1>4 DEF TypeOK
<1>6. QED  BY <1>3, <1>5

-----------------------------------------------------------------------------
\* Every action preserves the types.
LEMMA WorldType ==
  ASSUME TypeOK, NextDay \/ Compile \/ Crash \/ Start
  PROVE  TypeOK'
<1>1. CASE NextDay  BY <1>1, Bounds DEF NextDay, TypeOK, dispatchVars, fileVars
<1>2. CASE Compile  BY <1>2, Bounds DEF Compile, TypeOK, dispatchVars, fileVars
<1>3. CASE Crash
  <2>1. /\ pc' \in [Writers -> Whereabouts]
        /\ copy' \in [Writers -> Store]
        /\ fd' \in [Writers -> Inodes \cup {NoFile}]
    BY <1>3, EntryTypes DEF Crash, Whereabouts
  <2>2. /\ crashes' \in 0..MaxCrashes /\ queued' \in Nat
        /\ today' \in 0..MaxDay /\ loaded' \in 0..MaxCompile
    BY <1>3, Bounds DEF Crash, TypeOK
  <2>3. alive' \in BOOLEAN /\ todo' \subseteq Crew /\ sent' \in BOOLEAN
    BY <1>3 DEF Crash
  <2>4. QED  BY <1>3, <2>1, <2>2, <2>3 DEF Crash, TypeOK, fileVars
<1>4. CASE Start  BY <1>4 DEF Start, TypeOK, dispatchVars, fileVars
<1>5. QED  BY <1>1, <1>2, <1>3, <1>4

LEMMA DispatchType ==
  ASSUME TypeOK, DispatchStart \/ DispatchLoad \/ DispatchBriefing
  PROVE  TypeOK'
<1> USE WriterSets
<1>1. CASE DispatchStart
  <2>1. pc' \in [Writers -> Whereabouts]
    BY <1>1, GoToType DEF DispatchStart, TypeOK, Whereabouts
  <2>2. today' \in 0..MaxDay /\ queued' \in Nat
    BY <1>1, Bounds DEF DispatchStart, TypeOK
  <2>3. QED
    BY <1>1, <2>1, <2>2 DEF DispatchStart, TypeOK, world, fileVars
<1>2. CASE DispatchLoad
  <2>1. CASE Done(Dispatcher)
    BY <1>2, <2>1, DoneType DEF DispatchLoad, TypeOK, world, dispatchVars, fileVars
  <2>2. CASE /\ GoTo(Dispatcher, "briefing")
             /\ copy' = [copy EXCEPT ![Dispatcher] = Read]
             /\ UNCHANGED fd
    <3>1. pc' \in [Writers -> Whereabouts]  BY <2>2, GoToType DEF Whereabouts
    <3>2. copy' \in [Writers -> Store]  BY <2>2, ReadType DEF TypeOK
    <3>3. QED
      BY <1>2, <2>2, <3>1, <3>2 DEF DispatchLoad, TypeOK, world, dispatchVars, fileVars
  <2>3. QED  BY <1>2, <2>1, <2>2 DEF DispatchLoad
<1>3. CASE DispatchBriefing
  <2>1. CASE Done(Dispatcher) /\ UNCHANGED dispatchVars
    BY <1>3, <2>1, DoneType DEF DispatchBriefing, TypeOK, world, dispatchVars, fileVars
  <2>2. CASE /\ GoTo(Dispatcher, "send")
             /\ todo' = Pending(copy[Dispatcher])
             /\ loaded' = compile
             /\ sent' = FALSE
             /\ UNCHANGED <<copy, fd, today>>
    <3>1. pc' \in [Writers -> Whereabouts]  BY <2>2, GoToType DEF Whereabouts
    <3>2. todo' \subseteq Crew  BY <2>2 DEF Pending, Awaiting
    <3>3. QED
      BY <1>3, <2>2, <3>1, <3>2 DEF DispatchBriefing, TypeOK, world, fileVars
  <2>3. QED  BY <1>3, <2>1, <2>2 DEF DispatchBriefing
<1>4. QED  BY <1>1, <1>2, <1>3

\* What every outcome of a delivery leaves in place.
LEMMA AfterDeliveryType ==
  ASSUME TypeOK, NEW m \in todo, NEW s \in BOOLEAN, AfterDelivery(m, s)
  PROVE  /\ pc' \in [Writers -> Whereabouts]
         /\ fd' = fd /\ todo' \subseteq Crew /\ sent' \in BOOLEAN
         /\ tried' \subseteq Members
<1>1. pc' \in [Writers -> Whereabouts]
  <2>1. CASE todo # {m}  BY <2>1 DEF AfterDelivery, TypeOK
  <2>2. CASE todo = {m}
    <3>1. PICK x \in {"open", "idle"} : GoTo(Dispatcher, x)
      BY <2>2 DEF AfterDelivery
    <3>2. QED  BY <3>1, GoToType, WriterSets DEF Whereabouts
  <2>3. QED  BY <2>1, <2>2
<1>2. fd' = fd /\ todo' \subseteq Crew /\ sent' \in BOOLEAN
  BY DEF AfterDelivery, TypeOK
<1>3. tried' \subseteq Members
  <2>1. m \in Members /\ tried \subseteq Members  BY CrewAssumption DEF TypeOK
  <2>2. tried' = tried \cup {m}  BY DEF AfterDelivery
  <2>3. QED  BY <2>1, <2>2
<1>4. QED  BY <1>1, <1>2, <1>3

LEMMA DeliveryType ==
  ASSUME TypeOK, NEW m \in todo, DeliverOk(m) \/ DeliverFailed(m)
  PROVE  TypeOK'
<1>1. m \in Members /\ sent \in BOOLEAN  BY CrewAssumption DEF TypeOK
<1>2. CASE DeliverOk(m)
  <2>1. inbox' \in [Members -> Seq([day : Nat, compile : Nat])]
    BY <1>1, <1>2, ReceivesType DEF DeliverOk
  <2>2. [day |-> today, floor |-> loaded] \in Entry
    BY Bounds, EntryTypes DEF TypeOK
  <2>3. copy' \in [Writers -> Store]
    <3>1. copy[Dispatcher] \in Store  BY WriterSets DEF TypeOK
    <3>2. [copy[Dispatcher] EXCEPT ![m] = [day |-> today, floor |-> loaded]] \in Store
      BY <1>1, <2>2, <3>1 DEF Store
    <3>3. copy' = [copy EXCEPT ![Dispatcher] =
            [copy[Dispatcher] EXCEPT ![m] = [day |-> today, floor |-> loaded]]]
      BY <1>2 DEF DeliverOk
    <3>4. QED  BY <3>2, <3>3, WriterSets DEF TypeOK
  <2>4. AfterDelivery(m, TRUE)  BY <1>2 DEF DeliverOk
  <2>5. QED
    BY <2>1, <2>3, <2>4, AfterDeliveryType DEF AfterDelivery, TypeOK, world, fileVars
<1>3. CASE DeliverFailed(m)
  <2>1. inbox' \in [Members -> Seq([day : Nat, compile : Nat])]
    BY <1>1, <1>3, ReceivesType DEF DeliverFailed, TypeOK
  <2>2. copy' \in [Writers -> Store]
    BY <1>3, EntryTypes, WriterSets DEF DeliverFailed, TypeOK
  <2>3. AfterDelivery(m, sent)  BY <1>3 DEF DeliverFailed
  <2>4. QED
    BY <1>1, <2>1, <2>2, <2>3, AfterDeliveryType
       DEF AfterDelivery, TypeOK, world, fileVars
<1>4. QED  BY <1>2, <1>3

LEMMA DispatchEndType ==
  ASSUME TypeOK, DispatchRename \/ DispatchSaveFails
  PROVE  TypeOK'
<1>1. Done(Dispatcher)  BY DEF DispatchRename, DispatchSaveFails
<1>2. /\ names' \in [store : Inodes, tmp : Inodes \cup {NoFile}]
      /\ content' \in [Inodes -> Store \cup {Blank, Torn}]
  BY RenamesType DEF DispatchRename, DispatchSaveFails, SaveRefused, fileVars, TypeOK
<1>3. QED
  BY <1>1, <1>2, DoneType, WriterSets
     DEF DispatchRename, DispatchSaveFails, TypeOK, world, dispatchVars

\* An answer either reaches the member or does not.
LEMMA AnswerType ==
  ASSUME TypeOK, NEW m \in Members,
         NEW x \in {"nothing", "subscribed", "unsubscribed", "failed"}, Answer(m, x)
  PROVE  told' \in [Members -> {"nothing", "subscribed", "unsubscribed", "failed"}]
BY DEF Answer, TypeOK

LEMMA CommandType ==
  ASSUME TypeOK, NEW m \in Members, NEW kind \in Commands,
         \/ CommandStart(m, kind) \/ CommandLoad(m, kind)
         \/ CommandRename(m) \/ CommandFails(m)
  PROVE  TypeOK'
<1> USE WriterSets
<1>1. CASE CommandStart(m, kind)
  <2>1. pc' \in [Writers -> Whereabouts]
    BY <1>1, GoToType DEF CommandStart, Loading, Whereabouts
  <2>2. QED
    BY <1>1, <2>1 DEF CommandStart, TypeOK, world, dispatchVars, fileVars
<1>2. CASE CommandLoad(m, kind)
  <2>1. CASE Done(m) /\ Answer(m, Answered(kind))
    BY <1>2, <2>1, DoneType, AnswerType
       DEF CommandLoad, Answered, TypeOK, world, dispatchVars, fileVars
  <2>2. CASE /\ GoTo(m, "open")
             /\ copy' = [copy EXCEPT ![m] = [Read EXCEPT ![m] = Wanted(m, kind)]]
             /\ UNCHANGED <<fd, told>>
    <3>1. pc' \in [Writers -> Whereabouts]  BY <2>2, GoToType DEF Whereabouts
    <3>2. Wanted(m, kind) \in Entry \cup {NoEntry}  BY EntryTypes DEF Wanted
    <3>3. [Read EXCEPT ![m] = Wanted(m, kind)] \in Store
      BY <3>2, ReadType DEF Store
    <3>4. copy' \in [Writers -> Store]  BY <2>2, <3>3 DEF TypeOK
    <3>5. QED
      BY <1>2, <2>2, <3>1, <3>4 DEF CommandLoad, TypeOK, world, dispatchVars, fileVars
  <2>3. QED  BY <1>2, <2>1, <2>2 DEF CommandLoad
<1>3. CASE CommandRename(m) \/ CommandFails(m)
  <2>1. Done(m)  BY <1>3 DEF CommandRename, CommandFails
  <2>2. /\ names' \in [store : Inodes, tmp : Inodes \cup {NoFile}]
        /\ content' \in [Inodes -> Store \cup {Blank, Torn}]
    BY <1>3, RenamesType DEF CommandRename, CommandFails, SaveRefused, fileVars, TypeOK
  <2>3. told' \in [Members -> {"nothing", "subscribed", "unsubscribed", "failed"}]
    BY <1>3, AnswerType DEF CommandRename, CommandFails
  <2>4. QED
    BY <1>3, <2>1, <2>2, <2>3, DoneType
       DEF CommandRename, CommandFails, TypeOK, world, dispatchVars
<1>4. QED  BY <1>1, <1>2, <1>3

LEMMA NextType == TypeOK /\ [Next]_vars => TypeOK'
<1> SUFFICES ASSUME TypeOK, [Next]_vars PROVE TypeOK'
  OBVIOUS
<1>1. CASE NextDay \/ Compile \/ Crash \/ Start  BY <1>1, WorldType
<1>2. CASE DispatchStep
  BY <1>2, DispatchType, DeliveryType, DispatchEndType, SaveType, WriterSets
     DEF DispatchStep
<1>3. ASSUME NEW m \in Members, CommandStep(m) PROVE TypeOK'
  BY <1>3, CommandType, SaveType, WriterSets DEF CommandStep, Commands
<1>4. CASE UNCHANGED vars
  BY <1>4 DEF vars, world, dispatchVars, fileVars, TypeOK
<1>5. QED  BY <1>1, <1>2, <1>3, <1>4 DEF Next

\* TypeOK holds in every state, for any crew, any faults and any bounds.
THEOREM TypeCorrect == Spec => []TypeOK
BY InitType, NextType, PTL DEF Spec

-----------------------------------------------------------------------------
(* NeverMarkedUndelivered is inductive: inboxes only grow, stores only move *)
(* between files and copies, and the one new mark follows a delivery.      *)

InboxGrows == \A m \in Members : \A i \in DOMAIN inbox[m] :
  i \in DOMAIN inbox'[m] /\ inbox'[m][i] = inbox[m][i]

LEMMA ReceivesGrows ==
  ASSUME TypeOK, NEW m \in Members, Receives(m)
  PROVE  /\ InboxGrows
         /\ \E i \in DOMAIN inbox'[m] : inbox'[m][i].compile = loaded
<1>1. inbox[m] \in Seq([day : Nat, compile : Nat])  BY DEF TypeOK
<1> DEFINE new == [day |-> day, compile |-> loaded]
<1>2. inbox' = [inbox EXCEPT ![m] = Append(inbox[m], new)]  BY DEF Receives
<1>3. inbox'[m] = Append(inbox[m], new)  BY <1>2 DEF TypeOK
<1>4. /\ DOMAIN Append(inbox[m], new) = 1..(Len(inbox[m]) + 1)
      /\ Append(inbox[m], new)[Len(inbox[m]) + 1] = new
      /\ \A i \in 1..Len(inbox[m]) : Append(inbox[m], new)[i] = inbox[m][i]
      /\ DOMAIN inbox[m] = 1..Len(inbox[m]) /\ Len(inbox[m]) \in Nat
  BY <1>1
<1>5. InboxGrows
  <2> SUFFICES ASSUME NEW n \in Members, NEW i \in DOMAIN inbox[n]
               PROVE  i \in DOMAIN inbox'[n] /\ inbox'[n][i] = inbox[n][i]
    BY DEF InboxGrows
  <2>1. CASE n = m  BY <2>1, <1>3, <1>4
  <2>2. CASE n # m  BY <2>2, <1>2 DEF TypeOK
  <2>3. QED  BY <2>1, <2>2
<1>6. QED  BY <1>3, <1>4, <1>5

LEMMA BackedStays ==
  ASSUME InboxGrows \/ inbox' = inbox, NEW s, Backed(s)
  PROVE  Backed(s)'
BY DEF InboxGrows, Backed

LEMMA EmptyBacked == Backed(EmptyStore) /\ Backed(EmptyStore)'
BY DEF Backed, EmptyStore, NoEntry

LEMMA ReadBacked ==
  ASSUME TypeOK, NeverMarkedUndelivered
  PROVE  Backed(Read)
<1>1. names.store \in Inodes  BY DEF TypeOK
<1>2. QED  BY <1>1, EmptyBacked DEF Read, NeverMarkedUndelivered

\* The two halves of NeverMarkedUndelivered.
FilesBacked == \A i \in Inodes : content[i] \in {Blank, Torn} \/ Backed(content[i])
CopiesBacked == \A w \in Writers : Backed(copy[w])

LEMMA FilesStay ==
  ASSUME FilesBacked, InboxGrows \/ inbox' = inbox, content' = content
  PROVE  FilesBacked'
<1> SUFFICES ASSUME NEW i \in Inodes
             PROVE  content[i] \in {Blank, Torn} \/ Backed(content[i])'
  BY DEF FilesBacked
<1> DEFINE s == content[i]
<1>1. s \in {Blank, Torn} \/ Backed(s)  BY DEF FilesBacked
<1>2. content'[i] = content[i]  OBVIOUS
<1>3. QED  BY <1>1, <1>2 DEF InboxGrows, Backed

LEMMA CopiesStay ==
  ASSUME CopiesBacked, InboxGrows \/ inbox' = inbox, copy' = copy
  PROVE  CopiesBacked'
BY DEF CopiesBacked, InboxGrows, Backed

LEMMA DoneCopies ==
  ASSUME TypeOK, CopiesBacked, inbox' = inbox, NEW w \in Writers, Done(w)
  PROVE  CopiesBacked'
<1>1. ASSUME NEW v \in Writers PROVE copy'[v] = copy[v] \/ copy'[v] = EmptyStore
  BY DEF Done, TypeOK
<1>2. QED  BY <1>1, EmptyBacked DEF CopiesBacked, Backed

LEMMA SaveFiles ==
  ASSUME TypeOK, NeverMarkedUndelivered, NEW w \in Writers,
         SaveOpen(w) \/ SaveWrite(w) \/ (Renames /\ inbox' = inbox)
  PROVE  FilesBacked'
<1>1. ASSUME NEW i \in Inodes
      PROVE  content'[i] \in {content[i], copy[w], Blank, Torn}
  <2>1. CASE SaveOpen(w)  BY <2>1 DEF SaveOpen, TypeOK
  <2>2. CASE SaveWrite(w)  BY <2>2 DEF SaveWrite, TypeOK
  <2>3. CASE Renames  BY <2>3 DEF Renames, TypeOK
  <2>4. QED  BY <2>1, <2>2, <2>3
<1>2. inbox' = inbox  BY DEF SaveOpen, SaveWrite
<1>3. ASSUME NEW i \in Inodes
      PROVE  (content[i] \in {Blank, Torn} \/ Backed(content[i])) /\ Backed(copy[w])
  BY DEF NeverMarkedUndelivered
<1>4. QED  BY <1>1, <1>2, <1>3 DEF FilesBacked, Backed

LEMMA SaveBacked ==
  ASSUME TypeOK, NeverMarkedUndelivered, NEW w \in Writers, SaveOpen(w) \/ SaveWrite(w)
  PROVE  NeverMarkedUndelivered'
<1>1. inbox' = inbox /\ copy' = copy  BY DEF SaveOpen, SaveWrite
<1>2. CopiesBacked'
  BY <1>1, CopiesStay DEF NeverMarkedUndelivered, CopiesBacked
<1>3. QED  BY <1>2, SaveFiles DEF NeverMarkedUndelivered, FilesBacked, CopiesBacked

LEMMA DeliveryBacked ==
  ASSUME TypeOK, NeverMarkedUndelivered, NEW m \in todo,
         DeliverOk(m) \/ DeliverFailed(m)
  PROVE  NeverMarkedUndelivered'
<1>1. FilesBacked /\ CopiesBacked
  BY DEF NeverMarkedUndelivered, FilesBacked, CopiesBacked
<1>2. m \in Members /\ Dispatcher \in Writers
  BY CrewAssumption, WriterSets DEF TypeOK
<1>3. content' = content  BY DEF DeliverOk, DeliverFailed, AfterDelivery, fileVars
<1>4. InboxGrows \/ inbox' = inbox
  BY <1>2, ReceivesGrows DEF DeliverOk, DeliverFailed
<1>5. FilesBacked'  BY <1>1, <1>3, <1>4, FilesStay
<1>6. CASE DeliverFailed(m)
  <2>1. ASSUME NEW w \in Writers PROVE copy'[w] = copy[w] \/ copy'[w] = EmptyStore
    BY <1>6 DEF DeliverFailed, TypeOK
  <2>2. ASSUME NEW w \in Writers PROVE Backed(copy[w])'
    <3>1. Backed(copy[w])  BY <1>1 DEF CopiesBacked
    <3>2. CASE copy'[w] = copy[w]  BY <1>4, <3>1, <3>2 DEF Backed, InboxGrows
    <3>3. CASE copy'[w] = EmptyStore
      BY <3>3 DEF Backed, EmptyStore, NoEntry
    <3>4. QED  BY <2>1, <3>2, <3>3
  <2>3. CopiesBacked'  BY <2>2 DEF CopiesBacked
  <2>4. QED  BY <1>5, <2>3 DEF NeverMarkedUndelivered, FilesBacked, CopiesBacked
<1>7. CASE DeliverOk(m)
  <2>1. /\ InboxGrows
        /\ \E i \in DOMAIN inbox'[m] : inbox'[m][i].compile = loaded
    BY <1>2, <1>7, ReceivesGrows DEF DeliverOk
  <2>2. copy[Dispatcher] \in Store  BY <1>2 DEF TypeOK
  <2>3. /\ \A w \in Writers : w # Dispatcher => copy'[w] = copy[w]
        /\ \A n \in Members : n # m => copy'[Dispatcher][n] = copy[Dispatcher][n]
        /\ copy'[Dispatcher][m].floor = loaded
    BY <1>2, <1>7, <2>2 DEF DeliverOk, TypeOK, Store
  <2>4. ASSUME NEW w \in Writers PROVE Backed(copy[w])'
    <3>1. Backed(copy[w])  BY <1>1 DEF CopiesBacked
    <3>2. CASE w # Dispatcher  BY <2>1, <2>3, <3>1, <3>2 DEF Backed, InboxGrows
    <3>3. CASE w = Dispatcher
      <4> SUFFICES ASSUME NEW n \in Members, copy'[w][n].floor > 0
                   PROVE  \E i \in DOMAIN inbox'[n] :
                            inbox'[n][i].compile = copy'[w][n].floor
        BY DEF Backed
      <4>1. CASE n = m  BY <2>1, <2>3, <3>3, <4>1
      <4>2. CASE n # m  BY <2>1, <2>3, <3>1, <3>3, <4>2 DEF Backed, InboxGrows
      <4>3. QED  BY <4>1, <4>2
    <3>4. QED  BY <3>2, <3>3
  <2>5. CopiesBacked'  BY <2>4 DEF CopiesBacked
  <2>6. QED  BY <1>5, <2>5 DEF NeverMarkedUndelivered, FilesBacked, CopiesBacked
<1>8. QED  BY <1>6, <1>7

\* A writer takes the store it has read, changed for no mark.
LEMMA LoadBacked ==
  ASSUME TypeOK, NeverMarkedUndelivered, NEW w \in Writers, NEW s,
         \A m \in Members : s[m].floor > 0 => s[m] = Read[m],
         copy' = [copy EXCEPT ![w] = s], inbox' = inbox, content' = content
  PROVE  NeverMarkedUndelivered'
<1>1. FilesBacked /\ CopiesBacked
  BY DEF NeverMarkedUndelivered, FilesBacked, CopiesBacked
<1>2. Backed(s)  BY ReadBacked DEF Backed
<1>3. ASSUME NEW v \in Writers PROVE copy'[v] = s \/ copy'[v] = copy[v]
  BY DEF TypeOK
<1>4. CopiesBacked'  BY <1>1, <1>2, <1>3 DEF CopiesBacked, Backed
<1>5. FilesBacked'  BY <1>1, FilesStay
<1>6. QED  BY <1>4, <1>5 DEF NeverMarkedUndelivered, FilesBacked, CopiesBacked

LEMMA InitBacked == Init => NeverMarkedUndelivered
<1> SUFFICES ASSUME Init PROVE NeverMarkedUndelivered
  OBVIOUS
<1>1. PICK s \in InitialStores :
       /\ content = [i \in Inodes |-> IF i = 1 THEN s ELSE Blank]
       /\ inbox = [m \in Members |->
            IF s[m].floor > 0
              THEN <<[day |-> s[m].day, compile |-> s[m].floor]>> ELSE <<>>]
  BY DEF Init
<1>2. Backed(s)
  <2> SUFFICES ASSUME NEW m \in Members, s[m].floor > 0
               PROVE  \E i \in DOMAIN inbox[m] : inbox[m][i].compile = s[m].floor
    BY DEF Backed
  <2>1. inbox[m] = <<[day |-> s[m].day, compile |-> s[m].floor]>>  BY <1>1
  <2>2. 1 \in DOMAIN inbox[m] /\ inbox[m][1].compile = s[m].floor  BY <2>1
  <2>3. QED  BY <2>2
<1>3. \A i \in Inodes : content[i] = s \/ content[i] = Blank  BY <1>1
<1>4. \A w \in Writers : copy[w] = EmptyStore  BY DEF Init
<1>5. QED  BY <1>2, <1>3, <1>4, EmptyBacked DEF NeverMarkedUndelivered

LEMMA NextBacked ==
  TypeOK /\ NeverMarkedUndelivered /\ [Next]_vars => NeverMarkedUndelivered'
<1> SUFFICES ASSUME TypeOK, NeverMarkedUndelivered, [Next]_vars
             PROVE  NeverMarkedUndelivered'
  OBVIOUS
<1> USE WriterSets
<1>a. FilesBacked /\ CopiesBacked
  BY DEF NeverMarkedUndelivered, FilesBacked, CopiesBacked
<1>b. ASSUME FilesBacked', CopiesBacked' PROVE NeverMarkedUndelivered'
  BY <1>b DEF NeverMarkedUndelivered, FilesBacked, CopiesBacked
\* Nothing that counts changes.
<1>c. ASSUME content' = content, copy' = copy, inbox' = inbox
      PROVE  NeverMarkedUndelivered'
  BY <1>a, <1>b, <1>c, FilesStay, CopiesStay
\* A writer ends, with or without having renamed its file.
<1>d. ASSUME NEW w \in Writers, Done(w), inbox' = inbox, content' = content \/ Renames
      PROVE  NeverMarkedUndelivered'
  BY <1>a, <1>b, <1>d, FilesStay, SaveFiles, DoneCopies
<1>1. CASE NextDay \/ Compile \/ Start
  BY <1>1, <1>c DEF NextDay, Compile, Start, fileVars
<1>2. CASE Crash
  <2>1. CopiesBacked'  BY <1>2, EmptyBacked DEF Crash, CopiesBacked
  <2>2. content' = content /\ inbox' = inbox  BY <1>2 DEF Crash, fileVars
  <2>3. FilesBacked'  BY <1>a, <2>2, FilesStay
  <2>4. QED  BY <1>b, <2>1, <2>3
<1>3. CASE DispatchStep
  <2>1. CASE DispatchStart  BY <2>1, <1>c DEF DispatchStart, fileVars
  <2>2. CASE DispatchLoad
    <3>1. content' = content /\ inbox' = inbox  BY <2>2 DEF DispatchLoad, fileVars
    <3>2. QED  BY <2>2, <3>1, <1>d, LoadBacked DEF DispatchLoad
  <2>3. CASE DispatchBriefing  BY <2>3, <1>c, <1>d DEF DispatchBriefing, fileVars
  <2>4. CASE \E m \in todo : DeliverOk(m) \/ DeliverFailed(m)
    BY <2>4, DeliveryBacked
  <2>5. CASE SaveOpen(Dispatcher) \/ SaveWrite(Dispatcher)  BY <2>5, SaveBacked
  <2>6. CASE DispatchRename \/ DispatchSaveFails
    BY <2>6, <1>d DEF DispatchRename, DispatchSaveFails, SaveRefused, fileVars
  <2>7. QED  BY <1>3, <2>1, <2>2, <2>3, <2>4, <2>5, <2>6 DEF DispatchStep
<1>4. ASSUME NEW m \in Members, CommandStep(m) PROVE NeverMarkedUndelivered'
  <2>1. ASSUME NEW kind \in Commands, CommandStart(m, kind)
        PROVE  NeverMarkedUndelivered'
    BY <2>1, <1>c DEF CommandStart, fileVars
  <2>2. ASSUME NEW kind \in Commands, CommandLoad(m, kind)
        PROVE  NeverMarkedUndelivered'
    <3>1. content' = content /\ inbox' = inbox  BY <2>2 DEF CommandLoad, fileVars
    <3> DEFINE s == [Read EXCEPT ![m] = Wanted(m, kind)]
    <3>2. \A n \in Members : s[n].floor > 0 => s[n] = Read[n]
      <4>1. ~(Wanted(m, kind).floor > 0)
        BY DEF Wanted, NewEntry, NoEntry
      <4>2. QED  BY <4>1, ReadType DEF Store
    <3>3. CASE Done(m)  BY <3>1, <3>3, <1>d
    <3>4. CASE copy' = [copy EXCEPT ![m] = s]  BY <3>1, <3>2, <3>4, LoadBacked
    <3>5. QED  BY <2>2, <3>3, <3>4 DEF CommandLoad
  <2>3. CASE SaveOpen(m) \/ SaveWrite(m)  BY <2>3, SaveBacked
  <2>4. CASE CommandRename(m) \/ CommandFails(m)
    BY <2>4, <1>d DEF CommandRename, CommandFails, SaveRefused, fileVars
  <2>5. QED  BY <1>4, <2>1, <2>2, <2>3, <2>4 DEF CommandStep
<1>5. CASE UNCHANGED vars  BY <1>5, <1>c DEF vars, fileVars
<1>6. QED  BY <1>1, <1>2, <1>3, <1>4, <1>5 DEF Next

\* Whatever fails, crashes or overlaps, nobody is marked with a compile that
\* has not reached them: a lost race or crash can repeat a briefing, and can
\* never cost one.
THEOREM MarksAreDelivered == Spec => []NeverMarkedUndelivered
<1>1. Init => TypeOK /\ NeverMarkedUndelivered  BY InitType, InitBacked
<1>2. TypeOK /\ NeverMarkedUndelivered /\ [Next]_vars
        => (TypeOK /\ NeverMarkedUndelivered)'
  BY NextType, NextBacked
<1>3. QED  BY <1>1, <1>2, PTL DEF Spec

-----------------------------------------------------------------------------
(* Without commands the dispatcher is the only writer.  Then the temporary *)
(* file is its own from the opening to the rename, and the store is never  *)
(* anything but one whole text, also across crashes and failed saves.      *)

MembersIdle == \A m \in Members : pc[m] = "idle"
StoreWhole == names.store # names.tmp /\ content[names.store] \in Store
TmpOwned ==
  /\ pc[Dispatcher] \in {"write", "rename"} =>
       names.tmp # NoFile /\ fd[Dispatcher] = names.tmp
  /\ pc[Dispatcher] = "write" => content[names.tmp] = Blank
  /\ pc[Dispatcher] = "rename" => content[names.tmp] = copy[Dispatcher]
SoleWriter == MembersIdle /\ StoreWhole /\ TmpOwned

LEMMA InitSole == Init => SoleWriter
<1> SUFFICES ASSUME Init PROVE SoleWriter
  OBVIOUS
<1>1. \A w \in Writers : pc[w] = "idle"  BY DEF Init
<1>2. MembersIdle /\ TmpOwned  BY <1>1, WriterSets DEF MembersIdle, TmpOwned
<1>3. PICK s \in InitialStores :
       /\ names = [store |-> 1, tmp |-> NoFile]
       /\ content = [i \in Inodes |-> IF i = 1 THEN s ELSE Blank]
  BY DEF Init
<1>4. StoreWhole
  BY <1>3, InodesType, StoresAssumption DEF StoreWhole, NoFile
<1>5. QED  BY <1>2, <1>4 DEF SoleWriter

\* A step that touches no file and after which the dispatcher is not saving.
LEMMA SoleStays ==
  ASSUME SoleWriter, names' = names, content' = content,
         \A m \in Members : pc'[m] = "idle",
         pc'[Dispatcher] \notin {"write", "rename"}
  PROVE  SoleWriter'
BY DEF SoleWriter, MembersIdle, StoreWhole, TmpOwned

LEMMA OthersStay ==
  ASSUME TypeOK, MembersIdle, NEW x, pc' = [pc EXCEPT ![Dispatcher] = x]
  PROVE  (\A m \in Members : pc'[m] = "idle") /\ pc'[Dispatcher] = x
BY MembersAssumption, WriterSets DEF TypeOK, MembersIdle, Dispatcher

LEMMA SaveSole ==
  ASSUME TypeOK, SoleWriter, SaveOpen(Dispatcher) \/ SaveWrite(Dispatcher)
  PROVE  SoleWriter'
<1> USE WriterSets
<1>1. CASE SaveOpen(Dispatcher)
  <2>1. PICK i \in IF names.tmp = NoFile THEN NextFree ELSE {names.tmp} :
          /\ fd' = [fd EXCEPT ![Dispatcher] = i]
          /\ names' = [names EXCEPT !.tmp = i]
          /\ content' = [content EXCEPT ![i] = Blank]
    BY <1>1 DEF SaveOpen
  <2>2. i \in Inodes /\ i # names.store
    BY <2>1 DEF NextFree, InUse, TypeOK, SoleWriter, StoreWhole
  <2>3. (\A m \in Members : pc'[m] = "idle") /\ pc'[Dispatcher] = "write"
    BY <1>1, OthersStay DEF SaveOpen, GoTo, SoleWriter
  <2>4. names'.tmp = i /\ names'.store = names.store  BY <2>1 DEF TypeOK
  <2>5. i # NoFile  BY <2>2, InodesType
  <2>6. TmpOwned'  BY <2>1, <2>2, <2>3, <2>4, <2>5 DEF TmpOwned, TypeOK
  <2>7. StoreWhole'
    BY <2>1, <2>2, <2>4 DEF StoreWhole, SoleWriter, TypeOK
  <2>8. QED  BY <2>3, <2>6, <2>7 DEF SoleWriter, MembersIdle
<1>2. CASE SaveWrite(Dispatcher)
  <2>1. content[fd[Dispatcher]] = Blank /\ fd[Dispatcher] = names.tmp
        /\ names.tmp # NoFile
    BY <1>2 DEF SaveWrite, SoleWriter, TmpOwned
  <2>2. content' = [content EXCEPT ![names.tmp] = copy[Dispatcher]]
    BY <1>2, <2>1 DEF SaveWrite
  <2>3. (\A m \in Members : pc'[m] = "idle") /\ pc'[Dispatcher] = "rename"
    BY <1>2, OthersStay DEF SaveWrite, GoTo, SoleWriter
  <2>4. names' = names /\ fd' = fd /\ copy' = copy  BY <1>2 DEF SaveWrite
  <2>5. names.tmp \in Inodes /\ names.store \in Inodes /\ names.store # names.tmp
    BY <2>1 DEF TypeOK, SoleWriter, StoreWhole
  <2>6. TmpOwned'  BY <2>1, <2>2, <2>3, <2>4, <2>5 DEF TmpOwned, TypeOK
  <2>7. StoreWhole'
    BY <2>2, <2>4, <2>5 DEF StoreWhole, SoleWriter, TypeOK
  <2>8. QED  BY <2>3, <2>6, <2>7 DEF SoleWriter, MembersIdle
<1>3. QED  BY <1>1, <1>2

\* The rename puts the dispatcher's copy in the store's place.
LEMMA RenameSole ==
  ASSUME TypeOK, SoleWriter, DispatchRename
  PROVE  SoleWriter' /\ Read' = copy[Dispatcher]
<1> USE WriterSets
<1>1. /\ names.tmp \in Inodes /\ names.store \in Inodes
      /\ names.tmp # names.store /\ content[names.tmp] = copy[Dispatcher]
  BY DEF DispatchRename, Renames, TypeOK, SoleWriter, StoreWhole, TmpOwned
<1>2. names' = [store |-> names.tmp, tmp |-> NoFile]
  BY DEF DispatchRename, Renames
<1>3. content'[names.tmp] = copy[Dispatcher]
  BY <1>1 DEF DispatchRename, Renames, TypeOK
<1>4. names'.store = names.tmp /\ names'.tmp = NoFile /\ names.tmp # NoFile
  BY <1>1, <1>2, InodesType
<1>5. copy[Dispatcher] \in Store  BY DEF TypeOK
<1>6. StoreWhole'  BY <1>3, <1>4, <1>5 DEF StoreWhole
<1>7. (\A m \in Members : pc'[m] = "idle") /\ pc'[Dispatcher] = "idle"
  BY OthersStay DEF DispatchRename, Done, SoleWriter
<1>8. Read' = copy[Dispatcher]
  BY <1>3, <1>4, <1>5, StoresAssumption DEF Read
<1>9. QED  BY <1>6, <1>7, <1>8 DEF SoleWriter, MembersIdle, TmpOwned

LEMMA NextSole ==
  ASSUME "commands" \notin Faults
  PROVE  TypeOK /\ SoleWriter /\ [Next]_vars => SoleWriter'
<1> SUFFICES ASSUME TypeOK, SoleWriter, [Next]_vars PROVE SoleWriter'
  OBVIOUS
<1> USE WriterSets
<1>a. MembersIdle  BY DEF SoleWriter
<1>b. ASSUME UNCHANGED <<names, content, pc, copy, fd>> PROVE SoleWriter'
  BY <1>b DEF SoleWriter, MembersIdle, StoreWhole, TmpOwned
<1>c. ASSUME Done(Dispatcher), UNCHANGED <<names, content>> PROVE SoleWriter'
  <2>1. (\A m \in Members : pc'[m] = "idle") /\ pc'[Dispatcher] = "idle"
    BY <1>a, <1>c, OthersStay DEF Done
  <2>2. QED  BY <1>c, <2>1, SoleStays
<1>d. ASSUME NEW x \in {"load", "briefing", "send", "open", "idle"},
             GoTo(Dispatcher, x), UNCHANGED <<names, content>>
      PROVE  SoleWriter'
  <2>1. (\A m \in Members : pc'[m] = "idle") /\ pc'[Dispatcher] = x
    BY <1>a, <1>d, OthersStay DEF GoTo
  <2>2. QED  BY <1>d, <2>1, SoleStays
<1>1. CASE NextDay \/ Compile \/ Start
  BY <1>1, <1>b DEF NextDay, Compile, Start, fileVars
<1>2. CASE Crash
  <2>1. /\ \A m \in Members : pc'[m] = "idle"
        /\ pc'[Dispatcher] = "idle"
        /\ names' = names /\ content' = content
    BY <1>2 DEF Crash, fileVars
  <2>2. QED  BY <2>1, SoleStays
<1>3. CASE DispatchStart
  BY <1>3, <1>b, <1>d DEF DispatchStart, fileVars
<1>4. CASE DispatchLoad  BY <1>4, <1>c, <1>d DEF DispatchLoad, fileVars
<1>5. CASE DispatchBriefing  BY <1>5, <1>c, <1>d DEF DispatchBriefing, fileVars
<1>6. ASSUME NEW m \in todo, DeliverOk(m) \/ DeliverFailed(m) PROVE SoleWriter'
  <2>1. /\ pc[Dispatcher] = "send"
        /\ AfterDelivery(m, TRUE) \/ AfterDelivery(m, sent)
    BY <1>6 DEF DeliverOk, DeliverFailed
  <2>2. names' = names /\ content' = content  BY <2>1 DEF AfterDelivery, fileVars
  <2>3. CASE pc' = pc
    BY <1>a, <2>1, <2>2, <2>3, SoleStays DEF MembersIdle
  <2>4. CASE GoTo(Dispatcher, "open") \/ GoTo(Dispatcher, "idle")
    BY <1>d, <2>2, <2>4
  <2>5. QED  BY <2>1, <2>3, <2>4 DEF AfterDelivery
<1>7. CASE SaveOpen(Dispatcher) \/ SaveWrite(Dispatcher)  BY <1>7, SaveSole
<1>8. CASE DispatchRename  BY <1>8, RenameSole
<1>9. CASE DispatchSaveFails
  BY <1>9, <1>c DEF DispatchSaveFails, SaveRefused, fileVars
<1>10. ASSUME NEW m \in Members, CommandStep(m) PROVE FALSE
  <2>1. pc[m] = "idle"  BY <1>a DEF MembersIdle
  <2>2. QED
    BY <1>10, <2>1 DEF CommandStep, CommandStart, CommandLoad, Loading,
       SaveOpen, SaveWrite, CommandRename, CommandFails, SaveRefused
<1>11. CASE UNCHANGED vars  BY <1>11, <1>b DEF vars, fileVars
<1>12. QED
  BY <1>1, <1>2, <1>3, <1>4, <1>5, <1>6, <1>7, <1>8, <1>9, <1>10, <1>11
     DEF Next, DispatchStep

\* As long as only dispatches write, no crash and no failed save ever leaves
\* anything but a whole store behind the store's name.
THEOREM SoleWriterKeepsStore ==
  ASSUME "commands" \notin Faults
  PROVE  Spec => []StoreNeverTorn
<1>1. Init => TypeOK /\ SoleWriter  BY InitType, InitSole
<1>2. TypeOK /\ SoleWriter /\ [Next]_vars => (TypeOK /\ SoleWriter)'
  BY NextType, NextSole
<1>3. TypeOK /\ SoleWriter => StoreNeverTorn
  BY StoresAssumption DEF SoleWriter, StoreWhole, StoreNeverTorn
<1>4. QED  BY <1>1, <1>2, <1>3, PTL DEF Spec

-----------------------------------------------------------------------------
(* At most once.  Until the process first stops, and while deliveries tell *)
(* the truth and saves succeed, every briefing received is covered by the  *)
(* floor of the store that counts: the dispatcher's copy from the first    *)
(* delivery to the rename, the file at any other time.                     *)

Sending == pc[Dispatcher] \in {"send", "open", "write", "rename"}
Current == IF Sending THEN copy[Dispatcher] ELSE Read

Covered == \A m \in Members : \A i \in DOMAIN inbox[m] :
  inbox[m][i].compile <= Current[m].floor
CopyCurrent ==
  (pc[Dispatcher] = "briefing" \/ (pc[Dispatcher] = "send" /\ ~sent))
    => copy[Dispatcher] = Read
TodoNew == pc[Dispatcher] = "send" =>
  \A m \in todo : copy[Dispatcher][m].floor < loaded
OnceInv == crashes = 0 =>
  Covered /\ CopyCurrent /\ TodoNew /\ CompileAtMostOnce

\* Deliveries tell the truth, saves succeed and nobody else writes.
Reliable == {"commands", "late", "saveFails"} \cap Faults = {}

LEMMA InitOnce == Init => OnceInv
<1> SUFFICES ASSUME Init PROVE OnceInv
  OBVIOUS
<1>1. PICK s \in InitialStores :
       /\ names = [store |-> 1, tmp |-> NoFile]
       /\ content = [i \in Inodes |-> IF i = 1 THEN s ELSE Blank]
       /\ inbox = [m \in Members |->
            IF s[m].floor > 0
              THEN <<[day |-> s[m].day, compile |-> s[m].floor]>> ELSE <<>>]
  BY DEF Init
<1>2. pc[Dispatcher] = "idle"  BY WriterSets DEF Init
<1>3. s \in Store /\ s # Blank /\ s # Torn  BY StoresAssumption
<1>4. Current = s
  BY <1>1, <1>2, <1>3, InodesType DEF Current, Sending, Read, NoFile
<1>5. ASSUME NEW m \in Members, NEW i \in DOMAIN inbox[m]
      PROVE  i = 1 /\ inbox[m][i].compile = s[m].floor /\ s[m].floor \in Nat
  <2>1. CASE s[m].floor > 0
    <3>1. inbox[m] = <<[day |-> s[m].day, compile |-> s[m].floor]>>
      BY <1>1, <2>1
    <3>2. i = 1 /\ inbox[m][1].compile = s[m].floor  BY <1>5, <3>1
    <3>3. s[m] \in Entry  BY <1>3, <2>1 DEF Store, NoEntry
    <3>4. QED  BY <3>2, <3>3 DEF Entry
  <2>2. CASE ~(s[m].floor > 0)
    <3>1. inbox[m] = <<>>  BY <1>1, <2>2
    <3>2. QED  BY <1>5, <3>1
  <2>3. QED  BY <2>1, <2>2
<1>6. Covered  BY <1>4, <1>5 DEF Covered
<1>7. CompileAtMostOnce  BY <1>5 DEF CompileAtMostOnce
<1>8. QED  BY <1>2, <1>6, <1>7 DEF OnceInv, CopyCurrent, TodoNew

\* The store that counts, the inboxes and what the dispatcher holds stay.
LEMMA OnceStays ==
  ASSUME OnceInv, crashes' = crashes, inbox' = inbox,
         crashes = 0 => Current' = Current /\ CopyCurrent' /\ TodoNew'
  PROVE  OnceInv'
BY DEF OnceInv, Covered, CompileAtMostOnce

LEMMA SeqElement ==
  ASSUME NEW S, NEW s \in Seq(S), NEW i \in DOMAIN s
  PROVE  s[i] \in S
OBVIOUS

\* A delivery that succeeds: the compile is new to its member, and marked.
LEMMA DeliverOkOnce ==
  ASSUME TypeOK, OnceInv, NEW m \in todo, DeliverOk(m), crashes = 0
  PROVE  OnceInv'
<1> USE WriterSets
<1>1. /\ m \in Members /\ pc[Dispatcher] = "send"
      /\ Covered /\ CopyCurrent /\ TodoNew /\ CompileAtMostOnce
  BY CrewAssumption DEF TypeOK, DeliverOk, OnceInv
<1> DEFINE new == [day |-> day, compile |-> loaded]
           c == copy[Dispatcher]
<1>2. Current = c  BY <1>1 DEF Current, Sending
<1>3. inbox' = [inbox EXCEPT ![m] = Append(inbox[m], new)]
  BY DEF DeliverOk, Receives
<1>4. inbox'[m] = Append(inbox[m], new)  BY <1>1, <1>3 DEF TypeOK
<1>5. inbox[m] \in Seq([day : Nat, compile : Nat]) /\ loaded \in Nat
  BY <1>1, Bounds DEF TypeOK
<1>6. /\ DOMAIN inbox'[m] = 1..(Len(inbox[m]) + 1)
      /\ inbox'[m][Len(inbox[m]) + 1] = new
      /\ \A i \in DOMAIN inbox[m] : inbox'[m][i] = inbox[m][i]
      /\ DOMAIN inbox[m] = 1..Len(inbox[m]) /\ Len(inbox[m]) \in Nat
  BY <1>4, <1>5
<1>20. ASSUME NEW i \in DOMAIN inbox[m] PROVE inbox[m][i].compile \in Nat
  <2>1. inbox[m][i] \in [day : Nat, compile : Nat]  BY <1>5, SeqElement
  <2>2. QED  BY <2>1
<1>7. \A n \in Members : n # m => inbox'[n] = inbox[n]  BY <1>3 DEF TypeOK
<1>8. c \in Store  BY DEF TypeOK
<1>9. /\ copy'[Dispatcher][m].floor = loaded
      /\ \A n \in Members : n # m => copy'[Dispatcher][n] = c[n]
  BY <1>1, <1>8 DEF DeliverOk, TypeOK, Store
<1>10. \A i \in DOMAIN inbox[m] : inbox[m][i].compile <= c[m].floor
  BY <1>1, <1>2 DEF Covered
<1>11. c[m].floor < loaded /\ c[m].floor \in Int
  BY <1>1, <1>8 DEF TodoNew, Store, Entry, NoEntry
<1>12. \A i \in DOMAIN inbox[m] : inbox[m][i].compile < loaded
  BY <1>5, <1>10, <1>11, <1>20
<1>13. pc'[Dispatcher] \in {"send", "open"}
  <2>1. CASE pc' = pc  BY <1>1, <2>1
  <2>2. CASE GoTo(Dispatcher, "open")  BY <2>2 DEF GoTo, TypeOK
  <2>3. QED  BY <2>1, <2>2 DEF DeliverOk, AfterDelivery
<1>14. Current' = copy'[Dispatcher]  BY <1>13 DEF Current, Sending
<1>15. Covered'
  <2> SUFFICES ASSUME NEW n \in Members, NEW i \in DOMAIN inbox'[n]
               PROVE  inbox'[n][i].compile <= copy'[Dispatcher][n].floor
    BY <1>14 DEF Covered
  <2>1. CASE n # m
    <3>1. inbox'[n] = inbox[n] /\ copy'[Dispatcher][n] = c[n]
      BY <1>7, <1>9, <2>1
    <3>2. i \in DOMAIN inbox[n]  BY <3>1
    <3>3. inbox[n][i].compile <= c[n].floor  BY <1>1, <1>2, <3>2 DEF Covered
    <3>4. QED  BY <3>1, <3>3
  <2>2. CASE n = m /\ i \in DOMAIN inbox[m]
    <3>1. inbox'[m][i] = inbox[m][i] /\ inbox[m][i].compile < loaded
      BY <1>6, <1>12, <2>2
    <3>2. inbox[m][i].compile \in Nat  BY <1>20, <2>2
    <3>3. inbox[m][i].compile <= loaded  BY <1>5, <3>1, <3>2
    <3>4. QED  BY <1>9, <2>2, <3>1, <3>3
  <2>3. CASE n = m /\ i = Len(inbox[m]) + 1
    BY <1>5, <1>6, <1>9, <2>3
  <2>4. QED  BY <1>6, <2>1, <2>2, <2>3
<1>16. CompileAtMostOnce'
  <2> SUFFICES ASSUME NEW n \in Members, NEW i \in DOMAIN inbox'[n],
                      NEW j \in DOMAIN inbox'[n], i # j
               PROVE  inbox'[n][i].compile # inbox'[n][j].compile
    BY DEF CompileAtMostOnce
  <2>1. CASE n # m
    <3>1. inbox'[n] = inbox[n]  BY <1>7, <2>1
    <3>2. i \in DOMAIN inbox[n] /\ j \in DOMAIN inbox[n]  BY <3>1
    <3>3. inbox[n][i].compile # inbox[n][j].compile
      BY <1>1, <3>2 DEF CompileAtMostOnce
    <3>4. QED  BY <3>1, <3>3
  <2>2. CASE n = m /\ i \in DOMAIN inbox[m] /\ j \in DOMAIN inbox[m]
    BY <1>1, <1>6, <2>2 DEF CompileAtMostOnce
  <2>3. CASE n = m /\ i \in DOMAIN inbox[m] /\ j = Len(inbox[m]) + 1
    <3>1. inbox'[m][i] = inbox[m][i] /\ inbox[m][i].compile < loaded
      BY <1>6, <1>12, <2>3
    <3>2. inbox[m][i].compile \in Nat  BY <1>20, <2>3
    <3>3. inbox[m][i].compile # loaded  BY <1>5, <3>1, <3>2
    <3>4. inbox'[m][j].compile = loaded  BY <1>6, <2>3
    <3>5. QED  BY <2>3, <3>1, <3>3, <3>4
  <2>4. CASE n = m /\ i = Len(inbox[m]) + 1 /\ j \in DOMAIN inbox[m]
    <3>1. inbox'[m][j] = inbox[m][j] /\ inbox[m][j].compile < loaded
      BY <1>6, <1>12, <2>4
    <3>2. inbox[m][j].compile \in Nat  BY <1>20, <2>4
    <3>3. inbox[m][j].compile # loaded  BY <1>5, <3>1, <3>2
    <3>4. inbox'[m][i].compile = loaded  BY <1>6, <2>4
    <3>5. QED  BY <2>4, <3>1, <3>3, <3>4
  <2>5. QED  BY <1>6, <2>1, <2>2, <2>3, <2>4
<1>17. TodoNew'
  <2>1. todo' = todo \ {m} /\ loaded' = loaded
    BY DEF DeliverOk, AfterDelivery
  <2>2. \A n \in todo' : n \in Members /\ n # m
    BY <2>1, CrewAssumption DEF TypeOK
  <2>3. QED  BY <1>1, <1>9, <2>1, <2>2 DEF TodoNew
<1>18. CopyCurrent'
  <2>1. pc'[Dispatcher] = "send" => sent'
    <3>1. CASE todo # {m}  BY <3>1 DEF DeliverOk, AfterDelivery
    <3>2. CASE todo = {m}
      <4>1. GoTo(Dispatcher, "open")  BY <3>2 DEF DeliverOk, AfterDelivery
      <4>2. QED  BY <4>1 DEF GoTo, TypeOK
    <3>3. QED  BY <3>1, <3>2
  <2>2. QED  BY <1>13, <2>1 DEF CopyCurrent
<1>19. QED  BY <1>15, <1>16, <1>17, <1>18 DEF OnceInv

\* A delivery that fails; if it was the last and none succeeded, the copy,
\* which then is what the file says, is dropped.
LEMMA DeliverFailedStays ==
  ASSUME Reliable, TypeOK, CopyCurrent, TodoNew, NEW m \in todo, DeliverFailed(m)
  PROVE  /\ UNCHANGED <<crashes, inbox>>
         /\ Current' = Current /\ CopyCurrent' /\ TodoNew'
<1> USE WriterSets
<1>1. pc[Dispatcher] = "send" /\ AfterDelivery(m, sent) /\ inbox' = inbox
  BY DEF DeliverFailed, Reliable
<1>2. crashes' = crashes /\ loaded' = loaded /\ todo' \subseteq todo /\ Read' = Read
  BY <1>1 DEF AfterDelivery, world, fileVars, Read
<1>3. Current = copy[Dispatcher]  BY <1>1 DEF Current, Sending
<1>4. CASE todo # {m}
  <2>1. copy' = copy /\ pc' = pc /\ sent' = sent
    BY <1>1, <1>4 DEF DeliverFailed, AfterDelivery
  <2>2. QED
    BY <1>1, <1>2, <1>3, <2>1 DEF Current, Sending, CopyCurrent, TodoNew
<1>5. CASE todo = {m} /\ sent
  <2>1. copy' = copy  BY <1>5 DEF DeliverFailed
  <2>2. pc'[Dispatcher] = "open"
    BY <1>1, <1>5 DEF AfterDelivery, GoTo, TypeOK
  <2>3. QED  BY <1>1, <1>2, <1>3, <2>1, <2>2 DEF Current, Sending, CopyCurrent, TodoNew
<1>6. CASE todo = {m} /\ ~sent
  <2>1. pc'[Dispatcher] = "idle"
    BY <1>1, <1>6 DEF AfterDelivery, GoTo, TypeOK
  <2>2. copy[Dispatcher] = Read  BY <1>1, <1>6 DEF CopyCurrent
  <2>3. QED
    BY <1>1, <1>2, <1>3, <2>1, <2>2 DEF Current, Sending, CopyCurrent, TodoNew
<1>7. QED  BY <1>4, <1>5, <1>6

\* Only a successful delivery and a crash change the store that counts.
LEMMA CurrentStays ==
  ASSUME Reliable, TypeOK, SoleWriter, CopyCurrent, TodoNew, [Next]_vars,
         ~Crash, \A m \in todo : ~DeliverOk(m)
  PROVE  /\ UNCHANGED <<crashes, inbox>>
         /\ Current' = Current /\ CopyCurrent' /\ TodoNew'
<1> USE WriterSets
<1> DEFINE Stays == /\ UNCHANGED <<crashes, inbox>>
                    /\ Current' = Current /\ CopyCurrent' /\ TodoNew'
<1>b. ASSUME UNCHANGED <<names, content>> PROVE Read' = Read
  BY <1>b DEF Read
\* Between dispatches, or while one has not sent anything yet.
<1>c. ASSUME UNCHANGED <<crashes, inbox, names, content>>,
             ~Sending, pc'[Dispatcher] \notin {"briefing", "send", "open", "write", "rename"}
      PROVE  Stays
  BY <1>b, <1>c DEF Current, Sending, CopyCurrent, TodoNew
<1>d. ASSUME UNCHANGED <<crashes, inbox, names, content, pc, copy, todo, loaded, sent>>
      PROVE  Stays
  BY <1>b, <1>d DEF Current, Sending, CopyCurrent, TodoNew
<1>1. CASE NextDay \/ Compile \/ Start
  BY <1>1, <1>d DEF NextDay, Compile, Start, fileVars, dispatchVars
<1>3. CASE DispatchStart
  <2>1. /\ pc[Dispatcher] = "idle"
        /\ pc' = pc \/ pc'[Dispatcher] = "load"
        /\ UNCHANGED <<crashes, inbox, names, content>>
    BY <1>3 DEF DispatchStart, GoTo, TypeOK, world, fileVars
  <2>2. QED  BY <1>c, <2>1 DEF Sending
<1>4. CASE DispatchLoad
  <2>1. pc[Dispatcher] = "load" /\ UNCHANGED <<crashes, inbox, names, content>>
    BY <1>4 DEF DispatchLoad, world, fileVars
  <2>2. CASE Done(Dispatcher)
    <3>1. pc'[Dispatcher] = "idle"  BY <2>2 DEF Done, TypeOK
    <3>2. QED  BY <1>c, <2>1, <3>1 DEF Sending
  <2>3. CASE GoTo(Dispatcher, "briefing") /\ copy' = [copy EXCEPT ![Dispatcher] = Read]
    <3>1. pc'[Dispatcher] = "briefing" /\ copy'[Dispatcher] = Read
      BY <2>3 DEF GoTo, TypeOK
    <3>2. QED  BY <1>b, <2>1, <3>1 DEF Current, Sending, CopyCurrent, TodoNew
  <2>4. QED  BY <1>4, <2>2, <2>3 DEF DispatchLoad
<1>5. CASE DispatchBriefing
  <2>1. pc[Dispatcher] = "briefing" /\ UNCHANGED <<crashes, inbox, names, content>>
    BY <1>5 DEF DispatchBriefing, world, fileVars
  <2>2. CASE Done(Dispatcher)
    <3>1. pc'[Dispatcher] = "idle"  BY <2>2 DEF Done, TypeOK
    <3>2. QED  BY <1>c, <2>1, <3>1 DEF Sending
  <2>3. CASE /\ GoTo(Dispatcher, "send")
             /\ todo' = Pending(copy[Dispatcher])
             /\ loaded' = compile
             /\ UNCHANGED copy
    <3>1. pc'[Dispatcher] = "send"  BY <2>3 DEF GoTo, TypeOK
    <3>2. copy[Dispatcher] = Read  BY <2>1 DEF CopyCurrent
    <3>3. Current' = Current /\ CopyCurrent'
      BY <1>b, <2>1, <2>3, <3>1, <3>2 DEF Current, Sending, CopyCurrent
    <3>4. TodoNew'  BY <2>3 DEF TodoNew, Pending
    <3>5. QED  BY <2>1, <3>3, <3>4
  <2>4. QED  BY <1>5, <2>2, <2>3 DEF DispatchBriefing
<1>7. ASSUME NEW m \in todo, DeliverFailed(m) PROVE Stays
  BY <1>7, DeliverFailedStays
<1>8. CASE SaveOpen(Dispatcher) \/ SaveWrite(Dispatcher)
  <2>1. /\ pc[Dispatcher] \in {"open", "write"}
        /\ pc'[Dispatcher] \in {"write", "rename"}
        /\ UNCHANGED <<crashes, inbox, copy>>
    BY <1>8 DEF SaveOpen, SaveWrite, GoTo, TypeOK, world
  <2>2. QED  BY <2>1 DEF Current, Sending, CopyCurrent, TodoNew
<1>9. CASE DispatchRename
  <2>1. Read' = copy[Dispatcher]  BY <1>9, RenameSole
  <2>2. /\ pc[Dispatcher] = "rename" /\ pc'[Dispatcher] = "idle"
        /\ UNCHANGED <<crashes, inbox>>
    BY <1>9 DEF DispatchRename, Done, TypeOK, world
  <2>3. QED  BY <2>1, <2>2 DEF Current, Sending, CopyCurrent, TodoNew
<1>10. CASE DispatchSaveFails
  <2>1. pc[Dispatcher] = "rename" /\ names.tmp = NoFile
    BY <1>10 DEF DispatchSaveFails, SaveRefused, Reliable
  <2>2. QED  BY <2>1 DEF SoleWriter, TmpOwned
<1>11. ASSUME NEW m \in Members, CommandStep(m) PROVE FALSE
  <2>1. pc[m] = "idle"  BY DEF SoleWriter, MembersIdle
  <2>2. "commands" \notin Faults  BY DEF Reliable
  <2>3. QED
    BY <1>11, <2>1, <2>2 DEF CommandStep, CommandStart, CommandLoad, Loading,
       SaveOpen, SaveWrite, CommandRename, CommandFails, SaveRefused
<1>12. CASE UNCHANGED vars  BY <1>12, <1>d DEF vars, world, fileVars, dispatchVars
<1>13. QED
  BY <1>1, <1>3, <1>4, <1>5, <1>7, <1>8, <1>9, <1>10, <1>11, <1>12
     DEF Next, DispatchStep

\* The number of crashes only grows.
LEMMA CrashesStay == ASSUME TypeOK, [Next]_vars PROVE crashes' = crashes \/ Crash
BY DEF Next, vars, world, NextDay, Compile, Start, DispatchStep, DispatchStart,
   DispatchLoad, DispatchBriefing, DeliverOk, DeliverFailed, AfterDelivery, SaveOpen,
   SaveWrite, DispatchRename, DispatchSaveFails, CommandStep, CommandStart, CommandLoad,
   CommandRename, CommandFails

LEMMA NextOnce ==
  ASSUME Reliable
  PROVE  TypeOK /\ SoleWriter /\ OnceInv /\ [Next]_vars => OnceInv'
<1> SUFFICES ASSUME TypeOK, SoleWriter, OnceInv, [Next]_vars PROVE OnceInv'
  OBVIOUS
<1>1. CASE Crash
  <2>1. crashes' # 0  BY <1>1 DEF Crash, TypeOK
  <2>2. QED  BY <2>1 DEF OnceInv
<1>2. CASE crashes # 0 /\ ~Crash
  BY <1>2, CrashesStay DEF OnceInv
<1>3. ASSUME crashes = 0, NEW m \in todo, DeliverOk(m) PROVE OnceInv'
  BY <1>3, DeliverOkOnce
<1>4. CASE crashes = 0 /\ ~Crash /\ \A m \in todo : ~DeliverOk(m)
  BY <1>4, CurrentStays, OnceStays DEF OnceInv
<1>5. QED  BY <1>1, <1>2, <1>3, <1>4

\* Until a crash, no subscriber receives a compile twice, and what was received
\* is recorded or about to be, as long as deliveries tell the truth, saves
\* succeed and no command writes beside the dispatches.
THEOREM AtMostOnce ==
  ASSUME Reliable
  PROVE  Spec => [](RecordedOrInFlight /\ (crashes = 0 => CompileAtMostOnce))
<1>1. Init => TypeOK /\ SoleWriter /\ OnceInv  BY InitType, InitSole, InitOnce
<1>2. TypeOK /\ SoleWriter /\ OnceInv /\ [Next]_vars
        => (TypeOK /\ SoleWriter /\ OnceInv)'
  <2>1. "commands" \notin Faults  BY DEF Reliable
  <2>2. QED  BY <2>1, NextType, NextSole, NextOnce
<1>3. TypeOK /\ OnceInv =>
        RecordedOrInFlight /\ (crashes = 0 => CompileAtMostOnce)
  <2> SUFFICES ASSUME TypeOK, OnceInv, crashes = 0
               PROVE  RecordedOrInFlight /\ CompileAtMostOnce
    BY DEF RecordedOrInFlight
  <2> SUFFICES ASSUME NEW m \in Members, NEW i \in DOMAIN inbox[m]
               PROVE  Recorded(m, inbox[m][i].compile)
    BY DEF RecordedOrInFlight, OnceInv
  <2>1. inbox[m][i].compile \in Nat
    <3>1. inbox[m] \in Seq([day : Nat, compile : Nat])  BY DEF TypeOK
    <3>2. inbox[m][i] \in [day : Nat, compile : Nat]  BY <3>1, SeqElement
    <3>3. QED  BY <3>2
  <2>2. inbox[m][i].compile <= Current[m].floor  BY DEF OnceInv, Covered
  <2>3. Current \in Store
    BY ReadType, WriterSets DEF Current, TypeOK
  <2>4. Current[m].floor \in Int  BY <2>3 DEF Store, Entry, NoEntry
  <2>5. Current[m].floor >= inbox[m][i].compile  BY <2>1, <2>2, <2>4
  <2>6. QED  BY <2>5 DEF Current, Sending, Recorded
<1>4. QED  BY <1>1, <1>2, <1>3, PTL DEF Spec
-----------------------------------------------------------------------------
(***************************************************************************)
(* Repetitions across crashes.  A crash may leave the store behind what a  *)
(* member has received; until the member's next delivery that is one       *)
(* repetition in the offing, and afterwards the store has caught up.  So   *)
(* the repetitions a member has had, and one more if the store that counts *)
(* is behind, are never more than the crashes.                             *)
(***************************************************************************)
Behind(S, mark) == IF \A x \in S : x <= mark THEN 0 ELSE 1
PaidFor(m, S, mark) == Len(inbox[m]) - Cardinality(S) + Behind(S, mark) <= crashes

\* Days do not pass during a dispatch, and who is in it lacks today's briefing.
Today == pc[Dispatcher] # "idle" => today = day
TodoToday == pc[Dispatcher] = "send" =>
  \A m \in todo : copy[Dispatcher][m].day # today

\* Nothing was received, or is marked, ahead of the day or of the compile sent.
NotAhead ==
  /\ pc[Dispatcher] = "send" => loaded <= compile
  /\ \A m \in Members :
       /\ \A c \in Compiles(m) :
            c <= compile /\ (pc[Dispatcher] = "send" => c <= loaded)
       /\ \A d \in Days(m) : d <= day
       /\ Read[m].day <= day /\ Current[m].day <= day

Ledger == \A m \in Members :
  /\ PaidFor(m, Compiles(m), Current[m].floor)
  /\ PaidFor(m, Days(m), Current[m].day)

RepetitionInv == CopyCurrent /\ TodoNew /\ Today /\ TodoToday /\ NotAhead /\ Ledger

-----------------------------------------------------------------------------
(* What has been received, and the sets of its compiles and days *)

LEMMA InboxParts ==
  ASSUME TypeOK, NEW m \in Members
  PROVE  /\ inbox[m] \in Seq([day : Nat, compile : Nat]) /\ Len(inbox[m]) \in Nat
         /\ Compiles(m) \subseteq Nat /\ Days(m) \subseteq Nat
<1>1. inbox[m] \in Seq([day : Nat, compile : Nat])  BY DEF TypeOK
<1>2. \A i \in DOMAIN inbox[m] : inbox[m][i] \in [day : Nat, compile : Nat]
  BY <1>1, SeqElement
<1>3. QED  BY <1>1, <1>2 DEF Compiles, Days

LEMMA InboxFinite ==
  ASSUME TypeOK, NotAhead, NEW m \in Members
  PROVE  IsFiniteSet(Compiles(m)) /\ IsFiniteSet(Days(m))
<1>1. compile \in Nat /\ day \in Nat  BY Bounds DEF TypeOK
<1>2. (\A c \in Compiles(m) : c <= compile) /\ (\A d \in Days(m) : d <= day)
  BY DEF NotAhead
<1>3. QED  BY <1>1, <1>2, InboxParts, FS_BoundedSetOfNaturals

LEMMA StoreParts ==
  ASSUME NEW s \in Store, NEW m \in Members
  PROVE  s[m].day \in Nat /\ s[m].floor \in Int
BY DEF Store, Entry, NoEntry

LEMMA CurrentType == ASSUME TypeOK PROVE Current \in Store
BY ReadType, WriterSets DEF Current, TypeOK

LEMMA CrashesType == ASSUME TypeOK PROVE crashes \in Nat
BY Bounds DEF TypeOK

\* A briefing that is delivered adds its compile and its day.
LEMMA Delivered ==
  ASSUME TypeOK, NEW m \in todo, DeliverOk(m)
  PROVE  /\ m \in Members /\ pc[Dispatcher] = "send" /\ loaded \in Nat /\ day \in Nat
         /\ Len(inbox'[m]) = Len(inbox[m]) + 1
         /\ Compiles(m)' = Compiles(m) \cup {loaded} /\ Days(m)' = Days(m) \cup {day}
         /\ \A n \in Members \ {m} : inbox'[n] = inbox[n]
<1>1. m \in Members /\ loaded \in Nat /\ day \in Nat
  BY CrewAssumption, Bounds DEF TypeOK
<1> DEFINE new == [day |-> day, compile |-> loaded]
<1>2. inbox' = [inbox EXCEPT ![m] = Append(inbox[m], new)]
  BY DEF DeliverOk, Receives
<1>3. inbox'[m] = Append(inbox[m], new)  BY <1>1, <1>2 DEF TypeOK
<1>4. \A n \in Members \ {m} : inbox'[n] = inbox[n]  BY <1>2 DEF TypeOK
<1>5. inbox[m] \in Seq([day : Nat, compile : Nat]) /\ new \in [day : Nat, compile : Nat]
  BY <1>1, InboxParts
<1> HIDE DEF new
<1>6. /\ Len(inbox[m]) \in Nat /\ Len(inbox'[m]) = Len(inbox[m]) + 1
      /\ DOMAIN inbox[m] = 1..Len(inbox[m])
      /\ DOMAIN inbox'[m] = DOMAIN inbox[m] \cup {Len(inbox[m]) + 1}
      /\ inbox'[m][Len(inbox[m]) + 1] = new
      /\ \A i \in DOMAIN inbox[m] : inbox'[m][i] = inbox[m][i]
  BY <1>3, <1>5
<1>7. new.compile = loaded /\ new.day = day  BY DEF new
<1>8. Compiles(m)' = Compiles(m) \cup {loaded}  BY <1>6, <1>7 DEF Compiles
<1>9. Days(m)' = Days(m) \cup {day}  BY <1>6, <1>7 DEF Days
<1>10. QED  BY <1>1, <1>4, <1>6, <1>8, <1>9 DEF DeliverOk

\* A delivery beyond the mark either is no repetition, or it is the one that a crash
\* had put in the offing.
LEMMA OneMore ==
  ASSUME NEW S \in SUBSET Nat, IsFiniteSet(S), NEW n \in Nat, NEW paid \in Nat,
         NEW mark \in Int, NEW x \in Nat, \A y \in S : y <= x, mark < x,
         n - Cardinality(S) + Behind(S, mark) <= paid
  PROVE  (n + 1) - Cardinality(S \cup {x}) + Behind(S \cup {x}, x) <= paid
<1>1. Cardinality(S) \in Nat  BY FS_CardinalityType
<1>2. Behind(S \cup {x}, x) = 0  BY DEF Behind
<1>3. CASE x \in S
  <2>1. Behind(S, mark) = 1  BY <1>3 DEF Behind
  <2>2. Cardinality(S \cup {x}) = Cardinality(S)  BY <1>3, FS_AddElement
  <2>3. QED  BY <1>1, <1>2, <2>1, <2>2
<1>4. CASE x \notin S
  <2>1. Cardinality(S \cup {x}) = Cardinality(S) + 1  BY <1>4, FS_AddElement
  <2>2. Behind(S, mark) \in {0, 1}  BY DEF Behind
  <2>3. QED  BY <1>1, <1>2, <2>1, <2>2
<1>5. QED  BY <1>3, <1>4

-----------------------------------------------------------------------------
LEMMA InitRepetition == Init => RepetitionInv
<1> SUFFICES ASSUME Init PROVE RepetitionInv
  OBVIOUS
<1>1. PICK s \in InitialStores :
       /\ names = [store |-> 1, tmp |-> NoFile]
       /\ content = [i \in Inodes |-> IF i = 1 THEN s ELSE Blank]
       /\ \A m \in Members : s[m].day <= 1 /\ s[m].floor <= compile
       /\ inbox = [m \in Members |->
            IF s[m].floor > 0
              THEN <<[day |-> s[m].day, compile |-> s[m].floor]>> ELSE <<>>]
  BY DEF Init
<1>2. pc[Dispatcher] = "idle" /\ day = 1 /\ crashes = 0  BY WriterSets DEF Init
<1>3. s \in Store /\ s # Blank /\ s # Torn  BY StoresAssumption
<1>4. Current = s /\ Read = s
  BY <1>1, <1>2, <1>3, InodesType DEF Current, Sending, Read, NoFile
<1>5. ASSUME NEW m \in Members
      PROVE  /\ s[m].floor > 0 =>
                  /\ Len(inbox[m]) = 1
                  /\ Compiles(m) = {s[m].floor} /\ Days(m) = {s[m].day}
             /\ ~(s[m].floor > 0) => Len(inbox[m]) = 0 /\ Compiles(m) = {} /\ Days(m) = {}
  <2>1. CASE s[m].floor > 0
    <3>1. inbox[m] = <<[day |-> s[m].day, compile |-> s[m].floor]>>
      BY <1>1, <2>1
    <3>2. /\ Len(inbox[m]) = 1 /\ DOMAIN inbox[m] = {1}
          /\ inbox[m][1].day = s[m].day /\ inbox[m][1].compile = s[m].floor
      BY <3>1
    <3>3. QED  BY <2>1, <3>2 DEF Compiles, Days
  <2>2. CASE ~(s[m].floor > 0)
    <3>1. inbox[m] = <<>>  BY <1>1, <2>2
    <3>2. QED  BY <2>2, <3>1 DEF Compiles, Days
  <2>3. QED  BY <2>1, <2>2
<1>6. \A m \in Members : s[m].day \in Nat /\ s[m].floor \in Int
  BY <1>3, StoreParts
<1>7. NotAhead  BY <1>1, <1>2, <1>4, <1>5, <1>6 DEF NotAhead
<1>8. Ledger
  <2> SUFFICES ASSUME NEW m \in Members
               PROVE  /\ PaidFor(m, Compiles(m), s[m].floor)
                      /\ PaidFor(m, Days(m), s[m].day)
    BY <1>4 DEF Ledger
  <2>1. \A x : Cardinality({x}) = 1  BY FS_Singleton
  <2>2. Cardinality({}) = 0  BY FS_EmptySet
  <2>3. CASE s[m].floor > 0
    <3>1. /\ Len(inbox[m]) = 1
          /\ Compiles(m) = {s[m].floor} /\ Days(m) = {s[m].day}
      BY <1>5, <2>3
    <3>2. /\ Behind(Compiles(m), s[m].floor) = 0 /\ Behind(Days(m), s[m].day) = 0
      BY <1>6, <3>1 DEF Behind
    <3>3. Cardinality(Compiles(m)) = 1 /\ Cardinality(Days(m)) = 1
      BY <2>1, <3>1
    <3>4. QED  BY <1>2, <3>1, <3>2, <3>3 DEF PaidFor
  <2>4. CASE ~(s[m].floor > 0)
    <3>1. Len(inbox[m]) = 0 /\ Compiles(m) = {} /\ Days(m) = {}
      BY <1>5, <2>4
    <3>2. /\ Behind(Compiles(m), s[m].floor) = 0 /\ Behind(Days(m), s[m].day) = 0
      BY <3>1 DEF Behind
    <3>3. QED  BY <1>2, <2>2, <3>1, <3>2 DEF PaidFor
  <2>5. QED  BY <2>3, <2>4
<1>9. QED
  BY <1>2, <1>7, <1>8
  DEF RepetitionInv, CopyCurrent, TodoNew, Today, TodoToday

\* Only a rename changes what a reader finds.
LEMMA ReadStays ==
  ASSUME "commands" \notin Faults, TypeOK, SoleWriter, [Next]_vars, ~DispatchRename
  PROVE  Read' = Read
<1> USE WriterSets
<1>1. CASE UNCHANGED <<names, content>>  BY <1>1 DEF Read
<1>2. CASE SaveOpen(Dispatcher)
  <2>1. PICK i \in IF names.tmp = NoFile THEN NextFree ELSE {names.tmp} :
          /\ names' = [names EXCEPT !.tmp = i]
          /\ content' = [content EXCEPT ![i] = Blank]
    BY <1>2 DEF SaveOpen
  <2>2. i # names.store /\ names.store \in Inodes
    BY <2>1 DEF NextFree, InUse, TypeOK, SoleWriter, StoreWhole
  <2>3. names'.store = names.store /\ content'[names.store] = content[names.store]
    BY <2>1, <2>2 DEF TypeOK
  <2>4. QED  BY <2>3 DEF Read
<1>3. CASE SaveWrite(Dispatcher)
  <2>1. /\ fd[Dispatcher] = names.tmp /\ names' = names
        /\ names.store # names.tmp /\ names.store \in Inodes
    BY <1>3 DEF SaveWrite, SoleWriter, TmpOwned, StoreWhole, TypeOK
  <2>2. content'[names.store] = content[names.store]
    BY <1>3, <2>1 DEF SaveWrite, TypeOK
  <2>3. QED  BY <2>1, <2>2 DEF Read
<1>4. ASSUME NEW m \in Members, CommandStep(m) PROVE FALSE
  <2>1. pc[m] = "idle"  BY DEF SoleWriter, MembersIdle
  <2>2. QED
    BY <1>4, <2>1 DEF CommandStep, CommandStart, CommandLoad, Loading,
       SaveOpen, SaveWrite, CommandRename, CommandFails, SaveRefused
<1>5. QED
  BY <1>1, <1>2, <1>3, <1>4
  DEF Next, vars, fileVars, NextDay, Compile, Crash, Start, DispatchStep, DispatchStart,
      DispatchLoad, DispatchBriefing, DeliverOk, DeliverFailed, AfterDelivery,
      DispatchSaveFails, SaveRefused

\* Deliveries and saves are reliable, and no day begins during a dispatch.
Steady == Reliable /\ "midnight" \notin Faults

\* The day a dispatch works with is the present one, and who is in it lacks it.
LEMMA NextToday ==
  ASSUME Steady, TypeOK, SoleWriter, RepetitionInv, [Next]_vars
  PROVE  Today' /\ TodoToday'
<1> USE WriterSets
<1>0. Today /\ TodoToday /\ TodoNew  BY DEF RepetitionInv
<1>1. CASE NextDay
  <2>1. pc[Dispatcher] = "idle" /\ pc' = pc  BY <1>1 DEF NextDay, Steady
  <2>2. QED  BY <2>1 DEF Today, TodoToday
<1>2. CASE Compile \/ Start \/ UNCHANGED vars
  <2>1. UNCHANGED <<pc, copy, day, today, todo>>
    BY <1>2 DEF Compile, Start, vars, world, dispatchVars
  <2>2. QED  BY <1>0, <2>1 DEF Today, TodoToday
<1>3. CASE Crash  BY <1>3 DEF Crash, Today, TodoToday
<1>4. CASE DispatchStart
  <2>1. day' = day /\ pc[Dispatcher] = "idle"  BY <1>4 DEF DispatchStart, world
  <2>2. CASE pc' = pc  BY <2>1, <2>2 DEF Today, TodoToday
  <2>3. CASE GoTo(Dispatcher, "load") /\ today' = day
    BY <2>1, <2>3 DEF GoTo, TypeOK, Today, TodoToday
  <2>4. QED  BY <1>4, <2>2, <2>3 DEF DispatchStart
<1>5. CASE DispatchLoad
  <2>1. /\ pc[Dispatcher] = "load" /\ UNCHANGED <<day, today>>
        /\ pc'[Dispatcher] \in {"idle", "briefing"}
    BY <1>5 DEF DispatchLoad, Done, GoTo, TypeOK, world, dispatchVars
  <2>2. QED  BY <1>0, <2>1 DEF Today, TodoToday
<1>6. CASE DispatchBriefing
  <2>1. pc[Dispatcher] = "briefing" /\ UNCHANGED <<day, today>>
    BY <1>6 DEF DispatchBriefing, world, dispatchVars
  <2>2. CASE Done(Dispatcher)
    BY <2>2 DEF Done, Today, TodoToday, TypeOK
  <2>3. CASE todo' = Pending(copy[Dispatcher]) /\ UNCHANGED copy
    BY <1>0, <2>1, <2>3 DEF Today, TodoToday, Pending, Awaiting
  <2>4. QED  BY <1>6, <2>2, <2>3 DEF DispatchBriefing
<1>7. ASSUME NEW m \in todo, DeliverOk(m) \/ DeliverFailed(m)
      PROVE  Today' /\ TodoToday'
  <2>1. /\ pc[Dispatcher] = "send" /\ UNCHANGED <<day, today>>
        /\ todo' = todo \ {m}
    BY <1>7 DEF DeliverOk, DeliverFailed, AfterDelivery, world
  <2>2. Today'  BY <1>0, <2>1 DEF Today
  <2>3. \A n \in todo' : copy'[Dispatcher][n] = copy[Dispatcher][n] \/ todo = {m}
    <3>1. CASE DeliverOk(m)
      <4>1. copy' = [copy EXCEPT ![Dispatcher][m] = [day |-> today, floor |-> loaded]]
        BY <3>1 DEF DeliverOk
      <4>2. copy[Dispatcher] \in Store  BY DEF TypeOK
      <4>3. QED  BY <2>1, <4>1, <4>2 DEF TypeOK, Store
    <3>2. CASE DeliverFailed(m)  BY <3>2 DEF DeliverFailed
    <3>3. QED  BY <1>7, <3>1, <3>2
  <2>4. QED  BY <1>0, <2>1, <2>2, <2>3 DEF TodoToday
<1>8. CASE SaveOpen(Dispatcher) \/ SaveWrite(Dispatcher)
  <2>1. /\ pc[Dispatcher] # "idle" /\ pc'[Dispatcher] # "send"
        /\ UNCHANGED <<day, today>>
    BY <1>8 DEF SaveOpen, SaveWrite, GoTo, TypeOK, world, dispatchVars
  <2>2. QED  BY <1>0, <2>1 DEF Today, TodoToday
<1>9. CASE DispatchRename \/ DispatchSaveFails
  BY <1>9 DEF DispatchRename, DispatchSaveFails, Done, TypeOK, Today, TodoToday
<1>10. ASSUME NEW m \in Members, CommandStep(m) PROVE FALSE
  <2>1. pc[m] = "idle" /\ "commands" \notin Faults
    BY DEF SoleWriter, MembersIdle, Steady, Reliable
  <2>2. QED
    BY <1>10, <2>1 DEF CommandStep, CommandStart, CommandLoad, Loading,
       SaveOpen, SaveWrite, CommandRename, CommandFails, SaveRefused
<1>11. QED
  BY <1>1, <1>2, <1>3, <1>4, <1>5, <1>6, <1>7, <1>8, <1>9, <1>10 DEF Next, DispatchStep

\* The store that counts changes by a delivery and by a crash, and by nothing else.
LEMMA LedgerStays ==
  ASSUME Ledger, UNCHANGED <<crashes, inbox>>, Current' = Current
  PROVE  Ledger'
BY DEF Ledger, PaidFor, Compiles, Days

LEMMA BehindType == ASSUME NEW S, NEW mark PROVE Behind(S, mark) \in {0, 1}
BY DEF Behind

\* A crash puts one repetition in the offing at most, and pays for it.
LEMMA CrashLedger ==
  ASSUME TypeOK, NotAhead, Ledger, Crash
  PROVE  Ledger'
<1>1. inbox' = inbox /\ crashes' = crashes + 1 /\ crashes \in Nat
  BY CrashesType DEF Crash
<1> SUFFICES ASSUME NEW m \in Members
             PROVE  /\ PaidFor(m, Compiles(m), Current[m].floor)'
                    /\ PaidFor(m, Days(m), Current[m].day)'
  BY DEF Ledger
<1>2. Compiles(m)' = Compiles(m) /\ Days(m)' = Days(m)
  BY <1>1 DEF Compiles, Days
<1>3. /\ Cardinality(Compiles(m)) \in Nat /\ Cardinality(Days(m)) \in Nat
      /\ Len(inbox[m]) \in Nat
  BY InboxParts, InboxFinite, FS_CardinalityType
<1>4. \A S, x, y : Behind(S, y) <= Behind(S, x) + 1
                     /\ Behind(S, x) \in {0, 1} /\ Behind(S, y) \in {0, 1}
  BY BehindType DEF Behind
<1>5. /\ PaidFor(m, Compiles(m), Current[m].floor)
      /\ PaidFor(m, Days(m), Current[m].day)
  BY DEF Ledger
<1>6. PaidFor(m, Compiles(m), Current[m].floor)'
  BY <1>1, <1>2, <1>3, <1>4, <1>5 DEF PaidFor
<1>7. PaidFor(m, Days(m), Current[m].day)'
  BY <1>1, <1>2, <1>3, <1>4, <1>5 DEF PaidFor
<1>8. QED  BY <1>6, <1>7

\* After a delivery the dispatcher's copy counts, and marks it.
LEMMA DeliverOkCurrent ==
  ASSUME TypeOK, NEW m \in todo, DeliverOk(m)
  PROVE  /\ Current = copy[Dispatcher] /\ Current' = copy'[Dispatcher]
         /\ pc'[Dispatcher] \in {"send", "open"}
         /\ Current'[m] = [day |-> today, floor |-> loaded]
         /\ \A n \in Members \ {m} : Current'[n] = Current[n]
<1> USE WriterSets
<1>1. pc'[Dispatcher] \in {"send", "open"} /\ pc[Dispatcher] = "send"
  <2>1. CASE pc' = pc  BY <2>1 DEF DeliverOk
  <2>2. CASE GoTo(Dispatcher, "open")  BY <2>2 DEF GoTo, TypeOK, DeliverOk
  <2>3. QED  BY <2>1, <2>2 DEF DeliverOk, AfterDelivery
<1>2. Current = copy[Dispatcher] /\ Current' = copy'[Dispatcher]
  BY <1>1 DEF Current, Sending
<1>3. copy[Dispatcher] \in Store /\ m \in Members  BY CrewAssumption DEF TypeOK
<1>4. copy' = [copy EXCEPT ![Dispatcher][m] = [day |-> today, floor |-> loaded]]
  BY DEF DeliverOk
<1>5. QED  BY <1>1, <1>2, <1>3, <1>4 DEF TypeOK, Store

LEMMA DeliverOkLedger ==
  ASSUME TypeOK, RepetitionInv, NEW m \in todo, DeliverOk(m)
  PROVE  Ledger' /\ CopyCurrent' /\ TodoNew'
<1>1. /\ m \in Members /\ pc[Dispatcher] = "send" /\ loaded \in Nat /\ day \in Nat
      /\ Len(inbox'[m]) = Len(inbox[m]) + 1
      /\ Compiles(m)' = Compiles(m) \cup {loaded} /\ Days(m)' = Days(m) \cup {day}
      /\ \A n \in Members \ {m} : inbox'[n] = inbox[n]
  BY Delivered
<1>2. Current = copy[Dispatcher] /\ Current' = copy'[Dispatcher]
  BY DeliverOkCurrent
<1>3. /\ crashes' = crashes /\ today = day /\ loaded' = loaded
      /\ todo' = todo \ {m}
  BY <1>1 DEF DeliverOk, AfterDelivery, world, RepetitionInv, Today
<1>4. Ledger'
  <2> SUFFICES ASSUME NEW n \in Members
               PROVE  /\ PaidFor(n, Compiles(n), Current[n].floor)'
                      /\ PaidFor(n, Days(n), Current[n].day)'
    BY DEF Ledger
  <2>1. CASE n # m
    <3>1. inbox'[n] = inbox[n] /\ Current'[n] = Current[n]
      BY <1>1, <2>1, DeliverOkCurrent
    <3>2. Compiles(n)' = Compiles(n) /\ Days(n)' = Days(n)
      BY <3>1 DEF Compiles, Days
    <3>3. QED  BY <1>3, <3>1, <3>2 DEF RepetitionInv, Ledger, PaidFor
  <2>2. CASE n = m
    <3>1. Current'[m].floor = loaded /\ Current'[m].day = day
      BY <1>3, DeliverOkCurrent
    <3>2. /\ Compiles(m) \in SUBSET Nat /\ IsFiniteSet(Compiles(m))
          /\ Days(m) \in SUBSET Nat /\ IsFiniteSet(Days(m))
          /\ Len(inbox[m]) \in Nat /\ crashes \in Nat
      BY <1>1, InboxParts, InboxFinite, CrashesType DEF RepetitionInv
    <3>3. Current[m].floor \in Int /\ Current[m].day \in Nat
      BY <1>1, CurrentType, StoreParts
    <3>4. /\ Current[m].floor < loaded
          /\ Current[m].day <= day /\ Current[m].day # day
      BY <1>1, <1>2, <1>3 DEF RepetitionInv, TodoNew, TodoToday, NotAhead
    <3>5. (\A c \in Compiles(m) : c <= loaded) /\ (\A d \in Days(m) : d <= day)
      BY <1>1 DEF RepetitionInv, NotAhead
    <3>6. /\ PaidFor(m, Compiles(m), Current[m].floor)
          /\ PaidFor(m, Days(m), Current[m].day)
      BY <1>1 DEF RepetitionInv, Ledger
    <3>7. PaidFor(m, Compiles(m), Current[m].floor)'
      <4>1. Len(inbox[m]) - Cardinality(Compiles(m))
              + Behind(Compiles(m), Current[m].floor) <= crashes
        BY <3>6 DEF PaidFor
      <4>2. (Len(inbox[m]) + 1) - Cardinality(Compiles(m) \cup {loaded})
              + Behind(Compiles(m) \cup {loaded}, loaded) <= crashes
        BY <1>1, <3>2, <3>3, <3>4, <3>5, <4>1, OneMore
      <4>3. QED  BY <1>1, <1>3, <3>1, <4>2 DEF PaidFor
    <3>8. PaidFor(m, Days(m), Current[m].day)'
      <4>1. Current[m].day < day  BY <1>1, <3>3, <3>4
      <4>2. Len(inbox[m]) - Cardinality(Days(m))
              + Behind(Days(m), Current[m].day) <= crashes
        BY <3>6 DEF PaidFor
      <4>3. (Len(inbox[m]) + 1) - Cardinality(Days(m) \cup {day})
              + Behind(Days(m) \cup {day}, day) <= crashes
        BY <1>1, <3>2, <3>3, <3>5, <4>1, <4>2, OneMore
      <4>4. QED  BY <1>1, <1>3, <3>1, <4>3 DEF PaidFor
    <3>9. QED  BY <2>2, <3>7, <3>8
  <2>3. QED  BY <2>1, <2>2
<1>5. TodoNew'
  <2>1. \A n \in todo' : n \in Members \ {m}
    BY <1>3, CrewAssumption DEF TypeOK
  <2>2. QED
    BY <1>1, <1>2, <1>3, <2>1, DeliverOkCurrent DEF RepetitionInv, TodoNew
<1>6. CopyCurrent'
  <2>1. pc'[Dispatcher] = "send" => sent'
    <3>1. CASE todo # {m}  BY <3>1 DEF DeliverOk, AfterDelivery
    <3>2. CASE todo = {m}
      <4>1. GoTo(Dispatcher, "open")  BY <3>2 DEF DeliverOk, AfterDelivery
      <4>2. QED  BY <4>1, WriterSets DEF GoTo, TypeOK
    <3>3. QED  BY <3>1, <3>2
  <2>2. QED  BY <2>1, DeliverOkCurrent DEF CopyCurrent
<1>7. QED  BY <1>4, <1>5, <1>6

-----------------------------------------------------------------------------
(* Nothing gets ahead of the day, or of the compile being sent *)

\* A step that delivers nothing, and leaves or forgets the marks.
LEMMA NotAheadStays ==
  ASSUME TypeOK, NotAhead, inbox' = inbox, compile' \in Nat, compile' >= compile,
         day' \in Nat, day' >= day,
         pc'[Dispatcher] = "send" =>
           loaded' = compile \/ (pc[Dispatcher] = "send" /\ loaded' = loaded),
         \A m \in Members : Read'[m].day <= day' /\ Current'[m].day <= day'
  PROVE  NotAhead'
<1>1. compile \in Nat /\ day \in Nat  BY Bounds DEF TypeOK
<1>0. pc'[Dispatcher] = "send" => loaded' <= compile'
  <2>1. CASE loaded' = compile  BY <1>1, <2>1
  <2>2. CASE pc[Dispatcher] = "send" /\ loaded' = loaded
    <3>1. loaded <= compile /\ loaded \in Nat  BY <2>2, Bounds DEF NotAhead, TypeOK
    <3>2. QED  BY <1>1, <2>2, <3>1
  <2>3. QED  BY <2>1, <2>2
<1> SUFFICES ASSUME NEW m \in Members
             PROVE  /\ \A c \in Compiles(m) :
                         c <= compile' /\ (pc'[Dispatcher] = "send" => c <= loaded')
                    /\ \A d \in Days(m) : d <= day'
  BY <1>0 DEF NotAhead, Compiles, Days
<1>2. \A c \in Compiles(m) :
        c \in Nat /\ c <= compile /\ (pc[Dispatcher] = "send" => c <= loaded)
  BY InboxParts DEF NotAhead
<1>3. \A d \in Days(m) : d \in Nat /\ d <= day
  BY InboxParts DEF NotAhead
<1>4. \A c \in Compiles(m) : c <= compile'  BY <1>1, <1>2
<1>5. ASSUME NEW c \in Compiles(m), pc'[Dispatcher] = "send" PROVE c <= loaded'
  <2>1. CASE loaded' = compile  BY <1>2, <2>1
  <2>2. CASE pc[Dispatcher] = "send" /\ loaded' = loaded  BY <1>2, <2>2
  <2>3. QED  BY <1>5, <2>1, <2>2
<1>6. \A d \in Days(m) : d <= day'  BY <1>1, <1>3
<1>7. QED  BY <1>4, <1>5, <1>6

\* Where a step that is not a delivery leaves the clock and the compiles.
LEMMA WorldGrows ==
  ASSUME "commands" \notin Faults, TypeOK, SoleWriter, [Next]_vars
  PROVE  /\ day' \in Nat /\ day' >= day /\ day \in Nat
         /\ compile' \in Nat /\ compile' >= compile
         /\ pc'[Dispatcher] = "send" =>
              loaded' = compile \/ (pc[Dispatcher] = "send" /\ loaded' = loaded)
<1> USE WriterSets
<1>0. day \in Nat /\ compile \in Nat  BY Bounds DEF TypeOK
<1> DEFINE Grows == /\ day' \in Nat /\ day' >= day
                    /\ compile' \in Nat /\ compile' >= compile
                    /\ pc'[Dispatcher] = "send" =>
                         loaded' = compile \/ (pc[Dispatcher] = "send" /\ loaded' = loaded)
<1>1. CASE NextDay \/ Compile \/ Start \/ UNCHANGED vars
  <2>1. UNCHANGED <<pc, loaded>>
    BY <1>1 DEF NextDay, Compile, Start, vars, dispatchVars
  <2>2. /\ day' = day \/ day' = day + 1
        /\ compile' = compile \/ compile' = compile + 1
    BY <1>1 DEF NextDay, Compile, Start, vars, world
  <2>3. QED  BY <1>0, <2>1, <2>2
<1>a. ASSUME UNCHANGED <<day, compile>>, pc'[Dispatcher] # "send" PROVE Grows
  BY <1>0, <1>a
<1>2. CASE Crash  BY <1>2, <1>a DEF Crash
<1>3. CASE DispatchStart
  <2>1. UNCHANGED <<day, compile>> /\ pc[Dispatcher] = "idle"
        /\ (pc' = pc \/ GoTo(Dispatcher, "load"))
    BY <1>3 DEF DispatchStart, world
  <2>2. pc'[Dispatcher] # "send"  BY <2>1 DEF GoTo, TypeOK
  <2>3. QED  BY <1>a, <2>1, <2>2
<1>4. CASE DispatchLoad
  <2>1. UNCHANGED <<day, compile>>  BY <1>4 DEF DispatchLoad, world
  <2>2. pc'[Dispatcher] # "send"  BY <1>4 DEF DispatchLoad, Done, GoTo, TypeOK
  <2>3. QED  BY <1>a, <2>1, <2>2
<1>5. CASE DispatchBriefing
  <2>1. UNCHANGED <<day, compile>>  BY <1>5 DEF DispatchBriefing, world
  <2>2. CASE Done(Dispatcher)
    <3>1. pc'[Dispatcher] # "send"  BY <2>2 DEF Done, TypeOK
    <3>2. QED  BY <1>a, <2>1, <3>1
  <2>3. CASE loaded' = compile  BY <1>0, <2>1, <2>3
  <2>4. QED  BY <1>5, <2>2, <2>3 DEF DispatchBriefing
<1>6. ASSUME NEW m \in todo, DeliverOk(m) \/ DeliverFailed(m) PROVE Grows
  <2>1. /\ UNCHANGED <<day, compile, loaded>>
        /\ pc[Dispatcher] = "send"
    BY <1>6 DEF DeliverOk, DeliverFailed, AfterDelivery, world
  <2>2. QED  BY <1>0, <2>1
<1>7. CASE SaveOpen(Dispatcher) \/ SaveWrite(Dispatcher)
  <2>1. UNCHANGED <<day, compile>> /\ pc'[Dispatcher] # "send"
    BY <1>7 DEF SaveOpen, SaveWrite, GoTo, TypeOK, world
  <2>2. QED  BY <1>a, <2>1
<1>8. CASE DispatchRename \/ DispatchSaveFails
  <2>1. UNCHANGED <<day, compile>> /\ pc'[Dispatcher] # "send"
    BY <1>8 DEF DispatchRename, DispatchSaveFails, Done, TypeOK, world
  <2>2. QED  BY <1>a, <2>1
<1>9. ASSUME NEW m \in Members, CommandStep(m) PROVE FALSE
  <2>1. pc[m] = "idle"  BY DEF SoleWriter, MembersIdle
  <2>2. QED
    BY <1>9, <2>1 DEF CommandStep, CommandStart, CommandLoad, Loading,
       SaveOpen, SaveWrite, CommandRename, CommandFails, SaveRefused
<1>10. QED
  BY <1>0, <1>1, <1>2, <1>3, <1>4, <1>5, <1>6, <1>7, <1>8, <1>9 DEF Next, DispatchStep

LEMMA NextNotAhead ==
  ASSUME Steady, TypeOK, SoleWriter, RepetitionInv, [Next]_vars
  PROVE  NotAhead'
<1> USE WriterSets
<1>0. /\ "commands" \notin Faults /\ Reliable
      /\ NotAhead /\ CopyCurrent /\ TodoNew /\ Today
  BY DEF Steady, Reliable, RepetitionInv
<1>1. /\ day' \in Nat /\ day' >= day /\ day \in Nat
      /\ compile' \in Nat /\ compile' >= compile
      /\ pc'[Dispatcher] = "send" =>
           loaded' = compile \/ (pc[Dispatcher] = "send" /\ loaded' = loaded)
  BY <1>0, WorldGrows
<1>2. \A n \in Members : /\ Read[n].day \in Nat /\ Read[n].day <= day
                         /\ Current[n].day \in Nat /\ Current[n].day <= day
  BY <1>0, ReadType, CurrentType, StoreParts DEF NotAhead
<1>3. CASE Crash
  <2>1. inbox' = inbox /\ Read' = Read  BY <1>3 DEF Crash, fileVars, Read
  <2>2. Current' = Read'  BY <1>3 DEF Crash, Current, Sending
  <2>3. \A n \in Members : Read'[n].day <= day' /\ Current'[n].day <= day'
    BY <1>1, <1>2, <2>1, <2>2
  <2>4. QED  BY <1>0, <1>1, <2>1, <2>3, NotAheadStays
<1>4. ASSUME NEW m \in todo, DeliverOk(m) PROVE NotAhead'
  <2>1. /\ m \in Members /\ pc[Dispatcher] = "send" /\ loaded \in Nat
        /\ Compiles(m)' = Compiles(m) \cup {loaded} /\ Days(m)' = Days(m) \cup {day}
        /\ \A n \in Members \ {m} : inbox'[n] = inbox[n]
    BY <1>4, Delivered
  <2>2. /\ day' = day /\ compile' = compile /\ today = day /\ loaded' = loaded
        /\ Read' = Read
    BY <1>0, <1>4, <2>1 DEF DeliverOk, AfterDelivery, world, fileVars, Today, Read
  <2>3. /\ Current'[m].day = today
        /\ \A n \in Members \ {m} : Current'[n] = Current[n]
    BY <1>4, DeliverOkCurrent
  <2>4. loaded <= compile  BY <1>0, <2>1 DEF NotAhead
  <2>5. ASSUME NEW n \in Members
        PROVE  /\ \A c \in Compiles(n)' : c <= compile /\ c <= loaded
               /\ \A d \in Days(n)' : d <= day
    <3>1. /\ \A c \in Compiles(n) : c <= compile /\ c <= loaded
          /\ \A d \in Days(n) : d <= day
      BY <1>0, <2>1 DEF NotAhead
    <3>2. CASE n = m  BY <1>1, <2>1, <2>4, <3>1, <3>2
    <3>3. CASE n # m
      <4>1. Compiles(n)' = Compiles(n) /\ Days(n)' = Days(n)
        BY <2>1, <3>3 DEF Compiles, Days
      <4>2. QED  BY <3>1, <4>1
    <3>4. QED  BY <3>2, <3>3
  <2>6. \A n \in Members : Read'[n].day <= day /\ Current'[n].day <= day
    BY <1>1, <1>2, <2>2, <2>3
  <2>7. QED  BY <2>2, <2>4, <2>5, <2>6 DEF NotAhead
<1>5. CASE ~Crash /\ \A m \in todo : ~DeliverOk(m)
  <2>1. UNCHANGED inbox /\ Current' = Current
    BY <1>0, <1>5, CurrentStays
  <2>2. \A n \in Members : Read'[n].day <= day'
    <3>1. CASE DispatchRename
      <4>1. Read' = copy[Dispatcher]  BY <3>1, RenameSole
      <4>2. Current = copy[Dispatcher]
        BY <3>1 DEF DispatchRename, Current, Sending
      <4>3. QED  BY <1>1, <1>2, <4>1, <4>2
    <3>2. CASE ~DispatchRename
      <4>1. Read' = Read  BY <1>0, <3>2, ReadStays
      <4>2. QED  BY <1>1, <1>2, <4>1
    <3>3. QED  BY <3>1, <3>2
  <2>3. \A n \in Members : Read'[n].day <= day' /\ Current'[n].day <= day'
    BY <1>1, <1>2, <2>1, <2>2
  <2>4. QED  BY <1>0, <1>1, <2>1, <2>3, NotAheadStays
<1>6. QED  BY <1>3, <1>4, <1>5

-----------------------------------------------------------------------------
LEMMA NextRepetition ==
  ASSUME Steady, TypeOK, SoleWriter, RepetitionInv, [Next]_vars
  PROVE  RepetitionInv'
<1>0. Reliable /\ CopyCurrent /\ TodoNew /\ NotAhead /\ Ledger
  BY DEF Steady, RepetitionInv
<1>1. Today' /\ TodoToday' /\ NotAhead'  BY NextToday, NextNotAhead
<1>2. Ledger' /\ CopyCurrent' /\ TodoNew'
  <2>1. CASE Crash
    <3>1. pc'[Dispatcher] = "idle"  BY <2>1, WriterSets DEF Crash
    <3>2. CopyCurrent' /\ TodoNew'  BY <3>1 DEF CopyCurrent, TodoNew
    <3>3. QED  BY <1>0, <2>1, <3>2, CrashLedger
  <2>2. ASSUME NEW m \in todo, DeliverOk(m)
        PROVE  Ledger' /\ CopyCurrent' /\ TodoNew'
    BY <2>2, DeliverOkLedger
  <2>3. CASE ~Crash /\ \A m \in todo : ~DeliverOk(m)
    <3>1. /\ UNCHANGED <<crashes, inbox>>
          /\ Current' = Current /\ CopyCurrent' /\ TodoNew'
      BY <1>0, <2>3, CurrentStays
    <3>2. QED  BY <1>0, <3>1, LedgerStays
  <2>4. QED  BY <2>1, <2>2, <2>3
<1>3. QED  BY <1>1, <1>2 DEF RepetitionInv

LEMMA LedgerPays == TypeOK /\ NotAhead /\ Ledger => RepetitionsNeedCrashes
<1> SUFFICES ASSUME TypeOK, NotAhead, Ledger, NEW m \in Members
             PROVE  /\ Len(inbox[m]) - Cardinality(Compiles(m)) <= crashes
                    /\ Len(inbox[m]) - Cardinality(Days(m)) <= crashes
  BY DEF RepetitionsNeedCrashes
<1>1. /\ Cardinality(Compiles(m)) \in Nat /\ Cardinality(Days(m)) \in Nat
      /\ Len(inbox[m]) \in Nat /\ crashes \in Nat
  BY InboxParts, InboxFinite, FS_CardinalityType, CrashesType
<1>2. \A S, x : Behind(S, x) \in {0, 1}  BY BehindType
<1>3. /\ PaidFor(m, Compiles(m), Current[m].floor)
      /\ PaidFor(m, Days(m), Current[m].day)
  BY DEF Ledger
<1>4. QED  BY <1>1, <1>2, <1>3 DEF PaidFor

\* A member gets a compile, or a day's briefing, a second time only at the price of a
\* crash: however many compiles, days, failed deliveries and crashes there are, no
\* member has more repetitions of either kind than the process has had crashes.
THEOREM RepetitionsArePaidFor ==
  ASSUME Steady
  PROVE  Spec => []RepetitionsNeedCrashes
<1>1. Init => TypeOK /\ SoleWriter /\ RepetitionInv
  BY InitType, InitSole, InitRepetition
<1>2. TypeOK /\ SoleWriter /\ RepetitionInv /\ [Next]_vars
        => (TypeOK /\ SoleWriter /\ RepetitionInv)'
  <2>1. "commands" \notin Faults  BY DEF Steady, Reliable
  <2>2. QED  BY <2>1, NextType, NextSole, NextRepetition
<1>3. TypeOK /\ RepetitionInv => RepetitionsNeedCrashes
  BY LedgerPays DEF RepetitionInv
<1>4. QED  BY <1>1, <1>2, <1>3, PTL DEF Spec

=============================================================================
