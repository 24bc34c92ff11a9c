-------------------------- MODULE InboundMessages --------------------------
(***************************************************************************)
(* What becomes of an inbound LXMF message: onLxmfMessage of               *)
(* plugin/index.js, with the filter of recent messages (plugin/dedup.js),  *)
(* the sender's proof (verifySender of plugin/messaging.js), the command   *)
(* dispatcher and the commands (plugin/commands).                          *)
(*                                                                         *)
(* The router calls the handler for every copy of a message that arrives,  *)
(* whatever became of the calls before, so calls of different messages run *)
(* side by side; an action is the code of one call between two awaits.     *)
(* Call i is the i-th since the process started.  The identity of a sender *)
(* may become known at any time.  The texts of the messages and of the     *)
(* answers are reduced to what they ask and what they say.                 *)
(***************************************************************************)
EXTENDS Integers, Sequences, FiniteSets

CONSTANTS
  Messages,      \* message ids, derived from the content
  Senders,       \* source hashes
  Sender, Kind,  \* of each message: the claimed source; what it asks
  Genuine,       \* the messages really signed by their claimed source
  Crew,          \* the configured crew
  DigitalSwitching, PopulateCrewTelemetry,  \* settings
  Capacity,      \* of the filter of recent messages
  ReplyInterval, \* REPLY_INTERVAL_MS
  SendTimeout,   \* of a reply's delivery
  Faults,        \* which of AllFaults may happen
  MaxCalls, MaxTime, MaxRestarts  \* bounds

AllFaults == {
  "fails",        \* a delivery fails
  "late",         \* a delivery is reported as timed out, yet arrives
  "verifyFails"}  \* the proof itself cannot run

\* The registry: what a command asks of the server beside an answer.
Commands == {"ping", "status", "help", "briefing", "log", "switching"}
CrewOnly == {"briefing", "log", "switching"}
Deeds == {"log", "switching"}
Kinds == Commands \cup {"telemetry", "other"}

ASSUME MessagesAssumption ==
  /\ IsFiniteSet(Messages)
  /\ Genuine \subseteq Messages
  /\ Sender \in [Messages -> Senders]
  /\ Kind \in [Messages -> Kinds]
ASSUME SettingsAssumption == {DigitalSwitching, PopulateCrewTelemetry} \subseteq BOOLEAN
ASSUME InboundBoundsAssumption ==
  /\ {MaxCalls, MaxTime, MaxRestarts, SendTimeout} \subseteq Nat
  /\ Capacity \in Nat \ {0}
  /\ ReplyInterval \in Nat /\ SendTimeout < ReplyInterval
  /\ Faults \subseteq AllFaults

VARIABLES
  known,     \* senders whose identity can be recalled
  sighting,  \* the filter: the call that saw a message last; 0: forgotten
  calls,     \* the message of each call, in order of arrival
  stage,     \* where each call stands
  did,       \* what the server answered to a call's deed
  saying,    \* the answer a call sends or has sent last
  since,     \* when it began to send it, or found its slot taken
  got,       \* history: the answers that reached the sender
  failed,    \* history: the answers whose delivery was reported as failed
  populated, \* history: the calls whose telemetry went into Signal K
  lastReply, \* instant of each sender's last fallback reply
  now, restarts,
  epoch      \* calls that arrived before the plugin was last restarted

callVars == <<calls, stage, did, saying, since, got, failed, populated>>
vars == <<known, sighting, callVars, lastReply, now, restarts, epoch>>

Calls == 1..MaxCalls
NoReply == -1
Stages == {"none", "duplicate", "verify", "dropped", "act", "reply", "done"}
Answers == {"answer", "ok", "failed", "refused", "fallback"}

-----------------------------------------------------------------------------
Init ==
  /\ known \in SUBSET Senders
  /\ sighting = [m \in Messages |-> 0]
  /\ calls = <<>>
  /\ stage = [i \in Calls |-> "none"]
  /\ did = [i \in Calls |-> "nothing"]
  /\ saying = [i \in Calls |-> "nothing"]
  /\ since = [i \in Calls |-> 0]
  /\ got = [i \in Calls |-> {}]
  /\ failed = [i \in Calls |-> {}]
  /\ populated = {}
  /\ lastReply = [s \in Senders |-> NoReply]
  /\ now = 0 /\ restarts = 0 /\ epoch = 0

-----------------------------------------------------------------------------
(* Arrival and the filter of recent messages.                              *)

Remembered(s) == {m \in Messages : s[m] # 0}
Oldest(s) == CHOOSE m \in Remembered(s) :
               \A other \in Remembered(s) : s[m] <= s[other]

\* Faulty variant: a repeat does not move the message to the recent end.
SightWithoutRefresh(m, i) ==
  LET s == IF sighting[m] # 0 THEN sighting ELSE [sighting EXCEPT ![m] = i]
  IN  IF Cardinality(Remembered(s)) > Capacity
        THEN [s EXCEPT ![Oldest(s)] = 0] ELSE s

\* The filter after call i has seen m: m is the most recent entry, and the
\* oldest one gives way when there are too many.
Sight(m, i) ==
  LET s == [sighting EXCEPT ![m] = i]
  IN  IF Cardinality(Remembered(s)) > Capacity
        THEN [s EXCEPT ![Oldest(s)] = 0] ELSE s

Arrive(m) ==
  LET i == Len(calls) + 1
  IN  /\ i <= MaxCalls
      /\ calls' = Append(calls, m)
      /\ sighting' = Sight(m, i)
      /\ stage' = [stage EXCEPT ![i] =
                     IF sighting[m] # 0 THEN "duplicate" ELSE "verify"]
      /\ UNCHANGED <<known, did, saying, since, got, failed, populated,
                     lastReply, now, restarts, epoch>>

-----------------------------------------------------------------------------
(* The sender's proof.                                                     *)

From(i) == Sender[calls[i]]
Asks(i) == Kind[calls[i]]

\* Faulty variant: a sender that cannot be recalled is let through.
ProvenIfKnown(m) == Sender[m] \in known => m \in Genuine

\* verifySender answers "verified".
Proven(m) == Sender[m] \in known /\ m \in Genuine

Drop(i) ==
  /\ stage[i] = "verify"
  /\ ~Proven(calls[i]) \/ "verifyFails" \in Faults
  /\ stage' = [stage EXCEPT ![i] = "dropped"]
  /\ UNCHANGED <<known, sighting, calls, did, saying, since, got, failed,
                 populated, lastReply, now, restarts, epoch>>

\* Telemetry of the crew goes into Signal K before the commands are tried.
Admit(i) ==
  /\ stage[i] = "verify"
  /\ Proven(calls[i])
  /\ populated' = IF Asks(i) = "telemetry" /\ PopulateCrewTelemetry /\ From(i) \in Crew
                    THEN populated \cup {i} ELSE populated

-----------------------------------------------------------------------------
(* The commands.                                                           *)

\* Some command the sender may use accepts the message.
Accepts(m) ==
  /\ Kind[m] \in Commands
  /\ Kind[m] \in CrewOnly => Sender[m] \in Crew
  /\ Kind[m] = "switching" => DigitalSwitching

\* Call i begins to deliver an answer.
Say(i, answer) ==
  /\ stage' = [stage EXCEPT ![i] = "reply"]
  /\ saying' = [saying EXCEPT ![i] = answer]
  /\ since' = [since EXCEPT ![i] = now]

\* A command that only answers.
Answer(i) ==
  /\ Admit(i)
  /\ Accepts(calls[i]) /\ Asks(i) \notin Deeds
  /\ Say(i, "answer")
  /\ UNCHANGED <<known, sighting, calls, did, got, failed, lastReply, now,
                 restarts, epoch>>

\* "Nothing to log" and "Logbook not available".
RefuseToLog(i) ==
  /\ Admit(i)
  /\ Accepts(calls[i]) /\ Asks(i) = "log"
  /\ Say(i, "refused")
  /\ UNCHANGED <<known, sighting, calls, did, got, failed, lastReply, now,
                 restarts, epoch>>

\* A command that asks the server to do something first.
StartDeed(i) ==
  /\ Admit(i)
  /\ Accepts(calls[i]) /\ Asks(i) \in Deeds
  /\ stage' = [stage EXCEPT ![i] = "act"]
  /\ UNCHANGED <<known, sighting, calls, did, saying, since, got, failed,
                 lastReply, now, restarts, epoch>>

DeedDone(i) ==
  /\ stage[i] = "act"
  /\ did' = [did EXCEPT ![i] = "done"]
  /\ Say(i, "ok")
  /\ UNCHANGED <<known, sighting, calls, got, failed, populated, lastReply,
                 now, restarts, epoch>>

DeedFails(i) ==
  /\ stage[i] = "act"
  /\ did' = [did EXCEPT ![i] = "failed"]
  /\ Say(i, "failed")
  /\ UNCHANGED <<known, sighting, calls, got, failed, populated, lastReply,
                 now, restarts, epoch>>

-----------------------------------------------------------------------------
(* The fallback reply, at most one per sender and interval.                *)

\* Faulty variant: entries are never pruned.
PrunedNever == lastReply

\* prune: the entries that are too old to count.
Pruned == [s \in Senders |->
             IF lastReply[s] # NoReply /\ now - lastReply[s] >= ReplyInterval
               THEN NoReply ELSE lastReply[s]]

\* Faulty variant: the slot is taken only when the reply is delivered.
FallbackUnrecorded(i) ==
  /\ Admit(i)
  /\ ~Accepts(calls[i])
  /\ Pruned[From(i)] = NoReply
  /\ lastReply' = Pruned
  /\ Say(i, "fallback")
  /\ UNCHANGED <<known, sighting, calls, did, got, failed, now, restarts, epoch>>

\* The slot is taken before the reply is sent.
Fallback(i) ==
  /\ Admit(i)
  /\ ~Accepts(calls[i])
  /\ Pruned[From(i)] = NoReply
  /\ lastReply' = [Pruned EXCEPT ![From(i)] = now]
  /\ Say(i, "fallback")
  /\ UNCHANGED <<known, sighting, calls, did, got, failed, now, restarts, epoch>>

\* The sender's slot is taken: no answer.
FallbackHeld(i) ==
  /\ Admit(i)
  /\ ~Accepts(calls[i])
  /\ Pruned[From(i)] # NoReply
  /\ lastReply' = Pruned
  /\ stage' = [stage EXCEPT ![i] = "done"]
  /\ since' = [since EXCEPT ![i] = now]
  /\ UNCHANGED <<known, sighting, calls, did, saying, got, failed, now,
                 restarts, epoch>>

-----------------------------------------------------------------------------
(* A delivery ends.                                                        *)

DeliverOk(i) ==
  /\ stage[i] = "reply"
  /\ stage' = [stage EXCEPT ![i] = "done"]
  /\ got' = [got EXCEPT ![i] = @ \cup {saying[i]}]
  /\ UNCHANGED <<known, sighting, calls, did, saying, since, failed, populated,
                 lastReply, now, restarts, epoch>>

\* Reported as failed; it may have arrived all the same.
DeliveryFailure(i) ==
  /\ stage[i] = "reply"
  /\ failed' = [failed EXCEPT ![i] = @ \cup {saying[i]}]
  /\ \/ "fails" \in Faults /\ UNCHANGED got
     \/ "late" \in Faults /\ got' = [got EXCEPT ![i] = @ \cup {saying[i]}]
  /\ UNCHANGED <<known, sighting, calls, did, populated, now, restarts, epoch>>

\* Faulty variant: every deed's catch covers the delivery of its "OK".
RetriesAsFailureAny(i) == saying[i] = "ok"

\* The log command's catch covers the delivery of its own "OK, logged".
RetriesAsFailure(i) == Asks(i) = "log" /\ saying[i] = "ok"

DeliverFails(i) ==
  /\ DeliveryFailure(i)
  /\ ~RetriesAsFailure(i)
  /\ saying[i] # "fallback"
  /\ stage' = [stage EXCEPT ![i] = "done"]
  /\ UNCHANGED <<saying, since, lastReply>>

LogDeliverFails(i) ==
  /\ DeliveryFailure(i)
  /\ RetriesAsFailure(i)
  /\ Say(i, "failed")
  /\ UNCHANGED lastReply

\* Faulty variant: a failed reply keeps the sender's slot.
FallbackFailsBurning(i) ==
  /\ DeliveryFailure(i)
  /\ saying[i] = "fallback"
  /\ stage' = [stage EXCEPT ![i] = "done"]
  /\ UNCHANGED <<saying, since, lastReply>>

\* A failed reply gives the sender's slot back.
FallbackFails(i) ==
  /\ DeliveryFailure(i)
  /\ saying[i] = "fallback"
  /\ stage' = [stage EXCEPT ![i] = "done"]
  /\ lastReply' = [lastReply EXCEPT ![From(i)] = NoReply]
  /\ UNCHANGED <<saying, since>>

-----------------------------------------------------------------------------
(* The world.                                                              *)

\* An announce, solicited or not, makes a sender's identity known.
Announce(s) ==
  /\ s \notin known
  /\ known' = known \cup {s}
  /\ UNCHANGED <<sighting, callVars, lastReply, now, restarts, epoch>>

\* withTimeout ends every delivery in time.
Tick ==
  /\ now < MaxTime
  /\ \A i \in Calls : stage[i] = "reply" => now < since[i] + SendTimeout
  /\ now' = now + 1
  /\ UNCHANGED <<known, sighting, callVars, lastReply, restarts, epoch>>

\* The plugin is stopped and started: a new filter; the fallback's slots are
\* the module's and stay, and the calls under way go on.
Restart ==
  /\ restarts < MaxRestarts
  /\ restarts' = restarts + 1
  /\ epoch' = Len(calls)
  /\ sighting' = [m \in Messages |-> 0]
  /\ UNCHANGED <<known, callVars, lastReply, now>>

-----------------------------------------------------------------------------
CallStep(i) ==
  \/ Drop(i)
  \/ Answer(i) \/ RefuseToLog(i) \/ StartDeed(i)
  \/ DeedDone(i) \/ DeedFails(i)
  \/ Fallback(i) \/ FallbackHeld(i)
  \/ DeliverOk(i) \/ DeliverFails(i) \/ LogDeliverFails(i) \/ FallbackFails(i)

Next ==
  \/ \E m \in Messages : Arrive(m)
  \/ \E i \in Calls : CallStep(i)
  \/ \E s \in Senders : Announce(s)
  \/ Tick
  \/ Restart

Spec == Init /\ [][Next]_vars

-----------------------------------------------------------------------------
(* Properties.                                                             *)

\* The types of the variables; a call that has arrived stands somewhere, and
\* one that delivers has something to say.
TypeOK ==
  /\ known \subseteq Senders
  /\ sighting \in [Messages -> 0..MaxCalls]
  /\ calls \in Seq(Messages) /\ Len(calls) <= MaxCalls
  /\ stage \in [Calls -> Stages]
  /\ \A i \in Calls : stage[i] = "none" <=> i > Len(calls)
  /\ did \in [Calls -> {"nothing", "done", "failed"}]
  /\ saying \in [Calls -> Answers \cup {"nothing"}]
  /\ \A i \in Calls : stage[i] = "reply" => saying[i] # "nothing"
  /\ since \in [Calls -> 0..MaxTime]
  /\ got \in [Calls -> SUBSET Answers]
  /\ failed \in [Calls -> SUBSET Answers]
  /\ populated \subseteq Calls
  /\ lastReply \in [Senders -> (0..MaxTime) \cup {NoReply}]
  /\ now \in 0..MaxTime /\ restarts \in 0..MaxRestarts /\ epoch \in 0..Len(calls)

\* The distinct messages that arrived between calls i and j.
Between(i, j) == {calls[k] : k \in (i + 1)..(j - 1)}

\* A copy is ignored exactly when the message has been seen since the plugin
\* started with fewer than Capacity other messages in between; copies that
\* keep arriving keep the message remembered (dedup.js:42-50).
DuplicatesAreRecent ==
  \A j \in (epoch + 1)..Len(calls) :
    stage[j] = "duplicate" <=>
      \E i \in (epoch + 1)..(j - 1) :
        /\ calls[i] = calls[j]
        /\ Cardinality(Between(i, j) \ {calls[j]}) < Capacity

\* Nothing is switched, logged or put into Signal K, and nothing crew-only is
\* answered, unless the sender's signature was proven against an identity that
\* could be recalled and the sender is of the crew (index.js:975-1010).
OnlyProvenCrewAct ==
  \A i \in 1..Len(calls) :
    \/ stage[i] = "act" \/ did[i] # "nothing" \/ i \in populated
    \/ saying[i] # "nothing" /\ saying[i] # "fallback" /\ Asks(i) \in CrewOnly
    => /\ calls[i] \in Genuine
       /\ From(i) \in known
       /\ From(i) \in Crew

\* A fallback reply that was delivered or may yet be.
Replied(i) ==
  /\ saying[i] = "fallback"
  /\ "fallback" \notin failed[i]

\* Two fallback replies to one sender that have not failed are an interval
\* apart, however their deliveries overlap (fallback.js:8-10).
FallbackRateLimited ==
  \A i, j \in 1..Len(calls) :
    i # j /\ From(i) = From(j) /\ Replied(i) /\ Replied(j) =>
      \/ since[i] - since[j] >= ReplyInterval
      \/ since[j] - since[i] >= ReplyInterval

\* A sender's slot is held by a reply that has not failed, and by every such
\* reply of the last interval: a failed reply does not burn the sender's slot,
\* nor does it free one it does not hold (fallback.js:43-45).
SlotHeldByReply ==
  \A s \in Senders :
    /\ lastReply[s] # NoReply =>
         \E i \in 1..Len(calls) :
           From(i) = s /\ Replied(i) /\ since[i] = lastReply[s]
    /\ \A i \in 1..Len(calls) :
         From(i) = s /\ Replied(i) /\ now - since[i] < ReplyInterval =>
           lastReply[s] = since[i]

\* A proven message that nothing answers came within an interval of a fallback
\* reply to its sender (commands/index.js:14-16).
SilenceIsExplained ==
  \A i \in 1..Len(calls) :
    stage[i] = "done" /\ saying[i] = "nothing" =>
      \E j \in 1..Len(calls) :
        /\ From(j) = From(i) /\ saying[j] = "fallback"
        /\ since[j] <= since[i] /\ since[i] - since[j] < ReplyInterval

\* The sender of a command learns what the server did, and once; only the log
\* command says "failed" of what it did, after the delivery of its "OK" was
\* reported as failed.
TruthfulAnswers ==
  \A i \in 1..Len(calls) :
    /\ "ok" \in got[i] => did[i] = "done"
    /\ "failed" \in got[i] => \/ did[i] = "failed"
                              \/ Asks(i) = "log" /\ "ok" \in failed[i]
    /\ Cardinality(got[i]) > 1 => Asks(i) = "log" /\ "ok" \in failed[i]

\* What verifySender promises of a message whose sender was unknown
\* (messaging.js:502-504): a copy that arrives when the sender is known, and
\* no copy of which was let through before, is verified.  It does not hold: the
\* unproven copy is in the filter, and the later one a duplicate of it.
LaterCopyIsVerified ==
  [][\A m \in Messages :
       /\ calls' = Append(calls, m)
       /\ Proven(m)
       /\ \A i \in 1..Len(calls) : calls[i] = m => stage[i] \in {"dropped", "duplicate"}
       => stage'[Len(calls) + 1] = "verify"]_vars
=============================================================================
