------------------------- MODULE MCInboundMessages -------------------------
(***************************************************************************)
(* Either three arrivals of the messages of a stranger and a crew member:  *)
(* the stranger pings and asks, twice, for a crew-only command; the crew   *)
(* member logs, switches and sends telemetry; a forger logs in the crew    *)
(* member's name.  Or, for the filter, six arrivals of three messages      *)
(* nobody can prove, with the plugin restarted in between.                 *)
(***************************************************************************)
EXTENDS InboundMessages

CONSTANTS crew, stranger, ping, intrusion, again, log, forgery, switch, position, a, b, c

Real == {ping, intrusion, again, log, forgery, switch, position}
Copies == {a, b, c}

MCMessages == Real \cup Copies
MCGenuine == Real \ {forgery}
MCSenders == {crew, stranger}
MCCrew == {crew}
MCSender == [m \in MCMessages |->
               IF m \in {ping, intrusion, again} THEN stranger ELSE crew]
MCKind == [m \in MCMessages |->
             CASE m = ping -> "ping"
               [] m \in {log, forgery, intrusion, again} -> "log"
               [] m = switch -> "switching"
               [] m \in {position} \cup Copies -> "telemetry"]

Arrived == {calls[i] : i \in 1..Len(calls)}

\* A fourth call, and a restart, are for the copies, which come while nobody's identity is
\* known; the second intrusion is told from the first one by its order only.
MayArrive ==
  IF calls = <<>> THEN (Real \ {again}) \cup (IF known = {} /\ now = 0 THEN Copies ELSE {})
  ELSE IF Arrived \subseteq Copies THEN Copies
  ELSE IF Len(calls) = 3 THEN {}
  ELSE IF intrusion \in Arrived THEN Real ELSE Real \ {again}

CopiesOnly == calls # <<>> /\ Arrived \subseteq Copies

MCNext ==
  \/ \E m \in MayArrive : Arrive(m)
  \/ \E i \in 1..Len(calls) : CallStep(i)
  \/ ~CopiesOnly /\ (Tick \/ \E s \in Senders : Announce(s))
  \/ CopiesOnly /\ Restart

MCSpec == Init /\ [][MCNext]_vars
=============================================================================
