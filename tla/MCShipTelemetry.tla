-------------------------- MODULE MCShipTelemetry --------------------------
(* Another boat's fix, which claims an MMSI that may be ours; our own echo; and a *)
(* boat of which only a name is known, on the channel of other settings.          *)
EXTENDS ShipTelemetry

CONSTANTS fix, echo, hail, boat, self, none, ours, vessels, fleet

MCBlobs == {fix, echo, hail}
MCFrom == [b \in MCBlobs |-> IF b = echo THEN self ELSE boat]
MCClaims == [b \in MCBlobs |-> IF b = hail THEN none ELSE ours]
MCProof == [b \in MCBlobs |-> "valid"]
MCChannel == [b \in MCBlobs |-> IF b = hail THEN fleet ELSE vessels]
MCCarries == [b \in MCBlobs |-> IF b = hail THEN {"name"} ELSE {"name", "nav"}]
MCSettings == {
  [role |-> "node", channel |-> vessels, receive |-> TRUE, transmit |-> TRUE],
  [role |-> "node", channel |-> fleet, receive |-> TRUE, transmit |-> FALSE],
  [role |-> "node", channel |-> vessels, receive |-> FALSE, transmit |-> TRUE],
  [role |-> "client", channel |-> vessels, receive |-> TRUE, transmit |-> TRUE] }
MCBudgets == { [blobs |-> 1, saves |-> 1, faults |-> 1],
               [blobs |-> 2, saves |-> 0, faults |-> 1] }
=============================================================================
