---------------------------- MODULE MCReannounce ----------------------------
(* Two interfaces.  LXMF with the client of an RFed node discovered late: connections  *)
(* that drop one after the other while announces fail, or changes of the connectivity  *)
(* path, or an interface that wedges.  LXMF alone: connections that drop while the     *)
(* clock is set back, or a loop that stops.  And a site beside embedded nodes: first   *)
(* announces that fail.                                                                *)
EXTENDS Reannounce

CONSTANTS a, b

Quiet == [dests |-> {"lxmf", "rfed"}, periodic |-> "yes", telemetry |-> "yes",
          drops |-> 0, wedges |-> 0, changes |-> 0, fails |-> 0, stops |-> 0, clock |-> 0]
MCScenarios == {
  [Quiet EXCEPT !.drops = 2, !.fails = 1],
  [Quiet EXCEPT !.dests = {"lxmf"}, !.drops = 2, !.clock = 1],
  [Quiet EXCEPT !.drops = 1, !.changes = 1, !.periodic = "no"],
  [Quiet EXCEPT !.wedges = 1, !.telemetry = "no"],
  [Quiet EXCEPT !.dests = {"lxmf"}, !.telemetry = "no", !.stops = 1, !.fails = 1],
  [Quiet EXCEPT !.dests = {"lxmf", "propagation", "embeddedRfed", "nomadnet"}, !.fails = 1] }
=============================================================================
