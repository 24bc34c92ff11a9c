------------------------- MODULE MCPluginLifecycle -------------------------
(* Settings and bounds for the runs of PluginLifecycle.  A session asks for *)
(* the node and the client of both roles, or is a client whose nodes are    *)
(* discovered, or one whose nodes are known.                                *)
EXTENDS PluginLifecycle

MCSettings == {
  {"embedded propagation", "propagation client", "embedded rfed", "rfed client",
   "receive", "transmit", "telemetry"},
  {"propagation client", "rfed client"},
  {"propagation client", "propagation node known", "rfed client", "rfed node known",
   "receive", "site"} }

\* A call fails, or the uplink flips, or a stop overtakes a start.
MCBudgets == {
  [faults |-> 1, flips |-> 0, overtakes |-> 0],
  [faults |-> 0, flips |-> 3, overtakes |-> 0],
  [faults |-> 0, flips |-> 0, overtakes |-> 2] }
=============================================================================
