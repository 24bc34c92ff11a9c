------------------------------ MODULE Snapshot ------------------------------
(***************************************************************************)
(* A snapshot of telemetry on the wire (buildSnapshot of plugin/index.js,  *)
(* plugin/telemetry.js), and what a boat that receives it makes of it      *)
(* (plugin/telemetry.js, telemetryToValues of plugin/inbound.js).          *)
(*                                                                         *)
(* A reading is what the bus has at some moment: a function from some of   *)
(* the Quantities to integers.  A quantity is counted in a unit so fine    *)
(* that the wire's is Grain of them; what is converted on the way there    *)
(* (m/s to km/h, radians to degrees, ratio to per cent) is converted back  *)
(* on the other side, so that only the rounding remains.                   *)
(***************************************************************************)
EXTENDS Integers

CONSTANT Grain

ASSUME GrainAssumption == Grain \in Nat \ {0}

\* One sensor carries a position (both coordinates) with what belongs to it.  "text" is
\* everything there is no sensor for: depth, tide, wind, anchor, state of the vessel.
Located == {"position", "speed", "course", "altitude"}
Quantities == Located \cup {"charge", "text"}

\* Math.round.
Wire(x) == (2 * x + Grain) \div (2 * Grain)

\* A mutant: what is absent is left out.
PackedSparse(b) == [q \in DOMAIN b |-> Wire(b[q])]

\* buildTelemetrySensors: nothing is located without a position; with one, what is absent
\* is sent as zero.
Packed(b) ==
  LET location == IF "position" \in DOMAIN b THEN Located ELSE {} IN
  [q \in location \cup (DOMAIN b \ Located) |-> IF q \in DOMAIN b THEN Wire(b[q]) ELSE 0]

\* packTelemetry returns a snapshot, for which there must be a sensor; the speed's field
\* is unsigned, and writing a negative one throws.
Reports(b) ==
  LET s == Packed(b) IN
  /\ DOMAIN s # {}
  /\ "speed" \in DOMAIN s => s["speed"] >= 0

\* unpackLocation, unpackBattery.
Unwired(w) == Grain * w

\* decodeTelemetrySnapshot.
Decoded(s) == [q \in DOMAIN s |-> Unwired(s[q])]

\* telemetryToValues: there is no path for texts.
Values(r) == [q \in DOMAIN r \ {"text"} |-> r[q]]

\* The server's handling of a delta: a path it does not name keeps its value.
Updated(shows, delta) ==
  [q \in DOMAIN shows \cup DOMAIN delta |-> IF q \in DOMAIN delta THEN delta[q] ELSE shows[q]]
=============================================================================
