-------------------------- MODULE MCCrewTelemetry --------------------------
(***************************************************************************)
(* Crews of one and of two.  Two members, one of whom comes to be reached, *)
(* with a position that comes or goes; two, one of whom replaces its key;  *)
(* one who does, while stores, requests and the process fail; one who      *)
(* comes into reach or leaves it, answered for with an announce from       *)
(* before; and one whose boat shows ours, as it sails, stops with fewer    *)
(* instruments on, and goes astern.                                        *)
(***************************************************************************)
EXTENDS CrewTelemetry

Nothing == <<>>
Sailing == [position |-> 25, speed |-> 18, course |-> -7, altitude |-> 4]
Anchored == [position |-> 38, charge |-> 81, text |-> 1]
Astern == [position |-> 44, speed |-> -12, course |-> 5]

Scenario(n, r, i, B) ==
  [crew |-> n, reach |-> r, boats |-> {}, interval |-> i, readings |-> {Nothing, Sailing},
   bounds |-> [b \in Bounds |-> IF b \in B THEN 1 ELSE 0]]

MCScenarios == {
  Scenario(2, {}, 1, {"changes"}),
  Scenario(2, {2}, 2, {"rotations"}),
  Scenario(1, {1}, 2, {"rotations", "failures", "restarts"}),
  Scenario(1, {}, 1, {"moves", "olds", "changes"}),
  [Scenario(1, {}, 1, {}) EXCEPT !.boats = {1},
                                 !.readings = {Sailing, Anchored, Astern},
                                 !.bounds["changes"] = 2] }
=============================================================================
