------------------------------ MODULE MCTurnStream ------------------------------
(* Instances of TurnStream for TLC: g and h are POST /chat turns, w is an       *)
(* autonomous one that a bot watches.                                           *)
EXTENDS TurnStream

CONSTANTS g, h, w

Scenario(run, seen, n) == [cast |-> run, audience |-> seen, faults |-> n]

(* One client at a time: of a chat, of a chat beside another one, of a watched  *)
(* turn.                                                                        *)
OneClient == {Scenario({h}, {h}, 2), Scenario({g, h}, {h}, 1), Scenario({w}, {w}, 1)}

(* A chat and an autonomous turn on one thread, the client of the one or of the *)
(* other.                                                                       *)
TwoLoops == {Scenario({h, w}, {h}, 1), Scenario({h, w}, {w}, 1)}
OneWatched == {Scenario({w}, {w}, 0)}
=================================================================================
