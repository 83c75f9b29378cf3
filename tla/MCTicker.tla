------------------------------ MODULE MCTicker ------------------------------
(* Instances of Ticker for TLC.                                             *)
EXTENDS Ticker

CONSTANTS p1, p2, t1, t2, e1, e2, s1

OneHome  == [e \in Editors |-> p1]
TwoHomes == [e \in Editors |-> IF e = e1 THEN s1 ELSE p1]
=============================================================================
