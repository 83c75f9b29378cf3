-------------------------- MODULE MCTurnAdmission ---------------------------
(* Small instances of TurnAdmission for TLC.                                *)
EXTENDS TurnAdmission

CONSTANTS s1, s2, s3, t1, h1, h2, k1, c1, d1, d2, x1, n1, alice, bob

(* Turn s3 runs for bob, every other one for alice; h2 is bob's too.        *)
MCUserOf == [r \in Turns |-> IF r \in {s3, h2} THEN bob ELSE alice]
=============================================================================
