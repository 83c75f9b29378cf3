------------------------- MODULE MCInteractiveGate --------------------------
(* Small instances of InteractiveGate for TLC.                              *)
EXTENDS InteractiveGate

CONSTANTS r1, r2, r3, r4, r5
=============================================================================
