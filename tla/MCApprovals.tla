------------------------------ MODULE MCApprovals ------------------------------
(* Instances of Approvals for TLC.                                          *)
EXTENDS Approvals

CONSTANTS h1, h2, r1, r2, t1

MCAnswers == {"approved", "denied", "aborted"}
MCKinds ==
    {[h \in Holds |-> "fallback"],
     [h \in Holds |-> IF h = h1 THEN "hook" ELSE "bridged hook"]}
MCThreadOf == [h \in Holds |-> t1]
================================================================================
