---------------------------- MODULE InlineLatch -----------------------------
(***************************************************************************)
(* The one-way decision who hands a run's first report over: the caller    *)
(* that started the run (inline) or the watcher that drives it (detached). *)
(* InlineLatch in Nymeria/nymeria/core/completion_delivery.py, one latch   *)
(* for each run.                                                           *)
(*                                                                         *)
(* Each operation is one critical section of InlineLatch._lock.  The event *)
(* inline_decided only shortens the watcher's wait, which ends after its   *)
(* grace anyway, and is left out.                                          *)
(***************************************************************************)
CONSTANT Runs

VARIABLE resolution    \* InlineLatch._resolution of each run's latch

Resolutions == {"none", "inline", "detached"}

LatchTypeOK == resolution \in [Runs -> Resolutions]

LatchInit == resolution = [r \in Runs |-> "none"]

(* What the latch says once one side has proposed a resolution: the first   *)
(* proposal stands.                                                         *)
Decision(r, proposal) ==
    IF resolution[r] = "none" THEN proposal ELSE resolution[r]

(* wait_inline, after its wait: inline only if the report was ready within  *)
(* the budget.                                                              *)
ClaimProposal(inTime) == IF inTime THEN "inline" ELSE "detached"

(* wait_inline, detach and settle, inside the lock.                         *)
Propose(r, proposal) ==
    resolution' = [resolution EXCEPT ![r] = Decision(r, proposal)]
=============================================================================
