---------------------------- MODULE ThreadLocks -----------------------------
(***************************************************************************)
(* Per-thread locking, cancellation and deletion epochs:                   *)
(* Nymeria/nymeria/core/thread_lock_manager.py, for one thread_id.         *)
(*                                                                         *)
(* The threading.Lock records no owner; owner is the call that took it, so *)
(* that properties can say who holds the thread.                           *)
(***************************************************************************)
EXTENDS Integers

CONSTANTS
    Contenders,  \* the calls that may take the thread's lock
    None         \* "no call": the lock is free; not a contender

VARIABLES
    owner,        \* the call holding _locks[thread_id], or None
    abort,        \* _abort_events[thread_id].is_set()
    threadEpoch,  \* _THREAD_EPOCHS[thread_id]
    deleting      \* thread_id \in _DELETING

lockVars == <<owner, abort, threadEpoch, deleting>>

LockTypeOK ==
    /\ owner \in Contenders \cup {None}
    /\ abort \in BOOLEAN
    /\ threadEpoch \in Nat
    /\ deleting \in BOOLEAN

LockInit ==
    /\ owner = None
    /\ abort = FALSE
    /\ threadEpoch = 0
    /\ deleting = FALSE

-----------------------------------------------------------------------------

LockFree == owner = None

(* lock.acquire(blocking=False), and the poll that succeeds inside          *)
(* async_lock_acquire.                                                      *)
Acquire(c) ==
    /\ LockFree
    /\ owner' = c
    /\ UNCHANGED <<abort, threadEpoch, deleting>>

(* get_thread_epoch: -1 while the thread is being deleted.                  *)
CurrentEpoch == IF deleting THEN -1 ELSE threadEpoch

(* thread_epoch_is_current.                                                 *)
EpochIsCurrent(e) == e >= 0 /\ e = CurrentEpoch

(* begin_thread_deletion: requests authorised before this step are stale.   *)
BeginThreadDeletion ==
    /\ threadEpoch' = threadEpoch + 1
    /\ deleting' = TRUE
    /\ UNCHANGED <<owner, abort>>

SetAbort(flag) ==
    /\ abort' = flag
    /\ UNCHANGED <<owner, threadEpoch, deleting>>

(* cascade_delete_thread's finally, before the unlock: clear_abort and      *)
(* end_thread_deletion.                                                     *)
EndThreadDeletion ==
    /\ abort' = FALSE
    /\ deleting' = FALSE
    /\ UNCHANGED <<owner, threadEpoch>>
=============================================================================
