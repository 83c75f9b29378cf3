------------------------------ MODULE Rendezvous ------------------------------
(***************************************************************************)
(* core/future_rendezvous.py: the registry of futures that approvals,      *)
(* credential prompts, browser commands and UI prompts wait on.  A waiter  *)
(* registers a future; whoever answers pops the record under a lock and    *)
(* posts the answer to the waiter's loop, which sets it unless the future  *)
(* is already done.  Posting and setting are two steps: the waiter can end *)
(* in between.                                                             *)
(***************************************************************************)
EXTENDS Sequences, FiniteSets

CONSTANTS
    Holds,      \* the ids a waiter registers, each once
    Answers     \* what a future can be set to

VARIABLES
    items,      \* self._items: the ids registered
    future,     \* the waiter's future: "none", "open", "closed" or an answer
    posted      \* call_soon_threadsafe callbacks of the loop, not yet run

rendezvous == <<items, future, posted>>

RendezvousTypeOK ==
    /\ items \subseteq Holds
    /\ future \in [Holds -> {"none", "open", "closed"} \cup Answers]
    /\ posted \in [Holds -> Seq(Answers)]

RendezvousInit ==
    /\ items = {}
    /\ future = [h \in Holds |-> "none"]
    /\ posted = [h \in Holds |-> <<>>]

(* future.done() is false: a callback can still set it.                    *)
Open(h) == future[h] = "open"

Add(h) ==
    /\ items' = items \cup {h}
    /\ future' = [future EXCEPT ![h] = "open"]
    /\ UNCHANGED posted

(* A mutant of Drain: the record is read, not popped.                      *)
DrainLeaves(hs, answer) ==
    /\ posted' = [h \in Holds |->
                    IF h \in hs /\ Open(h) THEN Append(posted[h], answer)
                                           ELSE posted[h]]
    /\ UNCHANGED <<items, future>>

(* _drain_matching and _wake: the records are popped whether or not their  *)
(* futures are done, and only an open future gets a callback.              *)
Drain(hs, answer) ==
    /\ items' = items \ hs
    /\ posted' = [h \in Holds |->
                    IF h \in hs /\ Open(h) THEN Append(posted[h], answer)
                                           ELSE posted[h]]
    /\ UNCHANGED future

(* _resolve: pop, then wake; true to its caller exactly if CanWake(h).     *)
CanWake(h) == h \in items /\ Open(h)

(* safe_set_result, when the loop runs the callback.                       *)
Deliver(h) ==
    /\ posted[h] # <<>>
    /\ future' = [future EXCEPT ![h] = IF Open(h) THEN Head(posted[h]) ELSE @]
    /\ posted' = [posted EXCEPT ![h] = Tail(@)]
    /\ UNCHANGED items

(* The process is gone, with every loop and future of it.                  *)
Forget ==
    /\ items' = {}
    /\ future' = [h \in Holds |-> "none"]
    /\ posted' = [h \in Holds |-> <<>>]

(* The waiter is gone: its future is done (wait_for cancels an open one)   *)
(* and a callback that is still posted will find it so.                    *)
Close(h) ==
    /\ future' = [future EXCEPT ![h] = "closed"]
    /\ posted' = [posted EXCEPT ![h] = <<>>]

===============================================================================
