--------------------------- MODULE TurnAdmission ----------------------------
(***************************************************************************)
(* How calls compete for one conversation thread of Nymeria, and what      *)
(* becomes of the prompts that find it busy.                               *)
(*                                                                         *)
(* A call becomes the thread's HOLDER by taking its lock (ThreadLocks); a  *)
(* call that finds the lock taken leaves its prompt in the thread's queue  *)
(* (PendingPromptQueue), where the holder picks it up between two drives   *)
(* of its graph.  The calls are                                            *)
(*    astream()              core/agent.py, a coroutine                    *)
(*    chat()                 core/agent.py, its synchronous twin           *)
(*    a busy trigger's post  core/trigger_manager.py                       *)
(*    hold_thread()          core/completion_delivery.py                   *)
(*    clear_thread_history() and cascade_delete_thread()                   *)
(*                           core/thread_deletion.py                       *)
(*    the stop and withdraw routes                                         *)
(*                           api/routers/thread_operations.py              *)
(* One step is one operation on state that calls share: on the lock, on    *)
(* the queue, on the abort flag or on the deletion epoch.                  *)
(***************************************************************************)
EXTENDS Integers, Sequences, Functions

CONSTANTS
    Streams,      \* astream() calls
    Posts,        \* those among Streams that a trigger makes when it fires
    Chats,        \* chat() calls
    Holds,        \* hold_thread() calls
    Clears,       \* clear_thread_history() calls
    Deletes,      \* cascade_delete_thread() calls
    Stops,        \* POST /threads/{id}/stop requests
    Notes,        \* prompts a turn queues for itself: a DONE-hook
                  \* continuation, a reply reminder, a tool-expiry notice
    OnLoop,       \* the calls that run on the API's event loop
    Unqueueable,  \* resumes, and streams with images: they may not queue
    Closable,     \* streams whose consumer may close the generator early
    UserOf,       \* the user_id a turn runs for
    Human,        \* the turns whose source is "user"
    QueueMax,     \* PENDING_PROMPT_QUEUE_MAXSIZE
    None

Turns      == Streams \cup Chats
Contenders == Turns \cup Holds \cup Clears \cup Deletes
Actors     == Contenders \cup Stops
Prompts    == Turns \cup Notes

ASSUME TurnAssumption ==
    /\ Posts \subseteq Streams
    /\ Closable \subseteq Streams
    /\ Unqueueable \subseteq Turns
    /\ Human \subseteq Turns \ Posts
    /\ OnLoop \subseteq (Streams \ Posts) \cup Clears \cup Stops
    /\ DOMAIN UserOf = Turns
    /\ Streams \cap Chats = {}
    /\ Turns \cap (Holds \cup Clears \cup Deletes \cup Stops \cup Notes) = {}
    /\ Holds \cap (Clears \cup Deletes \cup Stops) = {}
    /\ Clears \cap (Deletes \cup Stops) = {}
    /\ Deletes \cap Stops = {}
    /\ None \notin Actors
    /\ QueueMax \in Nat \ {0}

VARIABLES
    owner, abort, threadEpoch, deleting,     \* see ThreadLocks
    queue, releasing, halted, outcome,       \* see PendingPromptQueue
    pc,       \* where each call is
    epoch,    \* the thread epoch a call was authorised under (turn_epoch)
    batch,    \* the prompts the holder has drained and not yet answered
    author,   \* the turn that queued a note
    loop      \* the call the event loop is running, None at its awaits

Lock  == INSTANCE ThreadLocks
Queue == INSTANCE PendingPromptQueue

callVars  == <<pc, epoch, batch, author, loop>>
lockVars  == <<owner, abort, threadEpoch, deleting>>
queueVars == <<queue, releasing, halted, outcome>>
vars      == <<lockVars, queueVars, callVars>>

(* The user a prompt is for: a note carries the user of the turn it is for. *)
PromptUser(p) == IF p \in Notes THEN UserOf[author[p]] ELSE UserOf[p]
-----------------------------------------------------------------------------
(* Where a call can be.                                                     *)

(* A call that has not taken the lock.                                      *)
OutsidePCs == {"idle", "entry", "probe", "post", "try", "check", "enqueue",
               "queued", "wait", "aborting", "signalled"}
(* A turn that has the lock and has begun.                                  *)
TurnPCs    == {"driving", "loop", "drain", "empty", "closing", "redrive",
               "steer", "resteer", "mid", "sealing", "sealed",
               "ending", "failing"}
(* Any call that has the lock.                                              *)
HolderPCs  == TurnPCs \cup {"held", "probing", "leaving", "marked", "closed",
                            "erasing", "restored", "holding"}
DonePCs    == {"finished", "answered", "refused", "detached"}
PCs        == OutsidePCs \cup HolderPCs \cup DonePCs

(* set_lock_info has been called and clear_lock_info has not: what the stop *)
(* routes look at to decide whether there is anything to stop.              *)
InfoPCs == TurnPCs \cup {"leaving", "erasing", "holding"}
HolderVisible == ~Lock!LockFree /\ pc[owner] \in InfoPCs

TypeOK ==
    /\ Lock!LockTypeOK
    /\ Queue!QueueTypeOK
    /\ pc \in [Actors -> PCs]
    /\ epoch \in [Contenders -> Int]
    /\ batch \in SUBSET Prompts
    /\ author \in [Notes -> Turns \cup {None}]
    /\ loop \in OnLoop \cup {None}

Init ==
    /\ Lock!LockInit
    /\ Queue!QueueInit
    /\ pc = [a \in Actors |-> "idle"]
    /\ epoch = [c \in Contenders |-> 0]
    /\ batch = {}
    /\ author = [n \in Notes |-> None]
    /\ loop = None

-----------------------------------------------------------------------------
(* Scheduling.  Worker threads interleave at every step.  Calls on the      *)
(* event loop interleave with each other only where they await, or hand an  *)
(* event to the consumer of the generator.                                  *)

At(a, place)   == pc[a] = place /\ (a \in OnLoop => loop \in {None, a})
Goto(a, place) == pc' = [pc EXCEPT ![a] = place]
Keeps(a)       == loop' = IF a \in OnLoop THEN a ELSE loop
Yields(a)      == loop' = IF a \in OnLoop THEN None ELSE loop

KeepGoing(a, place) == Goto(a, place) /\ Keeps(a)
Suspend(a, place)   == Goto(a, place) /\ Yields(a)

(* release_lock: the lock and this holder's release marker go in one step.  *)
ReleaseLock ==
    /\ owner' = None
    /\ releasing' = FALSE
    /\ UNCHANGED <<abort, threadEpoch, deleting, queue, halted, outcome>>

-----------------------------------------------------------------------------
(* Arriving at the thread.                                                  *)

(* The request is authorised and snapshots the thread's deletion epoch (the *)
(* routes do it under thread_admission_guard).  hold_thread takes no epoch  *)
(* and goes straight for the lock; a trigger first asks if the thread is    *)
(* busy.                                                                    *)
Authorise(c) ==
    /\ At(c, "idle")
    /\ epoch' = [epoch EXCEPT ![c] = Lock!CurrentEpoch]
    /\ Suspend(c, IF c \in Holds THEN "wait"
                  ELSE IF c \in Posts THEN "probe" ELSE "entry")
    /\ UNCHANGED <<lockVars, queueVars, batch, author>>

(* A turn or a clear is refused at once when its thread was deleted.        *)
Enter(c) ==
    /\ c \in Turns \cup Clears
    /\ At(c, "entry")
    /\ IF Lock!EpochIsCurrent(epoch[c])
       THEN KeepGoing(c, IF c \in Turns THEN "try" ELSE "wait")
       ELSE Suspend(c, "refused")
    /\ UNCHANGED <<lockVars, queueVars, epoch, batch, author>>

(* is_thread_busy, asked by the trigger manager: take the lock if it is     *)
(* free, and give it straight back.                                         *)
Probe(t) ==
    /\ At(t, "probe")
    /\ \/ /\ Lock!Acquire(t)
          /\ Goto(t, "probing")
       \/ /\ ~Lock!LockFree
          /\ Goto(t, "post")
          /\ UNCHANGED lockVars
    /\ UNCHANGED <<queueVars, epoch, batch, author, loop>>

(* The thread was idle: the trigger fires as a turn of its own.             *)
ProbeDrop(t) ==
    /\ At(t, "probing")
    /\ owner' = None
    /\ epoch' = [epoch EXCEPT ![t] = Lock!CurrentEpoch]
    /\ Goto(t, "entry")
    /\ UNCHANGED <<abort, threadEpoch, deleting, queueVars, batch, author, loop>>

(* The thread was busy: the trigger queues its prompt and does not wait for *)
(* it.  If the queue is closing, the event is deferred to the next poll.    *)
PostPrompt(t) ==
    /\ At(t, "post")
    /\ \/ /\ Queue!Enqueue(t)
          /\ Goto(t, "detached")
       \/ /\ ~Queue!Accepting
          /\ Goto(t, "refused")
          /\ UNCHANGED queueVars
    /\ UNCHANGED <<lockVars, epoch, batch, author, loop>>

(* A turn's first, non-blocking attempt on the lock.                        *)
TryLock(r) ==
    /\ At(r, "try")
    /\ \/ /\ Lock!Acquire(r)
          /\ KeepGoing(r, "held")
       \/ /\ ~Lock!LockFree
          /\ KeepGoing(r, "check")
          /\ UNCHANGED lockVars
    /\ UNCHANGED <<queueVars, epoch, batch, author>>

(* Is the holder releasing?  Then wait for the lock.  Else queue, unless    *)
(* this call may not.                                                       *)
CheckReleasing(r) ==
    /\ At(r, "check")
    /\ \/ releasing /\ Suspend(r, "wait")
       \/ ~releasing /\ r \in Unqueueable /\ Suspend(r, "refused")
       \/ ~releasing /\ r \notin Unqueueable /\ KeepGoing(r, "enqueue")
    /\ UNCHANGED <<lockVars, queueVars, epoch, batch, author>>

(* Queue the prompt; on PendingPromptQueueClosingError wait for the lock.   *)
EnqueuePrompt(r) ==
    /\ At(r, "enqueue")
    /\ \/ /\ Queue!Enqueue(r)
          /\ Suspend(r, "queued")
       \/ /\ ~Queue!Accepting
          /\ Suspend(r, "wait")
          /\ UNCHANGED queueVars
    /\ UNCHANGED <<lockVars, epoch, batch, author>>

(* Waiting for the lock: async_lock_acquire's poll, or acquire(timeout).    *)
WaitAcquire(c) ==
    /\ At(c, "wait")
    /\ Lock!Acquire(c)
    /\ KeepGoing(c, "held")
    /\ UNCHANGED <<queueVars, epoch, batch, author>>

(* lock_timeout has passed and the last poll still found the lock taken.    *)
WaitTimeout(c) ==
    /\ At(c, "wait")
    /\ ~Lock!LockFree
    /\ Suspend(c, "refused")
    /\ UNCHANGED <<lockVars, queueVars, epoch, batch, author>>

-----------------------------------------------------------------------------
(* Having queued.                                                           *)

(* The queued call is woken, and returns what it was told.                  *)
Observe(r) ==
    /\ At(r, "queued")
    /\ outcome[r] \in Queue!WokenWith
    /\ Suspend(r, "answered")
    /\ UNCHANGED <<lockVars, queueVars, epoch, batch, author>>

(* chat() gives up after lock_timeout; its prompt stays where it is.        *)
QueueTimeout(r) ==
    /\ r \in Chats
    /\ At(r, "queued")
    /\ outcome[r] = "pending"
    /\ Suspend(r, "refused")
    /\ UNCHANGED <<lockVars, queueVars, epoch, batch, author>>

(* A stream's client disconnects: that ends the observation, never the      *)
(* queued intent.                                                           *)
Detach(r) ==
    /\ r \in Streams
    /\ At(r, "queued")
    /\ Suspend(r, "detached")
    /\ UNCHANGED <<lockVars, queueVars, epoch, batch, author>>

(* DELETE /threads/{id}/queue/{prompt_id}, a coroutine with no await.       *)
WithdrawPrompt(p) ==
    /\ loop = None
    /\ Queue!Withdraw(p)
    /\ UNCHANGED <<lockVars, callVars>>

-----------------------------------------------------------------------------
(* A turn that holds the lock.                                              *)

(* Mutant of StartTurn: only the epoch check before the lock was made.      *)
StartTurnUnchecked(r) ==
    /\ r \in Turns
    /\ At(r, "held")
    /\ IF r \in Streams THEN Lock!SetAbort(FALSE) ELSE UNCHANGED lockVars
    /\ Suspend(r, "driving")
    /\ UNCHANGED <<queueVars, epoch, batch, author>>

(* Re-check the epoch under the lock.  A stream clears the abort flag left  *)
(* by an earlier stop; a chat does not look at that flag.                   *)
StartTurn(r) ==
    /\ r \in Turns
    /\ At(r, "held")
    /\ IF Lock!EpochIsCurrent(epoch[r])
       THEN /\ IF r \in Streams THEN Lock!SetAbort(FALSE) ELSE UNCHANGED lockVars
            /\ Suspend(r, "driving")
            /\ UNCHANGED queueVars
       ELSE /\ ReleaseLock
            /\ Suspend(r, "refused")
    /\ UNCHANGED <<epoch, batch, author>>

(* route_after_tools, at the end of a tool batch of any drive: queue a due  *)
(* tool-expiry notice, and if anything is queued halt the drive there.      *)
RouteAfterTools(r) ==
    /\ \E place \in {"driving", "redrive", "resteer"} : At(r, place)
    /\ \/ \E n \in Notes :
            /\ outcome[n] = "unsent"
            /\ Queue!Push(n)
            /\ author' = [author EXCEPT ![n] = r]
       \/ queue # <<>> /\ UNCHANGED <<queue, outcome, author>>
    /\ halted' = TRUE
    /\ Yields(r)
    /\ UNCHANGED <<lockVars, releasing, pc, epoch, batch>>

(* The turn's own drive is over, for whatever reason; the halt count is     *)
(* consumed.  chat() goes to its first drain loop.                          *)
DriveEnds(r) ==
    /\ At(r, "driving")
    /\ halted' = FALSE
    /\ Suspend(r, IF r \in Chats THEN "steer" ELSE "loop")
    /\ UNCHANGED <<lockVars, queue, releasing, outcome, epoch, batch, author>>

(* An exception outside the drain loops, which have their own handling.     *)
TurnFails(r) ==
    /\ \E place \in IF r \in Chats THEN {"driving", "mid"}
                                   ELSE {"driving", "ending"} :
          At(r, place)
    /\ r \in Turns
    /\ Suspend(r, "failing")
    /\ UNCHANGED <<lockVars, queueVars, epoch, batch, author>>

(* The consumer of a stream closes the generator where it is suspended: the *)
(* finally clause runs, no except clause does.  run_turn does this on an    *)
(* error event of an autonomous turn, and shutdown on any turn.             *)
CloseTurn(r) ==
    /\ r \in Closable
    /\ \E place \in {"driving", "redrive", "empty", "ending"} : At(r, place)
    /\ KeepGoing(r, "failing")
    /\ UNCHANGED <<lockVars, queueVars, epoch, batch, author>>

(* Mutant of Acceptable: nobody looks whose prompt it is.                   *)
AcceptableAll(r) == Range(queue)

(* Take everything queued.  astream() rejects the prompts of other users;   *)
(* chat() makes no such test.                                               *)
Acceptable(r) == {p \in Range(queue) : r \in Streams => PromptUser(p) = UserOf[r]}

TakeBatch(r, next, ifNone) ==
    /\ queue' = <<>>
    /\ batch' = Acceptable(r)
    /\ outcome' = Queue!Woken(Range(queue) \ Acceptable(r), "cross_user")
    /\ IF Acceptable(r) = {} THEN KeepGoing(r, ifNone) ELSE Suspend(r, next)
    /\ UNCHANGED <<releasing, halted>>

(* Head of the drain loop: a stopped stream leaves it.  chat() loops on.    *)
LoopTest(r) ==
    /\ At(r, "loop")
    /\ IF r \in Streams /\ abort THEN Suspend(r, "ending") ELSE KeepGoing(r, "drain")
    /\ UNCHANGED <<lockVars, queueVars, epoch, batch, author>>

(* backend.drain, the first one of an iteration and the final one after     *)
(* begin_release.                                                           *)
Drain(r) ==
    /\ \E place \in {"drain", "closing"} : At(r, place)
    /\ \/ queue # <<>> /\ TakeBatch(r, "redrive", "loop")
       \/ /\ queue = <<>>
          /\ Suspend(r, IF pc[r] = "drain" THEN "empty" ELSE "ending")
          /\ UNCHANGED <<queueVars, batch>>
    /\ UNCHANGED <<lockVars, epoch, author>>

(* Nothing queued: a DONE hook, or a reply still owed, extends the turn.    *)
(* (While releasing, the note is refused and the turn goes on to close.)    *)
Continue(r) ==
    /\ At(r, "empty")
    /\ \E n \in Notes :
          /\ outcome[n] = "unsent"
          /\ Queue!Enqueue(n)
          /\ author' = [author EXCEPT ![n] = r]
    /\ KeepGoing(r, "loop")
    /\ UNCHANGED <<lockVars, epoch, batch>>

(* Mutant of CloseQueue: no final drain.                                    *)
CloseQueueAndEnd(r) ==
    /\ At(r, "empty")
    /\ Queue!BeginRelease
    /\ KeepGoing(r, "ending")
    /\ UNCHANGED <<lockVars, epoch, batch, author>>

(* Nothing queued and nothing to add: close the queue, then drain again.    *)
CloseQueue(r) ==
    /\ At(r, "empty")
    /\ Queue!BeginRelease
    /\ KeepGoing(r, "closing")
    /\ UNCHANGED <<lockVars, epoch, batch, author>>

(* Mutants of Redriven: the halt count is kept; the batch is not told.      *)
RedrivenKeepsHalt(r) ==
    /\ At(r, "redrive")
    /\ outcome' = Queue!Woken(batch, "absorbed")
    /\ batch' = {}
    /\ Suspend(r, "loop")
    /\ UNCHANGED <<lockVars, queue, releasing, halted, epoch, author>>

RedrivenTellsNobody(r) ==
    /\ At(r, "redrive")
    /\ batch' = {}
    /\ halted' = (halted /\ r \in Chats)
    /\ Suspend(r, "loop")
    /\ UNCHANGED <<lockVars, queue, releasing, outcome, epoch, author>>

(* The drive with the injected batch ends; its waiters are told so.  Only   *)
(* astream() consumes the halt count here.                                  *)
Redriven(r) ==
    /\ At(r, "redrive")
    /\ outcome' = Queue!Woken(batch, "absorbed")
    /\ batch' = {}
    /\ halted' = (halted /\ r \in Chats)
    /\ Suspend(r, "loop")
    /\ UNCHANGED <<lockVars, queue, releasing, epoch, author>>

(* Mutant of RedriveFails: the error reaches the holder only.               *)
RedriveFailsSilently(r) ==
    /\ At(r, "redrive")
    /\ batch' = {}
    /\ Suspend(r, IF r \in Chats THEN "sealing" ELSE "failing")
    /\ UNCHANGED <<lockVars, queueVars, epoch, author>>

(* Injecting or driving the batch raises.  astream() tells the batch and    *)
(* re-raises; chat() tells it and leaves its final loop.                    *)
RedriveFails(r) ==
    /\ At(r, "redrive")
    /\ outcome' = Queue!Woken(batch, "inject_failed")
    /\ batch' = {}
    /\ Suspend(r, IF r \in Chats THEN "sealing" ELSE "failing")
    /\ UNCHANGED <<lockVars, queue, releasing, halted, epoch, author>>

-----------------------------------------------------------------------------
(* chat()'s first drain loop, before its post-processing.                   *)
SteerDrain(r) ==
    /\ At(r, "steer")
    /\ queue' = <<>>
    /\ batch' = Range(queue)
    /\ Suspend(r, IF queue = <<>> THEN "mid" ELSE "resteer")
    /\ UNCHANGED <<lockVars, releasing, halted, outcome, epoch, author>>

Resteered(r) ==
    /\ At(r, "resteer")
    /\ outcome' = Queue!Woken(batch, "absorbed")
    /\ batch' = {}
    /\ halted' = FALSE
    /\ Suspend(r, "steer")
    /\ UNCHANGED <<lockVars, queue, releasing, epoch, author>>

ResteerFails(r) ==
    /\ At(r, "resteer")
    /\ outcome' = Queue!Woken(batch, "inject_failed")
    /\ batch' = {}
    /\ Suspend(r, "mid")
    /\ UNCHANGED <<lockVars, queue, releasing, halted, epoch, author>>

(* Post-processing is over; consume the halt count and enter the final loop. *)
MidDone(r) ==
    /\ At(r, "mid")
    /\ halted' = FALSE
    /\ Suspend(r, "loop")
    /\ UNCHANGED <<lockVars, queue, releasing, outcome, epoch, batch, author>>

(* After a failed injection chat() closes the queue, then clears it.        *)
Seal(r) ==
    /\ At(r, "sealing")
    /\ Queue!BeginRelease
    /\ Suspend(r, "sealed")
    /\ UNCHANGED <<lockVars, epoch, batch, author>>

SealClear(r) ==
    /\ At(r, "sealed")
    /\ Queue!Clear
    /\ Suspend(r, "ending")
    /\ UNCHANGED <<lockVars, epoch, batch, author>>

(* Mutant of FailClear: a failed turn leaves the queue as it is.            *)
FailWithoutClear(r) ==
    /\ At(r, "failing")
    /\ KeepGoing(r, "leaving")
    /\ UNCHANGED <<lockVars, queueVars, epoch, batch, author>>

(* The finally clause of a turn that did not complete normally.             *)
FailClear(r) ==
    /\ At(r, "failing")
    /\ Queue!Clear
    /\ KeepGoing(r, "leaving")
    /\ UNCHANGED <<lockVars, epoch, batch, author>>

(* The last step of every holder.  A batch it still has is garbage now.     *)
Release(c) ==
    /\ \E place \in {"ending", "leaving", "holding"} : At(c, place)
    /\ ReleaseLock
    /\ batch' = {}
    /\ Suspend(c, "finished")
    /\ UNCHANGED <<epoch, author>>

-----------------------------------------------------------------------------
(* Holders that run no model.                                               *)

(* Mutant of HoldClose: the queue stays open behind the hold.               *)
HoldLeavesOpen(h) ==
    /\ h \in Holds
    /\ At(h, "held")
    /\ Suspend(h, "closed")
    /\ UNCHANGED <<lockVars, queueVars, epoch, batch, author>>

(* hold_thread: close the queue, hand back what queued meanwhile, publish   *)
(* the holder and drop a stale stop.                                        *)
HoldClose(h) ==
    /\ h \in Holds
    /\ At(h, "held")
    /\ Queue!BeginRelease
    /\ Suspend(h, "closed")
    /\ UNCHANGED <<lockVars, epoch, batch, author>>

HoldRestore(h) ==
    /\ h \in Holds
    /\ At(h, "closed")
    /\ Queue!ClearWithRestore
    /\ Suspend(h, "restored")
    /\ UNCHANGED <<lockVars, epoch, batch, author>>

HoldStart(h) ==
    /\ h \in Holds
    /\ At(h, "restored")
    /\ Lock!SetAbort(FALSE)
    /\ Suspend(h, "holding")
    /\ UNCHANGED <<queueVars, epoch, batch, author>>

(* clear_thread_history: the epoch again, then close the queue.             *)
ClearStart(c) ==
    /\ c \in Clears
    /\ At(c, "held")
    /\ IF Lock!EpochIsCurrent(epoch[c])
       THEN Queue!BeginRelease /\ Suspend(c, "holding") /\ UNCHANGED lockVars
       ELSE ReleaseLock /\ Suspend(c, "refused")
    /\ UNCHANGED <<epoch, batch, author>>

(* cascade_delete_thread.  First abort whatever runs, and its queue ...     *)
DeleteAdmit(d) ==
    /\ d \in Deletes
    /\ At(d, "entry")
    /\ IF Lock!EpochIsCurrent(epoch[d])
       THEN Lock!SetAbort(TRUE) /\ Suspend(d, "aborting")
       ELSE UNCHANGED lockVars /\ Suspend(d, "refused")
    /\ UNCHANGED <<queueVars, epoch, batch, author>>

DeleteAbortQueue(d) ==
    /\ At(d, "aborting")
    /\ Queue!Clear
    /\ Suspend(d, "wait")
    /\ UNCHANGED <<lockVars, epoch, batch, author>>

(* ... then, under the lock, invalidate every request of the old thread ... *)
DeleteBegin(d) ==
    /\ d \in Deletes
    /\ At(d, "held")
    /\ IF Lock!EpochIsCurrent(epoch[d])
       THEN Lock!BeginThreadDeletion /\ Suspend(d, "marked")
       ELSE Lock!EndThreadDeletion /\ Suspend(d, "leaving")
    /\ UNCHANGED <<queueVars, epoch, batch, author>>

(* ... close the queue and empty it ...                                     *)
DeleteClose(d) ==
    /\ At(d, "marked")
    /\ Queue!BeginRelease
    /\ Suspend(d, "closed")
    /\ UNCHANGED <<lockVars, epoch, batch, author>>

DeleteClear(d) ==
    /\ d \in Deletes
    /\ At(d, "closed")
    /\ Queue!Clear
    /\ Suspend(d, "erasing")
    /\ UNCHANGED <<lockVars, epoch, batch, author>>

(* ... erase the stores, and reopen the thread id.                          *)
DeleteEnd(d) ==
    /\ At(d, "erasing")
    /\ Lock!EndThreadDeletion
    /\ Suspend(d, "leaving")
    /\ UNCHANGED <<queueVars, epoch, batch, author>>

-----------------------------------------------------------------------------
(* The stop route: abort_with_cascade(restore_queue=True), if the thread    *)
(* shows a holder.                                                          *)
StopSignal(s) ==
    /\ s \in Stops
    /\ At(s, "idle")
    /\ HolderVisible
    /\ Lock!SetAbort(TRUE)
    /\ KeepGoing(s, "signalled")
    /\ UNCHANGED <<queueVars, epoch, batch, author>>

StopRestore(s) ==
    /\ At(s, "signalled")
    /\ Queue!ClearWithRestore
    /\ Suspend(s, "finished")
    /\ UNCHANGED <<lockVars, epoch, batch, author>>

-----------------------------------------------------------------------------
Arriving(c) ==
    \/ Enter(c) \/ Probe(c) \/ ProbeDrop(c) \/ PostPrompt(c)
    \/ TryLock(c) \/ CheckReleasing(c) \/ EnqueuePrompt(c)
    \/ WaitAcquire(c) \/ WaitTimeout(c)
    \/ Observe(c) \/ QueueTimeout(c)

RunningTurn(r) ==
    \/ StartTurn(r) \/ RouteAfterTools(r) \/ DriveEnds(r) \/ TurnFails(r)
    \/ LoopTest(r) \/ Drain(r) \/ Continue(r) \/ CloseQueue(r)
    \/ Redriven(r) \/ RedriveFails(r)
    \/ SteerDrain(r) \/ Resteered(r) \/ ResteerFails(r) \/ MidDone(r)
    \/ Seal(r) \/ SealClear(r) \/ FailClear(r)

ModelFree(c) ==
    \/ HoldClose(c) \/ HoldRestore(c) \/ HoldStart(c) \/ ClearStart(c)
    \/ DeleteAdmit(c) \/ DeleteAbortQueue(c) \/ DeleteBegin(c)
    \/ DeleteClose(c) \/ DeleteClear(c) \/ DeleteEnd(c)

(* What the code itself goes on to do, once a call has been made ...        *)
CallStep(c) ==
    \/ Arriving(c) \/ RunningTurn(c) \/ ModelFree(c) \/ Release(c)

(* ... and what users and their clients may do, or not.                     *)
UserStep ==
    \/ \E c \in Contenders : Authorise(c) \/ Detach(c) \/ CloseTurn(c)
    \/ \E s \in Stops : StopSignal(s)
    \/ \E p \in Turns : WithdrawPrompt(p)

Quiescent ==
    /\ \A c \in Contenders : pc[c] \in DonePCs
    /\ \A s \in Stops : pc[s] \in DonePCs \cup {"idle"}
    /\ UNCHANGED vars

Next ==
    \/ \E c \in Contenders : CallStep(c)
    \/ \E s \in Stops : StopRestore(s)
    \/ UserStep
    \/ Quiescent

Spec == Init /\ [][Next]_vars

(* Threads and coroutines are scheduled, drives end (iteration cap, tool    *)
(* and provider timeouts) and lock_timeout passes.  Nobody has to make a    *)
(* call, to stop, to withdraw or to disconnect.                             *)
Fairness ==
    /\ \A c \in Contenders : WF_vars(CallStep(c))
    /\ \A s \in Stops : WF_vars(StopRestore(s))

FairSpec == Spec /\ Fairness

-----------------------------------------------------------------------------
(* Properties.                                                              *)

(* One call at a time is past the thread's lock, and it is the one the lock *)
(* was taken by, through every path that gives the lock back.               *)
LockExclusion == \A c \in Contenders : pc[c] \in HolderPCs <=> owner = c

(* The marker that closes the queue belongs to the holder that put it up:   *)
(* it never outlives the lock, and a call that has just taken the lock, or  *)
(* a turn that is still driving, never finds its queue closed by the        *)
(* holder before it (release_lock hands both over in one step).             *)
OpenPCs == {"held", "probing", "driving", "steer", "resteer", "mid", "marked"}
ReleaseMarkerOwned ==
    releasing => owner # None /\ pc[owner] \notin OpenPCs

(* A prompt that is still pending is in exactly one place from which it can *)
(* be answered: once in the queue, or in the batch of the current holder.   *)
PendingReachable ==
    /\ \A p \in Prompts :
          outcome[p] = "pending" <=> p \in Range(queue) \cup batch
    /\ Range(queue) \cap batch = {}
    /\ IsInjective(queue)
    /\ owner = None => batch = {}

(* The message of a call is used once: it runs as a turn of its own, or it  *)
(* goes through the queue, never both.                                      *)
RunOnce ==
    \A r \in Turns :
        pc[r] \in TurnPCs \cup {"held", "leaving", "finished"} => outcome[r] = "unsent"

(* What PromptPromise sees of a message: where its call is and what its     *)
(* waiters have been told.                                                  *)
RunPCs == TurnPCs \cup {"leaving", "finished"}

Fate == [p \in Prompts |->
           IF p \in Turns /\ pc[p] \in RunPCs THEN "run"
           ELSE IF outcome[p] # "unsent" THEN outcome[p]
           ELSE IF p \in Turns /\ pc[p] = "refused" THEN "refused" ELSE "new"]

Promise == INSTANCE PromptPromise
             WITH Messages <- Prompts, Answers <- Queue!WokenWith, fate <- Fate

(* Each message is refused, run or queued, and a queued one answered once:  *)
(* no race of drain, withdrawal, stop, eviction, timeout and failure gives  *)
(* one two answers, or runs what was queued or refused.                     *)
PromiseKept == Promise!Spec

(* No turn, and no clear, works on a thread that was deleted after the call *)
(* was authorised, or while its stores are being erased.                    *)
TurnOfLivingThread ==
    /\ \A r \in Turns : pc[r] \in TurnPCs => Lock!EpochIsCurrent(epoch[r])
    /\ \A c \in Clears : pc[c] = "holding" => Lock!EpochIsCurrent(epoch[c])
    /\ deleting => owner \in Deletes

(* Nothing is queued behind a holder that will never drain: a running       *)
(* hold_thread, or a deletion that is erasing stores.                       *)
QuietBehindModelFree ==
    \A c \in Holds \cup Deletes :
        pc[c] \in {"restored", "holding", "erasing"} => queue = <<>>

(* astream() absorbs prompts of its own user only; an absorbed prompt runs  *)
(* with the holder's memories and credentials.                              *)
OwnUserOnly ==
    [][\A p \in Prompts :
          outcome[p] # "absorbed" /\ outcome'[p] = "absorbed"
              => PromptUser(p) = UserOf[owner]]_vars

(* A prompt is queued only while there is a holder that has not made its    *)
(* final drain; a later one waits for the lock and runs as the next turn.   *)
QueuedBehindHolder ==
    [][\A p \in Prompts :
          outcome[p] = "unsent" /\ outcome'[p] = "pending"
              => owner # None /\ pc[owner] # "ending"]_vars

(* When the thread is idle, nothing is queued for it.                       *)
NoneLeftBehind == owner = None => queue = <<>>

(* A halt observed in one turn is not reported by the next one.             *)
HaltNotCarriedOver == owner = None => ~halted

(* No prompt of a deleted thread is absorbed into a turn of the thread that *)
(* took its id.                                                             *)
StaleNeverAbsorbed ==
    [][\A p \in Turns :
          outcome[p] # "absorbed" /\ outcome'[p] = "absorbed"
              => epoch[p] = threadEpoch]_vars

(* Every queued prompt is woken.                                            *)
EveryPromptWoken ==
    \A p \in Prompts : outcome[p] = "pending" ~> outcome[p] # "pending"

(* Every call comes back.                                                   *)
EveryCallReturns ==
    \A c \in Contenders : pc[c] # "idle" ~> pc[c] \in DonePCs
=============================================================================
