------------------------- MODULE PendingPromptQueue -------------------------
(***************************************************************************)
(* The per-thread queue of prompts that arrive while a turn is mid-flight: *)
(* Nymeria/nymeria/core/pending_prompt_queue.py, for one thread_id.        *)
(*                                                                         *)
(* Every operation below runs under InMemoryPendingPromptQueue._lock, so   *)
(* it is one step.  The waking of a prompt (_wake_prompt) happens after    *)
(* that lock is given back; it is folded into the step that removed the    *)
(* prompt, because nobody else holds a reference through which the prompt  *)
(* could be drained, evicted or withdrawn in between.                      *)
(*                                                                         *)
(* What a waiter can read of its prompt (abandoned, restored, error_code,  *)
(* notify_event, the last mailbox entry) is one value, its outcome.        *)
(***************************************************************************)
EXTENDS Integers, Sequences, Functions

CONSTANTS
    Prompts,     \* every PendingPrompt that may be made for the thread
    Human,       \* the prompts whose source is "user"
    QueueMax     \* PENDING_PROMPT_QUEUE_MAXSIZE (256 in the code), at least 1

VARIABLES
    queue,       \* _queues[thread_id], oldest first; no entry is <<>>
    releasing,   \* thread_id \in _releasing
    halted,      \* _halt_observed[thread_id] > 0
    outcome      \* what each prompt's waiters have been told so far

queueVars == <<queue, releasing, halted, outcome>>

(* "unsent" before it is enqueued, "pending" from then until it is woken.   *)
WokenWith == {"absorbed", "inject_failed", "cross_user", "aborted",
              "restored", "withdrawn", "overflow"}
Outcomes  == {"unsent", "pending"} \cup WokenWith

QueueTypeOK ==
    /\ queue \in Seq(Prompts)
    /\ Len(queue) <= QueueMax
    /\ releasing \in BOOLEAN
    /\ halted \in BOOLEAN
    /\ outcome \in [Prompts -> Outcomes]

QueueInit ==
    /\ queue = <<>>
    /\ releasing = FALSE
    /\ halted = FALSE
    /\ outcome = [p \in Prompts |-> "unsent"]

-----------------------------------------------------------------------------

(* notify_batch_absorbed and notify_batch_error: every prompt of a set is   *)
(* woken with the same outcome.                                             *)
Woken(ps, result) == [p \in Prompts |-> IF p \in ps THEN result ELSE outcome[p]]

(* enqueue: refused with PendingPromptQueueClosingError while the holder is *)
(* releasing; at the bound the oldest prompt is evicted to make room.       *)
Accepting == ~releasing

Evicted == IF Len(queue) >= QueueMax THEN {Head(queue)} ELSE {}

Push(p) ==
    /\ Accepting
    /\ queue' = Append(IF Evicted = {} THEN queue ELSE Tail(queue), p)
    /\ outcome' = [Woken(Evicted, "overflow") EXCEPT ![p] = "pending"]

Enqueue(p) == Push(p) /\ UNCHANGED <<releasing, halted>>

(* Mutant of Withdraw: the prompt is woken and stays in the deque.          *)
WithdrawWakesOnly(p) ==
    /\ p \in Range(queue)
    /\ outcome' = Woken({p}, "withdrawn")
    /\ UNCHANGED <<queue, releasing, halted>>

(* withdraw: remove one prompt that no drain has taken yet.                 *)
Withdraw(p) ==
    /\ \E i \in DOMAIN queue :
          /\ queue[i] = p
          /\ queue' = SubSeq(queue, 1, i - 1) \o SubSeq(queue, i + 1, Len(queue))
    /\ outcome' = Woken({p}, "withdrawn")
    /\ UNCHANGED <<releasing, halted>>

(* clear(abandoned=True): everything pending is told the turn was aborted.  *)
Clear ==
    /\ queue' = <<>>
    /\ halted' = FALSE
    /\ outcome' = Woken(Range(queue), "aborted")
    /\ UNCHANGED releasing

(* clear_with_restore: user prompts go back to the user, the rest abort.    *)
ClearWithRestore ==
    /\ queue' = <<>>
    /\ halted' = FALSE
    /\ outcome' = [p \in Prompts |->
                     IF p \notin Range(queue) THEN outcome[p]
                     ELSE IF p \in Human THEN "restored" ELSE "aborted"]
    /\ UNCHANGED releasing

(* begin_release: close the queue until the lock has been given back.       *)
BeginRelease ==
    /\ releasing' = TRUE
    /\ UNCHANGED <<queue, halted, outcome>>
=============================================================================
