-------------------------- MODULE InteractiveGate ---------------------------
(***************************************************************************)
(* The process-wide bound on concurrent interactive turns:                 *)
(* InteractiveTurnGate in Nymeria/nymeria/core/interactive_admission.py.   *)
(*                                                                         *)
(* Everything here runs on the API's event loop, so a step is what a       *)
(* coroutine does between two awaits.  The one await is wait_for(waiter):  *)
(* between the moment its future is settled and the moment the coroutine   *)
(* runs again, other coroutines run, and the timeout or a cancellation may *)
(* still arrive.                                                           *)
(***************************************************************************)
EXTENDS Integers, Sequences, FiniteSets

CONSTANTS
    Requests,    \* would-be interactive turns
    Exempt,      \* self-invoked relays, and prompts aimed at a busy thread
    Limits,      \* the values max_concurrent_interactive may take; 0: none
    FirstLimit,
    Patient      \* the requests that arrive while the setting
                 \* interactive_admission_wait_seconds is above 0

ASSUME GateAssumption ==
    /\ IsFiniteSet(Requests)
    /\ Exempt \subseteq Requests
    /\ Limits \subseteq Nat
    /\ FirstLimit \in Limits
    /\ Patient \subseteq Requests

VARIABLES
    active,      \* InteractiveTurnGate._active
    waiters,     \* InteractiveTurnGate._waiters
    future,      \* the state of each request's waiter future
    knock,       \* what reached a waiting request besides its future
    slots,       \* the requests whose TurnSlot is not released
    pc,          \* where each request is
    limit        \* the setting, read at each acquire

vars == <<active, waiters, future, knock, slots, pc, limit>>

PCs     == {"arriving", "waiting", "running", "observing", "exempt",
            "shed", "cancelled", "over"}
Futures == {"none", "pending", "granted", "cancelled"}
Knocks  == {"none", "timeout", "cancel"}

(* Types; and the deque holds waiting requests only: acquire's finally never *)
(* leaves the future of a request that has gone.                            *)
TypeOK ==
    /\ active \in Nat
    /\ waiters \in Seq(Requests)
    /\ \A i \in DOMAIN waiters : pc[waiters[i]] = "waiting"
    /\ future \in [Requests -> Futures]
    /\ knock \in [Requests -> Knocks]
    /\ slots \in SUBSET Requests
    /\ pc \in [Requests -> PCs]
    /\ limit \in Limits

Init ==
    /\ active = 0
    /\ waiters = <<>>
    /\ future = [r \in Requests |-> "none"]
    /\ knock = [r \in Requests |-> "none"]
    /\ slots = {}
    /\ pc = [r \in Requests |-> "arriving"]
    /\ limit = FirstLimit

Goto(r, place) == pc' = [pc EXCEPT ![r] = place]

-----------------------------------------------------------------------------
(* The waiters that can still be handed a slot.                             *)
Live == {i \in DOMAIN waiters : future[waiters[i]] = "pending"}

HasRoom == limit = 0 \/ active < limit

(* Mutants of ReleaseCount: the hand-off forgotten; the last waiter first.  *)
ReleaseHandsToNobody ==
    /\ active' = IF active = 0 THEN 0 ELSE active - 1
    /\ UNCHANGED <<waiters, future>>

ReleaseServesLast ==
    IF active = 0 THEN UNCHANGED <<active, waiters, future>>
    ELSE IF Live = {}
    THEN active' = active - 1 /\ waiters' = <<>> /\ UNCHANGED future
    ELSE \E i \in Live :
         /\ \A j \in Live : i >= j
         /\ waiters' = SubSeq(waiters, 1, i - 1)
         /\ future' = [future EXCEPT ![waiters[i]] = "granted"]
         /\ UNCHANGED active

(* InteractiveTurnGate._release: give a count back, or rather hand it to    *)
(* the first live waiter, dropping the dead ones in front of it.            *)
ReleaseCount ==
    IF active = 0 THEN UNCHANGED <<active, waiters, future>>
    ELSE IF Live = {}
    THEN /\ active' = active - 1
         /\ waiters' = <<>>
         /\ UNCHANGED future
    ELSE \E i \in Live :
         /\ \A j \in Live : i <= j
         /\ waiters' = SubSeq(waiters, i + 1, Len(waiters))
         /\ future' = [future EXCEPT ![waiters[i]] = "granted"]
         /\ UNCHANGED active

(* admit_interactive_turn: an exempt request takes no slot.                 *)
PassExempt(r) ==
    /\ r \in Exempt
    /\ pc[r] = "arriving"
    /\ Goto(r, "exempt")
    /\ UNCHANGED <<active, waiters, future, knock, slots, limit>>

(* try_acquire succeeds.                                                    *)
Admit(r) ==
    /\ r \notin Exempt
    /\ pc[r] = "arriving"
    /\ HasRoom
    /\ active' = active + 1
    /\ slots' = slots \cup {r}
    /\ Goto(r, "running")
    /\ UNCHANGED <<waiters, future, knock, limit>>

(* At the ceiling: queue a future, or shed at once if there is no wait.     *)
StartWaiting(r) ==
    /\ r \notin Exempt
    /\ pc[r] = "arriving"
    /\ ~HasRoom
    /\ IF r \in Patient
       THEN /\ waiters' = Append(waiters, r)
            /\ future' = [future EXCEPT ![r] = "pending"]
            /\ Goto(r, "waiting")
       ELSE Goto(r, "shed") /\ UNCHANGED <<waiters, future>>
    /\ UNCHANGED <<active, knock, slots, limit>>

(* The wait times out, or the request is cancelled (a cancellation wins     *)
(* over a timeout).                                                         *)
Knock(r, what) ==
    /\ pc[r] = "waiting"
    /\ knock[r] = "none" \/ (knock[r] = "timeout" /\ what = "cancel")
    /\ knock' = [knock EXCEPT ![r] = what]
    /\ UNCHANGED <<active, waiters, future, slots, pc, limit>>

(* wait_for cancels the future, if no release has settled it first.  (From  *)
(* Python 3.12 on the knock itself does; the 3.11 of the images lets other  *)
(* coroutines run in between.)                                              *)
GiveUp(r) ==
    /\ pc[r] = "waiting"
    /\ knock[r] # "none"
    /\ future[r] = "pending"
    /\ future' = [future EXCEPT ![r] = "cancelled"]
    /\ UNCHANGED <<active, waiters, knock, slots, pc, limit>>

(* acquire's finally: the waiter leaves the deque, if it is still in it.    *)
Leave(r) ==
    \/ \E i \in DOMAIN waiters :
          /\ waiters[i] = r
          /\ waiters' = SubSeq(waiters, 1, i - 1) \o SubSeq(waiters, i + 1, Len(waiters))
    \/ (\A i \in DOMAIN waiters : waiters[i] # r) /\ UNCHANGED waiters

(* Mutant of WakeAdmitted: a timeout is honoured although a release had      *)
(* handed the request a count.                                              *)
WakeTimedOut(r) ==
    /\ pc[r] = "waiting"
    /\ future[r] = "granted"
    /\ slots' = IF knock[r] = "none" THEN slots \cup {r} ELSE slots
    /\ Leave(r)
    /\ Goto(r, IF knock[r] = "none" THEN "running" ELSE "shed")
    /\ UNCHANGED <<active, future, knock, limit>>

(* The coroutine runs again holding the count a release handed it: on a     *)
(* plain wake-up, or although its timeout fired.  (Python 3.11's wait_for   *)
(* also returns the result to a request that was cancelled.)                *)
WakeAdmitted(r) ==
    /\ pc[r] = "waiting"
    /\ future[r] = "granted"
    /\ slots' = slots \cup {r}
    /\ Leave(r)
    /\ Goto(r, "running")
    /\ UNCHANGED <<active, future, knock, limit>>

(* Mutant of WakeGivesBack: the cancelled request keeps the count.          *)
WakeLeaks(r) ==
    /\ pc[r] = "waiting"
    /\ future[r] = "granted"
    /\ knock[r] = "cancel"
    /\ Goto(r, "cancelled")
    /\ UNCHANGED <<active, waiters, future, knock, slots, limit>>

(* It runs again cancelled, after a release handed it a count: the count is *)
(* given back, and handed on.                                               *)
WakeGivesBack(r) ==
    /\ pc[r] = "waiting"
    /\ future[r] = "granted"
    /\ knock[r] = "cancel"
    /\ ReleaseCount
    /\ Goto(r, "cancelled")
    /\ UNCHANGED <<knock, slots, limit>>

(* It runs again with nothing: shed, or cancelled.                          *)
WakeEmpty(r) ==
    /\ pc[r] = "waiting"
    /\ future[r] = "cancelled"
    /\ Leave(r)
    /\ Goto(r, IF knock[r] = "cancel" THEN "cancelled" ELSE "shed")
    /\ UNCHANGED <<active, future, knock, slots, limit>>

(* Mutant of SlotRelease: not idempotent.                                   *)
SlotReleaseAgain(r) == slots' = slots \ {r} /\ ReleaseCount

(* TurnSlot.release: idempotent.                                            *)
SlotRelease(r) ==
    IF r \in slots
    THEN slots' = slots \ {r} /\ ReleaseCount
    ELSE UNCHANGED <<slots, active, waiters, future>>

(* A turn that found its thread busy after all gives its slot up early, on  *)
(* prompt_queued ...                                                        *)
ReleaseEarly(r) ==
    /\ pc[r] = "running"
    /\ SlotRelease(r)
    /\ Goto(r, "observing")
    /\ UNCHANGED <<knock, limit>>

(* ... and every turn releases in its finally clause.                       *)
ReleaseFinally(r) ==
    /\ pc[r] \in {"running", "observing"}
    /\ SlotRelease(r)
    /\ Goto(r, "over")
    /\ UNCHANGED <<knock, limit>>

(* PATCH /settings.                                                         *)
SetLimit(l) ==
    /\ limit' = l
    /\ UNCHANGED <<active, waiters, future, knock, slots, pc>>

-----------------------------------------------------------------------------
RequestStep(r) ==
    \/ PassExempt(r) \/ Admit(r) \/ StartWaiting(r)
    \/ Knock(r, "timeout") \/ GiveUp(r)
    \/ WakeAdmitted(r) \/ WakeGivesBack(r) \/ WakeEmpty(r)
    \/ ReleaseFinally(r)

Settled == \A r \in Requests : pc[r] \in {"exempt", "shed", "cancelled", "over"}

Next ==
    \/ \E r \in Requests : RequestStep(r) \/ Knock(r, "cancel") \/ ReleaseEarly(r)
    \/ \E l \in Limits : SetLimit(l)
    \/ Settled /\ UNCHANGED vars

Spec == Init /\ [][Next]_vars

(* Coroutines run, timeouts fire and turns end.                             *)
FairSpec == Spec /\ \A r \in Requests : WF_vars(RequestStep(r))

-----------------------------------------------------------------------------
(* A request to which a release has handed a count it has not picked up.    *)
InHand == {r \in Requests : pc[r] = "waiting" /\ future[r] = "granted"}

(* The counter is exact: no slot is lost and none is counted twice, through *)
(* every race of hand-off, timeout, cancellation and early release.         *)
SlotsAccounted ==
    /\ active = Cardinality(slots) + Cardinality(InHand)
    /\ slots \cap InHand = {}

(* While the limit stands still, no more turns than that run or are about   *)
(* to: a hand-off never mints a second count out of one release.            *)
CeilingHeld == limit # 0 => Cardinality(slots \cup InHand) <= limit

(* While the limit stands still, nobody waits beside a free slot.           *)
WaitOnlyWhenFull == Live # {} => active >= limit /\ limit # 0

(* Live waiters are served in the order they came.                          *)
ServedInOrder ==
    [][\A i, j \in Live : i < j => future'[waiters[j]] # "granted"]_vars

(* Every request gets an answer, and when all turns are over the gate is    *)
(* empty again.                                                             *)
GateEmpties == <>[](\A r \in Requests : pc[r] # "waiting") /\ <>[](active = 0)
=============================================================================
