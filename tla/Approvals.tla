------------------------------- MODULE Approvals -------------------------------
(***************************************************************************)
(* The two approvals a turn waits for in process: a tool call held by a    *)
(* require_approval hook (core/hooks/actions.py, core/hook_approvals.py)   *)
(* and a model switch held by the fallback gate                            *)
(* (core/fallback_approvals.py).  A waiter mints a durable record and a    *)
(* future, waits for its window and deletes the record on its way out; the *)
(* REST routes and slash commands answer, a stop aborts the thread's       *)
(* holds, and two sweeps collect what a crash leaves.  A hook waits on the *)
(* API's event loop or, when the dispatch came from a thread without one   *)
(* (Bridged), on a loop of its own, so that its steps interleave with the  *)
(* API's.  A fallback always runs on the API's loop but persists its       *)
(* record in a thread.  Each hold is one record id, minted once.           *)
(***************************************************************************)
EXTENDS Rendezvous, Naturals

CONSTANTS
    KindChoices,    \* what kinds of holds there can be, as functions
    Resolvers,      \* one call each of a resolve route or command
    Threads,
    ThreadOf,       \* the thread whose turn holds
    Cap,            \* MAX_PENDING_PER_USER, of each kind of hold
    None

ASSUME ApprovalsAssumption ==
    /\ None \notin Holds
    /\ KindChoices \subseteq
         [Holds -> {"hook", "bridged hook", "fallback"}]
    /\ ThreadOf \in [Holds -> Threads]
    /\ Answers = {"approved", "denied", "aborted"}
    /\ "stop" \notin Resolvers /\ "sweep" \notin Resolvers
    /\ Cap \in Nat

VARIABLES
    kind,       \* what kind of hold each is
    at,         \* where the waiter of a hold is
    verdict,    \* what the turn was told when its wait ended
    disk,       \* the records in the store's directory
    persist,    \* the thread that persists a fallback's record
    call,       \* the resolve calls
    took        \* history: who was told to have woken the waiter, with what

Fallbacks == {h \in Holds : kind[h] = "fallback"}
Bridged == {h \in Holds : kind[h] = "bridged hook"}
Hooks == Holds \ Fallbacks
OnLoop == Holds \ Bridged

othersVars == <<kind, call, took>>
vars == <<rendezvous, at, verdict, disk, persist, othersVars>>

Verdicts == {"none", "allow", "deny", "chosen", "swap", "fail"}
Points == {"new", "checked", "written", "persisting", "waiting", "leaving",
           "ended", "lost"}
Calls == [pc: {"idle", "loading", "found", "cleaning", "done"},
          hold: Holds \cup {None}]
Takers == Resolvers \cup {"stop", "sweep"}

Init ==
    /\ RendezvousInit
    /\ kind \in KindChoices
    /\ at = [h \in Holds |-> "new"]
    /\ verdict = [h \in Holds |-> "none"]
    /\ disk = {}
    /\ persist = [h \in Holds |-> "none"]
    /\ call = [r \in Resolvers |-> [pc |-> "idle", hold |-> None]]
    /\ took = [h \in Holds |-> {}]

(***************************************************************************)
(* What a wait ends with.                                                  *)
(***************************************************************************)

(* A mutant of HookVerdict: silence is consent, as it is for a fallback.   *)
SilenceAllows(o) == IF o \in {"approved", "timeout"} THEN "allow" ELSE "deny"

(* require_approval: everything but an approval denies the call.           *)
HookVerdict(o) == IF o = "approved" THEN "allow" ELSE "deny"

(* _await_parked_decision: an approval swaps with hold_origin "user", a    *)
(* timeout and a refused mint swap without, the rest fails the turn.       *)
FallbackVerdict(o) ==
    CASE o = "approved" -> "chosen"
      [] o \in {"timeout", "refused"} -> "swap"
      [] OTHER -> "fail"

Verdict(h, o) ==
    IF o = "cancelled" THEN "none"
    ELSE IF h \in Hooks THEN HookVerdict(o) ELSE FallbackVerdict(o)

Tell(h, o) == verdict' = [verdict EXCEPT ![h] = Verdict(h, o)]

(* list_pending: the live holds of the kind and the rows without a waiter. *)
Pending(h) ==
    {g \in items \cup disk : (g \in Hooks) = (h \in Hooks)}

(* A mutant of RoomFor: only the records on disk are counted.              *)
RoomOnDisk(h) == Cardinality((Pending(h) \cap disk) \ {h}) < Cap

(* The cap check of a mint: the record being minted does not count itself. *)
RoomFor(h) == Cardinality(Pending(h) \ {h}) < Cap

(***************************************************************************)
(* A hook's waiter: create_pending_approval, wait_for, the finally block.  *)
(* On the API's loop minting is one step, and so is leaving; through the   *)
(* bridge the cap check, the write and the registration are three, and     *)
(* discarding and deleting are two.                                        *)
(***************************************************************************)

Mint(h) ==
    /\ h \in Hooks \cap OnLoop
    /\ at[h] = "new"
    /\ RoomFor(h)
    /\ disk' = disk \cup {h}
    /\ Add(h)
    /\ at' = [at EXCEPT ![h] = "waiting"]
    /\ UNCHANGED <<verdict, persist, othersVars>>

(* The pending cap is reached: the call is denied without asking.          *)
MintRefused(h) ==
    /\ h \in Hooks
    /\ at[h] = "new"
    /\ ~RoomFor(h)
    /\ at' = [at EXCEPT ![h] = "ended"]
    /\ Tell(h, "refused")
    /\ UNCHANGED <<rendezvous, disk, persist, othersVars>>

BridgeChecks(h) ==
    /\ h \in Bridged
    /\ at[h] = "new"
    /\ RoomFor(h)
    /\ at' = [at EXCEPT ![h] = "checked"]
    /\ UNCHANGED <<rendezvous, verdict, disk, persist, othersVars>>

BridgeWrites(h) ==
    /\ at[h] = "checked"
    /\ disk' = disk \cup {h}
    /\ at' = [at EXCEPT ![h] = "written"]
    /\ UNCHANGED <<rendezvous, verdict, persist, othersVars>>

BridgeRegisters(h) ==
    /\ at[h] = "written"
    /\ Add(h)
    /\ at' = [at EXCEPT ![h] = "waiting"]
    /\ UNCHANGED <<verdict, disk, persist, othersVars>>

(* A mutant of LeavesRecord: a timeout returns before the record goes.     *)
TimeoutLeavesRecord(h, o) ==
    /\ items' = items \ {h}
    /\ disk' = IF o = "timeout" THEN disk ELSE disk \ {h}

(* On the API's loop: discard and delete_record in the same step.          *)
LeavesRecord(h, o) ==
    /\ items' = items \ {h}
    /\ disk' = disk \ {h}

(* The wait of h ends with outcome o.                                      *)
Leave(h, o) ==
    /\ at[h] = "waiting"
    /\ Tell(h, o)
    /\ Close(h)
    /\ IF h \in OnLoop
       THEN LeavesRecord(h, o) /\ at' = [at EXCEPT ![h] = "ended"]
       ELSE /\ items' = items \ {h}
            /\ at' = [at EXCEPT ![h] = "leaving"]
            /\ UNCHANGED disk
    /\ UNCHANGED <<persist, othersVars>>

(* The answer is there when the waiter runs again.                         *)
Resumes(h) == future[h] \in Answers /\ Leave(h, future[h])

(* A mutant of TimesOut: the wait has no window.                           *)
NeverTimesOut(h) == FALSE /\ Leave(h, "timeout")

(* The window closes.  The timer may already have fired when an answer is  *)
(* posted or, from Python 3.12 on, set: the waiter then leaves without it. *)
TimesOut(h) == Leave(h, "timeout")

(* The turn's task is cancelled, which does not reach a bridged wait.      *)
CancelsWait(h) == h \in OnLoop /\ Leave(h, "cancelled")

BridgeDeletes(h) ==
    /\ at[h] = "leaving"
    /\ disk' = disk \ {h}
    /\ at' = [at EXCEPT ![h] = "ended"]
    /\ UNCHANGED <<rendezvous, verdict, persist, othersVars>>

(***************************************************************************)
(* A fallback's waiter: _await_parked_decision registers, has the record   *)
(* persisted in a thread, and then waits.                                  *)
(***************************************************************************)

(* A mutant of Parks: the record is persisted first and its future is      *)
(* registered after, as a hook's is.                                       *)
ParksUnregistered(h) ==
    /\ h \in Fallbacks
    /\ at[h] = "new"
    /\ at' = [at EXCEPT ![h] = "persisting"]
    /\ persist' = [persist EXCEPT ![h] = "queued"]
    /\ UNCHANGED <<rendezvous, verdict, disk, othersVars>>

Parks(h) ==
    /\ h \in Fallbacks
    /\ at[h] = "new"
    /\ Add(h)
    /\ at' = [at EXCEPT ![h] = "persisting"]
    /\ persist' = [persist EXCEPT ![h] = "queued"]
    /\ UNCHANGED <<verdict, disk, othersVars>>

(* persist_pending_record, first half: the cap check.                      *)
PersistChecks(h) ==
    /\ persist[h] = "queued"
    /\ persist' = [persist EXCEPT
                     ![h] = IF RoomFor(h) THEN "writing" ELSE "refused"]
    /\ UNCHANGED <<rendezvous, at, verdict, disk, othersVars>>

(* Second half: the write.  A cancelled waiter is not there any more.      *)
PersistWrites(h) ==
    /\ persist[h] = "writing"
    /\ disk' = disk \cup {h}
    /\ persist' = [persist EXCEPT ![h] = "none"]
    /\ UNCHANGED <<rendezvous, at, verdict, othersVars>>

Announces(h) ==
    /\ at[h] = "persisting"
    /\ persist[h] = "none"
    /\ at' = [at EXCEPT ![h] = "waiting"]
    /\ UNCHANGED <<rendezvous, verdict, disk, persist, othersVars>>

(* The entry of the registry goes, and the future with it.                 *)
ParkFails(h, o) ==
    /\ at[h] = "persisting"
    /\ items' = items \ {h}
    /\ at' = [at EXCEPT ![h] = "ended"]
    /\ Tell(h, o)
    /\ Close(h)
    /\ UNCHANGED <<disk, othersVars>>

ParkRefused(h) ==
    /\ persist[h] = "refused"
    /\ ParkFails(h, "refused")
    /\ persist' = [persist EXCEPT ![h] = "none"]

(* The turn is cancelled while the record is persisted: a thread that has  *)
(* not begun never runs, one that has begun writes the record all the      *)
(* same.                                                                   *)
CancelsPark(h) ==
    /\ ParkFails(h, "cancelled")
    /\ persist' = [persist EXCEPT ![h] = IF @ = "queued" THEN "none" ELSE @]

(***************************************************************************)
(* A resolve call: POST .../approvals/{id}/resolve, /hook approve|deny,    *)
(* /fallback approve|deny.                                                 *)
(***************************************************************************)

(* What answers: the records of hs are popped, and whoever finds a future  *)
(* open is told that it woke the waiter.                                   *)
Wake(hs, who, answer) ==
    /\ Drain(hs, answer)
    /\ took' = [h \in Holds |->
                  IF h \in hs /\ Open(h) THEN took[h] \cup {<<who, answer>>}
                                         ELSE took[h]]

Goes(r, pc, h) == call' = [call EXCEPT ![r] = [pc |-> pc, hold |-> h]]

(* coordinator.resolve: the pop decides who answers; without an open       *)
(* future the caller takes the stale path.                                 *)
Answer(r, h) ==
    /\ \E answer \in {"approved", "denied"} :
          Wake({h} \cap items, r, answer)
    /\ IF CanWake(h) THEN Goes(r, "done", None) ELSE Goes(r, "cleaning", h)

(* live_record: a hold of the API's loop found there is answered in the    *)
(* same step; a bridged one can leave in between.  An id is known once its *)
(* record was listed or announced.                                         *)
Looks(r, h) ==
    /\ call[r].pc = "idle"
    /\ at[h] \notin {"new", "checked"}
    /\ IF h \in items \cap OnLoop
       THEN Answer(r, h)
       ELSE /\ Goes(r, IF h \in items THEN "found" ELSE "loading", h)
            /\ UNCHANGED <<rendezvous, took>>
    /\ UNCHANGED <<kind, at, verdict, disk, persist>>

(* load_record in a thread: no record, no approval (404).                  *)
Loads(r) ==
    /\ call[r].pc = "loading"
    /\ IF call[r].hold \in disk
       THEN Goes(r, "found", call[r].hold)
       ELSE Goes(r, "done", None)
    /\ UNCHANGED <<rendezvous, kind, at, verdict, disk, persist, took>>

Resolves(r) ==
    /\ call[r].pc = "found"
    /\ Answer(r, call[r].hold)
    /\ UNCHANGED <<kind, at, verdict, disk, persist>>

(* Nothing to wake: the record is deleted, the hold published as stale and *)
(* the caller told so (409).                                               *)
Cleans(r) ==
    /\ call[r].pc = "cleaning"
    /\ disk' = disk \ {call[r].hold}
    /\ Goes(r, "done", None)
    /\ UNCHANGED <<rendezvous, kind, at, verdict, persist, took>>

(***************************************************************************)
(* Stop, the two sweeps, the crash.                                        *)
(***************************************************************************)

(* abort_with_cascade: abort_thread of both coordinators.                  *)
Stop(t) ==
    /\ Wake({h \in items : ThreadOf[h] = t}, "stop", "aborted")
    /\ UNCHANGED <<kind, at, verdict, disk, persist, call>>

(* _sweep_once: a hold registered longer ago than any window.  The timer   *)
(* of a wait on the same loop comes first; a bridged wait, or a fallback   *)
(* whose persisting thread was held up, can be that old.                   *)
SweepFuture(h) ==
    /\ h \in items \cap (Bridged \cup Fallbacks)
    /\ Wake({h}, "sweep", "aborted")
    /\ UNCHANGED <<kind, at, verdict, disk, persist, call>>

(* sweep_stale: a record past its expiry and the slack.  A wait whose      *)
(* window began with the mint is over by then; a fallback's begins when    *)
(* its record is persisted, so its record can go before.                   *)
SweepRecord(h) ==
    /\ h \in disk
    /\ at[h] \in {"ended", "lost"} \/ h \in Fallbacks
    /\ disk' = disk \ {h}
    /\ UNCHANGED <<rendezvous, at, verdict, persist, othersVars>>

(* The API process dies and comes back: the records stay.                  *)
Crash ==
    /\ Forget
    /\ at' = [h \in Holds |->
                IF at[h] \in {"new", "ended"} THEN at[h] ELSE "lost"]
    /\ persist' = [h \in Holds |-> "none"]
    /\ call' = [r \in Resolvers |->
                  IF call[r].pc = "idle" THEN call[r]
                                         ELSE [pc |-> "done", hold |-> None]]
    /\ UNCHANGED <<kind, verdict, disk, took>>

(***************************************************************************)
(* The specification.                                                      *)
(***************************************************************************)

Wait(h) ==
    \/ Mint(h) \/ MintRefused(h)
    \/ BridgeChecks(h) \/ BridgeWrites(h) \/ BridgeRegisters(h)
    \/ Parks(h) \/ PersistChecks(h) \/ PersistWrites(h) \/ Announces(h)
    \/ ParkRefused(h) \/ CancelsPark(h)
    \/ Resumes(h) \/ TimesOut(h) \/ CancelsWait(h) \/ BridgeDeletes(h)
    \/ Deliver(h) /\ UNCHANGED <<at, verdict, disk, persist, othersVars>>

Resolve(r) ==
    \/ \E h \in Holds : Looks(r, h)
    \/ Loads(r) \/ Resolves(r) \/ Cleans(r)

Next ==
    \/ \E h \in Holds : Wait(h) \/ SweepFuture(h) \/ SweepRecord(h)
    \/ \E r \in Resolvers : Resolve(r)
    \/ \E t \in Threads : Stop(t)
    \/ Crash

Spec == Init /\ [][Next]_vars

(* Threads and loops run what they have begun, and a window closes         *)
(* (wait_for's timer).  Nobody has to answer.                              *)
Fairness ==
    \A h \in Holds :
        /\ WF_vars(BridgeWrites(h))
        /\ WF_vars(BridgeRegisters(h))
        /\ WF_vars(PersistChecks(h))
        /\ WF_vars(PersistWrites(h))
        /\ WF_vars(Announces(h))
        /\ WF_vars(ParkRefused(h))
        /\ WF_vars(TimesOut(h))
        /\ WF_vars(BridgeDeletes(h))

FairSpec == Spec /\ Fairness

-------------------------------------------------------------------------------

(* Every variable has a value the code gives it.                           *)
TypeOK ==
    /\ RendezvousTypeOK
    /\ kind \in KindChoices
    /\ at \in [Holds -> Points]
    /\ verdict \in [Holds -> Verdicts]
    /\ \A h \in Fallbacks : verdict[h] \notin {"allow", "deny"}
    /\ \A h \in Hooks : verdict[h] \notin {"chosen", "swap", "fail"}
    /\ disk \subseteq Holds
    /\ persist \in [Holds -> {"none", "queued", "writing", "refused"}]
    /\ call \in [Resolvers -> Calls]
    /\ took \in [Holds -> SUBSET (Takers \X Answers)]

(* At most one resolve call, stop or sweep is told that it woke a waiter:  *)
(* "two concurrent resolves race on resolve() and exactly one wins"        *)
(* (hook_approvals.py).                                                    *)
OneTaker ==
    \A h \in Holds : \A a, b \in took[h] : a = b

(* A held tool call runs, and a swap is recorded as the user's choice,     *)
(* only if a resolve call approved it and was told so: not on a timeout,   *)
(* a stop, a sweep, a refused mint, nor on an approval that lost the race. *)
Consent ==
    \A h \in Holds :
        verdict[h] \in {"allow", "chosen"} =>
            \E r \in Resolvers : <<r, "approved">> \in took[h]

(* A waiter that ended has deleted its record, whichever way it ended: a   *)
(* record without a waiter is what a crash left, or the record of a        *)
(* fallback whose turn was cancelled.  (The code leaves that one only when *)
(* it is cancelled while its thread is persisting it; nothing is said here *)
(* of a fallback that is cancelled later.)                                 *)
NoOrphans ==
    \A h \in disk :
        at[h] = "ended" => h \in Fallbacks /\ verdict[h] = "none"

(* No more than Cap fallbacks wait for an answer at once, although each    *)
(* checks the cap in a thread of its own, and before its record is there.  *)
(* (Bridged hooks, which check before they register, are not bounded.)     *)
UnansweredBound ==
    Cardinality({h \in Fallbacks \cap items : at[h] = "waiting"}) <= Cap

(* Whoever is told that a hold is stale, and deletes its record, meets one *)
(* that is over or was answered by someone else, never one that still      *)
(* waits for its answer.  (A bridged hook's record is on disk before its   *)
(* future is registered: StaleMeansGone.)                                  *)
StaleIsOver ==
    \A r \in Resolvers : \A h \in OnLoop :
        call[r].pc = "cleaning" /\ call[r].hold = h /\ at[h] = "waiting" =>
            took[h] # {}

(* Whatever nobody answers comes to an end (wait_for's window).            *)
HoldsEnd ==
    \A h \in Holds : at[h] # "new" ~> at[h] \in {"ended", "lost"}

(* What the resolve routes tell their callers: a switch that was declined, *)
(* with the caller told "declined", is not made.                           *)
DeclinedStays ==
    \A h \in Fallbacks : \A r \in Resolvers :
        <<r, "denied">> \in took[h] => verdict[h] # "swap"

(* "a record with no live future means the waiter is gone"                 *)
(* (hook_approvals.py): no hold that is declared stale is in the registry,  *)
(* a bridged hook's included.                                              *)
StaleMeansGone ==
    \A r \in Resolvers : call[r].pc = "cleaning" => call[r].hold \notin items

(* "The WAITER owns the durable record: every exit path deletes it"        *)
(* (fallback_approvals.py).                                                *)
EveryExitDeletes == \A h \in disk : at[h] # "ended"

===============================================================================
