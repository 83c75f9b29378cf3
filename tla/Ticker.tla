------------------------------- MODULE Ticker -------------------------------
(***************************************************************************)
(* The scheduler of TODOs, Nymeria/nymeria/core/ticker.py: processes that  *)
(* compete for one schedule, the recovery of the one that gets it, its     *)
(* poll, the runs its poll submits to a pool, and those who edit the TODOs *)
(* meanwhile.                                                              *)
(*                                                                         *)
(* Processes stop and crash, and start again; a crash loses everything but *)
(* the stores.  Between two steps of a run, a poll or an edit anything     *)
(* else may happen.                                                        *)
(***************************************************************************)
EXTENDS SchedulerLock, TodoStore

CONSTANTS
    TakesOver,   \* services; the fat CLI stands by for its whole session
    Ask,         \* SCHEDULER_MISSED_WORK_POLICY is "ask"
    MaxRetries,  \* Ticker.MAX_RETRIES
    PauseAfter,  \* scheduler_failure_pause_after; 0: never
    PoolSize,    \* max_concurrent_autonomous
    DiskFaults,  \* whether saving the list may fail
    DbFaults,    \* the statements on the SQLite tables that may fail
    MaxStarts,   \* bound: how often each process starts
    Editors,     \* those who edit TODOs
    Rest,        \* the editors that come through the REST routes; the others
                 \* are the agent's tools
    Home,        \* the process each editor's code runs in
    MaxEdits     \* bound: how many edits each makes

(* A failed statement is logged, and reported to nobody but its caller.     *)
Statements == {"claim",     \* mark_execution_started
               "row",       \* add_scheduled and remove_scheduled of a run
               "release",   \* clear_execution
               "recover"}   \* clear_all_executions and rebuild_from_todos

ASSUME TickerAssumption ==
    /\ Procs \subseteq Homes
    /\ TakesOver \subseteq Procs
    /\ Ask \in BOOLEAN
    /\ MaxRetries \in Nat \ {0}
    /\ PauseAfter \in Nat
    /\ PoolSize \in Nat \ {0}
    /\ DiskFaults \in BOOLEAN
    /\ DbFaults \subseteq Statements
    /\ MaxStarts \in Nat
    /\ Rest \subseteq Editors
    /\ Home \in [Editors -> Homes]
    /\ MaxEdits \in Nat

VARIABLES
    life,           \* where each process is with its claim
    stoodBy,        \* Ticker._stood_by
    snap,           \* the lists a rebuild of the index has loaded
    alarm,          \* Ticker._lock_file_alarm
    starts,         \* how often each process has started
    held,           \* Ticker._pending_startup_missed_ids
    pendingMissed,  \* the same in scheduler_state.json
    request,        \* the release request in the data directory, as its age
                    \* compares with the hold's
    polling,        \* whether the poll thread has read what is due
    due,            \* what it has read
    unreleased,     \* Ticker._unreleased_markers
    run,            \* the runs: Ticker._active_futures and their threads
    draft,          \* the list a run has loaded in order to change it
    retries,        \* Ticker._retry_counts
    editor,         \* where each editor is with its edit
    edits,          \* how many each has made
    served          \* history: the occurrences recorded as executed

ownVars  == <<life, stoodBy, snap, alarm, starts>>
holdVars == <<held, pendingMissed, request>>
pollVars == <<polling, due, unreleased>>
runVars  == <<run, draft, retries, served>>
editVars == <<editor, edits>>
vars == <<lockFileVars, storeVars, ownVars, holdVars, pollVars, runVars, editVars>>

Lives == {"down", "standby", "claimed", "rebuilding", "running", "stopped"}

(* The steps of a run that read-modify-write the list.                      *)
WritePlaces == {"start", "honor", "rearm", "clear", "backoff", "record",
                "pause", "dead", "reset"}
Places == WritePlaces \cup
          {"none", "queued", "claimed", "running", "settle", "limit", "failed", "unrow",
           "giveup", "sync", "index", "close", "release", "done"}

Runs == [at   : Places,
         slot : Slots \cup {None},  \* entry.scheduled_for
         seen : Slots \cup {None},  \* what sync_schedule_to_db has read
         won  : BOOLEAN]            \* the turn has ended well

NoRun == [at |-> "none", slot |-> None, seen |-> None, won |-> FALSE]

Ops == {"schedule", "unschedule", "done", "complete", "delete"}
Edits == [at    : {"idle", "loaded", "sync", "index"},
          todo  : Todos \cup {None},
          op    : Ops \cup {"nothing"},
          slot  : Slots \cup {None},
          draft : Lists \cup {None},
          seen  : Slots \cup {None}]
NoEdit == [at |-> "idle", todo |-> None, op |-> "nothing", slot |-> None,
           draft |-> None, seen |-> None]

NoRows == [t \in Todos |-> None]

OwnTypeOK ==
    /\ life \in [Procs -> Lives]
    /\ stoodBy \in [Procs -> BOOLEAN]
    /\ snap \in [Procs -> Lists \cup {None}]
    /\ alarm \in [Procs -> {"none", "held", "unavailable"}]
    /\ starts \in [Procs -> 0..MaxStarts]

HoldTypeOK ==
    /\ held \in [Procs -> SUBSET Todos]
    /\ pendingMissed \subseteq Todos
    /\ request \in {"none", "older", "newer"}

PollTypeOK ==
    /\ polling \in [Procs -> BOOLEAN]
    /\ due \in [Procs -> [Todos -> Slots \cup {None}]]
    /\ unreleased \in [Procs -> SUBSET Todos]

RunTypeOK ==
    /\ run \in [Procs -> [Todos -> Runs]]
    /\ draft \in [Procs -> [Todos -> Lists \cup {None}]]
    /\ retries \in [Procs -> [Todos -> 0..(MaxRetries - 1)]]
    /\ served \subseteq Todos \X (Slots \cup {None})

EditTypeOK ==
    /\ editor \in [Editors -> Edits]
    /\ edits \in [Editors -> 0..MaxEdits]

TypeOK ==
    /\ LockFileTypeOK
    /\ StoreTypeOK
    /\ OwnTypeOK
    /\ HoldTypeOK
    /\ PollTypeOK
    /\ RunTypeOK
    /\ EditTypeOK

Init ==
    /\ LockFileInit
    /\ StoreInit
    /\ life = [p \in Procs |-> "down"]
    /\ stoodBy = [p \in Procs |-> FALSE]
    /\ snap = [p \in Procs |-> None]
    /\ alarm = [p \in Procs |-> "none"]
    /\ starts = [p \in Procs |-> 0]
    /\ held = [p \in Procs |-> {}]
    /\ pendingMissed = {}
    /\ request = "none"
    /\ polling = [p \in Procs |-> FALSE]
    /\ due = [p \in Procs |-> NoRows]
    /\ unreleased = [p \in Procs |-> {}]
    /\ run = [p \in Procs |-> [t \in Todos |-> NoRun]]
    /\ draft = [p \in Procs |-> [t \in Todos |-> None]]
    /\ retries = [p \in Procs |-> [t \in Todos |-> 0]]
    /\ editor = [e \in Editors |-> NoEdit]
    /\ edits = [e \in Editors |-> 0]
    /\ served = {}

Alive(p) == life[p] # "down"

Enter(p, stage) == life' = [life EXCEPT ![p] = stage]

-----------------------------------------------------------------------------
(* Claim and recovery.                                                      *)

(* _claim_schedule: a lock that cannot be had for another reason than its   *)
(* being held fails open.                                                   *)
Claim(p) ==
    \/ /\ Acquired(p) \/ Unavailable(p)
       /\ Enter(p, "claimed")
       /\ UNCHANGED stoodBy
    \/ /\ Contended(p)
       /\ Enter(p, "standby")
       /\ stoodBy' = [stoodBy EXCEPT ![p] = TRUE]

(* A process starts its ticker: prepare_startup_recovery.                   *)
Start(p) ==
    /\ life[p] = "down"
    /\ starts[p] < MaxStarts
    /\ starts' = [starts EXCEPT ![p] = starts[p] + 1]
    /\ Claim(p)
    /\ UNCHANGED <<storeVars, snap, alarm, holdVars, pollVars, runVars, editVars>>

(* The poll of a standby that may take over: _ensure_schedule_owner.        *)
StandbyPoll(p) ==
    /\ life[p] = "standby"
    /\ p \in TakesOver
    /\ Claim(p)
    /\ UNCHANGED <<storeVars, snap, alarm, starts, holdVars, pollVars, runVars,
                   editVars>>

(* Mutant of ClearMarkers: the markers of the last owner are left alone.    *)
KeepMarkers == UNCHANGED marker

(* clear_all_executions.                                                    *)
ClearMarkers == marker' = {} \/ ("recover" \in DbFaults /\ UNCHANGED marker)

(* _recover_locked clears the markers, and the rebuild loads the lists.     *)
RecoverMarkers(p) ==
    /\ life[p] = "claimed"
    /\ ClearMarkers
    /\ snap' = [snap EXCEPT ![p] = list]
    /\ Enter(p, "rebuilding")
    /\ UNCHANGED <<lockFileVars, list, listLock, row, now, stoodBy, alarm, starts,
                   holdVars, pollVars, runVars, editVars>>

(* A hold of todos that is detected now: any request on disk is older.      *)
DetectHold(p, todos) ==
    /\ held' = [held EXCEPT ![p] = todos]
    /\ pendingMissed' = todos
    /\ request' = IF request = "none" THEN "none" ELSE "older"

NoHold(p) ==
    /\ held' = [held EXCEPT ![p] = {}]
    /\ pendingMissed' = {}
    /\ UNCHANGED request

AdoptHold(p) ==
    /\ held' = [held EXCEPT ![p] = pendingMissed]
    /\ UNCHANGED <<pendingMissed, request>>

(* The decision about missed work at the end of _recover_locked.  A         *)
(* takeover has missed nothing, and adopts the hold of the previous owner.  *)
DecideMissed(p, missed) ==
    IF stoodBy[p]
    THEN IF Ask /\ pendingMissed # {} THEN AdoptHold(p) ELSE NoHold(p)
    ELSE IF Ask /\ missed # {} THEN DetectHold(p, missed) ELSE NoHold(p)

(* The rebuild writes the index; from then on the process is the owner.     *)
RecoverIndex(p) ==
    /\ life[p] = "rebuilding"
    /\ RebuildRows(snap[p]) \/ ("recover" \in DbFaults /\ UNCHANGED row)
    /\ DecideMissed(p, DueRows(row'))
    /\ snap' = [snap EXCEPT ![p] = None]
    /\ stoodBy' = [stoodBy EXCEPT ![p] = FALSE]
    /\ Enter(p, "running")
    /\ UNCHANGED <<lockFileVars, list, listLock, marker, now, alarm, starts,
                   pollVars, runVars, editVars>>

-----------------------------------------------------------------------------
(* Release of held work.                                                    *)

(* release_missed_work in the process that owns the schedule.               *)
ReleaseHeld(p) ==
    /\ life[p] = "running"
    /\ held[p] # {}
    /\ NoHold(p)
    /\ UNCHANGED <<lockFileVars, storeVars, ownVars, pollVars, runVars, editVars>>

(* The same asked elsewhere, when some process runs the scheduler: a file   *)
(* that the owner looks for when it polls.                                  *)
RequestRelease ==
    /\ LockFaults \/ (path # 0 /\ flock[path] # Nobody)
    /\ pendingMissed # {}
    /\ request' = "newer"
    /\ UNCHANGED <<lockFileVars, storeVars, ownVars, held, pendingMissed, pollVars,
                   runVars, editVars>>

(* _honor_release_request.                                                  *)
HonorRequest(p) ==
    IF held[p] # {} /\ request = "newer" THEN NoHold(p) ELSE UNCHANGED holdVars

-----------------------------------------------------------------------------
(* The poll.                                                                *)

(* Mutant of CheckLockFile: the lock is never looked at again.              *)
NeverCheck(p) == p \in Procs /\ UNCHANGED <<lockFileVars, alarm>>

(* _check_lock_file: an owner whose lock is not on the file of that name    *)
(* gets it, or says that it cannot.                                         *)
CheckLockFile(p) ==
    IF Holds(p) /\ ~Replaced(p)
    THEN UNCHANGED <<lockFileVars, alarm>>
    ELSE \/ /\ GetLock(p)
            /\ alarm' = [alarm EXCEPT ![p] = "none"]
         \/ /\ HeldElsewhere(p)
            /\ alarm' = [alarm EXCEPT ![p] = "held"]
            /\ UNCHANGED lockFileVars
         \/ /\ LockFaults
            /\ alarm' = [alarm EXCEPT ![p] = "unavailable"]
            /\ UNCHANGED lockFileVars

(* Mutant of DueFor: held work is not filtered out.                         *)
DueThoughHeld(t, heldOnes) == t \in DueRows(row) /\ heldOnes \subseteq Todos

(* What get_due and _filter_held_missed leave.                              *)
DueFor(t, heldOnes) == t \in DueRows(row) /\ t \notin heldOnes

(* _poll_once up to the reading of the due rows.                            *)
PollBegin(p) ==
    /\ life[p] = "running"
    /\ ~polling[p]
    /\ CheckLockFile(p)
    /\ HonorRequest(p)
    /\ polling' = [polling EXCEPT ![p] = TRUE]
    /\ due' = [due EXCEPT ![p] =
                  [t \in Todos |-> IF DueFor(t, held'[p]) THEN row[t] ELSE None]]
    /\ UNCHANGED <<storeVars, life, stoodBy, snap, starts, unreleased, runVars,
                   editVars>>

(* No future is registered, or a finished one that is about to be reaped.   *)
Idle(p, t) == run[p][t].at \in {"none", "done"}

(* What becomes of the future of t when the poll submits.                   *)
Submitted(p, t) ==
    IF ~Idle(p, t) THEN run[p][t]
    ELSE IF due[p][t] # None /\ life[p] = "running"
         THEN [NoRun EXCEPT !.at = "queued", !.slot = due[p][t]]
         ELSE NoRun

(* The rest of _check_and_execute: finished futures are reaped, the DELETEs *)
(* of markers that failed are retried, and what was read as due is          *)
(* submitted unless its future is still registered.  After stop() there is  *)
(* no pool to submit to.                                                    *)
PollSubmit(p) ==
    /\ Alive(p)
    /\ polling[p]
    /\ polling' = [polling EXCEPT ![p] = FALSE]
    /\ due' = [due EXCEPT ![p] = NoRows]
    /\ LET retriable == {t \in unreleased[p] : Idle(p, t)} IN
       \E freed \in IF "release" \in DbFaults THEN SUBSET retriable ELSE {retriable} :
          /\ marker' = marker \ freed
          /\ unreleased' = [unreleased EXCEPT ![p] = @ \ freed]
    /\ run' = [run EXCEPT ![p] = [t \in Todos |-> Submitted(p, t)]]
    /\ UNCHANGED <<lockFileVars, list, listLock, row, now, ownVars, holdVars, draft,
                   retries, served, editVars>>

-----------------------------------------------------------------------------
(* A run: _execute_scheduled_todo in a thread of the pool.                  *)

At(p, t, places) == Alive(p) /\ run[p][t].at \in places

Goto(p, t, place) == run' = [run EXCEPT ![p][t].at = place]

(* The threads of p's pool that are taken.                                  *)
Busy(p) == {t \in Todos : run[p][t].at \notin {"none", "queued", "done"}}

(* _claim_execution_marker; a run that is refused ends here.                *)
RunClaim(p, t) ==
    /\ At(p, t, {"queued"})
    /\ Cardinality(Busy(p)) < PoolSize
    /\ \/ /\ t \in marker \/ "claim" \in DbFaults
          /\ Goto(p, t, "done")
          /\ UNCHANGED marker
       \/ /\ t \notin marker
          /\ Goto(p, t, "claimed")
          /\ marker' = marker \cup {t}
    /\ UNCHANGED <<lockFileVars, list, listLock, row, now, ownVars, holdVars,
                   pollVars, draft, retries, served, editVars>>

(* The run enters atomic_update, in order to change the list.               *)
RunLoad(p, t) ==
    /\ At(p, t, WritePlaces)
    /\ draft[p][t] = None
    /\ TakeListLock(p)
    /\ draft' = [draft EXCEPT ![p][t] = list]
    /\ UNCHANGED <<lockFileVars, list, row, marker, now, ownVars, holdVars, pollVars,
                   run, retries, served, editVars>>

(* What a step of a run that holds a draft leaves alone.                    *)
AfterDraft(p, t) ==
    /\ draft' = [draft EXCEPT ![p][t] = None]
    /\ UNCHANGED <<lockFileVars, marker, now, ownVars, holdVars, pollVars, editVars>>

Loaded(p, t, place) == At(p, t, {place}) /\ draft[p][t] # None

(* The item is changed if it is there, and the list is saved.               *)
SaveItem(p, t, item) ==
    SaveList(p, draft[p][t], t, IF Present(draft[p][t], t) THEN item ELSE None)

(* The row of a run's TODO: a statement that fails is logged, and nothing   *)
(* else happens.                                                            *)
PutRow(t, s) == SetRow(t, s) \/ ("row" \in DbFaults /\ UNCHANGED row)

(* The run looks at its item, before it locks the list: one that is gone or *)
(* done is taken off the schedule.                                          *)
RunChecks(p, t) ==
    /\ At(p, t, {"claimed"})
    /\ IF ActiveIn(list, t)
       THEN Goto(p, t, "start") /\ UNCHANGED row
       ELSE Goto(p, t, "release") /\ PutRow(t, None)
    /\ UNCHANGED <<lockFileVars, list, listLock, marker, now, ownVars, holdVars,
                   pollVars, draft, retries, served, editVars>>

(* The item is marked as in progress, and the turn starts.                  *)
RunStarts(p, t) ==
    /\ Loaded(p, t, "start")
    /\ \/ /\ SaveItem(p, t, [draft[p][t][t] EXCEPT !.status = "in_progress"])
          /\ Goto(p, t, "running")
       \/ /\ DiskFaults
          /\ SaveFails(p)
          /\ Goto(p, t, "release")
    /\ AfterDraft(p, t)
    /\ UNCHANGED <<row, retries, served>>

(* The turn ends: well, at the iteration limit for the second time, or with *)
(* an exception.                                                            *)
TurnEnds(p, t) ==
    /\ At(p, t, {"running"})
    /\ \/ run' = [run EXCEPT ![p][t].at = "settle", ![p][t].won = TRUE]
       \/ Goto(p, t, "limit")
       \/ Goto(p, t, "failed")
    /\ UNCHANGED <<lockFileVars, storeVars, ownVars, holdVars, pollVars, draft,
                   retries, served, editVars>>

(* _schedule_rewritten_mid_run: somebody has moved the item off the slot    *)
(* that this run is for.                                                    *)
Rewritten(p, t) == Present(list, t) /\ list[t].slot # run[p][t].slot

(* The decision at the head of _handle_recurrence and of                    *)
(* _backoff_after_double_limit.                                             *)
Decide(p, t) ==
    /\ \/ /\ At(p, t, {"settle"})
          /\ Goto(p, t, IF Rewritten(p, t) THEN "honor"
                        ELSE IF Present(list, t) /\ t \in Recurring THEN "rearm"
                        ELSE "clear")
       \/ /\ At(p, t, {"limit"})
          /\ Goto(p, t, IF Rewritten(p, t) THEN "sync" ELSE "backoff")
    /\ UNCHANGED <<lockFileVars, storeVars, ownVars, holdVars, pollVars, draft,
                   retries, served, editVars>>

(* A schedule that was written during the run is kept; only what has run is *)
(* noted.                                                                   *)
Honoured(p, t, item) ==
    [item EXCEPT !.last = run[p][t].slot,
                 !.status = IF @ = "in_progress" THEN "pending" ELSE @]

(* The series goes on.                                                      *)
Rearmed(p, t, item) ==
    [Rescheduled(item, Capped(NextSlot(run[p][t].slot))) EXCEPT
        !.status = "pending", !.last = run[p][t].slot]

(* A save that fails goes the way of a failed turn, or out of the failure   *)
(* handler.                                                                 *)
SettleFails(p, t) ==
    /\ DiskFaults
    /\ SaveFails(p)
    /\ run' = [run EXCEPT ![p][t].won = FALSE,
                          ![p][t].at = IF run[p][t].won THEN "failed" ELSE "release"]
    /\ UNCHANGED served

(* What has run well is recorded.                                           *)
Record(p, t) ==
    served' = IF run[p][t].won THEN served \cup {<<t, run[p][t].slot>>} ELSE served

(* The two writes of _handle_recurrence that the index follows.             *)
RunSettles(p, t) ==
    /\ \E place \in {"honor", "rearm"} :
          /\ Loaded(p, t, place)
          /\ \/ /\ SaveItem(p, t, IF place = "honor" THEN Honoured(p, t, draft[p][t][t])
                                                     ELSE Rearmed(p, t, draft[p][t][t]))
                /\ Record(p, t)
                /\ Goto(p, t, "sync")
             \/ SettleFails(p, t)
    /\ AfterDraft(p, t)
    /\ UNCHANGED <<row, retries>>

(* clear_todo_schedule: the row goes inside the update, before the list is  *)
(* saved.                                                                   *)
RunClears(p, t) ==
    /\ Loaded(p, t, "clear")
    /\ IF Present(draft[p][t], t) THEN PutRow(t, None) ELSE UNCHANGED row
    /\ \/ /\ SaveItem(p, t, [draft[p][t][t] EXCEPT !.slot = None, !.last = now])
          /\ Record(p, t)
          /\ Goto(p, t, IF run[p][t].won THEN "close" ELSE "release")
       \/ SettleFails(p, t)
    /\ AfterDraft(p, t)
    /\ UNCHANGED retries

(* The iteration limit was hit twice: the TODO is tried again later.        *)
RunBacksOff(p, t) ==
    /\ Loaded(p, t, "backoff")
    /\ \/ /\ SaveItem(p, t, Rescheduled(draft[p][t][t], now + 1))
          /\ Goto(p, t, "sync")
       \/ /\ DiskFaults
          /\ SaveFails(p)
          /\ Goto(p, t, "failed")
    /\ AfterDraft(p, t)
    /\ UNCHANGED <<row, retries, served>>

(* sync_schedule_to_db reads the saved list, and then writes the row.       *)
RunSyncReads(p, t) ==
    /\ At(p, t, {"sync"})
    /\ run' = [run EXCEPT ![p][t].at = "index", ![p][t].seen = IndexOf(list, t)]
    /\ UNCHANGED <<lockFileVars, storeVars, ownVars, holdVars, pollVars, draft,
                   retries, served, editVars>>

RunIndexes(p, t) ==
    /\ At(p, t, {"index"})
    /\ PutRow(t, run[p][t].seen)
    /\ Goto(p, t, IF run[p][t].won THEN "close" ELSE "release")
    /\ UNCHANGED <<lockFileVars, list, listLock, marker, now, ownVars, holdVars,
                   pollVars, draft, retries, served, editVars>>

(* Mutant of EpisodeToEnd: a pause is cleared like any other failure.       *)
AnyEpisode(t) == Present(list, t) /\ (list[t].streak > 0 \/ list[t].paused)

(* _reset_failure_streak: it looks whether there is a failure episode to    *)
(* end, and leaves a pause that is in force alone.                          *)
EpisodeToEnd(t) ==
    /\ Present(list, t)
    /\ list[t].streak > 0 \/ list[t].paused
    /\ ~(list[t].paused /\ list[t].slot = None)

RunLooksAtStreak(p, t) ==
    /\ At(p, t, {"close"})
    /\ IF EpisodeToEnd(t)
       THEN Goto(p, t, "reset") /\ UNCHANGED retries
       ELSE Goto(p, t, "release") /\ retries' = [retries EXCEPT ![p][t] = 0]
    /\ UNCHANGED <<lockFileVars, storeVars, ownVars, holdVars, pollVars, draft,
                   served, editVars>>

RunResetsStreak(p, t) ==
    /\ Loaded(p, t, "reset")
    /\ \/ SaveItem(p, t, [draft[p][t][t] EXCEPT !.streak = 0, !.paused = FALSE])
       \/ DiskFaults /\ SaveFails(p)
    /\ retries' = [retries EXCEPT ![p][t] = 0]
    /\ Goto(p, t, "release")
    /\ AfterDraft(p, t)
    /\ UNCHANGED <<row, served>>

(* Mutant of AfterRetries: a series is given up like a one-shot.            *)
GiveUpAlways(t) == IF t \in Todos THEN "giveup" ELSE "record"

(* After the last retry a series goes on; anything else is given up.        *)
AfterRetries(t) ==
    IF Present(list, t) /\ t \in Recurring THEN "record" ELSE "giveup"

(* _retry_counts after one more failure: the last one ends the count.       *)
Retried(n) == IF n + 1 < MaxRetries THEN n + 1 ELSE 0

(* _handle_execution_failure: below the limit the row stays, and the next   *)
(* poll finds it due again.                                                 *)
RunFails(p, t) ==
    /\ At(p, t, {"failed"})
    /\ retries' = [retries EXCEPT ![p][t] = Retried(retries[p][t])]
    /\ Goto(p, t, IF retries[p][t] + 1 < MaxRetries THEN "release" ELSE AfterRetries(t))
    /\ UNCHANGED <<lockFileVars, storeVars, ownVars, holdVars, pollVars, draft,
                   served, editVars>>

(* One failure more.  Beyond the threshold the count no longer matters.     *)
Failed(streak) == IF streak > PauseAfter THEN streak ELSE streak + 1

(* _record_recurring_failure, then the pause or the next slot.  A streak    *)
(* that could not be saved counts for nothing.                              *)
RunRecords(p, t) ==
    /\ Loaded(p, t, "record")
    /\ LET item   == draft[p][t][t]
           streak == IF Present(draft[p][t], t) THEN Failed(item.streak) ELSE 0
       IN  \/ /\ SaveItem(p, t, [item EXCEPT !.streak = streak])
              /\ Goto(p, t, IF PauseAfter > 0 /\ streak >= PauseAfter
                            THEN "pause" ELSE "settle")
           \/ /\ DiskFaults
              /\ SaveFails(p)
              /\ Goto(p, t, "settle")
    /\ AfterDraft(p, t)
    /\ UNCHANGED <<row, retries, served>>

(* _pause_recurring_schedule: the list first, the row after it.             *)
RunPauses(p, t) ==
    /\ Loaded(p, t, "pause")
    /\ \/ /\ SaveItem(p, t, [draft[p][t][t] EXCEPT !.slot = None, !.status = "pending",
                                                   !.paused = TRUE])
          /\ Goto(p, t, "unrow")
       \/ /\ DiskFaults
          /\ SaveFails(p)
          /\ Goto(p, t, "release")
    /\ AfterDraft(p, t)
    /\ UNCHANGED <<row, retries, served>>

(* The row of a paused TODO goes; so does that of a one-shot that has       *)
(* failed for good, before its item is written.                             *)
RunUnrows(p, t) ==
    /\ \/ At(p, t, {"unrow"})  /\ Goto(p, t, "release")
       \/ At(p, t, {"giveup"}) /\ Goto(p, t, "dead")
    /\ PutRow(t, None)
    /\ UNCHANGED <<lockFileVars, list, listLock, marker, now, ownVars, holdVars,
                   pollVars, draft, retries, served, editVars>>

RunGivesUp(p, t) ==
    /\ Loaded(p, t, "dead")
    /\ \/ SaveItem(p, t, [draft[p][t][t] EXCEPT !.slot = None, !.status = "pending"])
       \/ DiskFaults /\ SaveFails(p)
    /\ Goto(p, t, "release")
    /\ AfterDraft(p, t)
    /\ UNCHANGED <<row, retries, served>>

(* Mutant of RunReleases: a DELETE that fails is forgotten.                 *)
ReleaseForgets(p, t) ==
    /\ At(p, t, {"release"})
    /\ marker' = marker \ {t} \/ ("release" \in DbFaults /\ UNCHANGED marker)
    /\ Goto(p, t, "done")
    /\ UNCHANGED <<lockFileVars, list, listLock, row, now, ownVars, holdVars, pollVars,
                   draft, retries, served, editVars>>

(* The finally of the run: a DELETE that fails is left to the poll.         *)
RunReleases(p, t) ==
    /\ At(p, t, {"release"})
    /\ \/ marker' = marker \ {t} /\ UNCHANGED unreleased
       \/ /\ "release" \in DbFaults
          /\ unreleased' = [unreleased EXCEPT ![p] = @ \cup {t}]
          /\ UNCHANGED marker
    /\ Goto(p, t, "done")
    /\ UNCHANGED <<lockFileVars, list, listLock, row, now, ownVars, holdVars, polling,
                   due, draft, retries, served, editVars>>

RunStep(p, t) ==
    \/ RunClaim(p, t)
    \/ RunLoad(p, t)
    \/ RunChecks(p, t)
    \/ RunStarts(p, t)
    \/ TurnEnds(p, t)
    \/ Decide(p, t)
    \/ RunSettles(p, t)
    \/ RunClears(p, t)
    \/ RunBacksOff(p, t)
    \/ RunSyncReads(p, t)
    \/ RunIndexes(p, t)
    \/ RunLooksAtStreak(p, t)
    \/ RunResetsStreak(p, t)
    \/ RunFails(p, t)
    \/ RunRecords(p, t)
    \/ RunPauses(p, t)
    \/ RunUnrows(p, t)
    \/ RunGivesUp(p, t)
    \/ RunReleases(p, t)

-----------------------------------------------------------------------------
(* Those who edit TODOs: each edit is one atomic_update.                    *)

EditorUp(e) == Home[e] \in Procs => Alive(Home[e])

OpsOf(e) == IF e \in Rest THEN Ops ELSE Ops \ {"complete"}

(* A new schedule lies in the future; the other edits have none.            *)
SlotsOf(op) == IF op = "schedule" THEN {s \in Slots : s > now} ELSE {None}

(* The REST routes refuse an edit of a TODO that is executing (409), and    *)
(* then lock and load the list.                                             *)
EditLoads(e) ==
    /\ EditorUp(e)
    /\ editor[e].at = "idle"
    /\ edits[e] < MaxEdits
    /\ TakeListLock(Home[e])
    /\ \E t \in Todos, op \in OpsOf(e) : \E s \in SlotsOf(op) :
          /\ Present(list, t)
          /\ e \in Rest => t \notin marker
          /\ editor' = [editor EXCEPT ![e] =
                           [at |-> "loaded", todo |-> t, op |-> op, slot |-> s,
                            draft |-> list, seen |-> None]]
    /\ edits' = [edits EXCEPT ![e] = edits[e] + 1]
    /\ UNCHANGED <<lockFileVars, list, row, marker, now, ownVars, holdVars, pollVars,
                   runVars>>

Editing(e, place) == EditorUp(e) /\ editor[e].at = place

(* The item after the edit.                                                 *)
Edited(e) ==
    LET t    == editor[e].todo
        item == editor[e].draft[t]
    IN  CASE editor[e].op = "schedule"   -> Rescheduled(item, editor[e].slot)
          [] editor[e].op = "unschedule" -> [item EXCEPT !.slot = None]
          [] editor[e].op = "delete"     -> None
          [] OTHER                       -> Completed(t, item)

EditSaves(e) == SaveList(Home[e], editor[e].draft, editor[e].todo, Edited(e))

EditEnds(e) == editor' = [editor EXCEPT ![e] = NoEdit]

(* What an edit that writes leaves alone.                                   *)
AfterEdit == UNCHANGED <<lockFileVars, marker, now, ownVars, holdVars, pollVars, runVars,
                         edits>>

(* The row that an edit which writes the index inside its update gives the  *)
(* TODO.  The tool "schedule" does not look at the status; POST .../complete*)
(* calls sync_schedule_to_db, which reads the list that is still saved.     *)
RowInside(e) ==
    LET t == editor[e].todo IN
    IF editor[e].op = "schedule" THEN editor[e].slot
    ELSE IF editor[e].op = "delete" \/ Edited(e).status = "done" THEN None
    ELSE IF editor[e].op = "complete" THEN IndexOf(list, t)
    ELSE Edited(e).slot

(* nym_todo, nym_todo_delete, DELETE and POST .../complete.                 *)
EditInside(e) ==
    /\ Editing(e, "loaded")
    /\ e \in Rest => /\ editor[e].op \in {"delete", "complete"}
                     /\ editor[e].todo \notin marker
    /\ PutRow(editor[e].todo, RowInside(e))
    /\ EditSaves(e) \/ (DiskFaults /\ SaveFails(Home[e]))
    /\ EditEnds(e)
    /\ AfterEdit

(* PATCH: the index follows the saved list.                                 *)
EditPatches(e) ==
    /\ Editing(e, "loaded")
    /\ e \in Rest
    /\ editor[e].op \notin {"delete", "complete"}
    /\ editor[e].todo \notin marker
    /\ \/ /\ EditSaves(e)
          /\ editor' = [editor EXCEPT ![e].at = "sync", ![e].draft = None]
       \/ /\ DiskFaults
          /\ SaveFails(Home[e])
          /\ EditEnds(e)
    /\ UNCHANGED row
    /\ AfterEdit

(* A run has claimed the TODO since: refused, but atomic_update saves what  *)
(* it has loaded.                                                           *)
EditRefused(e) ==
    /\ Editing(e, "loaded")
    /\ e \in Rest
    /\ editor[e].todo \in marker
    /\ SaveList(Home[e], editor[e].draft, editor[e].todo,
                editor[e].draft[editor[e].todo])
    /\ EditEnds(e)
    /\ UNCHANGED row
    /\ AfterEdit

EditSyncReads(e) ==
    /\ Editing(e, "sync")
    /\ editor' = [editor EXCEPT ![e].at = "index",
                                ![e].seen = IndexOf(list, editor[e].todo)]
    /\ UNCHANGED <<list, listLock, row>>
    /\ AfterEdit

EditIndexes(e) ==
    /\ Editing(e, "index")
    /\ PutRow(editor[e].todo, editor[e].seen)
    /\ EditEnds(e)
    /\ UNCHANGED <<list, listLock>>
    /\ AfterEdit

EditGoesOn(e) ==
    \/ EditInside(e)
    \/ EditPatches(e)
    \/ EditRefused(e)
    \/ EditSyncReads(e)
    \/ EditIndexes(e)

-----------------------------------------------------------------------------
(* The end of a process, and time.                                          *)

(* Ticker.stop(): runs that have not started are cancelled, those in flight *)
(* go on, and the lock is kept.                                             *)
Cancelled(p) ==
    [t \in Todos |-> IF run[p][t].at = "queued" THEN NoRun ELSE run[p][t]]

(* Mutant of KeepsLock: the lock goes when the ticker stops.                *)
StopDropsLock(p) == DropLocks(p)

KeepsLock(p) == p \in Procs /\ UNCHANGED lockFileVars

Stop(p) ==
    /\ life[p] = "running"
    /\ Enter(p, "stopped")
    /\ KeepsLock(p)
    /\ run' = [run EXCEPT ![p] = Cancelled(p)]
    /\ UNCHANGED <<storeVars, stoodBy, snap, alarm, starts, holdVars, pollVars, draft,
                   retries, served, editVars>>

(* The process exits or is killed, at any moment.                           *)
Crash(p) ==
    /\ Alive(p)
    /\ Enter(p, "down")
    /\ DropLocks(p)
    /\ listLock' = [listLock EXCEPT ![p] = FALSE]
    /\ stoodBy' = [stoodBy EXCEPT ![p] = FALSE]
    /\ snap' = [snap EXCEPT ![p] = None]
    /\ alarm' = [alarm EXCEPT ![p] = "none"]
    /\ held' = [held EXCEPT ![p] = {}]
    /\ polling' = [polling EXCEPT ![p] = FALSE]
    /\ due' = [due EXCEPT ![p] = NoRows]
    /\ unreleased' = [unreleased EXCEPT ![p] = {}]
    /\ run' = [run EXCEPT ![p] = [t \in Todos |-> NoRun]]
    /\ draft' = [draft EXCEPT ![p] = [t \in Todos |-> None]]
    /\ retries' = [retries EXCEPT ![p] = [t \in Todos |-> 0]]
    /\ editor' = [e \in Editors |-> IF Home[e] = p THEN NoEdit ELSE editor[e]]
    /\ UNCHANGED <<list, row, marker, now, starts, pendingMissed, request, served, edits>>

(* Steps of a process that runs the schedule, or wants to.                  *)
OwnerStep(p) ==
    \/ StandbyPoll(p)
    \/ RecoverMarkers(p)
    \/ RecoverIndex(p)
    \/ PollBegin(p)
    \/ PollSubmit(p)

TimePasses ==
    /\ Tick
    /\ UNCHANGED <<lockFileVars, ownVars, holdVars, pollVars, runVars, editVars>>

LockFileStep ==
    /\ \/ \E h \in Probers : ProbeTakes(h) \/ ProbeDrops(h)
       \/ DeleteFile
    /\ UNCHANGED <<storeVars, ownVars, holdVars, pollVars, runVars, editVars>>

Next ==
    \/ \E p \in Procs : Start(p) \/ OwnerStep(p) \/ ReleaseHeld(p) \/ Stop(p) \/ Crash(p)
    \/ \E p \in Procs, t \in Todos : RunStep(p, t)
    \/ \E e \in Editors : EditLoads(e) \/ EditGoesOn(e)
    \/ RequestRelease
    \/ LockFileStep
    \/ TimePasses

Spec == Init /\ [][Next]_vars

(* The poll thread polls, the threads of the pool and of those who edit go  *)
(* on, turns end, and time passes.  Nobody has to start a process, to edit, *)
(* or to release what is held.                                              *)
FairSpec ==
    /\ Spec
    /\ \A p \in Procs : WF_vars(OwnerStep(p))
    /\ \A p \in Procs, t \in Todos : WF_vars(RunStep(p, t))
    /\ \A e \in Editors : WF_vars(EditGoesOn(e))
    /\ WF_vars(TimePasses)
-----------------------------------------------------------------------------
(* Properties.                                                              *)

(* The processes that go by having the schedule (Ticker._owns_schedule).    *)
Owners == {p \in Procs : life[p] \in {"claimed", "rebuilding", "running", "stopped"}}

(* p's run of t has claimed the TODO and not let go of it.                  *)
Claimed(p, t) == Alive(p) /\ run[p][t].at \notin {"none", "queued", "done"}

(* However processes start, stop, crash, stand by and take over, a TODO is  *)
(* never in the hands of two runs, and never in those of one while another  *)
(* process recovers, which would clear its marker: the lock is held for as  *)
(* long as a run of the process may go on, past stop() (ticker.py:848).     *)
OneRunPerTodo ==
    \A p, q \in Procs, t \in Todos :
        Claimed(p, t) /\ q # p => q \notin Owners

(* A marker, which keeps its TODO from running, always has somebody who     *)
(* will remove it: a run, the poll of a process whose DELETE failed, or the *)
(* recovery of the next owner.  One that is forgotten blocks its TODO for a *)
(* day (_release_execution_marker, _retry_unreleased_markers).              *)
MarkersAccounted ==
    \A t \in marker :
        \/ \E p \in Procs : Claimed(p, t) \/ t \in unreleased[p]
        \/ \A p \in Owners : life[p] = "claimed"

(* Work that was missed and is held for a decision does not run, whichever  *)
(* process holds it by now (_filter_held_missed, and the adoption of the    *)
(* hold by a takeover in _recover_locked).                                  *)
HeldWaits ==
    \A p \in Procs, t \in pendingMissed :
        Alive(p) => ~Claimed(p, t) /\ run[p][t].at # "queued"

(* While nothing is at work on a recurring TODO, its row is what its item   *)
(* says, even if the process crashed between the two writes or the disk     *)
(* refused one: JSON is the authority, and every writer brings the index    *)
(* into line with it (rebuild_from_todos, sync_schedule_to_db).             *)
IndexAgrees ==
    \A p \in Procs, t \in Recurring :
        life[p] = "running" /\ ~Claimed(p, t) => row[t] = IndexOf(list, t)

(* Failures never end a series in silence: a recurring TODO that has no     *)
(* slot says that it is paused (_handle_execution_failure, #154).           *)
SeriesGoesOn ==
    \A t \in Recurring :
        Present(list, t) /\ list[t].slot = None => list[t].paused

(* While users edit it, a series loses its slot without a word only if one  *)
(* of them takes it: no run that was on its way clears it or gives it up,   *)
(* and no "done" (_handle_recurrence, _handle_execution_failure,            *)
(* clear_todo_schedule).                                                    *)
OnlyUsersUnschedule ==
    [][\A t \in Recurring :
          /\ Present(list, t) /\ list[t].slot # None
          /\ Present(list', t) /\ list'[t].slot = None
          => \/ list'[t].paused
             \/ \E e \in Editors : /\ editor[e].at = "loaded"
                                   /\ editor[e].op = "unschedule"
                                   /\ editor[e].todo = t]_vars

(* Only a new schedule ends a pause: neither a run of the paused TODO that  *)
(* was already on its way, nor "done", nor a success resumes it             *)
(* (_reset_failure_streak, _reschedule_recurring_done).                     *)
InPause(l, t) == Present(l, t) /\ l[t].paused /\ l[t].slot = None
PausedStays ==
    [][\A t \in Todos :
          InPause(list, t) /\ Present(list', t) /\ ~InPause(list', t) =>
              \E e \in Editors : editor[e].op = "schedule" /\ editor[e].todo = t]_vars

(* A TODO that was deleted does not come back: no writer that loaded the    *)
(* list before saves it after (atomic_update).                              *)
DeletedStaysDeleted ==
    [][\A t \in Todos : ~Present(list, t) => ~Present(list', t)]_vars

(* Saying "done" early, when the last occurrence that was executed or       *)
(* completed has come, does not use up the one that is armed: it does not   *)
(* move away from its slot (resolve_done_recurrence_anchor).                *)
ArmedAhead(l, t) == ActiveIn(l, t) /\ l[t].slot # None /\ l[t].slot > now
DoneKeepsArmed ==
    [][\A e \in Editors, t \in Recurring :
          /\ EditGoesOn(e)
          /\ editor[e].at = "loaded"
          /\ editor[e].op \in {"done", "complete"}
          /\ editor[e].todo = t
          /\ ArmedAhead(list, t)
          /\ list[t].last # None /\ list[t].last <= now
          => ArmedAhead(list', t) /\ list'[t].slot <= list[t].slot]_vars

(* A TODO that is due is served, by a run that succeeds or moves it or      *)
(* gives it up, as long as some process runs the schedule and nobody holds  *)
(* it back: no marker, future or lost row stands in its way                 *)
(* (_check_and_execute).                                                    *)
Overdue(t) == IndexOf(list, t) # None /\ IndexOf(list, t) <= now
DueIsServed ==
    \A t \in Todos :
        Overdue(t) ~> \/ ~Overdue(t)
                      \/ t \in pendingMissed
                      \/ \A p \in Procs : life[p] # "running"

(* A service that stands by takes over when there is no owner any more, or  *)
(* another does (_ensure_schedule_owner).                                   *)
TakeoverHappens ==
    \A p \in TakesOver :
        (life[p] = "standby" /\ Owners = {}) ~> (Owners # {} \/ life[p] = "down")

(* Two processes that run one schedule, because the lock could not be had   *)
(* or its file was deleted, do not do so in silence (_check_lock_file).     *)
TwoSchedulersReported ==
    \A p, q \in Procs :
        (p # q /\ life[p] = "running" /\ life[q] = "running")
            ~> \/ alarm[p] # "none" \/ alarm[q] # "none"
               \/ life[p] # "running" \/ life[q] # "running"

(* No occurrence is run again after it was recorded as executed ("Prevents  *)
(* duplicate execution with processing lock", ticker.py:299).               *)
NeverTwice ==
    [][\A p \in Procs, t \in Todos :
          run[p][t].at = "start" /\ run'[p][t].at = "running" =>
              <<t, run[p][t].slot>> \notin served]_vars
=============================================================================
