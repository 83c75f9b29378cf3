----------------------------- MODULE TodoStore ------------------------------
(***************************************************************************)
(* The stores the scheduler shares with everything that edits TODOs:       *)
(*   - the user's list, a JSON file that is read, changed and written back *)
(*     whole (core/todo_manager.py), under a lock of the PROCESS;          *)
(*   - the index of scheduled TODOs and the execution markers, two SQLite  *)
(*     tables (core/todo_schedule_db.py), each statement atomic.           *)
(* The list is the authority, the index follows it.  One user's list.      *)
(***************************************************************************)
EXTENDS Integers, FiniteSets

CONSTANTS
    Todos,
    Recurring,   \* the TODOs that have a recurrence
    MaxTime,     \* bound of the clock; a later slot never comes
    Homes,       \* the processes that have the list's lock
    None

ASSUME StoreAssumption ==
    /\ Recurring \subseteq Todos
    /\ MaxTime \in Nat
    /\ None \notin Int
    /\ None \notin Homes

VARIABLES
    list,      \* the file: each TODO's item, or None
    listLock,  \* for each process, whether atomic_update's lock is taken
    row,       \* scheduled_todos: the slot of each TODO's row, or None
    marker,    \* active_todo_executions: the TODOs marked as executing
    now        \* the clock, in slots of the recurrences

storeVars == <<list, listLock, row, marker, now>>

Slots    == 0..(MaxTime + 1)
Statuses == {"pending", "in_progress", "done"}

Items ==
    [slot   : Slots \cup {None},  \* scheduled_for
     status : Statuses,
     last   : Slots \cup {None},  \* last_execution
     paused : BOOLEAN,            \* schedule_paused_at is set
     streak : Nat]                \* consecutive_failures

Lists == [Todos -> Items \cup {None}]

ASSUME NoneAssumption == None \notin Items

StoreTypeOK ==
    /\ list \in Lists
    /\ listLock \in [Homes -> BOOLEAN]
    /\ row \in [Todos -> Slots \cup {None}]
    /\ marker \subseteq Todos
    /\ now \in 0..MaxTime

NewItem(s) == [slot |-> s, status |-> "pending", last |-> None,
               paused |-> FALSE, streak |-> 0]

(* Every TODO is scheduled, for a time of its own choice, and indexed.      *)
StoreInit ==
    /\ \E s \in [Todos -> 0..1] :
          /\ list = [t \in Todos |-> NewItem(s[t])]
          /\ row = s
    /\ listLock = [h \in Homes |-> FALSE]
    /\ marker = {}
    /\ now = 0

-----------------------------------------------------------------------------
(* The items.                                                               *)

(* get_item and is_active.                                                  *)
Present(l, t)  == l[t] # None
ActiveIn(l, t) == Present(l, t) /\ l[t].status # "done"

(* is_scheduled; what the row of t has to be for the list l.                *)
IndexOf(l, t) == IF ActiveIn(l, t) THEN l[t].slot ELSE None

(* update_item with a new slot: an explicit schedule ends an automatic      *)
(* pause and its failure streak.                                            *)
Rescheduled(item, s) ==
    [item EXCEPT !.slot = s, !.paused = FALSE,
                 !.streak = IF item.paused THEN 0 ELSE item.streak]

(* calculate_next_recurrence_time: the first slot of the series after the   *)
(* anchor that is in the future.  The interval is the clock's unit.         *)
NextSlot(anchor) == IF anchor >= now THEN anchor + 1 ELSE now + 1

(* Mutant of DoneAnchor: the armed slot, whoever armed it.                  *)
DoneAnchorArmed(item) == IF item.slot # None THEN item.slot ELSE now

(* resolve_done_recurrence_anchor: the occurrence that is being completed.  *)
DoneAnchor(item) ==
    IF item.last # None THEN item.last
    ELSE IF item.slot # None THEN item.slot ELSE now

(* A slot within the bound.                                                 *)
Capped(s) == IF s \in Slots THEN s ELSE MaxTime + 1

(* complete_item, and the roll-over of a recurring TODO that is not paused  *)
(* (_reschedule_recurring_done, _advance_recurring_done).                   *)
Completed(t, item) ==
    IF t \in Recurring /\ ~item.paused
    THEN [Rescheduled(item, Capped(NextSlot(DoneAnchor(item)))) EXCEPT
             !.status = "pending", !.last = DoneAnchor(item)]
    ELSE [item EXCEPT !.status = "done"]

-----------------------------------------------------------------------------
(* The stores.                                                              *)

(* Mutant of TakeListLock: read-modify-write without the lock.              *)
TakeNoLock(h) == listLock' = [listLock EXCEPT ![h] = FALSE]

(* atomic_update enters: the lock keeps out the threads of the process h.   *)
TakeListLock(h) ==
    /\ ~listLock[h]
    /\ listLock' = [listLock EXCEPT ![h] = TRUE]

(* atomic_update leaves: it saves the list it loaded, changed at t.         *)
SaveList(h, draft, t, item) ==
    /\ list' = [draft EXCEPT ![t] = item]
    /\ listLock' = [listLock EXCEPT ![h] = FALSE]

(* atomic_update cannot save: its caller raises.                            *)
SaveFails(h) ==
    /\ listLock' = [listLock EXCEPT ![h] = FALSE]
    /\ UNCHANGED list

(* add_scheduled, or remove_scheduled when s is None.                       *)
SetRow(t, s) == row' = [row EXCEPT ![t] = s]

(* Mutant of RebuildRows: an index that is kept as it is.                   *)
KeepRows(l) == l \in Lists /\ UNCHANGED row

(* rebuild_from_todos, from lists it has loaded.                            *)
RebuildRows(l) == row' = [t \in Todos |-> IndexOf(l, t)]

(* get_due.                                                                 *)
DueRows(rows) == {t \in Todos : rows[t] # None /\ rows[t] <= now}

Tick ==
    /\ now < MaxTime
    /\ now' = now + 1
    /\ UNCHANGED <<list, listLock, row, marker>>
=============================================================================
