--------------------------- MODULE SchedulerLock ----------------------------
(***************************************************************************)
(* One scheduler per data directory: the operating system's lock on        *)
(* data/scheduler.lock, Nymeria/nymeria/core/scheduler_lock.py.            *)
(*                                                                         *)
(* A lock belongs to a file, not to its name: a process that locked a file *)
(* keeps that lock when the file is deleted or replaced, and another may   *)
(* lock what the name means then.  The system drops a process's locks when *)
(* it exits, however it exits.                                             *)
(***************************************************************************)
EXTENDS Integers

CONSTANTS
    Procs,       \* the processes that run a ticker on this data directory
    MaxFiles,    \* bound: how often the file may be created
    Probers,     \* processes that only look: the API's status page
    LockFaults,  \* whether locking may be impossible for a while, and
                 \* whether the file may be deleted by hand
    Nobody

ASSUME LockAssumption ==
    /\ Probers \cap Procs = {}
    /\ Nobody \notin Procs \cup Probers
    /\ LockFaults \in BOOLEAN
    /\ MaxFiles \in Nat \ {0}

VARIABLES
    made,    \* how many files have had the name "scheduler.lock"
    path,    \* the one that has it now, or 0
    flock    \* the process whose descriptor holds each file's lock, or Nobody

lockFileVars == <<made, path, flock>>

Holders == Procs \cup Probers

LockFileTypeOK ==
    /\ made \in 0..MaxFiles
    /\ path \in 0..made
    /\ flock \in [1..MaxFiles -> Holders \cup {Nobody}]

LockFileInit ==
    /\ made = 0
    /\ path = 0
    /\ flock = [f \in 1..MaxFiles |-> Nobody]

-----------------------------------------------------------------------------

(* ScheduleLock.held.                                                       *)
Holds(p) == \E f \in 1..MaxFiles : flock[f] = p

(* The lock of f becomes h's only one: relock_if_replaced drops the old     *)
(* lock once it has the new one.                                            *)
LockOnly(h, f) ==
    flock' = [g \in 1..MaxFiles |-> IF g = f THEN h
                                    ELSE IF flock[g] = h THEN Nobody ELSE flock[g]]

(* _open_and_lock: it creates the file if there is none.                    *)
GetLock(p) ==
    \/ /\ path # 0
       /\ flock[path] = Nobody
       /\ LockOnly(p, path)
       /\ UNCHANGED <<made, path>>
    \/ /\ path = 0
       /\ made' = made + 1
       /\ path' = made'
       /\ LockOnly(p, made')

HeldElsewhere(p) == path # 0 /\ flock[path] \notin {Nobody, p}

(* Outcomes of acquire() by a process that holds no lock.                   *)
Acquired(p)    == ~Holds(p) /\ GetLock(p)
Contended(p)   == ~Holds(p) /\ HeldElsewhere(p) /\ UNCHANGED lockFileVars
Unavailable(p) == ~Holds(p) /\ LockFaults /\ UNCHANGED lockFileVars

(* relock_if_replaced of a process that holds a lock finds another file, or *)
(* none, under the name.                                                    *)
Replaced(p) == Holds(p) /\ (path = 0 \/ flock[path] # p)

(* Mutant of DropLocks: a lock that outlives its process, as a file holding *)
(* a process id would.                                                      *)
LocksOutlive(p) == p \in Procs /\ UNCHANGED lockFileVars

(* What the system does when p exits or is killed.                          *)
DropLocks(p) ==
    /\ flock' = [f \in 1..MaxFiles |-> IF flock[f] = p THEN Nobody ELSE flock[f]]
    /\ UNCHANGED <<made, path>>

(* probe() takes the lock for an instant, and drops it.                     *)
ProbeTakes(h) ==
    /\ path # 0
    /\ flock[path] = Nobody
    /\ LockOnly(h, path)
    /\ UNCHANGED <<made, path>>

ProbeDrops(h) == Holds(h) /\ DropLocks(h)

(* Somebody deletes the file.                                               *)
DeleteFile ==
    /\ LockFaults
    /\ path # 0
    /\ made < MaxFiles
    /\ path' = 0
    /\ UNCHANGED <<made, flock>>
=============================================================================
