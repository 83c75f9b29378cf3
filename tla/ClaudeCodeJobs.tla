--------------------------- MODULE ClaudeCodeJobs ---------------------------
(***************************************************************************)
(* Background Claude Code runs on one Nymeria thread; all but the fresh    *)
(* ones continue the thread's one Claude Code session:                     *)
(*    claude_code()        tools/claude_code.py, the agent's tool          *)
(*    /code                core/command_executor_claude_code.py            *)
(*    the run's watcher    tools/claude_code_background.py                 *)
(*    the /code registry   core/claude_code_delivery.py                    *)
(*                                                                         *)
(* A run emits end-turns until its process exits.  Its watcher hands them  *)
(* over in reports: interim ones while the process lives on, a final one   *)
(* when it is gone.  The first report may be taken by the waiting caller   *)
(* (InlineLatch).  A prompt for a session that is live is queued on its    *)
(* job and run as a job of its own when that one ends.                     *)
(*                                                                         *)
(* One step is one critical section, or what a thread does between two.    *)
(* Submitting a report, which may wait for minutes, is one step, and so    *)
(* are the two sections of finish(); rendering a report does not fail, and *)
(* a notification can be stored.  One thread is modelled, of whose turns   *)
(* only what matters to a report is left: that they clear the abort flag   *)
(* and absorb what was queued, whenever they run.  A session that is live  *)
(* on another thread is refused, and how many finished jobs the registry   *)
(* keeps does not matter here.                                             *)
(***************************************************************************)
EXTENDS Integers, Sequences, FiniteSets

CONSTANTS
    ToolCalls,   \* claude_code(prompt) calls of the agent
    CodeCalls,   \* /code commands of the user
    Spares,      \* names for the jobs that queued follow-ups become
    Fresh,       \* the calls whose run resumes no session
    MaxTurns,    \* bound on the end-turns of a run
    Talkers,     \* bound: the runs that may end a turn before they exit
    None

Calls == ToolCalls \cup CodeCalls
Jobs  == Calls \cup Spares     \* a call lends its name to the job it starts

(* A TurnReport: the end-turns after the from-th up to the upto-th, and the *)
(* follow-ups its notes name as not started.                                *)
Reports == [final : BOOLEAN, from : 0..MaxTurns, upto : 0..MaxTurns,
            notes : SUBSET ToolCalls]

ASSUME JobsAssumption ==
    /\ ToolCalls \cap CodeCalls = {}
    /\ Calls \cap Spares = {}
    /\ Fresh \subseteq Calls /\ Talkers \subseteq Jobs
    /\ None \notin Jobs \cup Reports
    /\ MaxTurns \in Nat

VARIABLES
    call,        \* where each call is
    target,      \* the live job a tool call found for its session
    registry,    \* _JOBS, oldest first
    process,     \* the run's process; job.done is set when it is over
    turns,       \* observer.turn_count
    reported,    \* job.reported_turns
    watch,       \* where the job's watcher is
    report,      \* the report the watcher is handing over
    first,       \* job.first_report
    resolution,  \* see InlineLatch
    followups,   \* job.followups
    taken,       \* the follow-ups the watcher has taken off the job
    cancel,      \* job.cancel_event is set
    code,        \* the jobs whose deliver is deliver_code_result
    slot,        \* _ACTIVE[thread], or None
    last,        \* _LAST[thread], the job whose outcome was recorded last
    log,         \* each job's reports as handed over, to the caller or for delivery
    abort,       \* the thread's abort flag
    queued,      \* the jobs with a report in the thread's queue
    lost,        \* why reports of a job that were handed over have reached nobody
    halted,      \* the jobs under way at a stop or since, or begun under its flag
    follows,     \* the job a follow-up job was started after
    fate         \* what became of the prompt behind each [Queued] receipt

Latch == INSTANCE InlineLatch WITH Runs <- Jobs

callVars  == <<call, target, fate>>
runVars   == <<registry, process, turns, cancel, code, follows>>
watchVars == <<reported, watch, report, first, log>>
queueVars == <<followups, taken>>
slotVars  == <<slot, last>>
threadVars == <<abort, queued, lost, halted>>
vars == <<callVars, runVars, watchVars, queueVars, slotVars, threadVars, resolution>>

CallPCs  == {"idle", "queueing", "receipt", "claiming", "launching", "waiting",
             "intime", "late", "finishing", "returned", "refused"}
WatchPCs == {"none", "polling", "settling", "interim", "offered", "posting",
             "exited", "taking", "preparing", "starting", "reporting",
             "releasing", "over"}
Over      == {"ok", "lost", "cancelled"}
Processes == {"none", "running"} \cup Over
Fates     == {"none", "queued", "started", "named", "dropped"}
Losses    == {"stopped", "failed"}

NoReport == [final |-> FALSE, from |-> 0, upto |-> 0, notes |-> {}]

TypeOK ==
    /\ call \in [Calls -> CallPCs]
    /\ target \in [ToolCalls -> Jobs \cup {None}]
    /\ fate \in [ToolCalls -> Fates]
    /\ registry \in Seq(Jobs)
    /\ process \in [Jobs -> Processes]
    /\ turns \in [Jobs -> 0..MaxTurns]
    /\ cancel \in [Jobs -> BOOLEAN]
    /\ code \in SUBSET Jobs
    /\ follows \in [Spares -> Jobs \cup {None}]
    /\ reported \in [Jobs -> 0..MaxTurns]
    /\ watch \in [Jobs -> WatchPCs]
    /\ report \in [Jobs -> Reports]
    /\ first \in [Jobs -> Reports \cup {None}]
    /\ log \in [Jobs -> Seq(Reports)]
    /\ followups \in [Jobs -> SUBSET ToolCalls]
    /\ taken \in [Jobs -> SUBSET ToolCalls]
    /\ slot \in Jobs \cup {None}
    /\ last \in Jobs \cup {None}
    /\ abort \in BOOLEAN
    /\ queued \in SUBSET Jobs
    /\ lost \in [Jobs -> SUBSET Losses]
    /\ halted \in SUBSET Jobs
    /\ Latch!LatchTypeOK

Init ==
    /\ call = [c \in Calls |-> "idle"]
    /\ target = [c \in ToolCalls |-> None]
    /\ fate = [c \in ToolCalls |-> "none"]
    /\ registry = <<>>
    /\ process = [j \in Jobs |-> "none"]
    /\ turns = [j \in Jobs |-> 0]
    /\ cancel = [j \in Jobs |-> FALSE]
    /\ code = CodeCalls
    /\ follows = [k \in Spares |-> None]
    /\ reported = [j \in Jobs |-> 0]
    /\ watch = [j \in Jobs |-> "none"]
    /\ report = [j \in Jobs |-> NoReport]
    /\ first = [j \in Jobs |-> None]
    /\ log = [j \in Jobs |-> <<>>]
    /\ followups = [j \in Jobs |-> {}]
    /\ taken = [j \in Jobs |-> {}]
    /\ slot = None
    /\ last = None
    /\ abort = FALSE
    /\ queued = {}
    /\ lost = [j \in Jobs |-> {}]
    /\ halted = {}
    /\ Latch!LatchInit

GoCall(c, place)  == call' = [call EXCEPT ![c] = place]
GoWatch(j, place) == watch' = [watch EXCEPT ![j] = place]

-----------------------------------------------------------------------------
(* The live registry.                                                       *)

Exited(j) == process[j] \in Over

(* Positions of the running jobs.                                           *)
Live == {i \in DOMAIN registry : process[registry[i]] = "running"}

(* start_job: register the job and start its watcher, or clean up and raise *)
(* if no thread can be had.                                                 *)
StartJob(j) ==
    /\ registry' = Append(registry, j)
    /\ process' = [process EXCEPT ![j] = "running"]
    /\ GoWatch(j, "polling")

-----------------------------------------------------------------------------
(* The /code registry: one run per thread.                                  *)

(* claim: take the free slot, or the slot of the run being followed.        *)
SlotOpenTo(previous) == slot \in {None, previous}

(* Mutant of ReleaseSlot: whoever holds the slot loses it.                  *)
ReleaseAnySlot(j) == slot' = None

(* release: only if this job still holds the slot.                          *)
ReleaseSlot(j) == slot' = IF slot = j THEN None ELSE slot

(* finish: record the outcome, release the slot.                            *)
Finish(j) == last' = j /\ ReleaseSlot(j)

-----------------------------------------------------------------------------
(* The thread: its abort flag and its queue.                                *)

Lose(jobs, why) ==
    lost' = [j \in Jobs |-> IF j \in jobs THEN lost[j] \cup {why} ELSE lost[j]]

Discard(why) == queued' = {} /\ Lose(queued, why)

(* abort_with_cascade: set the flag, discard what programs have queued.     *)
AbortThread == abort' = TRUE /\ halted' = Jobs /\ Discard("stopped")

(* Mutant of ClearAbort: the flag of an old stop stays up.                  *)
ClearAbortNot ==
    /\ halted' = {j \in halted : watch[j] # "none"}
    /\ UNCHANGED abort

(* Whoever takes the thread clears the flag; no run that begins from then   *)
(* on has been stopped.                                                     *)
ClearAbort ==
    /\ abort' = FALSE
    /\ halted' = {j \in halted : watch[j] # "none"}

(* submit_completion, for the tool: no agent, another owner or an error     *)
(* lose the report; so does the abort flag; it is queued on a busy thread   *)
(* and fires a turn on an idle one.                                         *)
Submit(j) ==
    \/ Lose({j}, "failed") /\ UNCHANGED <<abort, queued, halted>>
    \/ abort /\ Lose({j}, "stopped") /\ UNCHANGED <<abort, queued, halted>>
    \/ ~abort /\ queued' = queued \cup {j} /\ UNCHANGED <<abort, lost, halted>>
    \/ ~abort /\ UNCHANGED threadVars

(* hold_thread: a holder without a model hands back what was queued ...     *)
Hold == ClearAbort /\ Discard("failed")

(* ... and shows a /code report; a notification does if there is no agent,  *)
(* the thread stays busy or its owner is another.                           *)
Relay == Hold \/ UNCHANGED threadVars

-----------------------------------------------------------------------------
(* The tool.                                                                *)

(* _resolve_live_target: the running job that a call's session id or job id *)
(* names, if any.  A fresh run, and the thread's session while only a fresh *)
(* run is live, are sessions of their own.                                  *)
Resolve(c) ==
    /\ c \in ToolCalls
    /\ call[c] = "idle"
    /\ \/ \E i \in Live :
             /\ target' = [target EXCEPT ![c] = registry[i]]
             /\ GoCall(c, "queueing")
       \/ /\ c \in Fresh \/ \A i \in Live : registry[i] \in Fresh
          /\ GoCall(c, "launching")
          /\ UNCHANGED target
    /\ UNCHANGED <<fate, runVars, watchVars, queueVars, slotVars,
                   threadVars, resolution>>

(* queue_followup on the job found, and the [Queued] receipt.               *)
QueueFollowup(c) ==
    /\ call[c] = "queueing"
    /\ followups' = [followups EXCEPT ![target[c]] = @ \cup {c}]
    /\ fate' = [fate EXCEPT ![c] = "queued"]
    /\ GoCall(c, "receipt")
    /\ UNCHANGED <<target, taken, runVars, watchVars, slotVars,
                   threadVars, resolution>>

(* /code looks for a run on its thread in both registries ...               *)
CodeLook(c) ==
    /\ c \in CodeCalls
    /\ call[c] = "idle"
    /\ GoCall(c, IF slot = None /\ Live = {} THEN "claiming" ELSE "refused")
    /\ UNCHANGED <<target, fate, runVars, watchVars, queueVars, slotVars,
                   threadVars, resolution>>

(* ... and claims its own atomically.                                       *)
CodeClaim(c) ==
    /\ call[c] = "claiming"
    /\ IF SlotOpenTo(None)
       THEN slot' = c /\ GoCall(c, "launching")
       ELSE GoCall(c, "refused") /\ UNCHANGED slot
    /\ UNCHANGED <<target, fate, last, runVars, watchVars, queueVars,
                   threadVars, resolution>>

(* Both start their job and wait; a /code that cannot gives the slot up.    *)
Launch(c) ==
    /\ call[c] = "launching"
    /\ StartJob(c)
    /\ GoCall(c, "waiting")
    /\ UNCHANGED <<target, fate, turns, cancel, code, follows,
                   reported, report, first, log, queueVars, slotVars,
                   threadVars, resolution>>

(* Mutant of LaunchFails: a job that never started keeps its slot.          *)
LaunchFailsHolding(c) ==
    /\ call[c] = "launching"
    /\ GoCall(c, "refused")
    /\ UNCHANGED <<target, fate, slotVars, runVars, watchVars, queueVars,
                   threadVars, resolution>>

LaunchFails(c) ==
    /\ call[c] = "launching"
    /\ IF c \in CodeCalls THEN Finish(c) ELSE UNCHANGED slotVars
    /\ GoCall(c, "refused")
    /\ UNCHANGED <<target, fate, runVars, watchVars, queueVars,
                   threadVars, resolution>>

(* wait_inline: the wait ends, with the report or with the budget ...       *)
WaitEnds(c) ==
    /\ call[c] = "waiting"
    /\ GoCall(c, IF first[c] # None THEN "intime" ELSE "late")
    /\ UNCHANGED <<target, fate, runVars, watchVars, queueVars, slotVars,
                   threadVars, resolution>>

(* The caller has the report; a /code holds the thread for a moment to note *)
(* it there, if it can, and settles the registry after a final one.         *)
TakeInline(c) ==
    /\ log' = [log EXCEPT ![c] = Append(@, first[c])]
    /\ GoCall(c, IF c \in CodeCalls /\ first[c].final THEN "finishing" ELSE "returned")
    /\ IF c \in CodeCalls THEN Relay ELSE UNCHANGED threadVars

(* Mutant of Claim: the caller looks at the report, not at the latch.       *)
ClaimByLooking(c) ==
    /\ call[c] \in {"intime", "late"}
    /\ Latch!Propose(c, Latch!ClaimProposal(call[c] = "intime"))
    /\ IF first[c] # None THEN TakeInline(c)
       ELSE GoCall(c, "returned") /\ UNCHANGED <<log, threadVars>>
    /\ UNCHANGED <<target, fate, runVars, reported, watch, report, first,
                   queueVars, slotVars>>

(* ... and the latch says whether the caller renders the first report.      *)
Claim(c) ==
    /\ call[c] \in {"intime", "late"}
    /\ LET proposal == Latch!ClaimProposal(call[c] = "intime") IN
          /\ Latch!Propose(c, proposal)
          /\ IF Latch!Decision(c, proposal) = "inline" THEN TakeInline(c)
             ELSE GoCall(c, "returned") /\ UNCHANGED <<log, threadVars>>
    /\ UNCHANGED <<target, fate, runVars, reported, watch, report, first,
                   queueVars, slotVars>>

CodeFinish(c) ==
    /\ call[c] = "finishing"
    /\ Finish(c)
    /\ GoCall(c, "returned")
    /\ UNCHANGED <<target, fate, runVars, watchVars, queueVars,
                   threadVars, resolution>>

-----------------------------------------------------------------------------
(* The run.                                                                 *)

EndTurn(j) ==
    /\ process[j] = "running"
    /\ j \in Talkers /\ turns[j] < MaxTurns
    /\ turns' = [turns EXCEPT ![j] = @ + 1]
    /\ UNCHANGED <<callVars, registry, process, cancel, code, follows, watchVars,
                   queueVars, slotVars, threadVars, resolution>>

(* The process exits; only a run that was signalled reads as cancelled (one *)
(* that a tool call started also by the thread's abort flag, which may be   *)
(* down again), and only one that resumed no session may end without one.   *)
Exit(j) ==
    /\ process[j] = "running"
    /\ \E result \in Over :
          /\ result = "cancelled" => cancel[j] \/ j \in ToolCalls \cap halted
          /\ result = "lost" => j \in Fresh
          /\ process' = [process EXCEPT ![j] = result]
    /\ UNCHANGED <<callVars, registry, turns, cancel, code, follows, watchVars,
                   queueVars, slotVars, threadVars, resolution>>

(* /stop: signal every running job, and the /code run that is starting; if  *)
(* a turn holds the thread, abort it.                                       *)
Stop ==
    /\ cancel' = [j \in Jobs |->
                    cancel[j] \/ process[j] = "running" \/ (slot = j /\ ~Exited(j))]
    /\ cancel' # cancel
    /\ AbortThread \/ UNCHANGED threadVars
    /\ UNCHANGED <<callVars, registry, process, turns, code, follows, watchVars,
                   queueVars, slotVars, resolution>>

(* The rest of the thread: a turn is aborted and no job signalled (by /stop *)
(* when none runs, by a parent's cascade or by the terminal client) ...     *)
Abort ==
    /\ ~abort
    /\ AbortThread
    /\ UNCHANGED <<callVars, runVars, watchVars, queueVars, slotVars, resolution>>

(* ... a turn starts ...                                                    *)
TurnStarts ==
    /\ abort
    /\ ClearAbort
    /\ UNCHANGED <<callVars, runVars, watchVars, queueVars, slotVars, queued, lost,
                   resolution>>

(* ... and a turn absorbs what is queued.  A drive that fails discards it,  *)
(* and a full queue evicts what came first.                                 *)
Absorb ==
    /\ queued # {}
    /\ \/ queued' = {} /\ UNCHANGED lost
       \/ \E gone \in SUBSET queued :
             gone # {} /\ queued' = queued \ gone /\ Lose(gone, "failed")
    /\ UNCHANGED <<callVars, runVars, watchVars, queueVars, slotVars, abort, halted,
                   resolution>>

-----------------------------------------------------------------------------
(* The watcher.                                                             *)

(* next_report.                                                             *)
NextReport(j, final) ==
    [final |-> final, from |-> reported[j], upto |-> turns[j], notes |-> {}]

(* An end-turn wakes the watcher, or the process is gone.                   *)
Poll(j) ==
    /\ watch[j] = "polling"
    /\ \/ Exited(j) /\ GoWatch(j, "exited")
       \/ ~Exited(j) /\ turns[j] > reported[j] /\ GoWatch(j, "settling")
    /\ UNCHANGED <<callVars, runVars, reported, report, first, log, queueVars,
                   slotVars, threadVars, resolution>>

(* The settle wait ends: the process exited within it, or it outlives the   *)
(* end-turn.                                                                *)
Settle(j) ==
    /\ watch[j] = "settling"
    /\ GoWatch(j, IF Exited(j) THEN "exited" ELSE "interim")
    /\ UNCHANGED <<callVars, runVars, reported, report, first, log, queueVars,
                   slotVars, threadVars, resolution>>

(* _report: the first report is offered to the caller, others are posted.   *)
Offer(j, r) ==
    /\ report' = [report EXCEPT ![j] = r]
    /\ first' = IF first[j] = None THEN [first EXCEPT ![j] = r] ELSE first
    /\ GoWatch(j, IF first[j] = None THEN "offered" ELSE "posting")

Interim(j) ==
    /\ watch[j] = "interim"
    /\ Offer(j, NextReport(j, FALSE))
    /\ reported' = [reported EXCEPT ![j] = turns[j]]
    /\ UNCHANGED <<callVars, runVars, log, queueVars, slotVars,
                   threadVars, resolution>>

(* Where the watcher goes on once a report is out.                          *)
Onwards(j) == IF report[j].final THEN "over" ELSE "polling"

(* Mutant of LatchSettles: a detached first report is taken for rendered.   *)
LatchSettlesAnyway(j) ==
    /\ watch[j] = "offered"
    /\ Latch!Propose(j, "detached")
    /\ GoWatch(j, Onwards(j))
    /\ UNCHANGED <<callVars, runVars, reported, report, first, log, queueVars, slotVars,
                   threadVars>>

(* settle: the caller has decided, or its grace is over.                    *)
LatchSettles(j) ==
    /\ watch[j] = "offered"
    /\ Latch!Propose(j, "detached")
    /\ GoWatch(j, IF Latch!Decision(j, "detached") = "inline"
                  THEN Onwards(j) ELSE "posting")
    /\ UNCHANGED <<callVars, runVars, reported, report, first, log, queueVars, slotVars,
                   threadVars>>

(* The process is gone: build the final report ...                          *)
BuildFinal(j) ==
    /\ watch[j] = "exited"
    /\ report' = [report EXCEPT ![j] = NextReport(j, TRUE)]
    /\ reported' = [reported EXCEPT ![j] = turns[j]]
    /\ GoWatch(j, "taking")
    /\ UNCHANGED <<callVars, runVars, first, log, queueVars, slotVars,
                   threadVars, resolution>>

(* ... take the follow-ups; those of a stopped run are dropped, those of a  *)
(* run without a session are named on the report ...                        *)
TakeFollowups(j) ==
    /\ watch[j] = "taking"
    /\ followups' = [followups EXCEPT ![j] = {}]
    /\ LET prompts == followups[j]
           stopped == cancel[j] \/ process[j] = "cancelled"
           named   == IF ~stopped /\ process[j] = "lost" THEN prompts ELSE {}
           run     == IF stopped \/ process[j] = "lost" THEN {} ELSE prompts
       IN /\ taken' = [taken EXCEPT ![j] = run]
          /\ report' = [report EXCEPT ![j].notes = named]
          /\ fate' = [c \in ToolCalls |-> IF c \notin prompts \ run THEN fate[c]
                                          ELSE IF stopped THEN "dropped" ELSE "named"]
          /\ GoWatch(j, IF run = {} THEN "reporting" ELSE "preparing")
    /\ UNCHANGED <<call, target, runVars, reported, first, log, slotVars,
                   threadVars, resolution>>

(* _start_followups, when the follow-up run cannot start.                   *)
NameDropped(j) ==
    /\ report' = [report EXCEPT ![j].notes = taken[j]]
    /\ fate' = [c \in ToolCalls |-> IF c \in taken[j] THEN "named" ELSE fate[c]]
    /\ taken' = [taken EXCEPT ![j] = {}]
    /\ GoWatch(j, "reporting")

(* ... prepare the follow-up run; a /code run's takes over the slot ...     *)
PrepareFollowup(j, k) ==
    /\ watch[j] = "preparing"
    /\ follows[k] = None
    /\ follows' = [follows EXCEPT ![k] = j]
    /\ IF j \in code
       THEN code' = code \cup {k} /\ SlotOpenTo(j) /\ slot' = k
       ELSE UNCHANGED <<code, slot>>
    /\ Latch!Propose(k, "detached")
    /\ GoWatch(j, "starting")
    /\ UNCHANGED <<callVars, registry, process, turns, cancel, reported, report,
                   first, log, queueVars, last, threadVars>>

(* (prepare_run raises, or another /code run has the slot.)                 *)
PrepareFails(j) ==
    /\ watch[j] = "preparing"
    /\ NameDropped(j)
    /\ UNCHANGED <<call, target, runVars, reported, first, log, followups,
                   slotVars, threadVars, resolution>>

(* ... and start it.                                                        *)
StartFollowup(j, k) ==
    /\ watch[j] = "starting"
    /\ follows[k] = j
    /\ registry' = Append(registry, k)
    /\ process' = [process EXCEPT ![k] = "running"]
    /\ watch' = [watch EXCEPT ![j] = "reporting", ![k] = "polling"]
    /\ fate' = [c \in ToolCalls |-> IF c \in taken[j] THEN "started" ELSE fate[c]]
    /\ taken' = [taken EXCEPT ![j] = {}]
    /\ UNCHANGED <<call, target, turns, cancel, code, follows, reported, report,
                   first, log, followups, slotVars, threadVars, resolution>>

StartFollowupFails(j, k) ==
    /\ watch[j] = "starting"
    /\ follows[k] = j
    /\ IF k \in code THEN Finish(k) ELSE UNCHANGED slotVars
    /\ NameDropped(j)
    /\ UNCHANGED <<call, target, runVars, reported, first, log, followups,
                   threadVars, resolution>>

(* Mutant of ReportFinal: the follow-ups' notes are lost.                   *)
ReportFinalBare(j) ==
    /\ watch[j] = "reporting"
    /\ Offer(j, [report[j] EXCEPT !.notes = {}])
    /\ UNCHANGED <<callVars, runVars, reported, log, queueVars, slotVars,
                   threadVars, resolution>>

ReportFinal(j) ==
    /\ watch[j] = "reporting"
    /\ Offer(j, report[j])
    /\ UNCHANGED <<callVars, runVars, reported, log, queueVars, slotVars,
                   threadVars, resolution>>

(* The delivery of a report: the tool's as a prompt to the thread, that of  *)
(* a /code run without a turn.  A cancelled run's final one stays silent. A *)
(* /code run records its outcome first and holds the slot until the final   *)
(* report is out.                                                           *)
Silent(j) == report[j].final /\ process[j] = "cancelled"

Post(j) ==
    /\ watch[j] = "posting"
    /\ IF Silent(j) THEN UNCHANGED <<log, threadVars>>
       ELSE /\ log' = [log EXCEPT ![j] = Append(@, report[j])]
            /\ IF j \in code THEN Relay ELSE Submit(j)
    /\ last' = IF j \in code /\ report[j].final THEN j ELSE last
    /\ GoWatch(j, IF j \in code /\ report[j].final THEN "releasing" ELSE Onwards(j))
    /\ UNCHANGED <<callVars, runVars, reported, report, first, queueVars, slot,
                   resolution>>

Release(j) ==
    /\ watch[j] = "releasing"
    /\ ReleaseSlot(j)
    /\ GoWatch(j, "over")
    /\ UNCHANGED <<callVars, runVars, reported, report, first, log, queueVars,
                   last, threadVars, resolution>>

-----------------------------------------------------------------------------
CallStep(c) ==
    \/ QueueFollowup(c) \/ CodeClaim(c) \/ Launch(c) \/ LaunchFails(c)
    \/ WaitEnds(c) \/ Claim(c) \/ CodeFinish(c)

WatchStep(j) ==
    \/ Poll(j) \/ Settle(j) \/ Interim(j) \/ LatchSettles(j)
    \/ BuildFinal(j) \/ TakeFollowups(j) \/ PrepareFails(j)
    \/ \E k \in Spares :
          PrepareFollowup(j, k) \/ StartFollowup(j, k) \/ StartFollowupFails(j, k)
    \/ ReportFinal(j) \/ Post(j) \/ Release(j)

ThreadStep == Stop \/ Abort \/ TurnStarts \/ Absorb

AllOver ==
    /\ \A c \in Calls : call[c] \in {"receipt", "returned", "refused"}
    /\ \A j \in Jobs : watch[j] \in {"none", "over"}

Next ==
    \/ \E c \in Calls : Resolve(c) \/ CodeLook(c) \/ CallStep(c)
    \/ \E j \in Jobs : EndTurn(j) \/ Exit(j) \/ WatchStep(j)
    \/ ThreadStep
    \/ AllOver /\ UNCHANGED vars

Spec == Init /\ [][Next]_vars

(* Threads run; waits, budgets and graces are timed; a process exits, or    *)
(* the bridge's hard timeout kills it.  Nobody has to call or to stop.      *)
FairSpec ==
    /\ Spec
    /\ \A c \in Calls : WF_vars(CallStep(c))
    /\ \A j \in Jobs : WF_vars(WatchStep(j)) /\ WF_vars(Exit(j))

-----------------------------------------------------------------------------
(* Properties.                                                              *)

(* What a job has handed over accounts for its end-turns in order, without  *)
(* gap or repetition, whoever handed each report over (the latch), and      *)
(* nothing follows the final report.                                        *)
ReportsInSequence ==
    \A j \in Jobs : \A i \in DOMAIN log[j] :
        /\ log[j][i].from = IF i = 1 THEN 0 ELSE log[j][i - 1].upto
        /\ log[j][i].final => i = Len(log[j])

(* When the watcher of a run that was not cancelled is done, the final      *)
(* report was handed over and with it the last end-turn.  What a /code run  *)
(* handed over has reached its user, whatever was stopped meanwhile.  A     *)
(* tool's may have been dropped for a stop, but only for one that came      *)
(* while the run was under way or since, or that no turn had followed when  *)
(* the run began (the flag of an older stop silences nobody).               *)
EndTurnsDelivered ==
    \A j \in Jobs :
        watch[j] = "over" /\ process[j] # "cancelled" =>
            /\ log[j] # <<>>
            /\ log[j][Len(log[j])].final
            /\ log[j][Len(log[j])].upto = turns[j]
            /\ j \in code => lost[j] = {} /\ j \notin queued
            /\ "stopped" \in lost[j] => j \in halted

(* A follow-up named as dropped is named on a report that was handed over,  *)
(* unless a cancelled run kept silent.                                      *)
DroppedAreNamed ==
    \A c \in ToolCalls :
        fate[c] = "named" /\ watch[target[c]] = "over"
            => \/ process[target[c]] = "cancelled"
               \/ \E i \in DOMAIN log[target[c]] : c \in log[target[c]][i].notes

(* A running /code run holds its thread's slot, through follow-ups that     *)
(* take it over and runs that fail to start.                                *)
SlotCoversRun ==
    \A j \in code : process[j] = "running" => slot = j

(* A Claude Code session is resumed by one run at a time.                   *)
OneRunPerSession == Cardinality({i \in Live : registry[i] \notin Fresh}) <= 1

(* A [Queued] receipt is honoured: the prompt waits on a job whose watcher  *)
(* will still take it, or it was started, named or dropped with the run.    *)
ReceiptHonoured ==
    \A c \in ToolCalls :
        fate[c] = "queued" =>
            \/ c \in taken[target[c]]
            \/ /\ c \in followups[target[c]]
               /\ watch[target[c]] \in {"polling", "settling", "interim", "offered",
                                        "posting", "exited", "taking"}

(* The outcome recorded for a follow-up is not overwritten by that of the   *)
(* run it followed.                                                         *)
LastIsNewest ==
    [][\A k \in Spares : last = k /\ last' # last => last' # follows[k]]_vars

(* Every call that is made gets its answer (each is made once), and in the  *)
(* end no job holds the slot.                                               *)
AllSettles ==
    <>[](/\ slot = None
         /\ \A c \in Calls : call[c] \in {"idle", "receipt", "returned", "refused"})
=============================================================================
