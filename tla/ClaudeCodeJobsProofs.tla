------------------------ MODULE ClaudeCodeJobsProofs ------------------------
(***************************************************************************)
(* What ClaudeCodeJobs guarantees for every number of calls, jobs and      *)
(* end-turns: the reports of a run account for all of it, once and in      *)
(* order, a follow-up that cannot start is named on one of them, and a     *)
(* running /code run holds its thread's slot.                              *)
(***************************************************************************)
EXTENDS ClaudeCodeJobs, TLAPS

(* How many end-turns of a job the thread has been told of.                 *)
Handed(j) == IF log[j] = <<>> THEN 0 ELSE log[j][Len(log[j])].upto

NoFinal(j) == \A i \in DOMAIN log[j] : ~log[j][i].final

Sequenced(j) ==
    \A i \in DOMAIN log[j] :
        /\ log[j][i].from = IF i = 1 THEN 0 ELSE log[j][i - 1].upto
        /\ log[j][i].final => i = Len(log[j])

(* The last report is final and accounts for the whole run.                 *)
Complete(j) ==
    /\ log[j] # <<>>
    /\ log[j][Len(log[j])].final
    /\ log[j][Len(log[j])].upto = turns[j]

Ending == {"taking", "preparing", "starting", "reporting"}

(* The report in the watcher's hands continues what was handed over.        *)
Continues(j) ==
    /\ NoFinal(j)
    /\ report[j].from = Handed(j)
    /\ report[j].upto = reported[j]
    /\ report[j].final => Exited(j) /\ reported[j] = turns[j]

(* What holds of a job at each place of its watcher.                        *)
JobState(j) ==
    /\ watch[j] = "none" =>
          process[j] = "none" /\ turns[j] = 0 /\ reported[j] = 0
    /\ watch[j] \in {"polling", "settling", "interim", "exited"} =>
          process[j] # "none" /\ NoFinal(j) /\ Handed(j) = reported[j]
    /\ watch[j] = "exited" => Exited(j)
    /\ watch[j] \in Ending => report[j].final /\ Continues(j)
    /\ watch[j] = "offered" =>
          /\ first[j] = report[j]
          /\ report[j].from = 0
          /\ report[j].upto = reported[j]
          /\ report[j].final => Exited(j) /\ reported[j] = turns[j]
          /\ process[j] # "none"
          /\ log[j] = IF resolution[j] = "inline" THEN <<report[j]>> ELSE <<>>
    /\ watch[j] = "posting" => process[j] # "none" /\ Continues(j)
    /\ watch[j] \in {"releasing", "over"} =>
          Exited(j) /\ (process[j] = "cancelled" \/ Complete(j))
    /\ first[j] = None =>
          /\ log[j] = <<>> /\ resolution[j] # "inline"
          /\ watch[j] \notin {"offered", "posting", "releasing", "over"}
    /\ first[j] # None => watch[j] # "none"
    /\ first[j] # None /\ watch[j] # "offered" => resolution[j] # "none"
    /\ Sequenced(j)

(* What holds of a call, and of the job that bears its name.                *)
NotStarted == {"idle", "queueing", "receipt", "claiming", "launching", "refused"}

CallState(c) ==
    /\ call[c] \in NotStarted => watch[c] = "none"
    /\ call[c] \notin {"finishing", "returned"} => resolution[c] # "inline"
    /\ call[c] = "queueing" => c \in ToolCalls /\ target[c] \in Jobs
    /\ call[c] = "intime" => first[c] # None
    /\ call[c] = "finishing" => Exited(c)

(* What holds of a follow-up job and the job it follows.                    *)
Followed(j) ==
    /\ watch[j] \in {"starting", "reporting", "offered", "posting", "releasing", "over"}
    /\ watch[j] \in {"offered", "posting"} => report[j].final

FollowState(k) ==
    /\ resolution[k] # "inline"
    /\ follows[k] = None => watch[k] = "none"
    /\ \A j \in Jobs : follows[k] = j =>
          Followed(j) /\ (watch[j] = "starting" => watch[k] = "none")

ReportInv ==
    /\ TypeOK
    /\ \A j \in Jobs : JobState(j)
    /\ \A c \in Calls : CallState(c)
    /\ \A k \in Spares : FollowState(k)

(* Who holds the slot, before a /code job runs and while it does.           *)
SlotInv ==
    /\ CodeCalls \subseteq code /\ code \cap ToolCalls = {}
    /\ \A k \in Spares : k \in code => follows[k] # None
    /\ SlotCoversRun
    /\ \A c \in CodeCalls : call[c] = "launching" => slot = c
    /\ \A k \in Spares : \A j \in Jobs :
          follows[k] = j /\ watch[j] = "starting" /\ k \in code => slot = k

-----------------------------------------------------------------------------
(* What single operations do.                                               *)

LEMMA JobNames == Calls \subseteq Jobs /\ Spares \subseteq Jobs /\ ToolCalls \subseteq Calls
                  /\ CodeCalls \subseteq Calls /\ Calls \cap Spares = {} /\ None \notin Jobs
BY JobsAssumption DEF JobsAssumption, Calls, Jobs

(* Adding notes changes nothing else about a report.                        *)
LEMMA NotesAdded ==
    ASSUME report \in [Jobs -> Reports], NEW j \in Jobs, NEW notes \in SUBSET ToolCalls,
           report' = [report EXCEPT ![j].notes = notes]
    PROVE  /\ report' \in [Jobs -> Reports]
           /\ report'[j].final = report[j].final
           /\ report'[j].from = report[j].from
           /\ report'[j].upto = report[j].upto
           /\ \A i \in Jobs \ {j} : report'[i] = report[i]
<1>1. \A r \in Reports : LET s == [r EXCEPT !.notes = notes] IN
         s \in Reports /\ s.final = r.final /\ s.from = r.from /\ s.upto = r.upto
  BY DEF Reports
<1>2. report[j] \in Reports /\ report'[j] = [report[j] EXCEPT !.notes = notes]
  OBVIOUS
<1>3. report' \in [Jobs -> Reports]
  BY <1>1
<1>4. \A i \in Jobs \ {j} : report'[i] = report[i]
  OBVIOUS
<1> QED BY <1>1, <1>2, <1>3, <1>4

LEMMA ProposeTyped ==
    ASSUME resolution \in [Jobs -> Latch!Resolutions], NEW j \in Jobs,
           NEW proposal \in {"inline", "detached"}, Latch!Propose(j, proposal)
    PROVE  /\ resolution' \in [Jobs -> Latch!Resolutions]
           /\ resolution'[j] = Latch!Decision(j, proposal)
           /\ resolution'[j] # "none"
           /\ resolution[j] # "none" => resolution'[j] = resolution[j]
           /\ \A i \in Jobs \ {j} : resolution'[i] = resolution[i]
BY DEF Latch!Resolutions, Latch!Propose, Latch!Decision

LEMMA ClaimProposes == \A b \in BOOLEAN : Latch!ClaimProposal(b) \in {"inline", "detached"}
BY DEF Latch!ClaimProposal

(* The latch gives the caller its report inline only if it was ready.       *)
LEMMA InlineInTime ==
    ASSUME ReportInv, NEW c \in Calls, call[c] \in {"intime", "late"},
           Latch!Decision(c, Latch!ClaimProposal(call[c] = "intime")) = "inline"
    PROVE  call[c] = "intime" /\ first[c] # None
BY DEF ReportInv, CallState, Latch!Decision, Latch!ClaimProposal

(* The reports are unchanged but for the notes of job j's.                  *)
ReportKept(j) ==
    /\ report'[j].final = report[j].final
    /\ report'[j].from = report[j].from
    /\ report'[j].upto = report[j].upto
    /\ \A i \in Jobs \ {j} : report'[i] = report[i]

LEMMA NameDroppedTyped ==
    ASSUME TypeOK, NEW j \in Jobs, NameDropped(j)
    PROVE  /\ report' \in [Jobs -> Reports] /\ fate' \in [ToolCalls -> Fates]
           /\ taken' \in [Jobs -> SUBSET ToolCalls] /\ watch' \in [Jobs -> WatchPCs]
           /\ ReportKept(j)
<1>1. report' = [report EXCEPT ![j].notes = taken[j]] /\ taken[j] \in SUBSET ToolCalls
  BY DEF NameDropped, TypeOK
<1>2. report' \in [Jobs -> Reports]
  BY <1>1, NotesAdded DEF TypeOK
<1>3. fate' \in [ToolCalls -> Fates]
  BY DEF NameDropped, TypeOK, Fates
<1>4. taken' \in [Jobs -> SUBSET ToolCalls] /\ watch' \in [Jobs -> WatchPCs]
  BY DEF NameDropped, TypeOK, GoWatch, WatchPCs
<1>5. ReportKept(j)
  BY <1>1, NotesAdded DEF TypeOK, ReportKept
<1> QED BY <1>2, <1>3, <1>4, <1>5

(* Whatever is done with the thread, its variables keep their types.        *)
ThreadTyped ==
    /\ abort \in BOOLEAN /\ queued \in SUBSET Jobs
    /\ lost \in [Jobs -> SUBSET Losses] /\ halted \in SUBSET Jobs

LEMMA LoseTyped ==
    ASSUME lost \in [Jobs -> SUBSET Losses], NEW jobs, NEW why \in Losses, Lose(jobs, why)
    PROVE  lost' \in [Jobs -> SUBSET Losses]
BY DEF Lose

LEMMA RelayTyped == ASSUME ThreadTyped, Relay PROVE ThreadTyped'
<1>1. CASE Hold
  <2>1. "failed" \in Losses
    BY DEF Losses
  <2> QED BY <1>1, <2>1, LoseTyped DEF ThreadTyped, Hold, ClearAbort, Discard
<1>2. CASE UNCHANGED threadVars
  BY <1>2 DEF ThreadTyped, threadVars
<1> QED BY <1>1, <1>2 DEF Relay

LEMMA SubmitTyped == ASSUME ThreadTyped, NEW j \in Jobs, Submit(j) PROVE ThreadTyped'
<1>1. "failed" \in Losses /\ "stopped" \in Losses
  BY DEF Losses
<1>2. lost' \in [Jobs -> SUBSET Losses]
  BY <1>1, LoseTyped DEF ThreadTyped, Submit, threadVars
<1> QED BY <1>2 DEF ThreadTyped, Submit, threadVars

LEMMA ThreadStepTyped == ASSUME ThreadTyped, ThreadStep PROVE ThreadTyped'
<1>1. "failed" \in Losses /\ "stopped" \in Losses
  BY DEF Losses
<1>2. ASSUME AbortThread PROVE ThreadTyped'
  BY <1>1, <1>2, LoseTyped DEF ThreadTyped, AbortThread, Discard
<1>3. CASE Stop
  BY <1>2, <1>3 DEF Stop, ThreadTyped, threadVars
<1>4. CASE Abort
  BY <1>2, <1>4 DEF Abort
<1>5. CASE TurnStarts
  BY <1>5 DEF ThreadTyped, TurnStarts, ClearAbort
<1>6. CASE Absorb
  <2>1. lost' \in [Jobs -> SUBSET Losses]
    BY <1>1, <1>6, LoseTyped DEF ThreadTyped, Absorb
  <2> QED BY <1>6, <2>1 DEF ThreadTyped, Absorb
<1> QED BY <1>3, <1>4, <1>5, <1>6 DEF ThreadStep

-----------------------------------------------------------------------------
(* Types.                                                                   *)

LEMMA TypePreserved ==
    ASSUME ReportInv, [Next]_vars
    PROVE  TypeOK'
<1> USE JobNames, ClaimProposes, JobsAssumption
    DEF ReportInv, TypeOK, JobsAssumption, vars, callVars, runVars, watchVars, queueVars, slotVars, threadVars,
        CallPCs, WatchPCs, Processes, Over, Fates, Latch!LatchTypeOK
<1>1. ASSUME NEW c \in Calls, Resolve(c) PROVE TypeOK'
  <2>1. \A i \in Live : registry[i] \in Jobs
    BY DEF Live
  <2>2. target' \in [ToolCalls -> Jobs \cup {None}]
    BY <1>1, <2>1 DEF Resolve
  <2> QED BY <1>1, <2>2 DEF Resolve, GoCall
<1>2. ASSUME NEW c \in Calls, CodeLook(c) PROVE TypeOK'
  BY <1>2 DEF CodeLook, GoCall
<1>3. ASSUME NEW c \in Calls, QueueFollowup(c) PROVE TypeOK'
  <2>1. c \in ToolCalls
    BY <1>3 DEF QueueFollowup, CallState
  <2>2. followups' \in [Jobs -> SUBSET ToolCalls]
    BY <1>3, <2>1 DEF QueueFollowup, CallState
  <2> QED BY <1>3, <2>1, <2>2 DEF QueueFollowup, GoCall
<1>4. ASSUME NEW c \in Calls, CodeClaim(c) PROVE TypeOK'
  <2>1. slot' \in Jobs \cup {None}
    BY <1>4 DEF CodeClaim
  <2>2. call' \in [Calls -> CallPCs]
    <3>1. PICK place \in {"launching", "refused"} : GoCall(c, place)
      BY <1>4 DEF CodeClaim
    <3> QED BY <3>1 DEF GoCall
  <2> QED BY <1>4, <2>1, <2>2 DEF CodeClaim
<1>5. ASSUME NEW c \in Calls, Launch(c) PROVE TypeOK'
  <2>1. registry' \in Seq(Jobs) /\ watch' \in [Jobs -> WatchPCs] /\ process' \in [Jobs -> Processes]
    BY <1>5 DEF Launch, StartJob, GoWatch
  <2> QED BY <1>5, <2>1 DEF Launch, GoCall
<1>6. ASSUME NEW c \in Calls, LaunchFails(c) PROVE TypeOK'
  BY <1>6 DEF LaunchFails, GoCall, Finish, ReleaseSlot
<1>7. ASSUME NEW c \in Calls, WaitEnds(c) PROVE TypeOK'
  BY <1>7 DEF WaitEnds, GoCall
<1>8. ASSUME NEW c \in Calls, Claim(c) PROVE TypeOK'
  <2>1. log' \in [Jobs -> Seq(Reports)]
    <3>1. CASE log' = log
      BY <3>1
    <3>2. CASE log' = [log EXCEPT ![c] = Append(@, first[c])]
      <4>1. first[c] \in Reports
        BY <1>8, <3>2, InlineInTime DEF Claim, TakeInline, CallState
      <4> QED BY <3>2, <4>1
    <3> QED BY <1>8, <3>1, <3>2 DEF Claim, TakeInline
  <2>2. resolution' \in [Jobs -> Latch!Resolutions]
    <3>1. Latch!ClaimProposal(call[c] = "intime") \in {"inline", "detached"}
      BY DEF Latch!ClaimProposal
    <3> QED BY <1>8, <3>1, ProposeTyped DEF Claim, TakeInline
  <2>3. call' \in [Calls -> CallPCs]
    BY <1>8 DEF Claim, TakeInline, GoCall
  <2>4. ThreadTyped'
    <3>1. Relay \/ UNCHANGED threadVars
      BY <1>8 DEF Claim, TakeInline
    <3> QED BY <3>1, RelayTyped DEF ThreadTyped
  <2>5. UNCHANGED <<target, fate, runVars, reported, watch, report, first, queueVars, slotVars>>
    BY <1>8 DEF Claim
  <2> QED BY <2>1, <2>2, <2>3, <2>4, <2>5 DEF ThreadTyped
<1>9. ASSUME NEW c \in Calls, CodeFinish(c) PROVE TypeOK'
  BY <1>9 DEF CodeFinish, GoCall, Finish, ReleaseSlot
<1>10. ASSUME NEW i \in Jobs, EndTurn(i) PROVE TypeOK'
  <2>1. turns' \in [Jobs -> 0..MaxTurns]
    BY <1>10 DEF EndTurn
  <2> QED BY <1>10, <2>1 DEF EndTurn
<1>11. ASSUME NEW i \in Jobs, Exit(i) PROVE TypeOK'
  <2>1. process' \in [Jobs -> Processes]
    BY <1>11 DEF Exit
  <2> QED BY <1>11, <2>1 DEF Exit
<1>12. ASSUME NEW i \in Jobs, Poll(i) PROVE TypeOK'
  BY <1>12 DEF Poll, GoWatch
<1>13. ASSUME NEW i \in Jobs, Settle(i) PROVE TypeOK'
  BY <1>13 DEF Settle, GoWatch
<1>14. ASSUME NEW i \in Jobs, Interim(i) PROVE TypeOK'
  <2>1. NextReport(i, FALSE) \in Reports
    BY DEF NextReport, Reports
  <2>2. reported' \in [Jobs -> 0..MaxTurns]
    BY <1>14 DEF Interim
  <2> QED BY <1>14, <2>1, <2>2 DEF Interim, Offer, GoWatch
<1>15. ASSUME NEW i \in Jobs, LatchSettles(i) PROVE TypeOK'
  <2>1. resolution' \in [Jobs -> Latch!Resolutions]
    BY <1>15, ProposeTyped DEF LatchSettles
  <2> QED BY <1>15, <2>1 DEF LatchSettles, GoWatch, Onwards
<1>16. ASSUME NEW i \in Jobs, BuildFinal(i) PROVE TypeOK'
  <2>1. NextReport(i, TRUE) \in Reports
    BY DEF NextReport, Reports
  <2>2. reported' \in [Jobs -> 0..MaxTurns]
    BY <1>16 DEF BuildFinal
  <2> QED BY <1>16, <2>1, <2>2 DEF BuildFinal, GoWatch
<1>17. ASSUME NEW i \in Jobs, TakeFollowups(i) PROVE TypeOK'
  <2>1. PICK named \in SUBSET ToolCalls : report' = [report EXCEPT ![i].notes = named]
    BY <1>17 DEF TakeFollowups
  <2>2. report' \in [Jobs -> Reports]
    BY <2>1, NotesAdded
  <2>3. taken' \in [Jobs -> SUBSET ToolCalls] /\ followups' \in [Jobs -> SUBSET ToolCalls]
    BY <1>17 DEF TakeFollowups
  <2>4. fate' \in [ToolCalls -> Fates]
    BY <1>17 DEF TakeFollowups
  <2>5. watch' \in [Jobs -> WatchPCs]
    BY <1>17 DEF TakeFollowups, GoWatch
  <2> QED BY <1>17, <2>2, <2>3, <2>4, <2>5 DEF TakeFollowups
<1>18. ASSUME NEW i \in Jobs, PrepareFails(i) PROVE TypeOK'
  <2>1. NameDropped(i)
    BY <1>18 DEF PrepareFails
  <2> QED BY <1>18, <2>1, NameDroppedTyped DEF PrepareFails
<1>19. ASSUME NEW i \in Jobs, ReportFinal(i) PROVE TypeOK'
  BY <1>19 DEF ReportFinal, GoWatch, Offer
<1>20. ASSUME NEW i \in Jobs, Post(i) PROVE TypeOK'
  <2>1. log' \in [Jobs -> Seq(Reports)]
    <3>1. CASE log' = log
      BY <3>1
    <3>2. CASE log' = [log EXCEPT ![i] = Append(@, report[i])]
      <4>1. report[i] \in Reports /\ log[i] \in Seq(Reports)
        OBVIOUS
      <4> QED BY <3>2, <4>1
    <3> QED BY <1>20, <3>1, <3>2 DEF Post
  <2>2. watch' \in [Jobs -> WatchPCs] /\ last' \in Jobs \cup {None}
    BY <1>20 DEF Post, GoWatch, Onwards
  <2>3. ThreadTyped'
    <3>1. Relay \/ Submit(i) \/ UNCHANGED threadVars
      BY <1>20 DEF Post
    <3> QED BY <3>1, RelayTyped, SubmitTyped DEF ThreadTyped
  <2>4. UNCHANGED <<callVars, runVars, reported, report, first, queueVars, slot, resolution>>
    BY <1>20 DEF Post
  <2> QED BY <2>1, <2>2, <2>3, <2>4 DEF ThreadTyped
<1>21. ASSUME NEW i \in Jobs, Release(i) PROVE TypeOK'
  BY <1>21 DEF Release, GoWatch, ReleaseSlot
<1>22. ASSUME NEW i \in Jobs, NEW k \in Spares, PrepareFollowup(i, k) PROVE TypeOK'
  <2>1. resolution' \in [Jobs -> Latch!Resolutions]
    BY <1>22, ProposeTyped DEF PrepareFollowup
  <2>2. code' \in SUBSET Jobs /\ slot' \in Jobs \cup {None}
    BY <1>22 DEF PrepareFollowup
  <2>3. follows' \in [Spares -> Jobs \cup {None}] /\ watch' \in [Jobs -> WatchPCs]
    BY <1>22 DEF PrepareFollowup, GoWatch
  <2> QED BY <1>22, <2>1, <2>2, <2>3 DEF PrepareFollowup
<1>23. ASSUME NEW i \in Jobs, NEW k \in Spares, StartFollowup(i, k) PROVE TypeOK'
  <2>1. registry' \in Seq(Jobs) /\ process' \in [Jobs -> Processes]
    BY <1>23 DEF StartFollowup
  <2>3. watch' \in [Jobs -> WatchPCs]
    BY <1>23 DEF StartFollowup
  <2>2. fate' \in [ToolCalls -> Fates] /\ taken' \in [Jobs -> SUBSET ToolCalls]
    BY <1>23 DEF StartFollowup
  <2> QED BY <1>23, <2>1, <2>2, <2>3 DEF StartFollowup
<1>24. ASSUME NEW i \in Jobs, NEW k \in Spares, StartFollowupFails(i, k) PROVE TypeOK'
  <2>1. NameDropped(i)
    BY <1>24 DEF StartFollowupFails
  <2>2. slot' \in Jobs \cup {None} /\ last' \in Jobs \cup {None}
    BY <1>24 DEF StartFollowupFails, Finish, ReleaseSlot
  <2> QED BY <1>24, <2>1, <2>2, NameDroppedTyped DEF StartFollowupFails
<1>25. ASSUME ThreadStep PROVE TypeOK'
  <2>1. ThreadTyped'
    BY <1>25, ThreadStepTyped DEF ThreadTyped
  <2>2. cancel' \in [Jobs -> BOOLEAN]
    BY <1>25 DEF ThreadStep, Stop, Abort, TurnStarts, Absorb
  <2>3. UNCHANGED <<callVars, registry, process, turns, code, follows, watchVars, queueVars,
                    slotVars, resolution>>
    BY <1>25 DEF ThreadStep, Stop, Abort, TurnStarts, Absorb
  <2> QED BY <2>1, <2>2, <2>3 DEF ThreadTyped
<1>26. ASSUME UNCHANGED vars PROVE TypeOK'
  BY <1>26
<1> QED
  BY <1>1, <1>2, <1>3, <1>4, <1>5, <1>6, <1>7, <1>8, <1>9, <1>10, <1>11, <1>12, <1>13, <1>14,
      <1>15, <1>16, <1>17, <1>18, <1>19, <1>20, <1>21, <1>22, <1>23, <1>24, <1>25, <1>26
          DEF Next, CallStep, WatchStep

-----------------------------------------------------------------------------
(* Jobs.                                                                    *)

(* None stands for no report.                                               *)
LEMMA ReportIsReport == ASSUME ReportInv, NEW j \in Jobs PROVE report[j] \in Reports /\ report[j] # None
BY JobsAssumption DEF JobsAssumption, ReportInv, TypeOK

LEMMA NextReportTyped ==
    ASSUME ReportInv, NEW j \in Jobs, NEW final \in BOOLEAN
    PROVE  NextReport(j, final) \in Reports /\ NextReport(j, final) # None
BY JobsAssumption DEF JobsAssumption, ReportInv, TypeOK, NextReport, Reports

LEMMA JobFrame ==
    ASSUME NEW j \in Jobs, JobState(j),
           watch'[j] = watch[j], process'[j] = process[j], turns'[j] = turns[j],
           reported'[j] = reported[j], report'[j] = report[j], first'[j] = first[j],
           log'[j] = log[j], resolution'[j] = resolution[j]
    PROVE  JobState(j)'
BY DEF JobState, Exited, NoFinal, Handed, Continues, Complete, Sequenced

LEMMA LogFrame ==
    ASSUME NEW j \in Jobs, log'[j] = log[j]
    PROVE  /\ Handed(j)' = Handed(j)
           /\ NoFinal(j)' <=> NoFinal(j)
           /\ Sequenced(j)' <=> Sequenced(j)
           /\ turns'[j] = turns[j] => (Complete(j)' <=> Complete(j))
BY DEF Handed, NoFinal, Sequenced, Complete

LEMMA EmptyLog ==
    ASSUME NEW j \in Jobs, log[j] = <<>>
    PROVE  Handed(j) = 0 /\ NoFinal(j) /\ Sequenced(j)
BY DEF Handed, NoFinal, Sequenced

(* The three kinds of places a step can bring a watcher to that still has   *)
(* end-turns to account for.                                                *)
LEMMA NowPolling ==
    ASSUME NEW j \in Jobs,
           watch'[j] \in {"polling", "settling", "interim", "exited"},
           watch'[j] = "exited" => Exited(j)',
           process'[j] # "none", Sequenced(j)', NoFinal(j)', Handed(j)' = reported'[j],
           first'[j] = None => log'[j] = <<>> /\ resolution'[j] # "inline",
           first'[j] # None => resolution'[j] # "none"
    PROVE  JobState(j)'
BY DEF JobState, Ending

LEMMA NowOffered ==
    ASSUME NEW j \in Jobs,
           watch'[j] = "offered", first'[j] = report'[j], first'[j] # None,
           report'[j].from = 0, report'[j].upto = reported'[j],
           report'[j].final => Exited(j)' /\ reported'[j] = turns'[j],
           process'[j] # "none", log'[j] = <<>>, resolution'[j] # "inline"
    PROVE  JobState(j)'
BY DEF JobState, Ending, Sequenced

LEMMA NowPosting ==
    ASSUME NEW j \in Jobs,
           watch'[j] = "posting", first'[j] # None, resolution'[j] # "none",
           process'[j] # "none", Sequenced(j)', Continues(j)'
    PROVE  JobState(j)'
BY DEF JobState, Ending

LEMMA NowReported ==
    ASSUME NEW j \in Jobs,
           watch'[j] \in {"releasing", "over"}, first'[j] # None, resolution'[j] # "none",
           Exited(j)', process'[j] = "cancelled" \/ Complete(j)', Sequenced(j)'
    PROVE  JobState(j)'
BY DEF JobState, Ending

(* The final report is passed on among the places where it is in the making. *)
LEMMA EndingKept ==
    ASSUME NEW j \in Jobs, JobState(j), ReportKept(j),
           watch[j] \in Ending, watch'[j] \in Ending,
           process'[j] = process[j], turns'[j] = turns[j], reported'[j] = reported[j],
           first'[j] = first[j], log'[j] = log[j], resolution'[j] = resolution[j]
    PROVE  JobState(j)'
BY DEF JobState, ReportKept, Ending, Exited, NoFinal, Handed, Continues, Complete, Sequenced

(* A report that continues an unfinished log.                               *)
LEMMA LogGrows ==
    ASSUME TypeOK, NEW j \in Jobs, NEW r \in Reports, Sequenced(j), NoFinal(j),
           r.from = Handed(j), log'[j] = Append(log[j], r)
    PROVE  /\ Sequenced(j)' /\ (~r.final => NoFinal(j)')
           /\ Handed(j)' = r.upto
           /\ log'[j] # <<>> /\ log'[j][Len(log'[j])] = r
<1>1. log[j] \in Seq(Reports) /\ Len(log[j]) \in Nat /\ DOMAIN log[j] = 1..Len(log[j])
  BY DEF TypeOK
<1>2. /\ Len(log'[j]) = Len(log[j]) + 1 /\ DOMAIN log'[j] = 1..Len(log'[j])
      /\ log'[j][Len(log'[j])] = r
      /\ \A i \in 1..Len(log[j]) : log'[j][i] = log[j][i]
  BY <1>1
<1>3. log'[j] # <<>>
  BY <1>1, <1>2
<1>4. Handed(j) = IF Len(log[j]) = 0 THEN 0 ELSE log[j][Len(log[j])].upto
  BY <1>1 DEF Handed
<1>5. Sequenced(j)'
  <2> SUFFICES ASSUME NEW i \in 1..Len(log'[j])
               PROVE  /\ log'[j][i].from = IF i = 1 THEN 0 ELSE log'[j][i - 1].upto
                      /\ log'[j][i].final => i = Len(log'[j])
    BY <1>2 DEF Sequenced
  <2>1. CASE i = Len(log'[j])
    BY <1>1, <1>2, <1>4, <2>1
  <2>2. CASE i # Len(log'[j])
    <3>1. i \in 1..Len(log[j]) /\ log'[j][i] = log[j][i] /\ ~log[j][i].final
      BY <1>1, <1>2, <2>2 DEF NoFinal
    <3>2. i # 1 => i - 1 \in 1..Len(log[j]) /\ log'[j][i - 1] = log[j][i - 1]
      BY <1>1, <1>2, <3>1
    <3>3. log[j][i].from = IF i = 1 THEN 0 ELSE log[j][i - 1].upto
      BY <1>1, <3>1 DEF Sequenced
    <3> QED BY <3>1, <3>2, <3>3
  <2> QED BY <2>1, <2>2
<1>6. ~r.final => NoFinal(j)'
  BY <1>1, <1>2 DEF NoFinal
<1> QED BY <1>2, <1>3, <1>5, <1>6 DEF Handed

LEMMA JobPreserved ==
    ASSUME ReportInv, [Next]_vars, NEW j \in Jobs
    PROVE  JobState(j)'
<1> USE JobNames DEF ReportInv, TypeOK, vars, callVars, runVars, watchVars, queueVars, slotVars, threadVars
<1>1. ASSUME NEW c \in Calls, Resolve(c) PROVE JobState(j)'
  BY <1>1, JobFrame DEF Resolve, GoCall
<1>2. ASSUME NEW c \in Calls, CodeLook(c) PROVE JobState(j)'
  BY <1>2, JobFrame DEF CodeLook, GoCall
<1>3. ASSUME NEW c \in Calls, QueueFollowup(c) PROVE JobState(j)'
  BY <1>3, JobFrame DEF QueueFollowup, GoCall
<1>4. ASSUME NEW c \in Calls, CodeClaim(c) PROVE JobState(j)'
  BY <1>4, JobFrame DEF CodeClaim, GoCall
<1>5. ASSUME NEW c \in Calls, Launch(c) PROVE JobState(j)'
  <2>1. CASE j # c
    BY <1>5, <2>1, JobFrame DEF Launch, GoCall, GoWatch, StartJob
  <2>2. CASE j = c
    <3>1. watch[c] = "none" /\ resolution[c] # "inline"
      BY <1>5, JobNames DEF Launch, CallState, NotStarted
    <3>2. watch'[c] = "polling" /\ process'[c] = "running"
      BY <1>5 DEF Launch, StartJob, GoWatch
    <3>3. first[c] = None /\ log[c] = <<>> /\ reported[c] = 0
      BY <3>1 DEF JobState
    <3>4. first'[c] = None /\ log'[c] = <<>> /\ reported'[c] = 0 /\ resolution'[c] # "inline"
      BY <1>5, <3>1, <3>3 DEF Launch
    <3>5. Sequenced(c)' /\ NoFinal(c)' /\ Handed(c)' = 0
      BY <3>4 DEF Sequenced, NoFinal, Handed
    <3> QED BY <2>2, <3>2, <3>4, <3>5, NowPolling
  <2> QED BY <2>1, <2>2
<1>6. ASSUME NEW c \in Calls, LaunchFails(c) PROVE JobState(j)'
  BY <1>6, JobFrame DEF LaunchFails, GoCall, Finish, ReleaseSlot
<1>7. ASSUME NEW c \in Calls, WaitEnds(c) PROVE JobState(j)'
  BY <1>7, JobFrame DEF WaitEnds, GoCall
<1>8. ASSUME NEW c \in Calls, Claim(c) PROVE JobState(j)'
  <2>1. CASE j # c
    <3>1. resolution'[j] = resolution[j]
      BY <1>8, <2>1 DEF Claim, TakeInline, Latch!Propose
    <3>2. log'[j] = log[j]
      BY <1>8, <2>1 DEF Claim, TakeInline
    <3> QED BY <1>8, <3>1, <3>2, JobFrame DEF Claim, TakeInline
  <2>2. CASE j = c /\ log'[c] = log[c] /\ resolution'[c] # "inline"
    <3>1. resolution[c] # "inline" /\ resolution'[c] # "none"
      <4>1. resolution[c] # "inline"
        BY <1>8 DEF Claim, TakeInline, CallState
      <4>2. Latch!ClaimProposal(call[c] = "intime") \in {"inline", "detached"}
        BY DEF Latch!ClaimProposal
      <4> QED BY <1>8, <4>1, <4>2, ProposeTyped DEF Claim, TakeInline, Latch!LatchTypeOK
    <3> QED BY <1>8, <2>2, <3>1, LogFrame, EmptyLog DEF Claim, TakeInline, JobState, Continues, Exited
  <2>3. CASE j = c /\ Latch!Decision(c, Latch!ClaimProposal(call[c] = "intime")) = "inline"
    <3>1. first[c] # None /\ resolution'[c] = "inline" /\ log' = [log EXCEPT ![c] = Append(@, first[c])]
      <4>1. log' = [log EXCEPT ![c] = Append(@, first[c])]
        BY <1>8, <2>3 DEF Claim, TakeInline
      <4>2. resolution'[c] = "inline"
        BY <1>8, <2>3 DEF Claim, TakeInline, Latch!Propose, Latch!LatchTypeOK
      <4> QED BY <1>8, <2>3, <4>1, <4>2, InlineInTime DEF Claim, TakeInline
    <3>2. watch[c] = "offered" /\ resolution[c] = "none"
      BY <1>8, <2>3, <3>1 DEF Claim, TakeInline, CallState, JobState, Latch!Decision, Latch!ClaimProposal,
          Latch!Resolutions
    <3>3. log[c] = <<>> /\ log'[c] = <<report[c]>>
      <4>1. log[c] = <<>> /\ first[c] = report[c]
        BY <3>2 DEF JobState
      <4> QED BY <3>1, <4>1
    <3>4. Sequenced(c)'
      <4>1. report[c].from = 0
        BY <3>2 DEF JobState
      <4>2. Len(log'[c]) = 1 /\ DOMAIN log'[c] = {1} /\ log'[c][1] = report[c]
        BY <3>3
      <4> QED BY <4>1, <4>2 DEF Sequenced
    <3>5. /\ watch'[c] = "offered" /\ first'[c] = first[c] /\ report'[c] = report[c]
          /\ reported'[c] = reported[c] /\ turns'[c] = turns[c] /\ process'[c] = process[c]
      BY <1>8, <3>2 DEF Claim
    <3> QED BY <2>3, <3>1, <3>2, <3>3, <3>4, <3>5 DEF JobState, Exited, Ending
  <2>4. CASE j = c /\ Latch!Decision(c, Latch!ClaimProposal(call[c] = "intime")) # "inline"
    <3>1. log' = log
      BY <1>8, <2>4 DEF Claim, TakeInline
    <3>2. resolution'[c] # "inline"
      BY <1>8, <2>4 DEF Claim, TakeInline, Latch!Propose, Latch!LatchTypeOK
    <3> QED BY <2>2, <2>4, <3>1, <3>2
  <2> QED BY <2>1, <2>3, <2>4
<1>9. ASSUME NEW c \in Calls, CodeFinish(c) PROVE JobState(j)'
  BY <1>9, JobFrame DEF CodeFinish, GoCall, Finish, ReleaseSlot
<1>10. ASSUME NEW i \in Jobs, EndTurn(i) PROVE JobState(j)'
  <2>1. CASE j # i
    BY <1>10, <2>1, JobFrame DEF EndTurn
  <2>2. CASE j = i
    BY <1>10, <2>2, LogFrame, EmptyLog DEF EndTurn, Over, JobState, Continues, Exited
  <2> QED BY <2>1, <2>2
<1>11. ASSUME NEW i \in Jobs, Exit(i) PROVE JobState(j)'
  <2>1. CASE j # i
    BY <1>11, <2>1, JobFrame DEF Exit, Over
  <2>2. CASE j = i
    <3>1. process'[i] \in Over /\ process[i] = "running" /\ ~Exited(i)
      BY <1>11 DEF Exit, Exited, Over
    <3> QED BY <1>11, <2>2, <3>1, LogFrame, EmptyLog DEF Exit, Over, JobState, Continues, Exited
  <2> QED BY <2>1, <2>2
<1>12. ASSUME NEW i \in Jobs, Poll(i) PROVE JobState(j)'
  <2>1. CASE j # i
    BY <1>12, <2>1, JobFrame DEF Poll, GoWatch
  <2>2. CASE j = i
    <3>1. /\ watch[i] \in {"polling", "settling"}
          /\ watch'[i] \in {"exited", "settling", "interim"}
          /\ watch'[i] = "exited" => Exited(i)
      BY <1>12 DEF Poll, GoWatch
    <3>2. /\ process'[i] = process[i] /\ reported'[i] = reported[i] /\ first'[i] = first[i]
          /\ log'[i] = log[i] /\ resolution'[i] = resolution[i]
      BY <1>12 DEF Poll
    <3>3. /\ process[i] # "none" /\ Sequenced(i) /\ NoFinal(i) /\ Handed(i) = reported[i]
          /\ first[i] = None => log[i] = <<>> /\ resolution[i] # "inline"
          /\ first[i] # None => resolution[i] # "none"
      BY <3>1 DEF JobState
    <3>4. Sequenced(i)' /\ NoFinal(i)' /\ Handed(i)' = reported'[i] /\ (Exited(i) => Exited(i)')
      BY <3>2, <3>3, LogFrame DEF Exited
    <3> QED BY <2>2, <3>1, <3>2, <3>3, <3>4, NowPolling
  <2> QED BY <2>1, <2>2
<1>13. ASSUME NEW i \in Jobs, Settle(i) PROVE JobState(j)'
  <2>1. CASE j # i
    BY <1>13, <2>1, JobFrame DEF Settle, GoWatch
  <2>2. CASE j = i
    <3>1. /\ watch[i] \in {"polling", "settling"}
          /\ watch'[i] \in {"exited", "settling", "interim"}
          /\ watch'[i] = "exited" => Exited(i)
      BY <1>13 DEF Settle, GoWatch
    <3>2. /\ process'[i] = process[i] /\ reported'[i] = reported[i] /\ first'[i] = first[i]
          /\ log'[i] = log[i] /\ resolution'[i] = resolution[i]
      BY <1>13 DEF Settle
    <3>3. /\ process[i] # "none" /\ Sequenced(i) /\ NoFinal(i) /\ Handed(i) = reported[i]
          /\ first[i] = None => log[i] = <<>> /\ resolution[i] # "inline"
          /\ first[i] # None => resolution[i] # "none"
      BY <3>1 DEF JobState
    <3>4. Sequenced(i)' /\ NoFinal(i)' /\ Handed(i)' = reported'[i] /\ (Exited(i) => Exited(i)')
      BY <3>2, <3>3, LogFrame DEF Exited
    <3> QED BY <2>2, <3>1, <3>2, <3>3, <3>4, NowPolling
  <2> QED BY <2>1, <2>2
<1>14. ASSUME NEW i \in Jobs, Interim(i) PROVE JobState(j)'
  <2>1. CASE j # i
    BY <1>14, <2>1, JobFrame DEF Interim, GoWatch, Offer, NextReport
  <2>2. CASE j = i
    <3>1. report'[i] = NextReport(i, FALSE) /\ reported'[i] = turns[i]
      BY <1>14 DEF Interim, Offer
    <3>2. report'[i].from = Handed(i) /\ report'[i].upto = reported'[i] /\ ~report'[i].final
      BY <1>14, <3>1 DEF Interim, NextReport, JobState
    <3>3. CASE first[i] = None
      <4>1. watch'[i] = "offered" /\ first'[i] = report'[i] /\ log[i] = <<>> /\ first'[i] # None
        BY <1>14, <3>1, <3>3, NextReportTyped DEF Interim, Offer, GoWatch, JobState
      <4>2. resolution[i] # "inline"
        BY <1>14, <3>3, <3>1 DEF Interim, JobState
      <4>3. Handed(i) = 0 /\ process[i] # "none"
        BY <1>14, <4>1, EmptyLog DEF Interim, JobState
      <4>4. process'[i] # "none" /\ log'[i] = <<>> /\ resolution'[i] # "inline"
        BY <1>14, <4>1, <4>2, <4>3 DEF Interim
      <4> QED BY <2>2, <3>2, <4>1, <4>3, <4>4, NowOffered
    <3>4. CASE first[i] # None
      <4>1. watch'[i] = "posting" /\ first' = first
        BY <1>14, <3>4 DEF Interim, Offer, GoWatch
      <4>2. process[i] # "none" /\ Sequenced(i) /\ NoFinal(i) /\ resolution[i] # "none"
        BY <1>14, <3>4 DEF Interim, JobState
      <4>3. process'[i] # "none" /\ resolution'[i] # "none" /\ log'[i] = log[i]
        BY <1>14, <4>2 DEF Interim
      <4>4. Sequenced(i)' /\ Continues(i)'
        BY <3>2, <4>2, <4>3, LogFrame DEF Continues
      <4> QED BY <2>2, <3>4, <4>1, <4>3, <4>4, NowPosting
    <3> QED BY <3>3, <3>4
  <2> QED BY <2>1, <2>2
<1>15. ASSUME NEW i \in Jobs, LatchSettles(i) PROVE JobState(j)'
  <2>1. CASE j # i
    <3>1. resolution'[j] = resolution[j] /\ watch'[j] = watch[j]
      BY <1>15, <2>1 DEF LatchSettles, Latch!Propose, GoWatch
    <3> QED BY <1>15, <3>1, JobFrame DEF LatchSettles
  <2>2. CASE j = i /\ resolution[i] = "inline"
    <3>1. watch'[i] = Onwards(i) /\ resolution'[i] = "inline" /\ watch[i] = "offered"
      BY <1>15, <2>2 DEF LatchSettles, GoWatch, Latch!Propose, Latch!Decision
    <3>2. log[i] = <<report[i]>>
      BY <1>15, <2>2 DEF LatchSettles, JobState
    <3>3. Handed(i) = report[i].upto /\ (~report[i].final => NoFinal(i)) /\ (report[i].final => Complete(i))
      BY <1>15, <2>2, <3>1, <3>2 DEF Handed, NoFinal, Complete, JobState
    <3>4. /\ report[i].upto = reported[i] /\ (report[i].final => Exited(i)) /\ process[i] # "none"
          /\ first[i] # None /\ Sequenced(i)
      BY <3>1 DEF JobState
    <3>5. /\ process'[i] = process[i] /\ reported'[i] = reported[i] /\ first'[i] = first[i]
          /\ log'[i] = log[i] /\ turns'[i] = turns[i]
      BY <1>15 DEF LatchSettles
    <3>6. CASE report[i].final
      <4>1. watch'[i] = "over" /\ Complete(i)' /\ Sequenced(i)' /\ Exited(i)'
        BY <3>1, <3>3, <3>4, <3>5, <3>6, LogFrame DEF Onwards, Exited
      <4> QED BY <2>2, <3>1, <3>4, <3>5, <4>1, NowReported
    <3>7. CASE ~report[i].final
      <4>1. watch'[i] = "polling" /\ NoFinal(i)' /\ Sequenced(i)' /\ Handed(i)' = reported'[i]
        BY <3>1, <3>3, <3>4, <3>5, <3>7, LogFrame DEF Onwards
      <4> QED BY <2>2, <3>1, <3>4, <3>5, <4>1, NowPolling
    <3> QED BY <3>6, <3>7
  <2>3. CASE j = i /\ resolution[i] # "inline"
    <3>1. watch'[i] = "posting" /\ resolution'[i] = "detached" /\ watch[i] = "offered" /\ log[i] = <<>>
      <4>1. watch[i] = "offered" /\ log[i] = <<>>
        BY <1>15, <2>3 DEF LatchSettles, JobState
      <4>2. Latch!Decision(i, "detached") = "detached" /\ resolution'[i] = "detached"
        BY <1>15, <2>3, ProposeTyped DEF LatchSettles, Latch!Decision, Latch!Resolutions,
            Latch!LatchTypeOK
      <4>3. watch'[i] = "posting"
        BY <1>15, <4>2 DEF LatchSettles, GoWatch
      <4> QED BY <4>1, <4>2, <4>3
    <3>2. /\ report[i].upto = reported[i] /\ report[i].from = 0 /\ process[i] # "none"
          /\ (report[i].final => Exited(i) /\ reported[i] = turns[i])
          /\ first[i] # None /\ Sequenced(i) /\ NoFinal(i) /\ Handed(i) = 0
      BY <3>1, EmptyLog DEF JobState
    <3>3. /\ process'[i] = process[i] /\ reported'[i] = reported[i] /\ first'[i] = first[i]
          /\ log'[i] = log[i] /\ turns'[i] = turns[i] /\ report'[i] = report[i]
      BY <1>15 DEF LatchSettles
    <3>4. Continues(i)' /\ Sequenced(i)'
      BY <3>2, <3>3, LogFrame DEF Continues, Exited
    <3> QED BY <2>3, <3>1, <3>2, <3>3, <3>4, NowPosting
  <2> QED BY <2>1, <2>2, <2>3
<1>16. ASSUME NEW i \in Jobs, BuildFinal(i) PROVE JobState(j)'
  <2>1. CASE j # i
    BY <1>16, <2>1, JobFrame DEF BuildFinal, GoWatch, NextReport
  <2>2. CASE j = i
    <3>1. report'[i] = NextReport(i, TRUE) /\ reported'[i] = turns[i] /\ watch'[i] = "taking" /\ watch[i] = "exited"
      BY <1>16 DEF BuildFinal, GoWatch
    <3>2. report'[i].from = Handed(i) /\ report'[i].upto = reported'[i] /\ report'[i].final
      BY <3>1 DEF NextReport, JobState
    <3> QED BY <1>16, <2>2, <3>1, <3>2, LogFrame, EmptyLog DEF BuildFinal, Ending, JobState,
        Continues, Exited
  <2> QED BY <2>1, <2>2
<1>17. ASSUME NEW i \in Jobs, TakeFollowups(i) PROVE JobState(j)'
  <2>1. PICK named \in SUBSET ToolCalls : report' = [report EXCEPT ![i].notes = named]
    BY <1>17 DEF TakeFollowups
  <2>2. ReportKept(i)
    BY <2>1, NotesAdded DEF ReportKept
  <2>3. CASE j # i
    BY <1>17, <2>2, <2>3, JobFrame DEF TakeFollowups, GoWatch, ReportKept
  <2>4. CASE j = i
    <3>1. watch[i] = "taking" /\ watch'[i] \in {"reporting", "preparing"}
      BY <1>17 DEF TakeFollowups, GoWatch
    <3> QED BY <1>17, <2>2, <2>4, <3>1, EndingKept DEF TakeFollowups, Ending
  <2> QED BY <2>3, <2>4
<1>18. ASSUME NEW i \in Jobs, PrepareFails(i) PROVE JobState(j)'
  <2>1. NameDropped(i)
    BY <1>18 DEF PrepareFails
  <2>2. ReportKept(i)
    BY <2>1, NameDroppedTyped DEF ReportKept
  <2>3. CASE j # i
    BY <1>18, <2>1, <2>2, <2>3, JobFrame DEF PrepareFails, NameDropped, GoWatch, ReportKept
  <2>4. CASE j = i
    <3>1. watch[i] = "preparing" /\ watch'[i] = "reporting"
      BY <1>18, <2>1 DEF PrepareFails, NameDropped, GoWatch
    <3> QED BY <1>18, <2>2, <2>4, <3>1, EndingKept DEF PrepareFails, Ending
  <2> QED BY <2>3, <2>4
<1>19. ASSUME NEW i \in Jobs, ReportFinal(i) PROVE JobState(j)'
  <2>1. CASE j # i
    BY <1>19, <2>1, JobFrame DEF ReportFinal, GoWatch, Offer
  <2>2. CASE j = i
    <3>1. report' = report /\ report[i].final /\ Continues(i) /\ report[i] # None
      BY <1>19, ReportIsReport DEF ReportFinal, Offer, JobState, Ending
    <3>2. CASE first[i] = None
      <4>1. watch'[i] = "offered" /\ first'[i] = report[i] /\ log[i] = <<>>
        BY <1>19, <3>2 DEF ReportFinal, Offer, GoWatch, JobState
      <4>2. resolution[i] # "inline"
        BY <1>19, <3>2 DEF ReportFinal, JobState
      <4> QED BY <1>19, <2>2, <3>1, <4>1, <4>2, LogFrame, EmptyLog
          DEF ReportFinal, Over, JobState, Continues, Exited
    <3>3. CASE first[i] # None
      <4>1. watch'[i] = "posting" /\ first' = first
        BY <1>19, <3>3 DEF ReportFinal, Offer, GoWatch
      <4> QED BY <1>19, <2>2, <3>1, <3>3, <4>1, LogFrame, EmptyLog
          DEF ReportFinal, Over, JobState, Continues, Exited
    <3> QED BY <3>2, <3>3
  <2> QED BY <2>1, <2>2
<1>20. ASSUME NEW i \in Jobs, Post(i) PROVE JobState(j)'
  <2>1. CASE j # i
    <3>1. log'[j] = log[j] /\ watch'[j] = watch[j]
      BY <1>20, <2>1 DEF Post, GoWatch
    <3> QED BY <1>20, <3>1, JobFrame DEF Post
  <2>2. CASE j = i
    <3>1. watch[i] = "posting" /\ Continues(i) /\ first[i] # None /\ process[i] # "none" /\ Sequenced(i)
      BY <1>20 DEF Post, JobState
    <3>2. watch'[i] = IF report[i].final THEN (IF i \in code THEN "releasing" ELSE "over") ELSE "polling"
      BY <1>20 DEF Post, GoWatch, Onwards
    <3>3. CASE Silent(i)
      BY <1>20, <2>2, <3>1, <3>2, <3>3, LogFrame, EmptyLog DEF Post, Silent, JobState, Continues,
          Exited
    <3>4. CASE ~Silent(i)
      <4>1. log'[i] = Append(log[i], report[i])
        BY <1>20, <3>4 DEF Post
      <4>2. /\ Sequenced(i)' /\ (~report[i].final => NoFinal(i)')
            /\ Handed(i)' = report[i].upto
            /\ log'[i] # <<>> /\ log'[i][Len(log'[i])] = report[i]
        BY <3>1, <4>1, LogGrows DEF Continues
      <4>3. report[i].final => Complete(i)'
        BY <1>20, <3>1, <4>2 DEF Post, Complete, Continues
      <4>4. resolution[i] # "none"
        BY <3>1 DEF JobState
      <4>5. /\ process'[i] = process[i] /\ reported'[i] = reported[i] /\ first'[i] = first[i]
            /\ resolution'[i] = resolution[i]
        BY <1>20 DEF Post
      <4>6. CASE report[i].final
        <5>1. Exited(i)' /\ watch'[i] \in {"releasing", "over"}
          BY <3>1, <3>2, <4>5, <4>6 DEF Continues, Exited
        <5> QED BY <2>2, <3>1, <4>2, <4>3, <4>4, <4>5, <4>6, <5>1, NowReported
      <4>7. CASE ~report[i].final
        <5>1. watch'[i] = "polling" /\ Handed(i)' = reported'[i]
          BY <3>1, <3>2, <4>2, <4>5, <4>7 DEF Continues
        <5> QED BY <2>2, <3>1, <4>2, <4>4, <4>5, <4>7, <5>1, NowPolling
      <4> QED BY <4>6, <4>7
    <3> QED BY <3>3, <3>4
  <2> QED BY <2>1, <2>2
<1>21. ASSUME NEW i \in Jobs, Release(i) PROVE JobState(j)'
  <2>1. CASE j # i
    BY <1>21, <2>1, JobFrame DEF Release, GoWatch, ReleaseSlot
  <2>2. CASE j = i
    BY <1>21, <2>2, LogFrame, EmptyLog DEF Release, GoWatch, Ending, JobState, Continues, Exited
  <2> QED BY <2>1, <2>2
<1>22. ASSUME NEW i \in Jobs, NEW k \in Spares, PrepareFollowup(i, k) PROVE JobState(j)'
  <2>1. i # k /\ watch[k] = "none" /\ watch[i] = "preparing"
    BY <1>22, JobNames DEF PrepareFollowup, FollowState
  <2>2. resolution'[k] # "inline" /\ \A x \in Jobs \ {k} : resolution'[x] = resolution[x]
    BY <1>22, JobNames DEF PrepareFollowup, Latch!Propose, Latch!Decision, FollowState
  <2>3. watch' = [watch EXCEPT ![i] = "starting"]
    BY <1>22 DEF PrepareFollowup, GoWatch
  <2>4. CASE j \notin {i, k}
    BY <1>22, <2>2, <2>3, <2>4, JobFrame DEF PrepareFollowup
  <2>5. CASE j = k
    BY <1>22, <2>1, <2>2, <2>3, <2>5, LogFrame, EmptyLog DEF PrepareFollowup, Ending, JobState,
        Continues, Exited
  <2>6. CASE j = i
    <3>1. watch'[i] = "starting" /\ resolution'[i] = resolution[i] /\ ReportKept(i)
      BY <1>22, <2>1, <2>2, <2>3 DEF PrepareFollowup, ReportKept
    <3> QED BY <1>22, <2>1, <2>6, <3>1, EndingKept DEF PrepareFollowup, Ending
  <2> QED BY <2>4, <2>5, <2>6
<1>23. ASSUME NEW i \in Jobs, NEW k \in Spares, StartFollowup(i, k) PROVE JobState(j)'
  <2>1. i # k /\ watch[k] = "none" /\ watch[i] = "starting"
    BY <1>23, JobNames DEF StartFollowup, FollowState
  <2>2. CASE j \notin {i, k}
    BY <1>23, <2>2, JobFrame DEF StartFollowup
  <2>3. CASE j = k
    <3>1. watch'[k] = "polling" /\ process'[k] = "running"
      BY <1>23, <2>1 DEF StartFollowup
    <3> QED BY <1>23, <2>1, <2>3, <3>1, LogFrame, EmptyLog DEF StartFollowup, Ending, JobState,
        Continues, Exited
  <2>4. CASE j = i
    <3>1. watch'[i] = "reporting" /\ process'[i] = process[i] /\ ReportKept(i)
      BY <1>23, <2>1 DEF StartFollowup, ReportKept
    <3> QED BY <1>23, <2>1, <2>4, <3>1, EndingKept DEF StartFollowup, Ending
  <2> QED BY <2>2, <2>3, <2>4
<1>24. ASSUME NEW i \in Jobs, NEW k \in Spares, StartFollowupFails(i, k) PROVE JobState(j)'
  <2>1. NameDropped(i)
    BY <1>24 DEF StartFollowupFails
  <2>2. ReportKept(i)
    BY <2>1, NameDroppedTyped DEF ReportKept
  <2>3. CASE j # i
    BY <1>24, <2>1, <2>2, <2>3, JobFrame DEF StartFollowupFails, NameDropped, GoWatch, ReportKept
  <2>4. CASE j = i
    <3>1. watch[i] = "starting" /\ watch'[i] = "reporting"
      BY <1>24, <2>1 DEF StartFollowupFails, NameDropped, GoWatch
    <3> QED BY <1>24, <2>2, <2>4, <3>1, EndingKept DEF StartFollowupFails, Ending
  <2> QED BY <2>3, <2>4
<1>25. ASSUME ThreadStep PROVE JobState(j)'
  BY <1>25, JobFrame DEF ThreadStep, Stop, Abort, TurnStarts, Absorb
<1>26. ASSUME UNCHANGED vars PROVE JobState(j)'
  BY <1>26, JobFrame
<1> QED
  BY <1>1, <1>2, <1>3, <1>4, <1>5, <1>6, <1>7, <1>8, <1>9, <1>10, <1>11, <1>12, <1>13, <1>14,
      <1>15, <1>16, <1>17, <1>18, <1>19, <1>20, <1>21, <1>22, <1>23, <1>24, <1>25, <1>26
          DEF Next, CallStep, WatchStep

-----------------------------------------------------------------------------
(* Calls.                                                                   *)

LEMMA CallFrame ==
    ASSUME NEW d \in Calls, CallState(d),
           call'[d] = call[d], watch'[d] = watch[d], resolution'[d] = resolution[d],
           first'[d] = first[d], process'[d] = process[d],
           d \in ToolCalls => target'[d] = target[d]
    PROVE  CallState(d)'
BY JobNames DEF CallState, Exited

(* The watcher of a job a call started moves on.                            *)
LEMMA CallMoves ==
    ASSUME NEW d \in Calls, CallState(d),
           call'[d] = call[d], target' = target, process'[d] = process[d],
           watch[d] # "none", watch'[d] # "none",
           resolution[d] # "inline" => resolution'[d] # "inline",
           first[d] # None => first'[d] # None
    PROVE  CallState(d)'
BY DEF CallState, NotStarted, Exited

LEMMA CallPreserved ==
    ASSUME ReportInv, [Next]_vars, NEW d \in Calls
    PROVE  CallState(d)'
<1> USE JobNames DEF ReportInv, TypeOK, vars, callVars, runVars, watchVars, queueVars, slotVars, threadVars
<1>1. ASSUME NEW c \in Calls, Resolve(c) PROVE CallState(d)'
  <2>1. CASE d # c
    BY <1>1, <2>1, CallFrame DEF Resolve, GoCall
  <2>2. CASE d = c
    BY <1>1, <2>2 DEF Resolve, GoCall, CallState, NotStarted, Exited, Live, Finish
  <2> QED BY <2>1, <2>2
<1>2. ASSUME NEW c \in Calls, CodeLook(c) PROVE CallState(d)'
  <2>1. CASE d # c
    BY <1>2, <2>1, CallFrame DEF CodeLook, GoCall
  <2>2. CASE d = c
    BY <1>2, <2>2 DEF CodeLook, GoCall, CallState, NotStarted, Exited, Live, Finish
  <2> QED BY <2>1, <2>2
<1>3. ASSUME NEW c \in Calls, QueueFollowup(c) PROVE CallState(d)'
  <2>1. CASE d # c
    BY <1>3, <2>1, CallFrame DEF QueueFollowup, GoCall
  <2>2. CASE d = c
    BY <1>3, <2>2 DEF QueueFollowup, GoCall, CallState, NotStarted, Exited, Live, Finish
  <2> QED BY <2>1, <2>2
<1>4. ASSUME NEW c \in Calls, CodeClaim(c) PROVE CallState(d)'
  <2>1. CASE d # c
    BY <1>4, <2>1, CallFrame DEF CodeClaim, GoCall
  <2>2. CASE d = c
    BY <1>4, <2>2 DEF CodeClaim, GoCall, CallState, NotStarted, Exited, Live, Finish
  <2> QED BY <2>1, <2>2
<1>5. ASSUME NEW c \in Calls, Launch(c) PROVE CallState(d)'
  <2>1. CASE d # c
    BY <1>5, <2>1, CallFrame DEF Launch, StartJob, GoCall, GoWatch
  <2>2. CASE d = c
    BY <1>5, <2>2 DEF Launch, StartJob, GoCall, GoWatch, CallState, NotStarted
  <2> QED BY <2>1, <2>2
<1>6. ASSUME NEW c \in Calls, LaunchFails(c) PROVE CallState(d)'
  <2>1. CASE d # c
    BY <1>6, <2>1, CallFrame DEF LaunchFails, GoCall, Finish, ReleaseSlot
  <2>2. CASE d = c
    BY <1>6, <2>2 DEF LaunchFails, GoCall, Finish, ReleaseSlot, CallState, NotStarted, Exited,
        Live, Finish
  <2> QED BY <2>1, <2>2
<1>7. ASSUME NEW c \in Calls, WaitEnds(c) PROVE CallState(d)'
  <2>1. CASE d # c
    BY <1>7, <2>1, CallFrame DEF WaitEnds, GoCall
  <2>2. CASE d = c
    BY <1>7, <2>2 DEF WaitEnds, GoCall, CallState, NotStarted, Exited, Live, Finish
  <2> QED BY <2>1, <2>2
<1>8. ASSUME NEW c \in Calls, Claim(c) PROVE CallState(d)'
  <2>1. CASE d # c
    <3>1. resolution'[d] = resolution[d] /\ call'[d] = call[d]
      BY <1>8, <2>1 DEF Claim, TakeInline, Latch!Propose, GoCall
    <3> QED BY <1>8, <3>1, CallFrame DEF Claim, TakeInline
  <2>2. CASE d = c
    <3>1. call'[c] \in {"finishing", "returned"}
      BY <1>8 DEF Claim, TakeInline, GoCall
    <3>2. call'[c] = "finishing" => Exited(c)
      <4> HAVE call'[c] = "finishing"
      <4>1. first[c] # None /\ first[c].final
            /\ Latch!Decision(c, Latch!ClaimProposal(call[c] = "intime")) = "inline"
        BY <1>8, InlineInTime DEF Claim, TakeInline, GoCall
      <4>2. watch[c] = "offered" /\ resolution[c] = "none"
        BY <1>8, <4>1 DEF Claim, TakeInline, CallState, JobState, Latch!Decision, Latch!ClaimProposal
      <4> QED BY <4>1, <4>2 DEF JobState
    <3>3. process'[c] = process[c] /\ watch'[c] = watch[c]
      BY <1>8 DEF Claim, TakeInline
    <3> QED BY <2>2, <3>1, <3>2, <3>3 DEF CallState, NotStarted, Exited
  <2> QED BY <2>1, <2>2
<1>9. ASSUME NEW c \in Calls, CodeFinish(c) PROVE CallState(d)'
  <2>1. CASE d # c
    BY <1>9, <2>1, CallFrame DEF CodeFinish, GoCall, Finish, ReleaseSlot
  <2>2. CASE d = c
    BY <1>9, <2>2 DEF CodeFinish, GoCall, Finish, ReleaseSlot, CallState, NotStarted, Exited, Live,
        Finish
  <2> QED BY <2>1, <2>2
<1>10. ASSUME NEW i \in Jobs, EndTurn(i) PROVE CallState(d)'
  BY <1>10, CallFrame DEF EndTurn
<1>11. ASSUME NEW i \in Jobs, Exit(i) PROVE CallState(d)'
  <2>1. CASE d # i
    BY <1>11, <2>1, CallFrame DEF Exit
  <2>2. CASE d = i
    <3>1. process'[i] \in Over /\ process[i] = "running"
      BY <1>11 DEF Exit
    <3> QED BY <1>11, <2>2, <3>1 DEF Exit, CallState, NotStarted, Exited
  <2> QED BY <2>1, <2>2
<1>12. ASSUME NEW i \in Jobs, Poll(i) PROVE CallState(d)'
  <2>1. CASE d # i
    BY <1>12, <2>1, CallFrame DEF Poll, GoWatch
  <2>2. CASE d = i
    <3>1. watch[i] # "none" /\ watch'[i] # "none"
      BY <1>12 DEF Poll, GoWatch
    <3> QED BY <1>12, <2>2, <3>1, CallMoves DEF Poll
  <2> QED BY <2>1, <2>2
<1>13. ASSUME NEW i \in Jobs, Settle(i) PROVE CallState(d)'
  <2>1. CASE d # i
    BY <1>13, <2>1, CallFrame DEF Settle, GoWatch
  <2>2. CASE d = i
    <3>1. watch[i] # "none" /\ watch'[i] # "none"
      BY <1>13 DEF Settle, GoWatch
    <3> QED BY <1>13, <2>2, <3>1, CallMoves DEF Settle
  <2> QED BY <2>1, <2>2
<1>14. ASSUME NEW i \in Jobs, Interim(i) PROVE CallState(d)'
  <2>1. CASE d # i
    BY <1>14, <2>1, CallFrame DEF Interim, GoWatch, Offer, NextReport
  <2>2. CASE d = i
    <3>1. watch[i] # "none" /\ watch'[i] # "none" /\ (first[i] # None => first'[i] # None)
      BY <1>14 DEF Interim, GoWatch, Offer, NextReport
    <3> QED BY <1>14, <2>2, <3>1, CallMoves DEF Interim
  <2> QED BY <2>1, <2>2
<1>15. ASSUME NEW i \in Jobs, LatchSettles(i) PROVE CallState(d)'
  <2>1. CASE d # i
    <3>1. resolution'[d] = resolution[d] /\ watch'[d] = watch[d]
      BY <1>15, <2>1 DEF LatchSettles, Latch!Propose, GoWatch
    <3> QED BY <1>15, <3>1, CallFrame DEF LatchSettles
  <2>2. CASE d = i
    <3>1. watch[i] # "none" /\ watch'[i] # "none"
      BY <1>15 DEF LatchSettles, GoWatch, Onwards
    <3>2. resolution[i] # "inline" => resolution'[i] # "inline"
      BY <1>15 DEF LatchSettles, Latch!Propose, Latch!Decision, Latch!LatchTypeOK
    <3> QED BY <1>15, <2>2, <3>1, <3>2, CallMoves DEF LatchSettles
  <2> QED BY <2>1, <2>2
<1>16. ASSUME NEW i \in Jobs, BuildFinal(i) PROVE CallState(d)'
  <2>1. CASE d # i
    BY <1>16, <2>1, CallFrame DEF BuildFinal, GoWatch, NextReport
  <2>2. CASE d = i
    <3>1. watch[i] # "none" /\ watch'[i] # "none"
      BY <1>16 DEF BuildFinal, GoWatch, NextReport
    <3> QED BY <1>16, <2>2, <3>1, CallMoves DEF BuildFinal
  <2> QED BY <2>1, <2>2
<1>17. ASSUME NEW i \in Jobs, TakeFollowups(i) PROVE CallState(d)'
  <2>1. CASE d # i
    BY <1>17, <2>1, CallFrame DEF TakeFollowups, GoWatch
  <2>2. CASE d = i
    <3>1. watch[i] # "none" /\ watch'[i] # "none"
      BY <1>17 DEF TakeFollowups, GoWatch
    <3> QED BY <1>17, <2>2, <3>1, CallMoves DEF TakeFollowups
  <2> QED BY <2>1, <2>2
<1>18. ASSUME NEW i \in Jobs, PrepareFails(i) PROVE CallState(d)'
  <2>1. CASE d # i
    BY <1>18, <2>1, CallFrame DEF PrepareFails, GoWatch, NameDropped
  <2>2. CASE d = i
    <3>1. watch[i] # "none" /\ watch'[i] # "none"
      BY <1>18 DEF PrepareFails, GoWatch, NameDropped
    <3> QED BY <1>18, <2>2, <3>1, CallMoves DEF PrepareFails
  <2> QED BY <2>1, <2>2
<1>19. ASSUME NEW i \in Jobs, ReportFinal(i) PROVE CallState(d)'
  <2>1. CASE d # i
    BY <1>19, <2>1, CallFrame DEF ReportFinal, GoWatch, Offer
  <2>2. CASE d = i
    <3>1. watch[i] # "none" /\ watch'[i] # "none" /\ (first[i] # None => first'[i] # None)
      BY <1>19 DEF ReportFinal, GoWatch, Offer
    <3> QED BY <1>19, <2>2, <3>1, CallMoves DEF ReportFinal
  <2> QED BY <2>1, <2>2
<1>20. ASSUME NEW i \in Jobs, Post(i) PROVE CallState(d)'
  <2>1. CASE d # i
    BY <1>20, <2>1, CallFrame DEF Post, GoWatch, Onwards
  <2>2. CASE d = i
    <3>1. watch[i] # "none" /\ watch'[i] # "none"
      BY <1>20 DEF Post, GoWatch, Onwards
    <3> QED BY <1>20, <2>2, <3>1, CallMoves DEF Post
  <2> QED BY <2>1, <2>2
<1>21. ASSUME NEW i \in Jobs, Release(i) PROVE CallState(d)'
  <2>1. CASE d # i
    BY <1>21, <2>1, CallFrame DEF Release, GoWatch, ReleaseSlot
  <2>2. CASE d = i
    <3>1. watch[i] # "none" /\ watch'[i] # "none"
      BY <1>21 DEF Release, GoWatch, ReleaseSlot
    <3> QED BY <1>21, <2>2, <3>1, CallMoves DEF Release
  <2> QED BY <2>1, <2>2
<1>22. ASSUME NEW i \in Jobs, NEW k \in Spares, PrepareFollowup(i, k) PROVE CallState(d)'
  <2>1. d # k /\ resolution'[d] = resolution[d]
    BY <1>22 DEF PrepareFollowup, Latch!Propose
  <2>2. CASE d # i
    BY <1>22, <2>1, <2>2, CallFrame DEF PrepareFollowup, GoWatch
  <2>3. CASE d = i
    <3>1. watch[i] # "none" /\ watch'[i] # "none"
      BY <1>22 DEF PrepareFollowup, GoWatch
    <3> QED BY <1>22, <2>1, <2>3, <3>1, CallMoves DEF PrepareFollowup
  <2> QED BY <2>2, <2>3
<1>23. ASSUME NEW i \in Jobs, NEW k \in Spares, StartFollowup(i, k) PROVE CallState(d)'
  <2>1. d # k /\ process'[d] = process[d]
    BY <1>23 DEF StartFollowup
  <2>2. CASE d # i
    BY <1>23, <2>1, <2>2, CallFrame DEF StartFollowup
  <2>3. CASE d = i
    <3>1. watch[i] # "none" /\ watch'[i] # "none"
      BY <1>23, <2>1, <2>3 DEF StartFollowup
    <3> QED BY <1>23, <2>1, <2>3, <3>1, CallMoves DEF StartFollowup
  <2> QED BY <2>2, <2>3
<1>24. ASSUME NEW i \in Jobs, NEW k \in Spares, StartFollowupFails(i, k) PROVE CallState(d)'
  <2>1. CASE d # i
    BY <1>24, <2>1, CallFrame DEF StartFollowupFails, GoWatch, NameDropped, Finish, ReleaseSlot
  <2>2. CASE d = i
    <3>1. watch[i] # "none" /\ watch'[i] # "none"
      BY <1>24 DEF StartFollowupFails, GoWatch, NameDropped, Finish, ReleaseSlot
    <3> QED BY <1>24, <2>2, <3>1, CallMoves DEF StartFollowupFails, Finish
  <2> QED BY <2>1, <2>2
<1>25. ASSUME ThreadStep PROVE CallState(d)'
  BY <1>25, CallFrame DEF ThreadStep, Stop, Abort, TurnStarts, Absorb
<1>26. ASSUME UNCHANGED vars PROVE CallState(d)'
  BY <1>26, CallFrame
<1> QED
  BY <1>1, <1>2, <1>3, <1>4, <1>5, <1>6, <1>7, <1>8, <1>9, <1>10, <1>11, <1>12, <1>13, <1>14,
      <1>15, <1>16, <1>17, <1>18, <1>19, <1>20, <1>21, <1>22, <1>23, <1>24, <1>25, <1>26
          DEF Next, CallStep, WatchStep

-----------------------------------------------------------------------------
(* Follow-up jobs.                                                          *)

LEMMA FollowFrame ==
    ASSUME NEW h \in Spares, FollowState(h), UNCHANGED <<watch, report, follows>>,
           resolution'[h] = resolution[h]
    PROVE  FollowState(h)'
BY DEF FollowState, Followed

(* One watcher moves on, from a place where its job may be followed only to *)
(* another such place.                                                      *)
LEMMA FollowMoves ==
    ASSUME TypeOK, NEW h \in Spares, FollowState(h), NEW i \in Jobs,
           \E place \in WatchPCs \ {"none", "starting"} : watch' = [watch EXCEPT ![i] = place],
           watch[i] # "none", Followed(i) => Followed(i)',
           \A x \in Jobs \ {i} : report'[x] = report[x],
           follows' = follows, resolution'[h] # "inline"
    PROVE  FollowState(h)'
<1>1. /\ \A x \in Jobs \ {i} : watch'[x] = watch[x]
      /\ watch'[i] # "none" /\ watch'[i] # "starting"
  BY DEF TypeOK
<1>2. \A x \in Jobs : Followed(x) => Followed(x)'
  BY <1>1 DEF Followed
<1>3. h \in Jobs
  BY JobNames
<1> QED BY <1>1, <1>2, <1>3 DEF FollowState

LEMMA FollowPreserved ==
    ASSUME ReportInv, [Next]_vars, NEW h \in Spares
    PROVE  FollowState(h)'
<1> USE JobNames DEF ReportInv, TypeOK, vars, callVars, runVars, watchVars, queueVars, slotVars, threadVars
<1>1. ASSUME NEW c \in Calls, Resolve(c) PROVE FollowState(h)'
  BY <1>1, FollowFrame DEF Resolve
<1>2. ASSUME NEW c \in Calls, CodeLook(c) PROVE FollowState(h)'
  BY <1>2, FollowFrame DEF CodeLook
<1>3. ASSUME NEW c \in Calls, QueueFollowup(c) PROVE FollowState(h)'
  BY <1>3, FollowFrame DEF QueueFollowup
<1>4. ASSUME NEW c \in Calls, CodeClaim(c) PROVE FollowState(h)'
  BY <1>4, FollowFrame DEF CodeClaim
<1>5. ASSUME NEW c \in Calls, Launch(c) PROVE FollowState(h)'
  <2>1. watch[c] = "none"
    BY <1>5 DEF Launch, CallState, NotStarted
  <2>2. watch' = [watch EXCEPT ![c] = "polling"]
    BY <1>5 DEF Launch, StartJob, GoWatch
  <2>3. h # c /\ follows[h] # c
    <3>1. ~Followed(c)
      BY <2>1 DEF Followed
    <3>2. follows[h] # c
      BY <3>1 DEF FollowState
    <3> QED BY <3>2
  <2> QED BY <1>5, <2>2, <2>3 DEF Launch, FollowState, Followed
<1>6. ASSUME NEW c \in Calls, LaunchFails(c) PROVE FollowState(h)'
  BY <1>6, FollowFrame DEF LaunchFails, Finish
<1>7. ASSUME NEW c \in Calls, WaitEnds(c) PROVE FollowState(h)'
  BY <1>7, FollowFrame DEF WaitEnds
<1>8. ASSUME NEW c \in Calls, Claim(c) PROVE FollowState(h)'
  <2>1. resolution'[h] = resolution[h]
    BY <1>8 DEF Claim, TakeInline, Latch!Propose
  <2> QED BY <1>8, <2>1, FollowFrame DEF Claim, TakeInline
<1>9. ASSUME NEW c \in Calls, CodeFinish(c) PROVE FollowState(h)'
  BY <1>9, FollowFrame DEF CodeFinish, Finish
<1>10. ASSUME NEW i \in Jobs, EndTurn(i) PROVE FollowState(h)'
  BY <1>10, FollowFrame DEF EndTurn
<1>11. ASSUME NEW i \in Jobs, Exit(i) PROVE FollowState(h)'
  BY <1>11, FollowFrame DEF Exit
<1>12. ASSUME NEW i \in Jobs, Poll(i) PROVE FollowState(h)'
  <2>1. \A x \in Jobs \ {i} : report'[x] = report[x]
    BY <1>12 DEF Poll
  <2>2. /\ \E place \in WatchPCs \ {"none", "starting"} : watch' = [watch EXCEPT ![i] = place]
        /\ watch[i] # "none" /\ (Followed(i) => Followed(i)')
    BY <1>12 DEF Poll, GoWatch, WatchPCs, Followed
  <2>3. resolution'[h] # "inline"
    BY <1>12 DEF Poll, FollowState
  <2> QED BY <1>12, <2>1, <2>2, <2>3, FollowMoves DEF Poll
<1>13. ASSUME NEW i \in Jobs, Settle(i) PROVE FollowState(h)'
  <2>1. \A x \in Jobs \ {i} : report'[x] = report[x]
    BY <1>13 DEF Settle
  <2>2. /\ \E place \in WatchPCs \ {"none", "starting"} : watch' = [watch EXCEPT ![i] = place]
        /\ watch[i] # "none" /\ (Followed(i) => Followed(i)')
    BY <1>13 DEF Settle, GoWatch, WatchPCs, Followed
  <2>3. resolution'[h] # "inline"
    BY <1>13 DEF Settle, FollowState
  <2> QED BY <1>13, <2>1, <2>2, <2>3, FollowMoves DEF Settle
<1>14. ASSUME NEW i \in Jobs, Interim(i) PROVE FollowState(h)'
  <2>1. \A x \in Jobs \ {i} : report'[x] = report[x]
    BY <1>14 DEF Interim, Offer
  <2>2. /\ \E place \in WatchPCs \ {"none", "starting"} : watch' = [watch EXCEPT ![i] = place]
        /\ watch[i] # "none" /\ (Followed(i) => Followed(i)')
    BY <1>14 DEF Interim, GoWatch, Offer, WatchPCs, Followed
  <2>3. resolution'[h] # "inline"
    BY <1>14 DEF Interim, FollowState
  <2> QED BY <1>14, <2>1, <2>2, <2>3, FollowMoves DEF Interim
<1>15. ASSUME NEW i \in Jobs, LatchSettles(i) PROVE FollowState(h)'
  <2>1. \A x \in Jobs \ {i} : report'[x] = report[x]
    BY <1>15 DEF LatchSettles
  <2>2. /\ \E place \in WatchPCs \ {"none", "starting"} : watch' = [watch EXCEPT ![i] = place]
        /\ watch[i] # "none" /\ (Followed(i) => Followed(i)')
    BY <1>15 DEF LatchSettles, GoWatch, WatchPCs, Followed, Onwards
  <2>3. resolution'[h] # "inline"
    BY <1>15 DEF LatchSettles, Latch!Propose, Latch!Decision, FollowState, Latch!LatchTypeOK
  <2> QED BY <1>15, <2>1, <2>2, <2>3, FollowMoves DEF LatchSettles
<1>16. ASSUME NEW i \in Jobs, BuildFinal(i) PROVE FollowState(h)'
  <2>1. \A x \in Jobs \ {i} : report'[x] = report[x]
    BY <1>16 DEF BuildFinal
  <2>2. /\ \E place \in WatchPCs \ {"none", "starting"} : watch' = [watch EXCEPT ![i] = place]
        /\ watch[i] # "none" /\ (Followed(i) => Followed(i)')
    BY <1>16 DEF BuildFinal, GoWatch, WatchPCs, Followed
  <2>3. resolution'[h] # "inline"
    BY <1>16 DEF BuildFinal, FollowState
  <2> QED BY <1>16, <2>1, <2>2, <2>3, FollowMoves DEF BuildFinal
<1>17. ASSUME NEW i \in Jobs, TakeFollowups(i) PROVE FollowState(h)'
  <2>1. \A x \in Jobs \ {i} : report'[x] = report[x]
    BY <1>17 DEF TakeFollowups
  <2>2. /\ \E place \in WatchPCs \ {"none", "starting"} : watch' = [watch EXCEPT ![i] = place]
        /\ watch[i] # "none" /\ (Followed(i) => Followed(i)')
    BY <1>17 DEF TakeFollowups, GoWatch, WatchPCs, Followed
  <2>3. resolution'[h] # "inline"
    BY <1>17 DEF TakeFollowups, FollowState
  <2> QED BY <1>17, <2>1, <2>2, <2>3, FollowMoves DEF TakeFollowups
<1>18. ASSUME NEW i \in Jobs, PrepareFails(i) PROVE FollowState(h)'
  <2>1. \A x \in Jobs \ {i} : report'[x] = report[x]
    BY <1>18, NameDroppedTyped DEF PrepareFails, ReportKept
  <2>2. /\ \E place \in WatchPCs \ {"none", "starting"} : watch' = [watch EXCEPT ![i] = place]
        /\ watch[i] # "none" /\ (Followed(i) => Followed(i)')
    BY <1>18 DEF PrepareFails, GoWatch, NameDropped, WatchPCs, Followed
  <2>3. resolution'[h] # "inline"
    BY <1>18 DEF PrepareFails, FollowState
  <2> QED BY <1>18, <2>1, <2>2, <2>3, FollowMoves DEF PrepareFails
<1>19. ASSUME NEW i \in Jobs, ReportFinal(i) PROVE FollowState(h)'
  <2>1. \A x \in Jobs \ {i} : report'[x] = report[x]
    BY <1>19 DEF ReportFinal, Offer
  <2>2. /\ \E place \in WatchPCs \ {"none", "starting"} : watch' = [watch EXCEPT ![i] = place]
        /\ watch[i] # "none" /\ (Followed(i) => Followed(i)')
    BY <1>19 DEF ReportFinal, GoWatch, Offer, WatchPCs, Followed, JobState, Ending
  <2>3. resolution'[h] # "inline"
    BY <1>19 DEF ReportFinal, FollowState
  <2> QED BY <1>19, <2>1, <2>2, <2>3, FollowMoves DEF ReportFinal
<1>20. ASSUME NEW i \in Jobs, Post(i) PROVE FollowState(h)'
  <2>1. \A x \in Jobs \ {i} : report'[x] = report[x]
    BY <1>20 DEF Post
  <2>2. /\ \E place \in WatchPCs \ {"none", "starting"} : watch' = [watch EXCEPT ![i] = place]
        /\ watch[i] # "none" /\ (Followed(i) => Followed(i)')
    BY <1>20 DEF Post, GoWatch, WatchPCs, Followed, Onwards
  <2>3. resolution'[h] # "inline"
    BY <1>20 DEF Post, FollowState
  <2> QED BY <1>20, <2>1, <2>2, <2>3, FollowMoves DEF Post
<1>21. ASSUME NEW i \in Jobs, Release(i) PROVE FollowState(h)'
  <2>1. \A x \in Jobs \ {i} : report'[x] = report[x]
    BY <1>21 DEF Release
  <2>2. /\ \E place \in WatchPCs \ {"none", "starting"} : watch' = [watch EXCEPT ![i] = place]
        /\ watch[i] # "none" /\ (Followed(i) => Followed(i)')
    BY <1>21 DEF Release, GoWatch, WatchPCs, Followed
  <2>3. resolution'[h] # "inline"
    BY <1>21 DEF Release, FollowState
  <2> QED BY <1>21, <2>1, <2>2, <2>3, FollowMoves DEF Release
<1>22. ASSUME NEW i \in Jobs, NEW k \in Spares, PrepareFollowup(i, k) PROVE FollowState(h)'
  <2>1. watch' = [watch EXCEPT ![i] = "starting"] /\ watch[i] = "preparing" /\ report' = report
    BY <1>22 DEF PrepareFollowup, GoWatch
  <2>2. resolution'[h] # "inline"
    BY <1>22 DEF PrepareFollowup, Latch!Propose, Latch!Decision, FollowState, Latch!LatchTypeOK
  <2>3. CASE h = k
    <3>1. follows[k] = None /\ follows'[k] = i /\ watch[k] = "none"
      BY <1>22 DEF PrepareFollowup, FollowState
    <3> QED BY <1>22, <2>1, <2>2, <2>3, <3>1 DEF FollowState, Followed
  <2>4. CASE h # k
    <3>0. follows' = [follows EXCEPT ![k] = i] /\ ~Followed(i)
      BY <1>22 DEF PrepareFollowup, Followed
    <3>1. follows'[h] = follows[h] /\ follows[h] # i
      BY <3>0, <2>4 DEF FollowState
    <3>2. follows[h] = None => h # i
      BY <2>1 DEF FollowState
    <3> QED BY <2>1, <2>2, <3>1, <3>2 DEF FollowState, Followed
  <2> QED BY <2>3, <2>4
<1>23. ASSUME NEW i \in Jobs, NEW k \in Spares, StartFollowup(i, k) PROVE FollowState(h)'
  <2>1. /\ watch' = [watch EXCEPT ![i] = "reporting", ![k] = "polling"]
        /\ watch[i] = "starting" /\ follows[k] = i /\ i # k /\ follows' = follows /\ report' = report
    BY <1>23 DEF StartFollowup, FollowState
  <2>2. watch[k] = "none" /\ follows[h] # k
    BY <2>1 DEF FollowState, Followed
  <2>3. resolution'[h] # "inline"
    BY <1>23 DEF StartFollowup, FollowState
  <2>4. /\ watch'[i] = "reporting" /\ watch'[k] = "polling"
        /\ \A x \in Jobs \ {i, k} : watch'[x] = watch[x]
    BY <2>1
  <2>5. follows[h] = None => watch'[h] = "none"
    BY <2>1, <2>4 DEF FollowState
  <2>6. ASSUME NEW x \in Jobs, follows[h] = x
        PROVE  Followed(x)' /\ (watch'[x] = "starting" => watch'[h] = "none")
    <3>1. CASE x = i
      BY <2>4, <3>1 DEF Followed
    <3>2. CASE x # i
      <4>1. x # k /\ watch'[x] = watch[x] /\ Followed(x)
        BY <2>2, <2>4, <2>6, <3>2 DEF FollowState
      <4>2. h # k
        BY <2>1, <2>6, <3>2
      <4>3. watch[x] = "starting" => watch[h] = "none" /\ h # i
        BY <2>1, <2>6 DEF FollowState
      <4> QED BY <2>1, <2>4, <4>1, <4>2, <4>3 DEF Followed
    <3> QED BY <3>1, <3>2
  <2> QED BY <2>1, <2>3, <2>5, <2>6 DEF FollowState
<1>24. ASSUME NEW i \in Jobs, NEW k \in Spares, StartFollowupFails(i, k) PROVE FollowState(h)'
  <2>1. \A x \in Jobs \ {i} : report'[x] = report[x]
    BY <1>24, NameDroppedTyped DEF StartFollowupFails, ReportKept
  <2>2. /\ \E place \in WatchPCs \ {"none", "starting"} : watch' = [watch EXCEPT ![i] = place]
        /\ watch[i] # "none" /\ (Followed(i) => Followed(i)')
    BY <1>24 DEF StartFollowupFails, GoWatch, NameDropped, Finish, WatchPCs, Followed
  <2>3. resolution'[h] # "inline"
    BY <1>24 DEF StartFollowupFails, FollowState
  <2> QED BY <1>24, <2>1, <2>2, <2>3, FollowMoves DEF StartFollowupFails, Finish
<1>25. ASSUME ThreadStep PROVE FollowState(h)'
  BY <1>25, FollowFrame DEF ThreadStep, Stop, Abort, TurnStarts, Absorb
<1>26. ASSUME UNCHANGED vars PROVE FollowState(h)'
  BY <1>26, FollowFrame
<1> QED
  BY <1>1, <1>2, <1>3, <1>4, <1>5, <1>6, <1>7, <1>8, <1>9, <1>10, <1>11, <1>12, <1>13, <1>14,
      <1>15, <1>16, <1>17, <1>18, <1>19, <1>20, <1>21, <1>22, <1>23, <1>24, <1>25, <1>26
          DEF Next, CallStep, WatchStep

-----------------------------------------------------------------------------
(* The reports of a run account for all of it.                              *)

LEMMA ReportInvHolds == Spec => []ReportInv
<1>1. Init => ReportInv
  <2> SUFFICES ASSUME Init PROVE ReportInv
    OBVIOUS
  <2>1. TypeOK
    <3>1. NoReport \in Reports
      BY JobsAssumption DEF JobsAssumption, NoReport, Reports
    <3>2. /\ call \in [Calls -> CallPCs] /\ target \in [ToolCalls -> Jobs \cup {None}]
          /\ fate \in [ToolCalls -> Fates] /\ registry \in Seq(Jobs)
          /\ process \in [Jobs -> Processes] /\ watch \in [Jobs -> WatchPCs]
      BY DEF Init, CallPCs, Fates, Processes, WatchPCs
    <3>3. /\ turns \in [Jobs -> 0..MaxTurns] /\ reported \in [Jobs -> 0..MaxTurns]
          /\ report \in [Jobs -> Reports] /\ first \in [Jobs -> Reports \cup {None}]
          /\ log \in [Jobs -> Seq(Reports)]
      BY <3>1, JobsAssumption DEF Init, JobsAssumption
    <3>5. ThreadTyped
      BY DEF Init, ThreadTyped
    <3>4. code \in SUBSET Jobs /\ Latch!LatchTypeOK
      BY JobNames DEF Init, Latch!LatchInit, Latch!LatchTypeOK, Latch!Resolutions
    <3> QED BY <3>2, <3>3, <3>4, <3>5 DEF Init, TypeOK, ThreadTyped
  <2>2. ASSUME NEW j \in Jobs PROVE JobState(j)
    BY EmptyLog DEF Init, Latch!LatchInit, JobState, Ending
  <2>3. ASSUME NEW c \in Calls PROVE CallState(c)
    BY JobNames DEF Init, Latch!LatchInit, CallState
  <2>4. ASSUME NEW k \in Spares PROVE FollowState(k)
    BY JobNames DEF Init, Latch!LatchInit, FollowState
  <2> QED BY <2>1, <2>2, <2>3, <2>4 DEF ReportInv
<1>2. ReportInv /\ [Next]_vars => ReportInv'
  <2> SUFFICES ASSUME ReportInv, [Next]_vars PROVE ReportInv'
    OBVIOUS
  <2> QED BY TypePreserved, JobPreserved, CallPreserved, FollowPreserved DEF ReportInv
<1> QED BY <1>1, <1>2, PTL DEF Spec

(* The variables keep their types; in particular nothing but a report is    *)
(* ever handed over, which is what the latch is for.                        *)
THEOREM TypeSafe == Spec => []TypeOK
BY ReportInvHolds, PTL DEF ReportInv

(* A run's reports follow one another without gap or repetition, whichever  *)
(* of caller and watcher handed the first one over.                         *)
THEOREM ReportsAreInSequence == Spec => []ReportsInSequence
<1>1. ReportInv => ReportsInSequence
  BY DEF ReportInv, JobState, Sequenced, ReportsInSequence
<1> QED BY <1>1, ReportInvHolds, PTL

-----------------------------------------------------------------------------
(* What became of the reports that were handed over.                        *)

(* While the flag is up every job counts as halted; a job whose watcher has *)
(* not begun has lost nothing; a /code job loses nothing; what a stop cost  *)
(* was lost to a stop that counts.                                          *)
LossInv ==
    /\ abort => halted = Jobs
    /\ \A j \in Jobs : watch[j] = "none" => lost[j] = {} /\ j \notin queued
    /\ \A j \in code : lost[j] = {} /\ j \notin queued
    /\ \A j \in Jobs : "stopped" \in lost[j] => j \in halted

(* A watcher that has begun does not unbegin.                               *)
LEMMA WatchersStay ==
    ASSUME ReportInv, [Next]_vars, NEW j \in Jobs, watch'[j] = "none"
    PROVE  watch[j] = "none"
<1> USE DEF ReportInv, TypeOK, vars, watchVars, GoWatch
<1>1. ASSUME NEW c \in Calls, Resolve(c) \/ CodeLook(c) \/ CallStep(c) PROVE watch[j] = "none"
  BY <1>1 DEF Resolve, CodeLook, CallStep, QueueFollowup, CodeClaim, Launch, StartJob,
      LaunchFails, WaitEnds, Claim, CodeFinish
<1>2. ASSUME NEW i \in Jobs, EndTurn(i) \/ Exit(i) PROVE watch[j] = "none"
  BY <1>2 DEF EndTurn, Exit
<1>3. ASSUME NEW i \in Jobs, WatchStep(i) PROVE watch[j] = "none"
  <2>1. CASE Poll(i) \/ Settle(i) \/ Interim(i) \/ LatchSettles(i) \/ BuildFinal(i)
    BY <2>1 DEF Poll, Settle, Interim, LatchSettles, BuildFinal, Offer, Onwards
  <2>2. CASE TakeFollowups(i) \/ PrepareFails(i)
    BY <2>2 DEF TakeFollowups, PrepareFails, NameDropped
  <2>3. CASE \E k \in Spares : \/ PrepareFollowup(i, k) \/ StartFollowup(i, k)
                               \/ StartFollowupFails(i, k)
    BY <2>3 DEF PrepareFollowup, StartFollowup, StartFollowupFails, NameDropped
  <2>4. CASE ReportFinal(i) \/ Post(i) \/ Release(i)
    BY <2>4 DEF ReportFinal, Post, Release, Offer, Onwards
  <2> QED BY <1>3, <2>1, <2>2, <2>3, <2>4 DEF WatchStep
<1>4. ASSUME ThreadStep \/ UNCHANGED vars PROVE watch[j] = "none"
  BY <1>4 DEF ThreadStep, Stop, Abort, TurnStarts, Absorb
<1> QED BY <1>1, <1>2, <1>3, <1>4 DEF Next

(* What is lost for want of luck leaves the account of the stops alone.     *)
LEMMA FailedLosses ==
    ASSUME LossInv, code' = code, code \subseteq Jobs,
           \A j \in Jobs : watch'[j] = "none" => watch[j] = "none",
           queued' \subseteq queued,
           \A j \in Jobs : lost'[j] = lost[j] \/ (j \in queued /\ lost'[j] = lost[j] \cup {"failed"})
    PROVE  /\ \A j \in Jobs : watch'[j] = "none" => lost'[j] = {} /\ j \notin queued'
           /\ \A j \in code' : lost'[j] = {} /\ j \notin queued'
           /\ \A j \in Jobs : "stopped" \in lost'[j] => "stopped" \in lost[j]
<1>1. \A j \in Jobs : j \notin queued => lost'[j] = lost[j]
  OBVIOUS
<1>2. \A j \in Jobs : watch'[j] = "none" => lost'[j] = {} /\ j \notin queued'
  BY <1>1 DEF LossInv
<1>3. \A j \in code' : lost'[j] = {} /\ j \notin queued'
  BY <1>1 DEF LossInv
<1>4. \A j \in Jobs : "stopped" \in lost'[j] => "stopped" \in lost[j]
  OBVIOUS
<1> QED BY <1>2, <1>3, <1>4

LEMMA LossFrame ==
    ASSUME LossInv, UNCHANGED <<code, threadVars>>, code \subseteq Jobs,
           \A j \in Jobs : watch'[j] = "none" => watch[j] = "none"
    PROVE  LossInv'
BY DEF LossInv, threadVars

(* Whoever takes the thread lets go of no job that a stop has cost a report. *)
LEMMA RelayKeeps ==
    ASSUME TypeOK, LossInv, Relay, code' = code,
           \A j \in Jobs : watch'[j] = "none" => watch[j] = "none"
    PROVE  LossInv'
<1>1. CASE Hold
  <2>1. abort' = FALSE /\ queued' = {} /\ halted' = {j \in halted : watch[j] # "none"}
    BY <1>1 DEF Hold, ClearAbort, Discard
  <2>2. \A j \in Jobs : lost'[j] = lost[j] \/ (j \in queued /\ lost'[j] = lost[j] \cup {"failed"})
    BY <1>1 DEF Hold, Discard, Lose
  <2>3. code \subseteq Jobs
    BY DEF TypeOK
  <2>4. /\ \A j \in Jobs : watch'[j] = "none" => lost'[j] = {} /\ j \notin queued'
        /\ \A j \in code' : lost'[j] = {} /\ j \notin queued'
        /\ \A j \in Jobs : "stopped" \in lost'[j] => "stopped" \in lost[j]
    BY <2>1, <2>2, <2>3, FailedLosses
  <2>5. \A j \in Jobs : "stopped" \in lost'[j] => j \in halted'
    BY <2>1, <2>4 DEF LossInv
  <2> QED BY <2>1, <2>4, <2>5 DEF LossInv
<1>2. CASE UNCHANGED threadVars
  BY <1>2, LossFrame DEF TypeOK
<1> QED BY <1>1, <1>2 DEF Relay

LEMMA SubmitKeeps ==
    ASSUME TypeOK, LossInv, NEW i \in Jobs, i \notin code, watch[i] # "none",
           Submit(i), code' = code,
           \A j \in Jobs : watch'[j] = "none" => watch[j] = "none"
    PROVE  LossInv'
<1>1. CASE Lose({i}, "failed") /\ UNCHANGED <<abort, queued, halted>>
  <2>1. \A j \in Jobs : lost'[j] = lost[j] \/ (j = i /\ lost'[j] = lost[j] \cup {"failed"})
    BY <1>1 DEF Lose
  <2>2. \A j \in Jobs : "stopped" \in lost'[j] => "stopped" \in lost[j]
    BY <2>1
  <2>3. code \subseteq Jobs
    BY DEF TypeOK
  <2> QED BY <1>1, <2>1, <2>2, <2>3 DEF LossInv
<1>2. CASE abort /\ Lose({i}, "stopped") /\ UNCHANGED <<abort, queued, halted>>
  <2>1. \A j \in Jobs : lost'[j] = lost[j] \/ (j = i /\ lost'[j] = lost[j] \cup {"stopped"})
    BY <1>2 DEF Lose
  <2>2. halted' = Jobs
    BY <1>2 DEF LossInv
  <2>3. code \subseteq Jobs
    BY DEF TypeOK
  <2> QED BY <1>2, <2>1, <2>2, <2>3 DEF LossInv
<1>3. CASE ~abort /\ queued' = queued \cup {i} /\ UNCHANGED <<abort, lost, halted>>
  BY <1>3 DEF LossInv, TypeOK
<1>4. CASE UNCHANGED threadVars
  BY <1>4, LossFrame DEF TypeOK
<1> QED BY <1>1, <1>2, <1>3, <1>4 DEF Submit

LEMMA ThreadKeeps ==
    ASSUME TypeOK, LossInv, ThreadStep
    PROVE  LossInv'
<1>1. UNCHANGED <<code, watch>>
  BY DEF ThreadStep, Stop, Abort, TurnStarts, Absorb, runVars, watchVars
<1>2. ASSUME AbortThread PROVE LossInv'
  <2>1. abort' = TRUE /\ queued' = {} /\ halted' = Jobs
    BY <1>2 DEF AbortThread, Discard
  <2>2. \A j \in Jobs : lost'[j] = IF j \in queued THEN lost[j] \cup {"stopped"} ELSE lost[j]
    BY <1>2 DEF AbortThread, Discard, Lose
  <2> QED BY <1>1, <2>1, <2>2 DEF LossInv, TypeOK
<1>3. CASE Stop
  BY <1>1, <1>2, <1>3, LossFrame DEF Stop, TypeOK
<1>4. CASE Abort
  BY <1>2, <1>4 DEF Abort
<1>5. CASE TurnStarts
  BY <1>1, <1>5 DEF TurnStarts, ClearAbort, LossInv, TypeOK
<1>6. CASE Absorb
  <2>1. queued' \subseteq queued /\ UNCHANGED <<abort, halted>>
    BY <1>6 DEF Absorb
  <2>2. \A j \in Jobs : lost'[j] = lost[j] \/ (j \in queued /\ lost'[j] = lost[j] \cup {"failed"})
    BY <1>6 DEF Absorb, Lose
  <2>3. code \subseteq Jobs
    BY DEF TypeOK
  <2>4. /\ \A j \in Jobs : watch'[j] = "none" => lost'[j] = {} /\ j \notin queued'
        /\ \A j \in code' : lost'[j] = {} /\ j \notin queued'
        /\ \A j \in Jobs : "stopped" \in lost'[j] => "stopped" \in lost[j]
    BY <1>1, <2>1, <2>2, <2>3, FailedLosses
  <2> QED BY <2>1, <2>4 DEF LossInv
<1> QED BY <1>3, <1>4, <1>5, <1>6 DEF ThreadStep

LEMMA LossPreserved ==
    ASSUME ReportInv, LossInv, [Next]_vars
    PROVE  LossInv'
<1> USE JobNames DEF ReportInv, vars, callVars, runVars, watchVars, queueVars, slotVars
<1>0. TypeOK /\ code \subseteq Jobs /\ \A j \in Jobs : watch'[j] = "none" => watch[j] = "none"
  BY WatchersStay DEF TypeOK
<1>1. ASSUME NEW c \in Calls, Resolve(c) \/ CodeLook(c) \/ CallStep(c) PROVE LossInv'
  <2>1. CASE Claim(c)
    <3>1. code' = code /\ (Relay \/ UNCHANGED threadVars)
      BY <2>1 DEF Claim, TakeInline
    <3> QED BY <1>0, <3>1, RelayKeeps DEF Relay
  <2>2. CASE ~Claim(c)
    <3>1. UNCHANGED <<code, threadVars>>
      BY <1>1, <2>2 DEF Resolve, CodeLook, CallStep, QueueFollowup, CodeClaim, Launch,
          LaunchFails, WaitEnds, CodeFinish
    <3> QED BY <1>0, <3>1, LossFrame
  <2> QED BY <2>1, <2>2
<1>2. ASSUME NEW i \in Jobs, EndTurn(i) \/ Exit(i) PROVE LossInv'
  <2>1. UNCHANGED <<code, threadVars>>
    BY <1>2 DEF EndTurn, Exit
  <2> QED BY <1>0, <2>1, LossFrame
<1>3. ASSUME NEW i \in Jobs, Post(i) PROVE LossInv'
  <2>1. code' = code /\ watch[i] # "none"
    BY <1>3 DEF Post
  <2>2. CASE UNCHANGED threadVars
    BY <1>0, <2>1, <2>2, LossFrame
  <2>3. CASE i \in code /\ Relay
    BY <1>0, <2>1, <2>3, RelayKeeps
  <2>4. CASE i \notin code /\ Submit(i)
    BY <1>0, <2>1, <2>4, SubmitKeeps
  <2> QED BY <1>3, <2>2, <2>3, <2>4 DEF Post
<1>4. ASSUME NEW i \in Jobs, NEW k \in Spares, PrepareFollowup(i, k) PROVE LossInv'
  <2>1. watch[k] = "none"
    BY <1>4 DEF PrepareFollowup, FollowState
  <2>2. lost[k] = {} /\ k \notin queued
    BY <2>1 DEF LossInv
  <2>3. UNCHANGED threadVars /\ code' \subseteq code \cup {k}
    BY <1>4 DEF PrepareFollowup
  <2> QED BY <1>0, <2>2, <2>3 DEF LossInv, threadVars
<1>5. ASSUME NEW i \in Jobs, WatchStep(i), ~Post(i),
             ~\E k \in Spares : PrepareFollowup(i, k)
      PROVE  LossInv'
  <2>1. UNCHANGED <<code, threadVars>>
    BY <1>5 DEF WatchStep, Poll, Settle, Interim, LatchSettles, BuildFinal, TakeFollowups,
        PrepareFails, StartFollowup, StartFollowupFails, ReportFinal, Release
  <2> QED BY <1>0, <2>1, LossFrame
<1>6. ASSUME ThreadStep PROVE LossInv'
  BY <1>0, <1>6, ThreadKeeps
<1>7. ASSUME UNCHANGED vars PROVE LossInv'
  BY <1>0, <1>7, LossFrame
<1> QED BY <1>1, <1>2, <1>3, <1>4, <1>5, <1>6, <1>7 DEF Next

(* When the watcher of a run that was not cancelled is done, the final      *)
(* report was handed over with the last end-turn; a /code run's reports     *)
(* reach its user whatever is stopped; a tool's are lost to no stop but one *)
(* that came during the run or since, or was still unanswered by a turn     *)
(* when the run began.  For any number of runs, stops and turns.            *)
THEOREM EndTurnsAreDelivered == Spec => []EndTurnsDelivered
<1>1. Init => LossInv
  <2> SUFFICES ASSUME Init PROVE LossInv
    OBVIOUS
  <2>1. CodeCalls \subseteq Jobs
    BY JobNames
  <2> QED BY <2>1 DEF Init, LossInv
<1>2. ReportInv /\ LossInv /\ [Next]_vars => LossInv'
  BY LossPreserved
<1>3. ReportInv /\ LossInv => EndTurnsDelivered
  BY DEF ReportInv, JobState, Complete, LossInv, EndTurnsDelivered
<1> QED BY <1>1, <1>2, <1>3, ReportInvHolds, PTL DEF Spec

-----------------------------------------------------------------------------
(* The slot.                                                                *)

(* A step that starts no run and leaves the slot alone.                     *)
LEMMA SlotFrame ==
    ASSUME SlotInv, UNCHANGED <<code, slot, follows>>,
           \A j \in Jobs : process'[j] = "running" => process[j] = "running",
           \A c \in CodeCalls : call'[c] = "launching" => call[c] = "launching",
           \A j \in Jobs : watch'[j] = "starting" => watch[j] = "starting",
           code \subseteq Jobs
    PROVE  SlotInv'
BY DEF SlotInv, SlotCoversRun

LEMMA SlotPreserved ==
    ASSUME ReportInv, SlotInv, [Next]_vars
    PROVE  SlotInv'
<1> USE JobNames DEF ReportInv, TypeOK, vars, callVars, runVars, watchVars, queueVars, slotVars, threadVars
<1>1. ASSUME NEW c \in Calls, Resolve(c) PROVE SlotInv'
  <2>1. c \notin CodeCalls
    BY <1>1, JobsAssumption DEF Resolve, JobsAssumption
  <2>2. \A d \in CodeCalls : call'[d] = call[d]
    BY <1>1, <2>1 DEF Resolve, GoCall
  <2> QED BY <1>1, <2>2, SlotFrame DEF Resolve
<1>2. ASSUME NEW c \in Calls, CodeLook(c) PROVE SlotInv'
  BY <1>2, SlotFrame DEF CodeLook, GoCall
<1>3. ASSUME NEW c \in Calls, QueueFollowup(c) PROVE SlotInv'
  BY <1>3, SlotFrame DEF QueueFollowup, GoCall
<1>4. ASSUME NEW c \in Calls, CodeClaim(c) PROVE SlotInv'
  <2>1. CASE slot = None
    <3>1. slot' = c /\ call' = [call EXCEPT ![c] = "launching"] /\ UNCHANGED <<code, process, watch, follows>>
      BY <1>4, <2>1 DEF CodeClaim, SlotOpenTo, GoCall
    <3> QED BY <2>1, <3>1 DEF SlotInv, SlotCoversRun
  <2>2. CASE slot # None
    <3>1. slot' = slot /\ call' = [call EXCEPT ![c] = "refused"]
      BY <1>4, <2>2 DEF CodeClaim, SlotOpenTo, GoCall
    <3> QED BY <1>4, <3>1, SlotFrame DEF CodeClaim
  <2> QED BY <2>1, <2>2
<1>5. ASSUME NEW c \in Calls, Launch(c) PROVE SlotInv'
  <2>1. /\ process' = [process EXCEPT ![c] = "running"] /\ watch' = [watch EXCEPT ![c] = "polling"]
        /\ call' = [call EXCEPT ![c] = "waiting"] /\ call[c] = "launching"
        /\ UNCHANGED <<code, slot, follows>>
    BY <1>5 DEF Launch, StartJob, GoWatch, GoCall
  <2>2. c \in code => slot = c
    BY <2>1 DEF SlotInv, Calls
  <2> QED BY <2>1, <2>2 DEF SlotInv, SlotCoversRun
<1>6. ASSUME NEW c \in Calls, LaunchFails(c) PROVE SlotInv'
  <2>1. call' = [call EXCEPT ![c] = "refused"] /\ UNCHANGED <<code, process, watch, follows>>
    BY <1>6 DEF LaunchFails, GoCall
  <2>2. CASE c \in CodeCalls
    <3>1. slot = c /\ slot' = None
      BY <1>6, <2>2 DEF LaunchFails, Finish, ReleaseSlot, SlotInv
    <3>2. process[c] # "running"
      BY <1>6 DEF LaunchFails, CallState, NotStarted, JobState
    <3> QED BY <2>1, <3>1, <3>2 DEF SlotInv, SlotCoversRun
  <2>3. CASE c \notin CodeCalls
    <3>1. slot' = slot
      BY <1>6, <2>3 DEF LaunchFails
    <3> QED BY <2>1, <3>1, SlotFrame
  <2> QED BY <2>2, <2>3
<1>7. ASSUME NEW c \in Calls, WaitEnds(c) PROVE SlotInv'
  BY <1>7, SlotFrame DEF WaitEnds, GoCall
<1>8. ASSUME NEW c \in Calls, Claim(c) PROVE SlotInv'
  BY <1>8, SlotFrame DEF Claim, TakeInline, GoCall
<1>9. ASSUME NEW c \in Calls, CodeFinish(c) PROVE SlotInv'
  <2>1. process[c] # "running" /\ call[c] = "finishing"
    BY <1>9 DEF CodeFinish, CallState, Exited, Over
  <2>2. call' = [call EXCEPT ![c] = "returned"] /\ UNCHANGED <<code, process, watch, follows>>
    BY <1>9 DEF CodeFinish, GoCall
  <2>3. slot' = IF slot = c THEN None ELSE slot
    BY <1>9 DEF CodeFinish, Finish, ReleaseSlot
  <2> QED BY <2>1, <2>2, <2>3 DEF SlotInv, SlotCoversRun
<1>10. ASSUME NEW i \in Jobs, EndTurn(i) PROVE SlotInv'
  BY <1>10, SlotFrame DEF EndTurn
<1>11. ASSUME NEW i \in Jobs, Exit(i) PROVE SlotInv'
  BY <1>11, SlotFrame DEF Exit, Over
<1>12. ASSUME NEW i \in Jobs, Poll(i) PROVE SlotInv'
  BY <1>12, SlotFrame DEF Poll, GoWatch
<1>13. ASSUME NEW i \in Jobs, Settle(i) PROVE SlotInv'
  BY <1>13, SlotFrame DEF Settle, GoWatch
<1>14. ASSUME NEW i \in Jobs, Interim(i) PROVE SlotInv'
  BY <1>14, SlotFrame DEF Interim, GoWatch, Offer
<1>15. ASSUME NEW i \in Jobs, LatchSettles(i) PROVE SlotInv'
  BY <1>15, SlotFrame DEF LatchSettles, GoWatch, Onwards
<1>16. ASSUME NEW i \in Jobs, BuildFinal(i) PROVE SlotInv'
  BY <1>16, SlotFrame DEF BuildFinal, GoWatch
<1>17. ASSUME NEW i \in Jobs, TakeFollowups(i) PROVE SlotInv'
  BY <1>17, SlotFrame DEF TakeFollowups, GoWatch
<1>18. ASSUME NEW i \in Jobs, PrepareFails(i) PROVE SlotInv'
  BY <1>18, SlotFrame DEF PrepareFails, GoWatch, NameDropped
<1>19. ASSUME NEW i \in Jobs, ReportFinal(i) PROVE SlotInv'
  BY <1>19, SlotFrame DEF ReportFinal, GoWatch, Offer
<1>20. ASSUME NEW i \in Jobs, Post(i) PROVE SlotInv'
  BY <1>20, SlotFrame DEF Post, GoWatch, Onwards
<1>21. ASSUME NEW i \in Jobs, Release(i) PROVE SlotInv'
  <2>1. /\ watch[i] = "releasing" /\ watch' = [watch EXCEPT ![i] = "over"]
        /\ slot' = (IF slot = i THEN None ELSE slot)
        /\ UNCHANGED <<code, process, call, follows>>
    BY <1>21 DEF Release, GoWatch, ReleaseSlot
  <2>2. process[i] # "running"
    BY <2>1 DEF JobState, Exited, Over
  <2>3. \A c \in CodeCalls : call[c] = "launching" => c # i
    BY <2>1 DEF CallState, NotStarted
  <2>4. \A k \in Spares : \A j \in Jobs : follows[k] = j /\ watch[j] = "starting" => k # i
    BY <2>1 DEF FollowState
  <2> QED BY <2>1, <2>2, <2>3, <2>4 DEF SlotInv, SlotCoversRun
<1>22. ASSUME NEW i \in Jobs, NEW k \in Spares, PrepareFollowup(i, k) PROVE SlotInv'
  <2>1. /\ watch[i] = "preparing" /\ watch' = [watch EXCEPT ![i] = "starting"]
        /\ follows[k] = None /\ follows' = [follows EXCEPT ![k] = i]
        /\ UNCHANGED <<process, call>>
    BY <1>22 DEF PrepareFollowup, GoWatch
  <2>2. process[k] # "running" /\ process[i] # "running" /\ watch[k] = "none"
    BY <2>1 DEF JobState, Ending, Continues, Exited, Over, FollowState
  <2>3. \A h \in Spares : follows[h] # i
    BY <2>1 DEF FollowState, Followed
  <2>4. CASE i \in code
    <3>1. code' = code \cup {k} /\ slot \in {None, i} /\ slot' = k
      BY <1>22, <2>4 DEF PrepareFollowup, SlotOpenTo
    <3>2. \A j \in code : process[j] # "running"
      BY <2>2, <3>1 DEF SlotInv, SlotCoversRun
    <3>3. \A c \in CodeCalls : call[c] # "launching"
      BY <2>1, <3>1 DEF SlotInv, CallState, NotStarted
    <3>4. \A h \in Spares : \A j \in Jobs : follows[h] = j /\ watch[j] = "starting" => h \notin code
      BY <2>1, <3>1 DEF SlotInv, FollowState
    <3> QED BY <2>1, <2>2, <2>3, <3>1, <3>2, <3>3, <3>4 DEF SlotInv, SlotCoversRun
  <2>5. CASE i \notin code
    <3>1. UNCHANGED <<code, slot>>
      BY <1>22, <2>5 DEF PrepareFollowup
    <3>2. k \notin code
      BY <2>1 DEF SlotInv
    <3>3. \A h \in Spares : \A j \in Jobs :
            follows'[h] = j /\ watch'[j] = "starting" /\ h \in code' => slot' = h
      BY <2>1, <2>3, <3>1, <3>2 DEF SlotInv
    <3> QED BY <2>1, <2>2, <3>1, <3>2, <3>3 DEF SlotInv, SlotCoversRun
  <2> QED BY <2>4, <2>5
<1>23. ASSUME NEW i \in Jobs, NEW k \in Spares, StartFollowup(i, k) PROVE SlotInv'
  <2>1. /\ watch[i] = "starting" /\ watch' = [watch EXCEPT ![i] = "reporting", ![k] = "polling"]
        /\ follows[k] = i /\ process' = [process EXCEPT ![k] = "running"]
        /\ UNCHANGED <<code, slot, call, follows>>
    BY <1>23 DEF StartFollowup
  <2>2. k \in code => slot = k
    BY <2>1 DEF SlotInv
  <2>3. \A j \in Jobs : watch'[j] = "starting" => watch[j] = "starting"
    BY <2>1
  <2>4. SlotCoversRun'
    BY <2>1, <2>2 DEF SlotInv, SlotCoversRun
  <2> QED BY <2>1, <2>3, <2>4 DEF SlotInv
<1>24. ASSUME NEW i \in Jobs, NEW k \in Spares, StartFollowupFails(i, k) PROVE SlotInv'
  <2>1. NameDropped(i) /\ watch[i] = "starting" /\ follows[k] = i /\ UNCHANGED <<code, process, call, follows>>
    BY <1>24 DEF StartFollowupFails
  <2>2. watch' = [watch EXCEPT ![i] = "reporting"]
    BY <2>1 DEF NameDropped, GoWatch
  <2>3. CASE k \in code
    <3>1. slot = k /\ slot' = None
      BY <1>24, <2>1, <2>3 DEF StartFollowupFails, Finish, ReleaseSlot, SlotInv
    <3>2. process[k] # "running"
      BY <2>1 DEF FollowState, JobState
    <3>3. \A h \in Spares : follows[h] = i /\ h \in code => h = k
      BY <2>1, <3>1 DEF SlotInv
    <3>4. \A c \in CodeCalls : call[c] # "launching"
      BY <3>1 DEF SlotInv
    <3> QED BY <2>1, <2>2, <3>1, <3>2, <3>3, <3>4 DEF SlotInv, SlotCoversRun
  <2>4. CASE k \notin code
    <3>1. slot' = slot
      BY <1>24, <2>4 DEF StartFollowupFails
    <3> QED BY <2>1, <2>2, <3>1, SlotFrame
  <2> QED BY <2>3, <2>4
<1>25. ASSUME ThreadStep PROVE SlotInv'
  BY <1>25, SlotFrame DEF ThreadStep, Stop, Abort, TurnStarts, Absorb
<1>26. ASSUME UNCHANGED vars PROVE SlotInv'
  BY <1>26, SlotFrame
<1> QED
  BY <1>1, <1>2, <1>3, <1>4, <1>5, <1>6, <1>7, <1>8, <1>9, <1>10, <1>11, <1>12, <1>13, <1>14,
      <1>15, <1>16, <1>17, <1>18, <1>19, <1>20, <1>21, <1>22, <1>23, <1>24, <1>25, <1>26
          DEF Next, CallStep, WatchStep

(* A running /code run holds its thread's slot, for any number of calls and *)
(* follow-ups: /code refuses, and a follow-up does not start, until it is   *)
(* given up.                                                                *)
THEOREM RunsHoldTheSlot == Spec => []SlotCoversRun
<1>1. Init => SlotInv
  BY JobNames, JobsAssumption DEF JobsAssumption, Init, SlotInv, SlotCoversRun
<1>2. ReportInv /\ SlotInv /\ [Next]_vars => SlotInv'
  BY SlotPreserved
<1>3. SlotInv => SlotCoversRun
  BY DEF SlotInv
<1> QED BY <1>1, <1>2, <1>3, ReportInvHolds, PTL DEF Spec

-----------------------------------------------------------------------------
(* The follow-ups that were not started.                                    *)

(* Follow-up c is named on the final report that job j's watcher is about   *)
(* to hand over, or has handed over.                                        *)
Noted(c, j) == \E i \in DOMAIN log[j] : c \in log[j][i].notes

Reported(c, j) ==
    \/ /\ watch[j] \in {"reporting", "offered", "posting"}
       /\ report[j].final /\ c \in report[j].notes
    \/ /\ watch[j] \in {"releasing", "over"}
       /\ process[j] = "cancelled" \/ Noted(c, j)

(* A follow-up is kept by the one job it was queued on until its fate is    *)
(* decided.                                                                 *)
NamedState(c) ==
    /\ call[c] \in {"idle", "queueing"} => fate[c] = "none"
    /\ \A j \in Jobs : c \in followups[j] \cup taken[j] =>
          target[c] = j /\ fate[c] = "queued"
    /\ \A j \in Jobs : ~(c \in followups[j] /\ c \in taken[j])
    /\ fate[c] = "named" => target[c] \in Jobs /\ Reported(c, target[c])

NamedInv == \A c \in ToolCalls : NamedState(c)

(* A step that changes nothing about a follow-up, nor about the report it   *)
(* is named on.                                                             *)
LEMMA NamedFrame ==
    ASSUME NEW c \in ToolCalls, NamedState(c),
           call'[c] \in {"idle", "queueing"} => call[c] \in {"idle", "queueing"},
           fate'[c] = fate[c],
           call[c] \in {"idle"} \/ target'[c] = target[c],
           \A j \in Jobs : followups'[j] \subseteq followups[j] /\ taken'[j] \subseteq taken[j],
           \A j \in Jobs : Reported(c, j) => Reported(c, j)'
    PROVE  NamedState(c)'
BY DEF NamedState

LEMMA ReportedFrame ==
    ASSUME NEW c \in ToolCalls, NEW j \in Jobs, Reported(c, j),
           watch'[j] = watch[j], report'[j] = report[j], process'[j] = process[j],
           log'[j] = log[j]
    PROVE  Reported(c, j)'
BY DEF Reported, Noted

(* Handing over one more report takes nothing back.                         *)
LEMMA NotesStay ==
    ASSUME TypeOK, NEW c \in ToolCalls, NEW j \in Jobs, NEW r \in Reports,
           log'[j] = Append(log[j], r)
    PROVE  (Noted(c, j) => Noted(c, j)') /\ (c \in r.notes => Noted(c, j)')
<1>1. log[j] \in Seq(Reports) /\ Len(log[j]) \in Nat /\ DOMAIN log[j] = 1..Len(log[j])
  BY DEF TypeOK
<1>2. /\ DOMAIN log'[j] = 1..(Len(log[j]) + 1)
      /\ log'[j][Len(log[j]) + 1] = r
      /\ \A i \in 1..Len(log[j]) : log'[j][i] = log[j][i]
  BY <1>1
<1>3. Len(log[j]) + 1 \in DOMAIN log'[j] /\ \A i \in 1..Len(log[j]) : i \in DOMAIN log'[j]
  BY <1>1, <1>2
<1> QED BY <1>1, <1>2, <1>3 DEF Noted

(* The watcher of job i moves on, away from the places where a final report *)
(* is on its way.                                                           *)
LEMMA ReportedElsewhere ==
    ASSUME TypeOK, NEW c \in ToolCalls, NEW i \in Jobs, NEW place, GoWatch(i, place),
           watch[i] \notin {"reporting", "offered", "posting", "releasing", "over"},
           \A j \in Jobs \ {i} : report'[j] = report[j],
           UNCHANGED <<process, log>>
    PROVE  \A j \in Jobs : Reported(c, j) => Reported(c, j)'
<1>1. \A j \in Jobs \ {i} : watch'[j] = watch[j]
  BY DEF GoWatch, TypeOK
<1> QED BY <1>1 DEF Reported, Noted

LEMMA NamedWatcher ==
    ASSUME ReportInv, NEW c \in ToolCalls, NamedState(c), NEW i \in Jobs,
           \/ EndTurn(i) \/ Exit(i) \/ Poll(i) \/ Settle(i) \/ Interim(i)
           \/ LatchSettles(i) \/ BuildFinal(i) \/ ReportFinal(i) \/ Post(i) \/ Release(i)
    PROVE  NamedState(c)'
<1> USE DEF ReportInv, callVars, runVars, watchVars, queueVars, slotVars, threadVars
<1>t. TypeOK
  OBVIOUS
<1>f. ASSUME \A j \in Jobs : Reported(c, j) => Reported(c, j)'
      PROVE  NamedState(c)'
  <2>1. UNCHANGED <<callVars, queueVars>>
    BY DEF EndTurn, Exit, Poll, Settle, Interim, LatchSettles, BuildFinal,
       ReportFinal, Post, Release
  <2> QED BY <1>f, <2>1, NamedFrame
<1>1. CASE EndTurn(i)
  BY <1>1, <1>f, ReportedFrame DEF EndTurn
<1>2. CASE Exit(i)
  <2>1. \A j \in Jobs : watch[j] \in {"releasing", "over"} => j # i
    BY <1>2 DEF Exit, JobState, Exited, Over
  <2>2. \A j \in Jobs \ {i} : process'[j] = process[j]
    BY <1>2 DEF Exit, TypeOK
  <2> QED BY <1>2, <1>f, <2>1, <2>2 DEF Exit, Reported, Noted
<1>3. CASE Poll(i)
  BY <1>3, <1>f, <1>t, ReportedElsewhere DEF Poll
<1>4. CASE Settle(i)
  BY <1>4, <1>f, <1>t, ReportedElsewhere DEF Settle
<1>5. CASE Interim(i)
  <2>1. \A j \in Jobs \ {i} : report'[j] = report[j]
    BY <1>5 DEF Interim, Offer, TypeOK
  <2>2. PICK place \in WatchPCs : GoWatch(i, place)
    BY <1>5 DEF Interim, Offer, WatchPCs
  <2> QED BY <1>5, <1>f, <1>t, <2>1, <2>2, ReportedElsewhere DEF Interim
<1>6. CASE BuildFinal(i)
  <2>1. \A j \in Jobs \ {i} : report'[j] = report[j]
    BY <1>6 DEF BuildFinal, TypeOK
  <2> QED BY <1>6, <1>f, <1>t, <2>1, ReportedElsewhere DEF BuildFinal
<1>7. CASE LatchSettles(i)
  <2>1. /\ watch[i] = "offered" /\ UNCHANGED <<report, process, log>>
        /\ \A j \in Jobs \ {i} : watch'[j] = watch[j]
        /\ watch'[i] = IF resolution[i] = "inline" THEN Onwards(i) ELSE "posting"
    BY <1>7 DEF LatchSettles, GoWatch, TypeOK, Latch!Decision
  <2>2. Reported(c, i) => Reported(c, i)'
    <3>1. ASSUME Reported(c, i), resolution[i] = "inline" PROVE Reported(c, i)'
      <4>1. report[i].final /\ c \in report[i].notes /\ log[i] = <<report[i]>>
        BY <2>1, <3>1 DEF Reported, JobState
      <4>2. 1 \in DOMAIN log[i] /\ log[i][1] = report[i]
        BY <4>1
      <4>3. Noted(c, i)' /\ watch'[i] = "over"
        BY <2>1, <3>1, <4>1, <4>2 DEF Noted, Onwards
      <4> QED BY <4>3 DEF Reported
    <3>2. ASSUME Reported(c, i), resolution[i] # "inline" PROVE Reported(c, i)'
      BY <2>1, <3>2 DEF Reported
    <3> QED BY <3>1, <3>2
  <2>3. \A j \in Jobs \ {i} : Reported(c, j) => Reported(c, j)'
    BY <2>1 DEF Reported, Noted
  <2> QED BY <1>f, <2>2, <2>3
<1>8. CASE ReportFinal(i)
  <2>1. /\ watch[i] = "reporting" /\ UNCHANGED <<process, log>>
        /\ \A j \in Jobs \ {i} : watch'[j] = watch[j]
        /\ watch'[i] \in {"offered", "posting"}
        /\ \A j \in Jobs : report'[j] = report[j]
    BY <1>8 DEF ReportFinal, Offer, GoWatch, TypeOK
  <2> QED BY <1>f, <2>1 DEF Reported, Noted
<1>9. CASE Post(i)
  <2>1. /\ watch[i] = "posting" /\ UNCHANGED <<process, report>>
        /\ \A j \in Jobs \ {i} : watch'[j] = watch[j] /\ log'[j] = log[j]
        /\ report[i].final => watch'[i] \in {"releasing", "over"}
        /\ ~Silent(i) => log'[i] = Append(log[i], report[i])
    BY <1>9 DEF Post, GoWatch, TypeOK, Onwards
  <2>2. ~Silent(i) /\ c \in report[i].notes => Noted(c, i)'
    BY <2>1, <1>t, NotesStay, ReportIsReport
  <2>3. Reported(c, i) => Reported(c, i)'
    BY <2>1, <2>2 DEF Reported, Silent
  <2>4. \A j \in Jobs \ {i} : Reported(c, j) => Reported(c, j)'
    BY <2>1 DEF Reported, Noted
  <2> QED BY <1>f, <2>3, <2>4
<1>10. CASE Release(i)
  <2>1. /\ watch[i] = "releasing" /\ UNCHANGED <<process, report, log>>
        /\ \A j \in Jobs \ {i} : watch'[j] = watch[j]
        /\ watch'[i] = "over"
    BY <1>10 DEF Release, GoWatch, TypeOK
  <2> QED BY <1>f, <2>1 DEF Reported, Noted
<1> QED BY <1>1, <1>2, <1>3, <1>4, <1>5, <1>6, <1>7, <1>8, <1>9, <1>10

(* The calls: a follow-up is queued on the job that was found for it.       *)
LEMMA NamedCall ==
    ASSUME ReportInv, NEW c \in ToolCalls, NamedState(c), NEW e \in Calls,
           Resolve(e) \/ CodeLook(e) \/ CallStep(e)
    PROVE  NamedState(c)'
<1> USE JobNames DEF ReportInv, callVars, runVars, watchVars, queueVars, slotVars, threadVars
<1>t. TypeOK /\ e \in Jobs
  OBVIOUS
<1>e. ASSUME NEW place, GoCall(e, place)
      PROVE  \A d \in Calls : call'[d] = IF d = e THEN place ELSE call[d]
  BY <1>e DEF GoCall, TypeOK
<1>r. ASSUME UNCHANGED <<watch, report, process, log>>
      PROVE  \A j \in Jobs : Reported(c, j) => Reported(c, j)'
  BY <1>r, ReportedFrame
<1>1. CASE Resolve(e)
  <2>1. PICK place \in {"queueing", "launching"} : GoCall(e, place)
    BY <1>1 DEF Resolve
  <2>2. /\ call'[c] \in {"idle", "queueing"} => call[c] \in {"idle", "queueing"}
        /\ c = e => call[c] = "idle"
        /\ UNCHANGED <<fate, queueVars>>
    BY <1>1, <1>e, <2>1 DEF Resolve
  <2>3. c # e => target'[c] = target[c]
    BY <1>1 DEF Resolve, TypeOK
  <2> QED BY <1>1, <1>r, <2>2, <2>3, NamedFrame DEF Resolve
<1>2. CASE CodeLook(e)
  <2>1. PICK place \in {"claiming", "refused"} : GoCall(e, place)
    BY <1>2 DEF CodeLook
  <2> QED BY <1>2, <1>e, <1>r, <2>1, NamedFrame DEF CodeLook
<1>3. CASE QueueFollowup(e)
  <2>1. /\ e \in ToolCalls /\ target[e] \in Jobs
        /\ followups' = [followups EXCEPT ![target[e]] = @ \cup {e}]
        /\ fate' = [fate EXCEPT ![e] = "queued"]
        /\ GoCall(e, "receipt") /\ call[e] = "queueing"
        /\ UNCHANGED <<target, taken, watch, report, process, log>>
    BY <1>3 DEF QueueFollowup, CallState
  <2>2. CASE c = e
    <3>1. fate'[c] = "queued" /\ call'[c] = "receipt"
      BY <1>e, <2>1, <2>2 DEF TypeOK
    <3>2. \A j \in Jobs : c \notin followups[j] \cup taken[j]
      BY <2>1, <2>2 DEF NamedState
    <3>3. \A j \in Jobs : c \in followups'[j] \cup taken'[j] => j = target[e]
      BY <2>1, <3>2 DEF TypeOK
    <3> QED BY <2>1, <2>2, <3>1, <3>3 DEF NamedState
  <2>3. CASE c # e
    <3>1. fate'[c] = fate[c] /\ call'[c] = call[c]
      BY <1>e, <2>1, <2>3 DEF TypeOK
    <3>2. \A j \in Jobs : c \in followups'[j] => c \in followups[j]
      BY <2>1, <2>3 DEF TypeOK
    <3>3. \A j \in Jobs : Reported(c, j) => Reported(c, j)'
      BY <1>r, <2>1
    <3> QED BY <2>1, <3>1, <3>2, <3>3 DEF NamedState
  <2> QED BY <2>2, <2>3
<1>4. CASE CodeClaim(e)
  <2>1. PICK place \in {"launching", "refused"} : GoCall(e, place)
    BY <1>4 DEF CodeClaim
  <2> QED BY <1>4, <1>e, <1>r, <2>1, NamedFrame DEF CodeClaim
<1>5. CASE Launch(e)
  <2>1. watch[e] = "none" /\ UNCHANGED <<report, log, followups, taken, fate, target>>
    BY <1>5 DEF Launch, CallState, NotStarted
  <2>2. \A j \in Jobs \ {e} : watch'[j] = watch[j] /\ process'[j] = process[j]
    BY <1>5, <1>t DEF Launch, StartJob, GoWatch, TypeOK
  <2>3. \A j \in Jobs : Reported(c, j) => Reported(c, j)'
    BY <2>1, <2>2 DEF Reported, Noted
  <2> QED BY <1>5, <1>e, <2>1, <2>3, NamedFrame DEF Launch
<1>6. CASE LaunchFails(e)
  BY <1>6, <1>e, <1>r, NamedFrame DEF LaunchFails
<1>7. CASE WaitEnds(e)
  <2>1. PICK place \in {"intime", "late"} : GoCall(e, place)
    BY <1>7 DEF WaitEnds
  <2> QED BY <1>7, <1>e, <1>r, <2>1, NamedFrame DEF WaitEnds
<1>8. CASE Claim(e)
  <2>1. PICK place \in {"finishing", "returned"} : GoCall(e, place)
    BY <1>8 DEF Claim, TakeInline
  <2>2. UNCHANGED <<watch, report, process, target, fate, followups, taken>>
    BY <1>8 DEF Claim, TakeInline
  <2>3. \A j \in Jobs \ {e} : log'[j] = log[j]
    BY <1>8 DEF Claim, TakeInline, TypeOK
  <2>4. log' = log \/ (first[e] # None /\ log' = [log EXCEPT ![e] = Append(@, first[e])])
    BY <1>8, InlineInTime DEF Claim, TakeInline
  <2>5. Noted(c, e) => Noted(c, e)'
    <3>1. CASE log' = log
      BY <3>1 DEF Noted
    <3>2. CASE first[e] # None /\ log' = [log EXCEPT ![e] = Append(@, first[e])]
      <4>1. first[e] \in Reports /\ log'[e] = Append(log[e], first[e])
        BY <1>t, <3>2 DEF TypeOK
      <4> QED BY <1>t, <4>1, NotesStay
    <3> QED BY <2>4, <3>1, <3>2
  <2>6. \A j \in Jobs : Reported(c, j) => Reported(c, j)'
    BY <2>2, <2>3, <2>5 DEF Reported, Noted
  <2> QED BY <1>e, <2>1, <2>2, <2>6, NamedFrame
<1>9. CASE CodeFinish(e)
  BY <1>9, <1>e, <1>r, NamedFrame DEF CodeFinish
<1> QED BY <1>1, <1>2, <1>3, <1>4, <1>5, <1>6, <1>7, <1>8, <1>9 DEF CallStep

(* The follow-ups a final report is about to name; nothing was named on it  *)
(* before.                                                                  *)
LEMMA NamesNow ==
    ASSUME TypeOK, NEW c \in ToolCalls, NamedState(c), NEW i \in Jobs,
           NEW named \in SUBSET ToolCalls,
           watch[i] \in {"taking", "preparing", "starting"}, report[i].final,
           report' = [report EXCEPT ![i].notes = named],
           GoWatch(i, "reporting"), UNCHANGED <<call, target, process, log>>,
           named \subseteq followups[i] \cup taken[i],
           fate'[c] \in {fate[c], "named", "dropped"},
           fate'[c] # fate[c] => c \in followups[i] \cup taken[i],
           fate'[c] = "named" /\ fate[c] # "named" => c \in named,
           \A j \in Jobs :
               /\ c \in followups'[j] => c \in followups[j] /\ fate'[c] = fate[c]
               /\ c \in taken'[j] => c \in taken[j] /\ fate'[c] = fate[c]
    PROVE  NamedState(c)'
<1>1. /\ watch'[i] = "reporting" /\ \A j \in Jobs \ {i} : watch'[j] = watch[j]
      /\ report'[i].final /\ report'[i].notes = named
      /\ \A j \in Jobs \ {i} : report'[j] = report[j]
  <2>1. report'[i] = [report[i] EXCEPT !.notes = named] /\ report[i] \in Reports
    BY DEF TypeOK
  <2>2. report'[i].final = report[i].final /\ report'[i].notes = named
    BY <2>1 DEF Reports
  <2> QED BY <2>2 DEF GoWatch, TypeOK
<1>2. fate[c] = "named" => target[c] \in Jobs \ {i} /\ Reported(c, target[c])
  BY DEF NamedState, Reported
<1>3. \A j \in Jobs \ {i} : Reported(c, j) => Reported(c, j)'
  BY <1>1 DEF Reported, Noted
<1>4. ASSUME fate'[c] = "named" PROVE target'[c] \in Jobs /\ Reported(c, target[c])'
  <2>1. CASE fate[c] = "named"
    BY <1>2, <1>3, <2>1
  <2>2. CASE fate[c] # "named"
    <3>1. c \in named /\ target[c] = i
      BY <1>4, <2>2 DEF NamedState
    <3> QED BY <1>1, <3>1 DEF Reported
  <2> QED BY <2>1, <2>2
<1>5. call'[c] \in {"idle", "queueing"} => fate'[c] = "none"
  BY DEF NamedState
<1>6. \A j \in Jobs : c \in followups'[j] \cup taken'[j] => target'[c] = j /\ fate'[c] = "queued"
  BY DEF NamedState
<1>7. \A j \in Jobs : ~(c \in followups'[j] /\ c \in taken'[j])
  BY DEF NamedState
<1> QED BY <1>4, <1>5, <1>6, <1>7 DEF NamedState

LEMMA DroppedNamesNow ==
    ASSUME ReportInv, NEW c \in ToolCalls, NamedState(c), NEW i \in Jobs,
           watch[i] \in {"preparing", "starting"}, NameDropped(i),
           UNCHANGED <<call, target, process, log, followups>>
    PROVE  NamedState(c)'
<1>1. TypeOK /\ report[i].final /\ taken[i] \in SUBSET ToolCalls
  BY DEF ReportInv, JobState, Ending, TypeOK
<1>2. /\ report' = [report EXCEPT ![i].notes = taken[i]]
      /\ fate'[c] = (IF c \in taken[i] THEN "named" ELSE fate[c])
      /\ taken'[i] = {} /\ \A j \in Jobs \ {i} : taken'[j] = taken[j]
      /\ GoWatch(i, "reporting")
  BY <1>1 DEF NameDropped, TypeOK
<1>3. ASSUME NEW j \in Jobs
      PROVE  /\ c \in followups'[j] => c \in followups[j] /\ fate'[c] = fate[c]
             /\ c \in taken'[j] => c \in taken[j] /\ fate'[c] = fate[c]
  <2>1. c \in taken[i] /\ c \in followups[j] \cup taken[j] => j = i
    BY DEF NamedState
  <2>2. c \in taken[i] => c \notin followups[i]
    BY DEF NamedState
  <2> QED BY <1>2, <2>1, <2>2
<1> QED BY <1>1, <1>2, <1>3, NamesNow

(* The steps by which a watcher disposes of the follow-ups of its job.      *)
LEMMA NamedFollowups ==
    ASSUME ReportInv, NEW c \in ToolCalls, NamedState(c), NEW i \in Jobs,
           \/ TakeFollowups(i) \/ PrepareFails(i)
           \/ \E k \in Spares :
                 PrepareFollowup(i, k) \/ StartFollowup(i, k) \/ StartFollowupFails(i, k)
    PROVE  NamedState(c)'
<1> USE JobNames DEF ReportInv, callVars, runVars, watchVars, queueVars, slotVars, threadVars
<1>t. TypeOK
  OBVIOUS
<1>1. CASE TakeFollowups(i)
  <2> DEFINE prompts == followups[i]
             stopped == cancel[i] \/ process[i] = "cancelled"
             named   == IF ~stopped /\ process[i] = "lost" THEN prompts ELSE {}
             run     == IF stopped \/ process[i] = "lost" THEN {} ELSE prompts
  <2>1. /\ watch[i] = "taking" /\ report[i].final
        /\ followups' = [followups EXCEPT ![i] = {}]
        /\ taken' = [taken EXCEPT ![i] = run]
        /\ report' = [report EXCEPT ![i].notes = named]
        /\ fate'[c] = (IF c \notin prompts \ run THEN fate[c]
                       ELSE IF stopped THEN "dropped" ELSE "named")
        /\ GoWatch(i, IF run = {} THEN "reporting" ELSE "preparing")
        /\ UNCHANGED <<call, target, process, log>>
        /\ prompts \in SUBSET ToolCalls
    BY <1>1 DEF TakeFollowups, JobState, Ending, TypeOK
  <2>2. /\ followups'[i] = {} /\ taken'[i] = run
        /\ \A j \in Jobs \ {i} : followups'[j] = followups[j] /\ taken'[j] = taken[j]
    BY <1>t, <2>1 DEF TypeOK
  <2>3. \A j \in Jobs \ {i} : c \in followups[j] \cup taken[j] => c \notin prompts
    BY DEF NamedState
  <2>4. CASE run = {}
    <3>1. named \in SUBSET ToolCalls /\ named \subseteq prompts /\ run \subseteq prompts
      BY <2>1
    <3>2. ASSUME NEW j \in Jobs
          PROVE  /\ c \in followups'[j] => c \in followups[j] /\ fate'[c] = fate[c]
                 /\ c \in taken'[j] => c \in taken[j] /\ fate'[c] = fate[c]
      BY <2>1, <2>2, <2>3, <2>4
    <3>3. fate'[c] = "named" /\ fate[c] # "named" => c \in named
      BY <2>1, <2>4
    <3>4. fate'[c] \in {fate[c], "named", "dropped"} /\ (fate'[c] # fate[c] => c \in prompts)
      BY <2>1
    <3>5. GoWatch(i, "reporting")
      BY <2>1, <2>4
    <3> HIDE DEF run, named, stopped
    <3> QED BY <1>t, <2>1, <3>1, <3>2, <3>3, <3>4, <3>5, NamesNow
  <2>5. CASE run # {}
    <3>1. run = prompts /\ fate'[c] = fate[c] /\ GoWatch(i, "preparing")
      BY <2>1, <2>5
    <3>2. \A j \in Jobs \ {i} : report'[j] = report[j]
      BY <1>t, <2>1 DEF TypeOK
    <3>3. \A j \in Jobs : Reported(c, j) => Reported(c, j)'
      BY <1>t, <2>1, <3>1, <3>2, ReportedElsewhere
    <3>4. \A j \in Jobs : c \in followups'[j] \cup taken'[j] => c \in followups[j] \cup taken[j]
      BY <2>2, <3>1
    <3>5. \A j \in Jobs : ~(c \in followups'[j] /\ c \in taken'[j])
      BY <2>2 DEF NamedState
    <3> HIDE DEF run, named, stopped
    <3> QED BY <2>1, <3>1, <3>3, <3>4, <3>5 DEF NamedState
  <2> QED BY <2>4, <2>5
<1>2. CASE PrepareFails(i)
  BY <1>2, DroppedNamesNow DEF PrepareFails
<1>3. ASSUME NEW k \in Spares, PrepareFollowup(i, k) PROVE NamedState(c)'
  <2>1. \A j \in Jobs : Reported(c, j) => Reported(c, j)'
    BY <1>3, <1>t, ReportedElsewhere DEF PrepareFollowup
  <2> QED BY <1>3, <2>1, NamedFrame DEF PrepareFollowup
<1>4. ASSUME NEW k \in Spares, StartFollowup(i, k) PROVE NamedState(c)'
  <2>1. /\ watch[i] = "starting" /\ watch[k] = "none" /\ k \in Jobs
        /\ watch' = [watch EXCEPT ![i] = "reporting", ![k] = "polling"]
        /\ process' = [process EXCEPT ![k] = "running"]
        /\ fate'[c] = (IF c \in taken[i] THEN "started" ELSE fate[c])
        /\ taken'[i] = {} /\ \A j \in Jobs \ {i} : taken'[j] = taken[j]
        /\ UNCHANGED <<report, log, call, target, followups>>
    BY <1>4 DEF StartFollowup, FollowState, TypeOK
  <2>2. \A j \in Jobs \ {i, k} : watch'[j] = watch[j] /\ process'[j] = process[j]
    BY <1>t, <2>1 DEF TypeOK
  <2>3. \A j \in Jobs : Reported(c, j) => Reported(c, j)'
    BY <2>1, <2>2 DEF Reported, Noted
  <2>4. CASE c \in taken[i]
    <3>1. \A j \in Jobs : c \notin followups'[j] \cup taken'[j]
      <4>1. \A j \in Jobs \ {i} : c \notin followups[j] \cup taken[j]
        BY <2>4 DEF NamedState
      <4>2. c \notin followups[i]
        BY <2>4 DEF NamedState
      <4> QED BY <2>1, <4>1, <4>2
    <3>2. fate'[c] = "started" /\ call'[c] \notin {"idle", "queueing"}
      BY <2>1, <2>4 DEF NamedState
    <3> QED BY <3>1, <3>2 DEF NamedState
  <2>5. CASE c \notin taken[i]
    <3>1. \A j \in Jobs : followups'[j] \subseteq followups[j] /\ taken'[j] \subseteq taken[j]
      BY <2>1
    <3> QED BY <2>1, <2>3, <2>5, <3>1, NamedFrame
  <2> QED BY <2>4, <2>5
<1>5. ASSUME NEW k \in Spares, StartFollowupFails(i, k) PROVE NamedState(c)'
  BY <1>5, DroppedNamesNow DEF StartFollowupFails
<1> QED BY <1>1, <1>2, <1>3, <1>4, <1>5

LEMMA NamedPreserved ==
    ASSUME ReportInv, NamedInv, [Next]_vars
    PROVE  NamedInv'
<1> SUFFICES ASSUME NEW c \in ToolCalls PROVE NamedState(c)'
  BY DEF NamedInv
<1>0. NamedState(c)
  BY DEF NamedInv
<1>1. ASSUME NEW e \in Calls, Resolve(e) \/ CodeLook(e) \/ CallStep(e) PROVE NamedState(c)'
  BY <1>0, <1>1, NamedCall
<1>2. ASSUME NEW i \in Jobs, EndTurn(i) \/ Exit(i) \/ WatchStep(i) PROVE NamedState(c)'
  BY <1>0, <1>2, NamedWatcher, NamedFollowups DEF WatchStep
<1>3. ASSUME ThreadStep \/ UNCHANGED vars PROVE NamedState(c)'
  <2>1. UNCHANGED <<call, target, fate, followups, taken, watch, report, process, log>>
    BY <1>3 DEF ThreadStep, Stop, Abort, TurnStarts, Absorb, vars, callVars, runVars, watchVars, queueVars
  <2>2. \A j \in Jobs : Reported(c, j) => Reported(c, j)'
    BY <2>1, ReportedFrame
  <2> QED BY <1>0, <2>1, <2>2, NamedFrame
<1> QED BY <1>1, <1>2, <1>3 DEF Next

(* A follow-up that could not be started is named on a final report that is *)
(* handed over, for any number of calls that queue, whichever of caller and *)
(* watcher hands the report over; only a cancelled run may keep silent.     *)
THEOREM DroppedAreReported == Spec => []DroppedAreNamed
<1>1. Init => NamedInv
  BY JobNames DEF Init, NamedInv, NamedState
<1>2. ReportInv /\ NamedInv /\ [Next]_vars => NamedInv'
  BY NamedPreserved
<1>3. NamedInv => DroppedAreNamed
  BY DEF NamedInv, NamedState, Reported, Noted, DroppedAreNamed
<1> QED BY <1>1, <1>2, <1>3, ReportInvHolds, PTL DEF Spec
=============================================================================
