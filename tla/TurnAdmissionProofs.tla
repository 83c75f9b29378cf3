------------------------ MODULE TurnAdmissionProofs -------------------------
(***************************************************************************)
(* What TurnAdmission guarantees for every number of calls, users and      *)
(* prompts: its types, the exclusion its lock gives, and the ownership of  *)
(* the release marker.                                                     *)
(***************************************************************************)
EXTENDS TurnAdmission, TLAPS

(* The places only turns come to.                                           *)
TurnsOnlyPCs == TurnPCs \cup {"probe", "probing", "post", "try", "check",
                              "enqueue", "queued"}
TurnsOnly == \A c \in Contenders : pc[c] \in TurnsOnlyPCs => c \in Turns

(* The inductive invariant.                                                 *)
IInv == TypeOK /\ LockExclusion /\ ReleaseMarkerOwned /\ TurnsOnly

USE DEF Turns, Contenders, Actors, Prompts

-----------------------------------------------------------------------------
(* The queue's operations keep its types and its bound.                     *)

LEMMA WokenType ==
    ASSUME Queue!QueueTypeOK, NEW ps, NEW result \in Queue!Outcomes
    PROVE  Queue!Woken(ps, result) \in [Prompts -> Queue!Outcomes]
BY DEF Queue!Woken, Queue!QueueTypeOK

LEMMA PushType ==
    ASSUME Queue!QueueTypeOK, NEW p \in Prompts, Queue!Push(p)
    PROVE  /\ queue' \in Seq(Prompts)
           /\ Len(queue') <= QueueMax
           /\ outcome' \in [Prompts -> Queue!Outcomes]
<1>1. QueueMax \in Nat \ {0}
  BY TurnAssumption DEF TurnAssumption
<1>2. queue \in Seq(Prompts) /\ Len(queue) <= QueueMax
  BY DEF Queue!QueueTypeOK
<1>3. queue' \in Seq(Prompts) /\ Len(queue') <= QueueMax
  <2>1. CASE Len(queue) >= QueueMax
    <3>1. queue # <<>> /\ Queue!Evicted # {}
      BY <1>1, <1>2, <2>1 DEF Queue!Evicted
    <3>2. Tail(queue) \in Seq(Prompts) /\ Len(Tail(queue)) = Len(queue) - 1
      BY <1>2, <3>1
    <3>3. queue' = Append(Tail(queue), p)
      BY <3>1 DEF Queue!Push
    <3> QED BY <1>1, <1>2, <3>2, <3>3
  <2>2. CASE ~(Len(queue) >= QueueMax)
    <3>1. queue' = Append(queue, p)
      BY <2>2 DEF Queue!Push, Queue!Evicted
    <3> QED BY <1>1, <1>2, <2>2, <3>1
  <2> QED BY <2>1, <2>2
<1>4. "overflow" \in Queue!Outcomes /\ "pending" \in Queue!Outcomes
  BY DEF Queue!Outcomes, Queue!WokenWith
<1>5. Queue!Woken(Queue!Evicted, "overflow") \in [Prompts -> Queue!Outcomes]
  BY <1>4, WokenType
<1>6. outcome' = [Queue!Woken(Queue!Evicted, "overflow") EXCEPT ![p] = "pending"]
  BY DEF Queue!Push
<1> QED BY <1>3, <1>4, <1>5, <1>6

LEMMA ConcatType ==
    ASSUME NEW S, NEW s \in Seq(S), NEW t \in Seq(S)
    PROVE  s \o t \in Seq(S) /\ Len(s \o t) = Len(s) + Len(t)
OBVIOUS

LEMMA WithdrawType ==
    ASSUME Queue!QueueTypeOK, NEW p \in Prompts, Queue!Withdraw(p)
    PROVE  Queue!QueueTypeOK'
<1>1. PICK i \in DOMAIN queue :
        /\ queue[i] = p
        /\ queue' = SubSeq(queue, 1, i - 1) \o SubSeq(queue, i + 1, Len(queue))
  BY DEF Queue!Withdraw
<1>2. queue \in Seq(Prompts) /\ i \in 1 .. Len(queue) /\ Len(queue) <= QueueMax
  BY <1>1 DEF Queue!QueueTypeOK
<1>3. /\ SubSeq(queue, 1, i - 1) \in Seq(Prompts)
      /\ Len(SubSeq(queue, 1, i - 1)) = i - 1
  BY <1>2
<1>4. /\ SubSeq(queue, i + 1, Len(queue)) \in Seq(Prompts)
      /\ Len(SubSeq(queue, i + 1, Len(queue))) = Len(queue) - i
  BY <1>2
<1>5. queue' \in Seq(Prompts) /\ Len(queue') = Len(queue) - 1
  <2> DEFINE before == SubSeq(queue, 1, i - 1)
             after  == SubSeq(queue, i + 1, Len(queue))
  <2>1. before \in Seq(Prompts) /\ Len(before) = i - 1
    BY <1>3
  <2>2. after \in Seq(Prompts) /\ Len(after) = Len(queue) - i
    BY <1>4
  <2>3. queue' = before \o after
    BY <1>1
  <2> HIDE DEF before, after
  <2>4. before \o after \in Seq(Prompts) /\ Len(before \o after) = Len(before) + Len(after)
    BY <2>1, <2>2, ConcatType
  <2> QED BY <1>2, <2>1, <2>2, <2>3, <2>4
<1>6. QueueMax \in Nat
  BY TurnAssumption DEF TurnAssumption
<1>7. Len(queue') <= QueueMax
  BY <1>2, <1>5, <1>6
<1>8. outcome' \in [Prompts -> Queue!Outcomes]
  BY WokenType DEF Queue!Withdraw, Queue!Outcomes, Queue!WokenWith
<1> QED BY <1>5, <1>7, <1>8 DEF Queue!Withdraw, Queue!QueueTypeOK

-----------------------------------------------------------------------------
(* How a step may move a call.                                              *)

(* The part of the invariant that says where calls are.                     *)
Control ==
    /\ Lock!LockTypeOK
    /\ releasing \in BOOLEAN
    /\ pc \in [Actors -> PCs]
    /\ LockExclusion /\ ReleaseMarkerOwned /\ TurnsOnly

(* A call moves without taking or giving back the lock.                     *)
LEMMA Stays ==
    ASSUME Control, NEW c \in Contenders, NEW place \in PCs, Goto(c, place),
           Lock!LockTypeOK', releasing' \in BOOLEAN, owner' = owner,
           pc[c] \in HolderPCs <=> place \in HolderPCs,
           place \in TurnsOnlyPCs => c \in Turns,
           place \in HolderPCs => ~releasing' \/ place \notin OpenPCs,
           place \notin HolderPCs => releasing' = releasing
    PROVE  Control'
<1>1. pc' = [pc EXCEPT ![c] = place]
  BY DEF Goto
<1>2. pc \in [Actors -> PCs] /\ c \in Actors
  BY DEF Control
<1>3. pc' \in [Actors -> PCs] /\ pc'[c] = place
  BY <1>1, <1>2
<1>4. \A b \in Actors \ {c} : pc'[b] = pc[b]
  BY <1>1, <1>2
<1>5. LockExclusion'
  BY <1>2, <1>3, <1>4 DEF Control, LockExclusion
<1>6. ReleaseMarkerOwned'
  <2> SUFFICES ASSUME releasing' PROVE owner # None /\ pc'[owner] \notin OpenPCs
    BY DEF ReleaseMarkerOwned
  <2>1. CASE place \in HolderPCs
    BY <1>2, <1>3, <2>1, TurnAssumption DEF Control, LockExclusion, TurnAssumption
  <2>2. CASE place \notin HolderPCs
    BY <1>2, <1>4, <2>2, TurnAssumption
       DEF Control, LockExclusion, ReleaseMarkerOwned, TurnAssumption, Lock!LockTypeOK
  <2> QED BY <2>1, <2>2
<1>7. TurnsOnly'
  BY <1>3, <1>4 DEF Control, TurnsOnly
<1> QED BY <1>3, <1>5, <1>6, <1>7 DEF Control

(* A call takes the lock: the marker of the holder before it is gone.       *)
LEMMA Takes ==
    ASSUME Control, NEW c \in Contenders, NEW place \in HolderPCs, Goto(c, place),
           Lock!Acquire(c), releasing' = releasing,
           place \in TurnsOnlyPCs => c \in Turns
    PROVE  Control'
<1>1. pc' = [pc EXCEPT ![c] = place] /\ c \in Actors /\ place \in PCs
  BY DEF Goto, PCs
<1>2. pc' \in [Actors -> PCs] /\ pc'[c] = place /\ \A b \in Actors \ {c} : pc'[b] = pc[b]
  BY <1>1 DEF Control
<1>3. owner = None /\ owner' = c /\ ~releasing
  BY DEF Lock!Acquire, Lock!LockFree, Control, ReleaseMarkerOwned
<1>4. \A b \in Contenders : pc[b] \notin HolderPCs
  BY <1>3, TurnAssumption DEF Control, LockExclusion, TurnAssumption
<1>5. LockExclusion'
  BY <1>2, <1>3, <1>4 DEF LockExclusion
<1>6. ReleaseMarkerOwned' /\ releasing' \in BOOLEAN
  BY <1>3 DEF ReleaseMarkerOwned, Control
<1>7. TurnsOnly'
  BY <1>2 DEF Control, TurnsOnly
<1>8. Lock!LockTypeOK'
  BY <1>3 DEF Control, Lock!LockTypeOK, Lock!Acquire
<1> QED BY <1>2, <1>5, <1>6, <1>7, <1>8 DEF Control

(* A holder gives the lock back, and takes its marker with it.              *)
LEMMA Leaves ==
    ASSUME Control, NEW c \in Contenders, NEW place \in PCs \ HolderPCs, Goto(c, place),
           pc[c] \in HolderPCs, owner' = None, releasing' = FALSE,
           UNCHANGED <<abort, threadEpoch, deleting>>,
           place \in TurnsOnlyPCs => c \in Turns
    PROVE  Control'
<1>1. pc' = [pc EXCEPT ![c] = place] /\ c \in Actors
  BY DEF Goto
<1>2. pc' \in [Actors -> PCs] /\ pc'[c] = place /\ \A b \in Actors \ {c} : pc'[b] = pc[b]
  BY <1>1 DEF Control
<1>3. \A b \in Contenders \ {c} : pc[b] \notin HolderPCs
  BY DEF Control, LockExclusion
<1>4. LockExclusion'
  BY <1>2, <1>3, TurnAssumption DEF LockExclusion, TurnAssumption
<1>5. TurnsOnly'
  BY <1>2 DEF Control, TurnsOnly
<1>6. Lock!LockTypeOK'
  BY DEF Control, Lock!LockTypeOK
<1> QED BY <1>2, <1>4, <1>5, <1>6 DEF Control, ReleaseMarkerOwned

-----------------------------------------------------------------------------
(* One step per action.                                                     *)

LEMMA ArrivingKeepsControl ==
    ASSUME IInv, NEW c \in Contenders, Arriving(c)
    PROVE  Control'
<1> USE DEF KeepGoing, Suspend, At, PCs, OutsidePCs, HolderPCs, DonePCs, TurnPCs, OpenPCs, TurnsOnlyPCs
<1>0. Control
  BY DEF IInv, TypeOK, Control, Queue!QueueTypeOK
<1>u. ASSUME UNCHANGED lockVars PROVE Lock!LockTypeOK' /\ owner' = owner
  BY <1>0, <1>u DEF lockVars, Control, Lock!LockTypeOK
<1>q. ASSUME UNCHANGED queueVars PROVE releasing' \in BOOLEAN /\ releasing' = releasing
  BY <1>0, <1>q DEF queueVars, Control
<1>1. CASE Enter(c)
  BY <1>0, <1>1, <1>u, <1>q, Stays DEF Enter
<1>2. CASE Probe(c)
  BY <1>0, <1>2, <1>u, <1>q, Stays, Takes DEF Probe, Control, TurnsOnly
<1>3. CASE ProbeDrop(c)
  <2>1. pc[c] = "probing" /\ owner' = None /\ Goto(c, "entry")
        /\ UNCHANGED <<abort, threadEpoch, deleting>>
    BY <1>3 DEF ProbeDrop
  <2>2. owner = c
    BY <1>0, <2>1 DEF Control, LockExclusion
  <2>3. ~releasing
    BY <1>0, <2>1, <2>2 DEF Control, ReleaseMarkerOwned
  <2>4. UNCHANGED queueVars
    BY <1>3 DEF ProbeDrop
  <2> QED BY <1>0, <1>q, <2>1, <2>3, <2>4, Leaves DEF Control
<1>4. CASE PostPrompt(c)
  BY <1>0, <1>4, <1>u, <1>q, Stays DEF PostPrompt, Queue!Enqueue, Control
<1>5. CASE TryLock(c)
  BY <1>0, <1>5, <1>u, <1>q, Stays, Takes DEF TryLock, Control, TurnsOnly
<1>6. CASE CheckReleasing(c)
  BY <1>0, <1>6, <1>u, <1>q, Stays DEF CheckReleasing, Control, TurnsOnly
<1>7. CASE EnqueuePrompt(c)
  BY <1>0, <1>7, <1>u, <1>q, Stays DEF EnqueuePrompt, Queue!Enqueue, Control, TurnsOnly
<1>8. CASE WaitAcquire(c)
  BY <1>0, <1>8, <1>q, Takes DEF WaitAcquire
<1>9. CASE WaitTimeout(c)
  BY <1>0, <1>9, <1>u, <1>q, Stays DEF WaitTimeout
<1>10. CASE Observe(c)
  BY <1>0, <1>10, <1>u, <1>q, Stays DEF Observe
<1>11. CASE QueueTimeout(c)
  BY <1>0, <1>11, <1>u, <1>q, Stays DEF QueueTimeout
<1> QED BY <1>1, <1>2, <1>3, <1>4, <1>5, <1>6, <1>7, <1>8, <1>9, <1>10, <1>11 DEF Arriving

LEMMA RunningTurnKeepsControl ==
    ASSUME IInv, NEW r \in Contenders, RunningTurn(r)
    PROVE  Control'
<1> USE DEF KeepGoing, Suspend, At, PCs, OutsidePCs, HolderPCs, DonePCs, TurnPCs, OpenPCs, TurnsOnlyPCs
<1>0. Control
  BY DEF IInv, TypeOK, Control, Queue!QueueTypeOK
<1>u. ASSUME UNCHANGED lockVars PROVE Lock!LockTypeOK' /\ owner' = owner
  BY <1>0, <1>u DEF lockVars, Control, Lock!LockTypeOK
<1>q. ASSUME UNCHANGED queueVars PROVE releasing' \in BOOLEAN /\ releasing' = releasing
  BY <1>0, <1>q DEF queueVars, Control
<1>h. pc[r] \in OpenPCs => ~releasing
  <2>1. OpenPCs \subseteq HolderPCs
    OBVIOUS
  <2> QED BY <1>0, <2>1 DEF Control, LockExclusion, ReleaseMarkerOwned
<1>1. CASE StartTurn(r)
  <2>1. CASE Lock!EpochIsCurrent(epoch[r])
    <3>1. /\ r \in Turns /\ pc[r] = "held" /\ Goto(r, "driving")
          /\ UNCHANGED queueVars
      BY <1>1, <2>1 DEF StartTurn
    <3>2. Lock!LockTypeOK' /\ owner' = owner
      BY <1>0, <1>1, <1>u, <2>1 DEF StartTurn, Lock!SetAbort, Lock!LockTypeOK, Control
    <3>3. releasing' \in BOOLEAN /\ ~releasing'
      BY <1>q, <1>h, <3>1
    <3> QED BY <1>0, <3>1, <3>2, <3>3, Stays
  <2>2. CASE ~Lock!EpochIsCurrent(epoch[r])
    BY <1>0, <1>1, <2>2, Leaves DEF StartTurn, ReleaseLock
  <2> QED BY <2>1, <2>2
<1>2. CASE RouteAfterTools(r)
  BY <1>0, <1>2, <1>u DEF RouteAfterTools, Control, LockExclusion, ReleaseMarkerOwned, TurnsOnly
<1>3. CASE DriveEnds(r)
  BY <1>0, <1>3, <1>u, <1>q, <1>h, Stays DEF DriveEnds, Control, TurnsOnly
<1>4. CASE TurnFails(r)
  BY <1>0, <1>4, <1>u, <1>q, Stays DEF TurnFails
<1>5. CASE LoopTest(r)
  BY <1>0, <1>5, <1>u, <1>q, Stays DEF LoopTest, Control, TurnsOnly
<1>6. CASE Drain(r)
  BY <1>0, <1>6, <1>u, <1>q, Stays DEF Drain, TakeBatch, Control, TurnsOnly, ReleaseMarkerOwned, LockExclusion
<1>7. CASE Continue(r)
  BY <1>0, <1>7, <1>u, <1>q, Stays DEF Continue, Queue!Enqueue, Control, TurnsOnly
<1>8. CASE CloseQueue(r)
  <2>1. pc[r] = "empty" /\ Goto(r, "closing") /\ UNCHANGED lockVars
    BY <1>8 DEF CloseQueue
  <2>2. releasing' \in BOOLEAN
    BY <1>8 DEF CloseQueue, Queue!BeginRelease
  <2> QED BY <1>0, <1>u, <2>1, <2>2, Stays DEF Control, TurnsOnly
<1>9. CASE Redriven(r)
  BY <1>0, <1>9, <1>u, <1>q, Stays DEF Redriven, Control, TurnsOnly
<1>10. CASE RedriveFails(r)
  BY <1>0, <1>10, <1>u, <1>q, Stays DEF RedriveFails, Control, TurnsOnly
<1>11. CASE SteerDrain(r)
  BY <1>0, <1>11, <1>u, <1>q, <1>h, Stays DEF SteerDrain, Control, TurnsOnly
<1>12. CASE Resteered(r)
  BY <1>0, <1>12, <1>u, <1>q, <1>h, Stays DEF Resteered, Control, TurnsOnly
<1>13. CASE ResteerFails(r)
  BY <1>0, <1>13, <1>u, <1>q, <1>h, Stays DEF ResteerFails, Control, TurnsOnly
<1>14. CASE MidDone(r)
  BY <1>0, <1>14, <1>u, <1>q, Stays DEF MidDone, Control, TurnsOnly
<1>15. CASE Seal(r)
  BY <1>0, <1>15, <1>u, <1>q, Stays DEF Seal, Queue!BeginRelease, Control, TurnsOnly
<1>16. CASE SealClear(r)
  BY <1>0, <1>16, <1>u, <1>q, Stays DEF SealClear, Queue!Clear, Control, TurnsOnly
<1>17. CASE FailClear(r)
  BY <1>0, <1>17, <1>u, <1>q, Stays DEF FailClear, Queue!Clear, Control
<1> QED BY <1>1, <1>2, <1>3, <1>4, <1>5, <1>6, <1>7, <1>8, <1>9, <1>10, <1>11, <1>12, <1>13, <1>14, <1>15, <1>16, <1>17 DEF RunningTurn

LEMMA ModelFreeKeepsControl ==
    ASSUME IInv, NEW c \in Contenders, ModelFree(c)
    PROVE  Control'
<1> USE DEF KeepGoing, Suspend, At, PCs, OutsidePCs, HolderPCs, DonePCs, TurnPCs, OpenPCs, TurnsOnlyPCs
<1>0. Control
  BY DEF IInv, TypeOK, Control, Queue!QueueTypeOK
<1>u. ASSUME UNCHANGED lockVars PROVE Lock!LockTypeOK' /\ owner' = owner
  BY <1>0, <1>u DEF lockVars, Control, Lock!LockTypeOK
<1>q. ASSUME UNCHANGED queueVars PROVE releasing' \in BOOLEAN /\ releasing' = releasing
  BY <1>0, <1>q DEF queueVars, Control
<1>h. pc[c] \in OpenPCs => ~releasing
  <2>1. OpenPCs \subseteq HolderPCs
    OBVIOUS
  <2> QED BY <1>0, <2>1 DEF Control, LockExclusion, ReleaseMarkerOwned
<1>1. CASE HoldClose(c)
  BY <1>0, <1>1, <1>u, <1>q, Stays DEF HoldClose, Queue!BeginRelease
<1>2. CASE HoldRestore(c)
  BY <1>0, <1>2, <1>u, <1>q, Stays DEF HoldRestore, Queue!ClearWithRestore, Control
<1>3. CASE HoldStart(c)
  BY <1>0, <1>3, <1>u, <1>q, Stays DEF HoldStart, Lock!SetAbort, Lock!LockTypeOK, Control
<1>4. CASE ClearStart(c)
  BY <1>0, <1>4, <1>u, <1>q, Stays, Leaves DEF ClearStart, Queue!BeginRelease, ReleaseLock, Control
<1>5. CASE DeleteAdmit(c)
  BY <1>0, <1>5, <1>u, <1>q, Stays DEF DeleteAdmit, Lock!SetAbort, Lock!LockTypeOK, Control
<1>6. CASE DeleteAbortQueue(c)
  BY <1>0, <1>6, <1>u, <1>q, Stays DEF DeleteAbortQueue, Queue!Clear, Control
<1>7. CASE DeleteBegin(c)
  <2>1. pc[c] = "held" /\ (Goto(c, "marked") \/ Goto(c, "leaving")) /\ UNCHANGED queueVars
    BY <1>7 DEF DeleteBegin
  <2>2. Lock!LockTypeOK' /\ owner' = owner
    <3>1. Lock!LockTypeOK
      BY <1>0 DEF Control
    <3>2. CASE Lock!BeginThreadDeletion
      BY <3>1, <3>2 DEF Lock!BeginThreadDeletion, Lock!LockTypeOK
    <3>3. CASE Lock!EndThreadDeletion
      BY <3>1, <3>3 DEF Lock!EndThreadDeletion, Lock!LockTypeOK
    <3> QED BY <1>7, <3>2, <3>3 DEF DeleteBegin
  <2>3. releasing' \in BOOLEAN /\ ~releasing'
    BY <1>q, <1>h, <2>1
  <2> QED BY <1>0, <2>1, <2>2, <2>3, Stays
<1>8. CASE DeleteClose(c)
  BY <1>0, <1>8, <1>u, <1>q, Stays DEF DeleteClose, Queue!BeginRelease, Control
<1>9. CASE DeleteClear(c)
  BY <1>0, <1>9, <1>u, <1>q, Stays DEF DeleteClear, Queue!Clear, Control
<1>10. CASE DeleteEnd(c)
  BY <1>0, <1>10, <1>u, <1>q, Stays DEF DeleteEnd, Lock!EndThreadDeletion, Lock!LockTypeOK, Control
<1> QED BY <1>1, <1>2, <1>3, <1>4, <1>5, <1>6, <1>7, <1>8, <1>9, <1>10 DEF ModelFree

LEMMA OthersKeepControl ==
    ASSUME IInv, (\E c \in Contenders : Release(c)) \/ (\E s \in Stops : StopRestore(s))
                 \/ UserStep \/ UNCHANGED vars
    PROVE  Control'
<1> USE DEF KeepGoing, Suspend, At, PCs, OutsidePCs, HolderPCs, DonePCs, TurnPCs, OpenPCs, TurnsOnlyPCs
<1>0. Control
  BY DEF IInv, TypeOK, Control, Queue!QueueTypeOK
<1>u. ASSUME UNCHANGED lockVars PROVE Lock!LockTypeOK' /\ owner' = owner
  BY <1>0, <1>u DEF lockVars, Control, Lock!LockTypeOK
<1>q. ASSUME UNCHANGED queueVars PROVE releasing' \in BOOLEAN /\ releasing' = releasing
  BY <1>0, <1>q DEF queueVars, Control
<1>s. ASSUME NEW s \in Stops, NEW place \in PCs, Goto(s, place),
             Lock!LockTypeOK', owner' = owner, UNCHANGED releasing
      PROVE  Control'
  <2>1. s \in Actors /\ s \notin Contenders
    BY TurnAssumption DEF TurnAssumption
  <2>2. pc' = [pc EXCEPT ![s] = place] /\ pc \in [Actors -> PCs]
    BY <1>0, <1>s DEF Goto, Control
  <2>3. pc' \in [Actors -> PCs] /\ \A c \in Contenders : pc'[c] = pc[c]
    BY <2>1, <2>2
  <2>4. LockExclusion' /\ TurnsOnly'
    BY <1>0, <1>s, <2>3 DEF Control, LockExclusion, TurnsOnly
  <2>5. ReleaseMarkerOwned'
    BY <1>0, <1>s, <2>3 DEF Control, ReleaseMarkerOwned, Lock!LockTypeOK
  <2> QED BY <1>0, <1>s, <2>3, <2>4, <2>5 DEF Control
<1>1. ASSUME NEW c \in Contenders, Release(c) PROVE Control'
  BY <1>0, <1>1, Leaves DEF Release, ReleaseLock
<1>2. ASSUME NEW s \in Stops, StopRestore(s) PROVE Control'
  BY <1>0, <1>2, <1>u, <1>s DEF StopRestore, Queue!ClearWithRestore
<1>3. ASSUME NEW s \in Stops, StopSignal(s) PROVE Control'
  BY <1>0, <1>3, <1>q, <1>s DEF StopSignal, Lock!SetAbort, Lock!LockTypeOK, Control
<1>4. ASSUME NEW c \in Contenders, Authorise(c) PROVE Control'
  BY <1>0, <1>4, <1>u, <1>q, Stays, TurnAssumption DEF Authorise, TurnAssumption
<1>5. ASSUME NEW c \in Contenders, Detach(c) PROVE Control'
  BY <1>0, <1>5, <1>u, <1>q, Stays DEF Detach
<1>6. ASSUME NEW c \in Contenders, CloseTurn(c) PROVE Control'
  BY <1>0, <1>6, <1>u, <1>q, Stays DEF CloseTurn, Control, TurnsOnly
<1>7. ASSUME NEW p \in Turns, WithdrawPrompt(p) PROVE Control'
  <2>1. UNCHANGED <<lockVars, releasing, pc>>
    BY <1>7 DEF WithdrawPrompt, Queue!Withdraw, callVars
  <2> QED BY <1>0, <1>u, <2>1 DEF Control, LockExclusion, ReleaseMarkerOwned, TurnsOnly
<1>8. ASSUME UNCHANGED vars PROVE Control'
  BY <1>0, <1>8 DEF vars, lockVars, queueVars, callVars, Control, LockExclusion,
                    ReleaseMarkerOwned, TurnsOnly, Lock!LockTypeOK
<1> QED BY <1>1, <1>2, <1>3, <1>4, <1>5, <1>6, <1>7, <1>8 DEF UserStep

-----------------------------------------------------------------------------
(* The types of the rest of the state.                                      *)

Data ==
    /\ epoch \in [Contenders -> Int]
    /\ batch \in SUBSET Prompts
    /\ author \in [Notes -> Turns \cup {None}]
    /\ loop \in OnLoop \cup {None}

(* Steps that leave the queue alone or empty it.                            *)
LEMMA QueueEmptiedOrKept ==
    ASSUME Queue!QueueTypeOK, queue' = <<>> \/ queue' = queue,
           releasing' \in BOOLEAN, halted' \in BOOLEAN,
           outcome' \in [Prompts -> Queue!Outcomes]
    PROVE  Queue!QueueTypeOK'
<1>1. QueueMax \in Nat
  BY TurnAssumption DEF TurnAssumption
<1>2. CASE queue' = <<>>
  <2>1. queue' \in Seq(Prompts) /\ Len(queue') = 0
    BY <1>2
  <2> QED BY <1>1, <2>1 DEF Queue!QueueTypeOK
<1>3. CASE queue' = queue
  BY <1>3 DEF Queue!QueueTypeOK
<1> QED BY <1>2, <1>3

LEMMA QueueKept ==
    ASSUME Queue!QueueTypeOK, UNCHANGED queueVars
    PROVE  Queue!QueueTypeOK'
BY DEF queueVars, Queue!QueueTypeOK

LEMMA EnqueueType ==
    ASSUME Queue!QueueTypeOK, NEW p \in Prompts, Queue!Enqueue(p)
    PROVE  Queue!QueueTypeOK'
BY PushType DEF Queue!Enqueue, Queue!QueueTypeOK

LEMMA ClearType ==
    ASSUME Queue!QueueTypeOK, Queue!Clear
    PROVE  Queue!QueueTypeOK'
<1>1. outcome' \in [Prompts -> Queue!Outcomes]
  BY WokenType DEF Queue!Clear, Queue!Outcomes, Queue!WokenWith
<1> QED BY <1>1, QueueEmptiedOrKept DEF Queue!Clear, Queue!QueueTypeOK

LEMMA ClearWithRestoreType ==
    ASSUME Queue!QueueTypeOK, Queue!ClearWithRestore
    PROVE  Queue!QueueTypeOK'
<1>1. outcome' \in [Prompts -> Queue!Outcomes]
  BY DEF Queue!ClearWithRestore, Queue!Outcomes, Queue!WokenWith, Queue!QueueTypeOK
<1> QED BY <1>1, QueueEmptiedOrKept DEF Queue!ClearWithRestore, Queue!QueueTypeOK

LEMMA BeginReleaseType ==
    ASSUME Queue!QueueTypeOK, Queue!BeginRelease
    PROVE  Queue!QueueTypeOK'
BY DEF Queue!BeginRelease, Queue!QueueTypeOK

LEMMA ReleaseLockType ==
    ASSUME Queue!QueueTypeOK, ReleaseLock
    PROVE  Queue!QueueTypeOK'
BY DEF ReleaseLock, Queue!QueueTypeOK

LEMMA LoopType ==
    ASSUME loop \in OnLoop \cup {None}, NEW a,
           Keeps(a) \/ Yields(a) \/ UNCHANGED loop
    PROVE  loop' \in OnLoop \cup {None}
BY DEF Keeps, Yields

LEMMA EpochNow ==
    ASSUME Lock!LockTypeOK
    PROVE  Lock!CurrentEpoch \in Int
BY DEF Lock!LockTypeOK, Lock!CurrentEpoch

LEMMA ArrivingKeepsData ==
    ASSUME IInv, NEW c \in Contenders, Arriving(c)
    PROVE  Queue!QueueTypeOK' /\ Data'
<1> USE DEF KeepGoing, Suspend, At
<1>0. Queue!QueueTypeOK /\ Data /\ Lock!LockTypeOK
  BY DEF IInv, TypeOK, Data
<1>1. CASE Enter(c)
  BY <1>0, <1>1, QueueKept, LoopType DEF Enter, Data
<1>2. CASE Probe(c)
  BY <1>0, <1>2, QueueKept DEF Probe, Data
<1>3. CASE ProbeDrop(c)
  BY <1>0, <1>3, QueueKept, EpochNow DEF ProbeDrop, Data
<1>4. CASE PostPrompt(c)
  <2>1. c \in Turns
    BY <1>4 DEF IInv, TurnsOnly, TurnsOnlyPCs, PostPrompt
  <2> QED BY <1>0, <1>4, <2>1, QueueKept, EnqueueType DEF PostPrompt, Data
<1>5. CASE TryLock(c)
  BY <1>0, <1>5, QueueKept, LoopType DEF TryLock, Data
<1>6. CASE CheckReleasing(c)
  BY <1>0, <1>6, QueueKept, LoopType DEF CheckReleasing, Data
<1>7. CASE EnqueuePrompt(c)
  <2>1. c \in Turns
    BY <1>7 DEF IInv, TurnsOnly, TurnsOnlyPCs, EnqueuePrompt
  <2> QED BY <1>0, <1>7, <2>1, QueueKept, EnqueueType, LoopType DEF EnqueuePrompt, Data
<1>8. CASE WaitAcquire(c)
  BY <1>0, <1>8, QueueKept, LoopType DEF WaitAcquire, Data
<1>9. CASE WaitTimeout(c)
  BY <1>0, <1>9, QueueKept, LoopType DEF WaitTimeout, Data
<1>10. CASE Observe(c)
  BY <1>0, <1>10, QueueKept, LoopType DEF Observe, Data
<1>11. CASE QueueTimeout(c)
  BY <1>0, <1>11, QueueKept, LoopType DEF QueueTimeout, Data
<1> QED BY <1>1, <1>2, <1>3, <1>4, <1>5, <1>6, <1>7, <1>8, <1>9, <1>10, <1>11 DEF Arriving

LEMMA RunningTurnKeepsData ==
    ASSUME IInv, NEW r \in Contenders, RunningTurn(r)
    PROVE  Queue!QueueTypeOK' /\ Data'
<1> USE DEF KeepGoing, Suspend, At
<1>0. Queue!QueueTypeOK /\ Data
  BY DEF IInv, TypeOK, Data
<1>o. /\ \A ps : /\ Queue!Woken(ps, "absorbed") \in [Prompts -> Queue!Outcomes]
                 /\ Queue!Woken(ps, "inject_failed") \in [Prompts -> Queue!Outcomes]
                 /\ Queue!Woken(ps, "cross_user") \in [Prompts -> Queue!Outcomes]
      /\ outcome \in [Prompts -> Queue!Outcomes]
      /\ releasing \in BOOLEAN /\ halted \in BOOLEAN
  BY <1>0, WokenType DEF Queue!Outcomes, Queue!WokenWith, Queue!QueueTypeOK
<1>b. Range(queue) \subseteq Prompts
  BY <1>0 DEF Queue!QueueTypeOK, Range
<1>1. CASE StartTurn(r)
  BY <1>0, <1>1, QueueKept, ReleaseLockType, LoopType DEF StartTurn, Data
<1>2. CASE RouteAfterTools(r)
  <2>1. r \in Turns
    BY <1>2 DEF IInv, TurnsOnly, TurnsOnlyPCs, TurnPCs, RouteAfterTools
  <2>2. CASE \E n \in Notes : Queue!Push(n) /\ author' = [author EXCEPT ![n] = r]
    <3>1. PICK n \in Notes : Queue!Push(n) /\ author' = [author EXCEPT ![n] = r]
      BY <2>2
    <3>2. Queue!QueueTypeOK'
      BY <1>0, <1>2, <3>1, PushType DEF RouteAfterTools, Queue!QueueTypeOK
    <3>3. author' \in [Notes -> Turns \cup {None}]
      BY <1>0, <2>1, <3>1 DEF Data
    <3> QED BY <1>0, <1>2, <3>2, <3>3, LoopType DEF RouteAfterTools, Data
  <2>3. CASE UNCHANGED <<queue, outcome, author>>
    BY <1>0, <1>2, <1>o, <2>3, QueueEmptiedOrKept, LoopType DEF RouteAfterTools, Data
  <2> QED BY <1>2, <2>2, <2>3 DEF RouteAfterTools
<1>3. CASE DriveEnds(r)
  BY <1>0, <1>3, <1>o, QueueEmptiedOrKept, LoopType DEF DriveEnds, Data
<1>4. CASE TurnFails(r)
  BY <1>0, <1>4, QueueKept, LoopType DEF TurnFails, Data
<1>5. CASE LoopTest(r)
  BY <1>0, <1>5, QueueKept, LoopType DEF LoopTest, Data
<1>6. CASE Drain(r)
  <2>1. CASE \E next, ifNone : TakeBatch(r, next, ifNone)
    <3>1. Queue!QueueTypeOK'
      BY <1>0, <1>o, <2>1, QueueEmptiedOrKept DEF TakeBatch
    <3>2. batch' \in SUBSET Prompts
      BY <1>b, <2>1 DEF TakeBatch, Acceptable
    <3>3. loop' \in OnLoop \cup {None}
      BY <1>0, <2>1, LoopType DEF TakeBatch, Data
    <3> QED BY <1>0, <1>6, <3>1, <3>2, <3>3 DEF Drain, Data
  <2>2. CASE UNCHANGED <<queueVars, batch>> /\ Yields(r)
    BY <1>0, <1>6, <2>2, QueueKept, LoopType DEF Drain, Data
  <2> QED BY <1>6, <2>1, <2>2 DEF Drain
<1>7. CASE Continue(r)
  <2>1. r \in Turns
    BY <1>7 DEF IInv, TurnsOnly, TurnsOnlyPCs, TurnPCs, Continue
  <2>2. PICK n \in Notes : Queue!Enqueue(n) /\ author' = [author EXCEPT ![n] = r]
    BY <1>7 DEF Continue
  <2>3. Queue!QueueTypeOK' /\ author' \in [Notes -> Turns \cup {None}]
    BY <1>0, <2>1, <2>2, EnqueueType DEF Data
  <2> QED BY <1>0, <1>7, <2>3, LoopType DEF Continue, Data
<1>8. CASE CloseQueue(r)
  BY <1>0, <1>8, BeginReleaseType, LoopType DEF CloseQueue, Data
<1>9. CASE Redriven(r)
  <2>1. halted' \in BOOLEAN
    BY <1>9 DEF Redriven
  <2> QED BY <1>0, <1>9, <1>o, <2>1, QueueEmptiedOrKept, LoopType DEF Redriven, Data
<1>10. CASE RedriveFails(r)
  BY <1>0, <1>10, <1>o, QueueEmptiedOrKept, LoopType DEF RedriveFails, Data
<1>11. CASE SteerDrain(r)
  BY <1>0, <1>11, <1>o, <1>b, QueueEmptiedOrKept, LoopType DEF SteerDrain, Data
<1>12. CASE Resteered(r)
  BY <1>0, <1>12, <1>o, QueueEmptiedOrKept, LoopType DEF Resteered, Data
<1>13. CASE ResteerFails(r)
  BY <1>0, <1>13, <1>o, QueueEmptiedOrKept, LoopType DEF ResteerFails, Data
<1>14. CASE MidDone(r)
  BY <1>0, <1>14, <1>o, QueueEmptiedOrKept, LoopType DEF MidDone, Data
<1>15. CASE Seal(r)
  BY <1>0, <1>15, BeginReleaseType, LoopType DEF Seal, Data
<1>16. CASE SealClear(r)
  BY <1>0, <1>16, ClearType, LoopType DEF SealClear, Data
<1>17. CASE FailClear(r)
  BY <1>0, <1>17, ClearType, LoopType DEF FailClear, Data
<1> QED BY <1>1, <1>2, <1>3, <1>4, <1>5, <1>6, <1>7, <1>8, <1>9, <1>10, <1>11, <1>12, <1>13, <1>14, <1>15, <1>16, <1>17 DEF RunningTurn

LEMMA ModelFreeKeepsData ==
    ASSUME IInv, NEW c \in Contenders, ModelFree(c)
    PROVE  Queue!QueueTypeOK' /\ Data'
<1> USE DEF KeepGoing, Suspend, At
<1>0. Queue!QueueTypeOK /\ Data
  BY DEF IInv, TypeOK, Data
<1>1. CASE HoldClose(c)
  BY <1>0, <1>1, BeginReleaseType, LoopType DEF HoldClose, Data
<1>2. CASE HoldRestore(c)
  BY <1>0, <1>2, ClearWithRestoreType, LoopType DEF HoldRestore, Data
<1>3. CASE HoldStart(c)
  BY <1>0, <1>3, QueueKept, LoopType DEF HoldStart, Data
<1>4. CASE ClearStart(c)
  BY <1>0, <1>4, BeginReleaseType, ReleaseLockType, LoopType DEF ClearStart, Data
<1>5. CASE DeleteAdmit(c)
  BY <1>0, <1>5, QueueKept, LoopType DEF DeleteAdmit, Data
<1>6. CASE DeleteAbortQueue(c)
  BY <1>0, <1>6, ClearType, LoopType DEF DeleteAbortQueue, Data
<1>7. CASE DeleteBegin(c)
  BY <1>0, <1>7, QueueKept, LoopType DEF DeleteBegin, Data
<1>8. CASE DeleteClose(c)
  BY <1>0, <1>8, BeginReleaseType, LoopType DEF DeleteClose, Data
<1>9. CASE DeleteClear(c)
  BY <1>0, <1>9, ClearType, LoopType DEF DeleteClear, Data
<1>10. CASE DeleteEnd(c)
  BY <1>0, <1>10, QueueKept, LoopType DEF DeleteEnd, Data
<1> QED BY <1>1, <1>2, <1>3, <1>4, <1>5, <1>6, <1>7, <1>8, <1>9, <1>10 DEF ModelFree

LEMMA OthersKeepData ==
    ASSUME IInv, (\E c \in Contenders : Release(c)) \/ (\E s \in Stops : StopRestore(s))
                 \/ UserStep \/ UNCHANGED vars
    PROVE  Queue!QueueTypeOK' /\ Data'
<1> USE DEF KeepGoing, Suspend, At
<1>0. Queue!QueueTypeOK /\ Data /\ Lock!LockTypeOK
  BY DEF IInv, TypeOK, Data
<1>1. ASSUME NEW c \in Contenders, Release(c) PROVE Queue!QueueTypeOK' /\ Data'
  BY <1>0, <1>1, ReleaseLockType, LoopType DEF Release, Data
<1>2. ASSUME NEW s \in Stops, StopRestore(s) PROVE Queue!QueueTypeOK' /\ Data'
  BY <1>0, <1>2, ClearWithRestoreType, LoopType DEF StopRestore, Data
<1>3. ASSUME NEW s \in Stops, StopSignal(s) PROVE Queue!QueueTypeOK' /\ Data'
  BY <1>0, <1>3, QueueKept, LoopType DEF StopSignal, Data
<1>4. ASSUME NEW c \in Contenders, Authorise(c) PROVE Queue!QueueTypeOK' /\ Data'
  BY <1>0, <1>4, QueueKept, LoopType, EpochNow DEF Authorise, Data
<1>5. ASSUME NEW c \in Contenders, Detach(c) PROVE Queue!QueueTypeOK' /\ Data'
  BY <1>0, <1>5, QueueKept, LoopType DEF Detach, Data
<1>6. ASSUME NEW c \in Contenders, CloseTurn(c) PROVE Queue!QueueTypeOK' /\ Data'
  BY <1>0, <1>6, QueueKept, LoopType DEF CloseTurn, Data
<1>7. ASSUME NEW p \in Turns, WithdrawPrompt(p) PROVE Queue!QueueTypeOK' /\ Data'
  <2>1. Queue!QueueTypeOK'
    BY <1>0, <1>7, WithdrawType DEF WithdrawPrompt
  <2> QED BY <1>0, <1>7, <2>1 DEF WithdrawPrompt, callVars, Data
<1>8. ASSUME UNCHANGED vars PROVE Queue!QueueTypeOK' /\ Data'
  BY <1>0, <1>8, QueueKept DEF vars, callVars, Data
<1> QED BY <1>1, <1>2, <1>3, <1>4, <1>5, <1>6, <1>7, <1>8 DEF UserStep

-----------------------------------------------------------------------------
(* The invariant holds throughout.                                          *)

LEMMA InitIInv ==
    ASSUME Init
    PROVE  IInv
<1>1. TypeOK
  <2>1. QueueMax \in Nat /\ None \notin Actors
    BY TurnAssumption DEF TurnAssumption
  <2>2. Lock!LockTypeOK
    BY DEF Init, Lock!LockInit, Lock!LockTypeOK
  <2>3. Queue!QueueTypeOK
    <3>1. queue = <<>>
      BY DEF Init, Queue!QueueInit
    <3>2. queue \in Seq(Prompts) /\ Len(queue) <= QueueMax
      BY <2>1, <3>1
    <3> QED BY <3>2 DEF Init, Queue!QueueInit, Queue!QueueTypeOK, Queue!Outcomes
  <2>4. pc \in [Actors -> PCs]
    BY DEF Init, PCs, OutsidePCs
  <2> QED BY <2>2, <2>3, <2>4 DEF Init, TypeOK
<1>2. \A c \in Contenders : pc[c] = "idle" /\ owner # c
  BY TurnAssumption DEF Init, Lock!LockInit, TurnAssumption
<1>3. LockExclusion
  BY <1>2 DEF LockExclusion, HolderPCs, TurnPCs
<1>4. ReleaseMarkerOwned
  BY DEF Init, Queue!QueueInit, ReleaseMarkerOwned
<1>5. TurnsOnly
  BY <1>2 DEF TurnsOnly, TurnsOnlyPCs, TurnPCs
<1> QED BY <1>1, <1>3, <1>4, <1>5 DEF IInv

LEMMA NextIInv ==
    ASSUME IInv, [Next]_vars
    PROVE  IInv'
<1>1. Control' /\ Queue!QueueTypeOK' /\ Data'
  <2>1. ASSUME NEW c \in Contenders, Arriving(c)
        PROVE  Control' /\ Queue!QueueTypeOK' /\ Data'
    BY <2>1, ArrivingKeepsControl, ArrivingKeepsData
  <2>2. ASSUME NEW c \in Contenders, RunningTurn(c)
        PROVE  Control' /\ Queue!QueueTypeOK' /\ Data'
    BY <2>2, RunningTurnKeepsControl, RunningTurnKeepsData
  <2>3. ASSUME NEW c \in Contenders, ModelFree(c)
        PROVE  Control' /\ Queue!QueueTypeOK' /\ Data'
    BY <2>3, ModelFreeKeepsControl, ModelFreeKeepsData
  <2>4. ASSUME \/ \E c \in Contenders : Release(c)
               \/ \E s \in Stops : StopRestore(s)
               \/ UserStep
               \/ UNCHANGED vars
        PROVE  Control' /\ Queue!QueueTypeOK' /\ Data'
    BY <2>4, OthersKeepControl, OthersKeepData
  <2> QED BY <2>1, <2>2, <2>3, <2>4 DEF Next, CallStep, Quiescent
<1> QED BY <1>1 DEF Control, Data, IInv, TypeOK

(* The whole of the invariant, for every step of every number of calls: one *)
(* holder, the marker's ownership and the types depend on one another.      *)
THEOREM Invariance == Spec => []IInv
<1>1. Init => IInv
  BY InitIInv
<1>2. IInv /\ [Next]_vars => IInv'
  BY NextIInv
<1> QED BY <1>1, <1>2, PTL DEF Spec

(* Every variable keeps its type, and the queue never exceeds the bound     *)
(* PENDING_PROMPT_QUEUE_MAXSIZE, for every bound and any number of calls.   *)
THEOREM TypeCorrect == Spec => []TypeOK
<1>1. IInv => TypeOK
  BY DEF IInv
<1> QED BY <1>1, Invariance, PTL

(* One call at a time is past the thread's lock, the one that took it.      *)
THEOREM Exclusion == Spec => []LockExclusion
<1>1. IInv => LockExclusion
  BY DEF IInv
<1> QED BY <1>1, Invariance, PTL

(* The release marker never outlives the lock of the holder that put it up, *)
(* and no new holder inherits it.                                           *)
THEOREM MarkerOwned == Spec => []ReleaseMarkerOwned
<1>1. IInv => ReleaseMarkerOwned
  BY DEF IInv
<1> QED BY <1>1, Invariance, PTL

-----------------------------------------------------------------------------
(* Deletion.  TurnOfLivingThread is not inductive alone: that a deletion    *)
(* never ends under somebody else's lock needs the places where its owner   *)
(* is while the mark is up.                                                 *)

DeletionMarked ==
    deleting => owner \in Deletes /\ pc[owner] \in {"marked", "closed", "erasing"}

LivingInv == TurnOfLivingThread /\ DeletionMarked

(* Whoever starts or ends a deletion holds the lock, so no turn and no      *)
(* clear is at work.                                                        *)
LEMMA NobodyElseWorks ==
    ASSUME IInv, NEW d \in Contenders, pc[d] \in HolderPCs
    PROVE  /\ owner = d
           /\ \A c \in Contenders \ {d} : pc[c] \notin HolderPCs
BY DEF IInv, LockExclusion

LEMMA FreeUnmarked ==
    ASSUME LivingInv, owner = None
    PROVE  ~deleting
BY TurnAssumption DEF LivingInv, DeletionMarked, TurnAssumption

(* A step that starts no work, and changes neither epochs nor marks.        *)
LEMMA LivingStays ==
    ASSUME IInv, LivingInv, NEW c \in Contenders, NEW place \in PCs, Goto(c, place),
           UNCHANGED <<threadEpoch, deleting>>,
           owner' = owner \/ ~deleting,
           \A b \in Turns \cup Clears : pc'[b] \in HolderPCs => epoch'[b] = epoch[b],
           deleting /\ owner = c => place \in {"marked", "closed", "erasing"},
           place \in TurnPCs =>
               \/ pc[c] \in TurnPCs
               \/ pc[c] \in HolderPCs /\ Lock!EpochIsCurrent(epoch[c]),
           place = "holding" /\ c \in Clears =>
               pc[c] \in HolderPCs /\ Lock!EpochIsCurrent(epoch[c])
    PROVE  LivingInv'
<1>1. pc' = [pc EXCEPT ![c] = place] /\ pc \in [Actors -> PCs] /\ c \in Actors
  BY DEF Goto, IInv, TypeOK
<1>2. pc'[c] = place /\ \A b \in Actors \ {c} : pc'[b] = pc[b]
  BY <1>1
<1>3. \A e : Lock!EpochIsCurrent(e)' <=> Lock!EpochIsCurrent(e)
  BY DEF Lock!EpochIsCurrent, Lock!CurrentEpoch
<1>4. TurnPCs \subseteq HolderPCs /\ "holding" \in HolderPCs
  BY DEF HolderPCs
<1>5. \A r \in Turns : pc'[r] \in TurnPCs => Lock!EpochIsCurrent(epoch[r]) /\ epoch'[r] = epoch[r]
  BY <1>2, <1>4 DEF LivingInv, TurnOfLivingThread
<1>6. \A k \in Clears : pc'[k] = "holding" => Lock!EpochIsCurrent(epoch[k]) /\ epoch'[k] = epoch[k]
  BY <1>2, <1>4 DEF LivingInv, TurnOfLivingThread
<1>7. DeletionMarked'
  BY <1>2 DEF LivingInv, DeletionMarked
<1> QED BY <1>3, <1>5, <1>6, <1>7 DEF LivingInv, TurnOfLivingThread, DeletionMarked

(* The holder changes the mark, and comes to a place where no work is done.  *)
LEMMA EndsOrBegins ==
    ASSUME IInv, LivingInv, NEW d \in Contenders, NEW place \in {"marked", "leaving"},
           Goto(d, place), owner = d, owner' = owner,
           \A b \in Contenders \ {d} : pc[b] \notin HolderPCs,
           deleting' => d \in Deletes /\ place = "marked"
    PROVE  LivingInv'
<1>1. pc' = [pc EXCEPT ![d] = place] /\ pc \in [Actors -> PCs] /\ d \in Actors
  BY DEF Goto, IInv, TypeOK
<1>2. pc'[d] = place /\ \A b \in Actors \ {d} : pc'[b] = pc[b]
  BY <1>1
<1>3. TurnPCs \subseteq HolderPCs /\ "holding" \in HolderPCs /\ place \notin TurnPCs \cup {"holding"}
  BY DEF HolderPCs, TurnPCs
<1>4. \A c \in Turns \cup Clears : pc'[c] \notin TurnPCs \cup {"holding"}
  BY <1>2, <1>3
<1> QED BY <1>2, <1>4 DEF LivingInv, TurnOfLivingThread, DeletionMarked

LEMMA ArrivingKeepsLiving ==
    ASSUME IInv, LivingInv, NEW c \in Contenders, Arriving(c)
    PROVE  LivingInv'
<1> USE DEF KeepGoing, Suspend, At, PCs, OutsidePCs, HolderPCs, DonePCs, TurnPCs, lockVars
<1>d. deleting => owner \notin Turns /\ pc[owner] \in {"marked", "closed", "erasing"}
  BY TurnAssumption DEF LivingInv, DeletionMarked, TurnAssumption
<1>f. owner = None => ~deleting
  BY FreeUnmarked
<1>1. CASE Enter(c)
  BY <1>1, <1>d, LivingStays DEF Enter
<1>2. CASE Probe(c)
  <2>1. CASE Lock!Acquire(c)
    BY <1>2, <1>f, <2>1, LivingStays DEF Probe, Lock!Acquire, Lock!LockFree
  <2>2. CASE UNCHANGED lockVars
    BY <1>2, <1>d, <2>2, LivingStays DEF Probe
  <2> QED BY <1>2, <2>1, <2>2 DEF Probe
<1>3. CASE ProbeDrop(c)
  <2>1. owner = c /\ ~deleting
    BY <1>3, <1>d, NobodyElseWorks DEF ProbeDrop
  <2>2. Goto(c, "entry") /\ UNCHANGED <<threadEpoch, deleting>>
    BY <1>3 DEF ProbeDrop
  <2>3. \A b \in Turns \cup Clears : pc'[b] \in HolderPCs => epoch'[b] = epoch[b]
    <3>1. pc'[c] = "entry" /\ \A b \in Contenders \ {c} : epoch'[b] = epoch[b]
      BY <1>3 DEF ProbeDrop, Goto, IInv, TypeOK
    <3> QED BY <3>1
  <2> QED BY <2>1, <2>2, <2>3, LivingStays
<1>4. CASE PostPrompt(c)
  BY <1>4, <1>d, LivingStays DEF PostPrompt
<1>5. CASE TryLock(c)
  <2>1. CASE Lock!Acquire(c)
    BY <1>5, <1>f, <2>1, LivingStays DEF TryLock, Lock!Acquire, Lock!LockFree
  <2>2. CASE UNCHANGED lockVars
    BY <1>5, <1>d, <2>2, LivingStays DEF TryLock
  <2> QED BY <1>5, <2>1, <2>2 DEF TryLock
<1>6. CASE CheckReleasing(c)
  BY <1>6, <1>d, LivingStays DEF CheckReleasing
<1>7. CASE EnqueuePrompt(c)
  BY <1>7, <1>d, LivingStays DEF EnqueuePrompt
<1>8. CASE WaitAcquire(c)
  BY <1>8, <1>f, LivingStays DEF WaitAcquire, Lock!Acquire, Lock!LockFree
<1>9. CASE WaitTimeout(c)
  BY <1>9, <1>d, LivingStays DEF WaitTimeout
<1>10. CASE Observe(c)
  BY <1>10, <1>d, LivingStays DEF Observe
<1>11. CASE QueueTimeout(c)
  BY <1>11, <1>d, LivingStays DEF QueueTimeout
<1> QED BY <1>1, <1>2, <1>3, <1>4, <1>5, <1>6, <1>7, <1>8, <1>9, <1>10, <1>11 DEF Arriving

LEMMA RunningTurnKeepsLiving ==
    ASSUME IInv, LivingInv, NEW r \in Contenders, RunningTurn(r)
    PROVE  LivingInv'
<1> USE DEF KeepGoing, Suspend, At, PCs, OutsidePCs, HolderPCs, DonePCs, TurnPCs, lockVars
<1>d. deleting => pc[owner] \in {"marked", "closed", "erasing"}
  BY DEF LivingInv, DeletionMarked
<1>1. CASE StartTurn(r)
  <2>1. CASE Lock!EpochIsCurrent(epoch[r])
    BY <1>1, <1>d, <2>1, LivingStays DEF StartTurn, Lock!SetAbort
  <2>2. CASE ~Lock!EpochIsCurrent(epoch[r])
    <3>1. owner = r
      BY <1>1 DEF StartTurn, IInv, LockExclusion
    <3>2. ~deleting
      BY <1>1, <1>d, <3>1 DEF StartTurn
    <3> QED BY <1>1, <2>2, <3>2, LivingStays DEF StartTurn, ReleaseLock
  <2> QED BY <2>1, <2>2
<1>2. CASE RouteAfterTools(r)
  BY <1>2 DEF RouteAfterTools, LivingInv, TurnOfLivingThread, DeletionMarked,
              Lock!EpochIsCurrent, Lock!CurrentEpoch
<1>3. CASE DriveEnds(r)
  BY <1>3, <1>d, LivingStays DEF DriveEnds
<1>4. CASE TurnFails(r)
  BY <1>4, <1>d, LivingStays DEF TurnFails
<1>5. CASE LoopTest(r)
  BY <1>5, <1>d, LivingStays DEF LoopTest
<1>6. CASE Drain(r)
  BY <1>6, <1>d, LivingStays DEF Drain, TakeBatch
<1>7. CASE Continue(r)
  BY <1>7, <1>d, LivingStays DEF Continue
<1>8. CASE CloseQueue(r)
  BY <1>8, <1>d, LivingStays DEF CloseQueue
<1>9. CASE Redriven(r)
  BY <1>9, <1>d, LivingStays DEF Redriven
<1>10. CASE RedriveFails(r)
  BY <1>10, <1>d, LivingStays DEF RedriveFails
<1>11. CASE SteerDrain(r)
  BY <1>11, <1>d, LivingStays DEF SteerDrain
<1>12. CASE Resteered(r)
  BY <1>12, <1>d, LivingStays DEF Resteered
<1>13. CASE ResteerFails(r)
  BY <1>13, <1>d, LivingStays DEF ResteerFails
<1>14. CASE MidDone(r)
  BY <1>14, <1>d, LivingStays DEF MidDone
<1>15. CASE Seal(r)
  BY <1>15, <1>d, LivingStays DEF Seal
<1>16. CASE SealClear(r)
  BY <1>16, <1>d, LivingStays DEF SealClear
<1>17. CASE FailClear(r)
  BY <1>17, <1>d, LivingStays DEF FailClear
<1> QED BY <1>1, <1>2, <1>3, <1>4, <1>5, <1>6, <1>7, <1>8, <1>9, <1>10, <1>11, <1>12, <1>13, <1>14, <1>15, <1>16, <1>17 DEF RunningTurn

LEMMA ModelFreeKeepsLiving ==
    ASSUME IInv, LivingInv, NEW c \in Contenders, ModelFree(c)
    PROVE  LivingInv'
<1> USE DEF KeepGoing, Suspend, At, PCs, OutsidePCs, HolderPCs, DonePCs, TurnPCs, lockVars
<1>d. deleting => owner \in Deletes /\ pc[owner] \in {"marked", "closed", "erasing"}
  BY DEF LivingInv, DeletionMarked
<1>x. Holds \cap Deletes = {} /\ Holds \cap Clears = {}
  BY TurnAssumption DEF TurnAssumption
<1>1. CASE HoldClose(c)
  BY <1>1, <1>d, <1>x, LivingStays DEF HoldClose
<1>2. CASE HoldRestore(c)
  BY <1>2, <1>d, <1>x, LivingStays DEF HoldRestore
<1>3. CASE HoldStart(c)
  BY <1>3, <1>d, <1>x, LivingStays DEF HoldStart, Lock!SetAbort
<1>4. CASE ClearStart(c)
  <2>1. owner = c /\ ~deleting
    BY <1>4, <1>d, NobodyElseWorks DEF ClearStart
  <2>2. CASE Lock!EpochIsCurrent(epoch[c])
    BY <1>4, <2>1, <2>2, LivingStays DEF ClearStart
  <2>3. CASE ~Lock!EpochIsCurrent(epoch[c])
    BY <1>4, <2>1, <2>3, LivingStays DEF ClearStart, ReleaseLock
  <2> QED BY <2>2, <2>3
<1>5. CASE DeleteAdmit(c)
  BY <1>5, <1>d, <1>x, LivingStays DEF DeleteAdmit, Lock!SetAbort
<1>6. CASE DeleteAbortQueue(c)
  BY <1>6, <1>d, <1>x, LivingStays DEF DeleteAbortQueue
<1>7. CASE DeleteBegin(c)
  <2>1. owner = c /\ c \in Deletes /\ \A b \in Contenders \ {c} : pc[b] \notin HolderPCs
    BY <1>7, NobodyElseWorks DEF DeleteBegin
  <2>2. owner' = owner /\ (deleting' => pc'[c] = "marked")
    BY <1>7 DEF DeleteBegin, Lock!BeginThreadDeletion, Lock!EndThreadDeletion, Goto, IInv, TypeOK
  <2>3. Goto(c, "marked") \/ (Goto(c, "leaving") /\ ~deleting')
    BY <1>7 DEF DeleteBegin, Lock!EndThreadDeletion
  <2> QED BY <2>1, <2>2, <2>3, EndsOrBegins
<1>8. CASE DeleteClose(c)
  BY <1>8, <1>d, <1>x, LivingStays DEF DeleteClose
<1>9. CASE DeleteClear(c)
  BY <1>9, <1>d, <1>x, LivingStays DEF DeleteClear
<1>10. CASE DeleteEnd(c)
  <2>1. owner = c /\ \A b \in Contenders \ {c} : pc[b] \notin HolderPCs
    BY <1>10, NobodyElseWorks DEF DeleteEnd
  <2> QED BY <1>10, <2>1, EndsOrBegins DEF DeleteEnd, Lock!EndThreadDeletion
<1> QED BY <1>1, <1>2, <1>3, <1>4, <1>5, <1>6, <1>7, <1>8, <1>9, <1>10 DEF ModelFree

LEMMA OthersKeepLiving ==
    ASSUME IInv, LivingInv,
           (\E c \in Contenders : Release(c)) \/ (\E s \in Stops : StopRestore(s))
             \/ UserStep \/ UNCHANGED vars
    PROVE  LivingInv'
<1> USE DEF KeepGoing, Suspend, At, PCs, OutsidePCs, HolderPCs, DonePCs, TurnPCs, lockVars
<1>d. deleting => owner \in Deletes /\ pc[owner] \in {"marked", "closed", "erasing"}
  BY DEF LivingInv, DeletionMarked
<1>s. ASSUME NEW s \in Stops, NEW place, Goto(s, place),
             UNCHANGED <<owner, threadEpoch, deleting, epoch>>
      PROVE  LivingInv'
  <2>1. s \in Actors /\ s \notin Contenders
    BY TurnAssumption DEF TurnAssumption
  <2>2. \A c \in Contenders : pc'[c] = pc[c]
    BY <1>s, <2>1 DEF Goto, IInv, TypeOK
  <2> QED BY <1>s, <2>2 DEF LivingInv, TurnOfLivingThread, DeletionMarked,
                            Lock!EpochIsCurrent, Lock!CurrentEpoch
<1>1. ASSUME NEW c \in Contenders, Release(c) PROVE LivingInv'
  <2>1. owner = c /\ ~deleting
    BY <1>1, <1>d, NobodyElseWorks DEF Release
  <2> QED BY <1>1, <2>1, LivingStays DEF Release, ReleaseLock
<1>2. ASSUME NEW s \in Stops, StopRestore(s) PROVE LivingInv'
  BY <1>2, <1>s DEF StopRestore
<1>3. ASSUME NEW s \in Stops, StopSignal(s) PROVE LivingInv'
  BY <1>3, <1>s DEF StopSignal, Lock!SetAbort
<1>4. ASSUME NEW c \in Contenders, Authorise(c) PROVE LivingInv'
  <2>1. PICK place \in {"wait", "probe", "entry"} : Goto(c, place) /\ UNCHANGED lockVars
    BY <1>4 DEF Authorise
  <2>2. \A b \in Turns \cup Clears : pc'[b] \in HolderPCs => epoch'[b] = epoch[b]
    <3>1. pc'[c] = place /\ \A b \in Contenders \ {c} : epoch'[b] = epoch[b]
      BY <1>4, <2>1 DEF Authorise, Goto, IInv, TypeOK
    <3> QED BY <3>1
  <2>3. pc[c] = "idle"
    BY <1>4 DEF Authorise
  <2> QED BY <1>d, <2>1, <2>2, <2>3, LivingStays
<1>5. ASSUME NEW c \in Contenders, Detach(c) PROVE LivingInv'
  BY <1>5, <1>d, LivingStays DEF Detach
<1>6. ASSUME NEW c \in Contenders, CloseTurn(c) PROVE LivingInv'
  BY <1>6, <1>d, LivingStays DEF CloseTurn
<1>7. ASSUME NEW p \in Turns, WithdrawPrompt(p) PROVE LivingInv'
  BY <1>7 DEF WithdrawPrompt, callVars, LivingInv, TurnOfLivingThread, DeletionMarked,
              Lock!EpochIsCurrent, Lock!CurrentEpoch
<1>8. ASSUME UNCHANGED vars PROVE LivingInv'
  BY <1>8 DEF vars, callVars, LivingInv, TurnOfLivingThread, DeletionMarked,
              Lock!EpochIsCurrent, Lock!CurrentEpoch
<1> QED BY <1>1, <1>2, <1>3, <1>4, <1>5, <1>6, <1>7, <1>8 DEF UserStep

(* No turn, and no clear, works on a thread that was deleted after its call *)
(* was authorised, nor while the stores of the thread are being erased.     *)
THEOREM LivingThread == Spec => []TurnOfLivingThread
<1>1. Init => LivingInv
  BY DEF Init, Lock!LockInit, LivingInv, TurnOfLivingThread, DeletionMarked, TurnPCs
<1>2. ASSUME IInv, LivingInv, [Next]_vars PROVE LivingInv'
  <2>1. ASSUME \/ \E c \in Contenders : Release(c)
               \/ \E s \in Stops : StopRestore(s)
               \/ UserStep
               \/ UNCHANGED vars
        PROVE  LivingInv'
    BY <1>2, <2>1, OthersKeepLiving
  <2>2. ASSUME NEW c \in Contenders, Arriving(c) \/ RunningTurn(c) \/ ModelFree(c)
        PROVE  LivingInv'
    BY <1>2, <2>2, ArrivingKeepsLiving, RunningTurnKeepsLiving, ModelFreeKeepsLiving
  <2> QED BY <1>2, <2>1, <2>2 DEF Next, CallStep, Quiescent
<1>3. LivingInv => TurnOfLivingThread
  BY DEF LivingInv
<1> QED BY <1>1, <1>2, <1>3, Invariance, PTL DEF Spec
=============================================================================
