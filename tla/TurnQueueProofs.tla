-------------------------- MODULE TurnQueueProofs ---------------------------
(***************************************************************************)
(* What becomes of the prompts that are queued on a busy thread, for every *)
(* number of calls: whose turn absorbs them, that a pending one can be     *)
(* reached, that none waits behind a holder that runs no model, and, when  *)
(* one event loop runs every call, that none is left on an idle thread.    *)
(***************************************************************************)
EXTENDS PromptPromiseProofs

USE DEF Turns, Contenders, Actors, Prompts

-----------------------------------------------------------------------------
(* The batch.  Only its holder has one, between a drain and the end of the  *)
(* drive that the batch was injected into; a stream that its consumer       *)
(* closes keeps it until it gives the lock back.                            *)

BatchAt(c, place) ==
    /\ c \in Turns
    /\ place \in {"redrive", "resteer"} \/ (c \in Closable /\ place \in {"failing", "leaving"})

BatchOwned == batch # {} => BatchAt(owner, pc[owner])

(* A stream's batch is of its own user.                                     *)
OwnBatch == owner \in Streams => \A p \in batch : PromptUser(p) = UserOf[owner]

(* The drain loop before the post-processing, and the failed final one, are *)
(* chat()'s.                                                                *)
ChatPCs == {"steer", "resteer", "mid", "sealing", "sealed"}
ChatsOnly == \A c \in Contenders : pc[c] \in ChatPCs => c \in Chats

BatchInv == BatchOwned /\ OwnBatch /\ ChatsOnly

(* The call that a step moves, and nobody else, is at another place.        *)
LEMMA OneMoves ==
    ASSUME TypeOK, NEW c \in Actors, NEW place, Goto(c, place)
    PROVE  pc'[c] = place /\ \A b \in Actors \ {c} : pc'[b] = pc[b]
BY DEF TypeOK, Goto

(* A batch belongs to the one call that is past the lock.                   *)
LEMMA BatchIsHolders ==
    ASSUME IInv, BatchOwned, batch # {}
    PROVE  /\ owner \in Contenders /\ owner # None
           /\ pc[owner] \in {"redrive", "resteer", "failing", "leaving"}
           /\ \A c \in Contenders : pc[c] \in HolderPCs => c = owner
BY TurnAssumption DEF IInv, LockExclusion, BatchOwned, BatchAt, TurnAssumption

LEMMA ChatsOnlyKept ==
    ASSUME TypeOK, ChatsOnly, NEW c \in Actors, NEW place, Goto(c, place),
           place \in ChatPCs => c \in Chats
    PROVE  ChatsOnly'
BY OneMoves DEF ChatsOnly

(* A step that leaves the batch and its owner where they were, if there is  *)
(* a batch.                                                                 *)
LEMMA BatchKept ==
    ASSUME BatchInv, UNCHANGED <<batch, author>>, ChatsOnly',
           batch # {} => owner' = owner /\ BatchAt(owner, pc'[owner])
    PROVE  BatchInv'
BY DEF BatchInv, BatchOwned, OwnBatch, PromptUser, BatchAt

LEMMA BatchGone ==
    ASSUME batch' = {}, ChatsOnly'
    PROVE  BatchInv'
BY DEF BatchInv, BatchOwned, OwnBatch

(* A call at a place where no batch is kept moves: either there is no batch *)
(* or it is somebody else's.                                                *)
LEMMA BystanderMoves ==
    ASSUME IInv, BatchInv, NEW c \in Actors, NEW place, Goto(c, place),
           pc[c] \notin {"redrive", "resteer", "failing", "leaving"},
           place \in ChatPCs => c \in Chats,
           UNCHANGED <<batch, author>>,
           owner' = owner \/ owner = None \/ owner = c
    PROVE  BatchInv'
<1>1. ChatsOnly' /\ pc'[c] = place /\ \A b \in Actors \ {c} : pc'[b] = pc[b]
  BY ChatsOnlyKept, OneMoves DEF BatchInv, IInv
<1>2. ASSUME batch # {} PROVE owner' = owner /\ BatchAt(owner, pc'[owner])
  BY <1>1, <1>2, BatchIsHolders DEF BatchInv, BatchOwned
<1> QED BY <1>1, <1>2, BatchKept

LEMMA ArrivingKeepsBatch ==
    ASSUME IInv, BatchInv, NEW c \in Contenders, Arriving(c)
    PROVE  BatchInv'
<1> USE DEF KeepGoing, Suspend, At, ChatPCs, lockVars
<1>1. CASE Enter(c)
  BY <1>1, BystanderMoves DEF Enter
<1>2. CASE Probe(c)
  BY <1>2, BystanderMoves DEF Probe, Lock!Acquire, Lock!LockFree
<1>3. CASE ProbeDrop(c)
  <2>1. owner = c
    BY <1>3, NobodyElseWorks DEF ProbeDrop, HolderPCs
  <2> QED BY <1>3, <2>1, BystanderMoves DEF ProbeDrop
<1>4. CASE PostPrompt(c)
  BY <1>4, BystanderMoves DEF PostPrompt
<1>5. CASE TryLock(c)
  BY <1>5, BystanderMoves DEF TryLock, Lock!Acquire, Lock!LockFree
<1>6. CASE CheckReleasing(c)
  BY <1>6, BystanderMoves DEF CheckReleasing
<1>7. CASE EnqueuePrompt(c)
  BY <1>7, BystanderMoves DEF EnqueuePrompt
<1>8. CASE WaitAcquire(c)
  BY <1>8, BystanderMoves DEF WaitAcquire, Lock!Acquire, Lock!LockFree
<1>9. CASE WaitTimeout(c)
  BY <1>9, BystanderMoves DEF WaitTimeout
<1>10. CASE Observe(c)
  BY <1>10, BystanderMoves DEF Observe
<1>11. CASE QueueTimeout(c)
  BY <1>11, BystanderMoves DEF QueueTimeout
<1> QED BY <1>1, <1>2, <1>3, <1>4, <1>5, <1>6, <1>7, <1>8, <1>9, <1>10, <1>11 DEF Arriving

(* A note that is queued is not in the batch, so whose it was is not lost.  *)
LEMMA NoteIsNew ==
    ASSUME Held, NEW n \in Notes, outcome[n] = "unsent"
    PROVE  n \notin batch
BY DEF Held

LEMMA NoteKeepsBatch ==
    ASSUME IInv, Held, BatchInv, NEW r \in Contenders, NEW n \in Notes, outcome[n] = "unsent",
           author' = [author EXCEPT ![n] = r], UNCHANGED <<batch, owner>>, ChatsOnly',
           batch # {} => BatchAt(owner, pc'[owner])
    PROVE  BatchInv'
<1>1. n \notin batch /\ author \in [Notes -> Turns \cup {None}]
  BY NoteIsNew DEF IInv, TypeOK
<1>2. \A p \in batch : PromptUser(p)' = PromptUser(p)
  BY <1>1 DEF PromptUser
<1> QED BY <1>2 DEF BatchInv, BatchOwned, OwnBatch

LEMMA RunningTurnKeepsBatch ==
    ASSUME IInv, Custody, BatchInv, NEW r \in Contenders, RunningTurn(r)
    PROVE  BatchInv'
<1> USE DEF KeepGoing, Suspend, At, ChatPCs, lockVars
<1>0. r \in Actors /\ TypeOK /\ ChatsOnly /\ Held
  BY DEF BatchInv, IInv, Custody
<1>h. pc[r] \in HolderPCs => owner = r
  BY NobodyElseWorks
<1>g. ASSUME batch' = {}, NEW place, Goto(r, place), place \in ChatPCs => r \in Chats
      PROVE  BatchInv'
  BY <1>0, <1>g, ChatsOnlyKept, BatchGone
<1>1. CASE StartTurn(r)
  BY <1>1, <1>h, BystanderMoves DEF StartTurn, Lock!SetAbort, ReleaseLock, HolderPCs
<1>2. CASE RouteAfterTools(r)
  <2>1. pc' = pc /\ batch' = batch /\ owner' = owner /\ ChatsOnly'
    BY <1>0, <1>2 DEF RouteAfterTools, ChatsOnly
  <2>2. batch # {} => BatchAt(owner, pc'[owner])
    BY <2>1 DEF BatchInv, BatchOwned
  <2>3. CASE UNCHANGED author
    BY <2>1, <2>2, <2>3, BatchKept
  <2>4. CASE \E n \in Notes : outcome[n] = "unsent" /\ author' = [author EXCEPT ![n] = r]
    BY <1>0, <2>1, <2>2, <2>4, NoteKeepsBatch
  <2> QED BY <1>2, <2>3, <2>4 DEF RouteAfterTools
<1>3. CASE DriveEnds(r)
  BY <1>3, BystanderMoves DEF DriveEnds
<1>4. CASE TurnFails(r)
  BY <1>4, BystanderMoves DEF TurnFails
<1>5. CASE LoopTest(r)
  BY <1>5, BystanderMoves DEF LoopTest
<1>6. CASE Drain(r)
  <2>1. pc[r] \in {"drain", "closing"} /\ owner = r /\ owner' = owner /\ author' = author
        /\ r \in Turns
    BY <1>6, <1>h DEF Drain, HolderPCs, TurnPCs, IInv, TurnsOnly, TurnsOnlyPCs
  <2>2. CASE TakeBatch(r, "redrive", "loop")
    <3>1. batch' = Acceptable(r)
          /\ Goto(r, IF Acceptable(r) = {} THEN "loop" ELSE "redrive")
      BY <2>2 DEF TakeBatch
    <3>2. ChatsOnly' /\ pc'[r] = IF Acceptable(r) = {} THEN "loop" ELSE "redrive"
      BY <1>0, <3>1, ChatsOnlyKept, OneMoves
    <3>3. BatchOwned'
      BY <2>1, <3>1, <3>2 DEF BatchOwned, BatchAt
    <3>4. OwnBatch'
      BY <2>1, <3>1 DEF OwnBatch, Acceptable, PromptUser
    <3> QED BY <3>2, <3>3, <3>4 DEF BatchInv
  <2>3. CASE UNCHANGED <<queueVars, batch>>
    BY <1>6, <2>1, <2>3, BystanderMoves DEF Drain, TakeBatch
  <2> QED BY <1>6, <2>2, <2>3 DEF Drain
<1>7. CASE Continue(r)
  <2>1. Goto(r, "loop") /\ batch' = batch /\ owner' = owner /\ pc[r] = "empty"
    BY <1>7 DEF Continue
  <2>2. ChatsOnly' /\ batch = {}
    BY <1>0, <2>1, ChatsOnlyKept, BatchIsHolders DEF BatchInv, HolderPCs, TurnPCs
  <2> QED BY <2>1, <2>2, BatchGone
<1>8. CASE CloseQueue(r)
  BY <1>8, BystanderMoves DEF CloseQueue
<1>9. CASE Redriven(r)
  BY <1>9, <1>g DEF Redriven
<1>10. CASE RedriveFails(r)
  BY <1>10, <1>g DEF RedriveFails
<1>11. CASE SteerDrain(r)
  <2>1. pc[r] = "steer" /\ owner = r /\ owner' = owner /\ batch' = Range(queue) /\ r \in Chats
        /\ Goto(r, IF queue = <<>> THEN "mid" ELSE "resteer")
    BY <1>0, <1>11, <1>h DEF SteerDrain, HolderPCs, TurnPCs, ChatsOnly
  <2>2. ChatsOnly' /\ pc'[r] = IF queue = <<>> THEN "mid" ELSE "resteer"
    BY <1>0, <2>1, ChatsOnlyKept, OneMoves
  <2>3. r \notin Streams
    BY <2>1, TurnAssumption DEF TurnAssumption
  <2> QED BY <2>1, <2>2, <2>3, EmptyQueue DEF BatchInv, BatchOwned, OwnBatch, BatchAt
<1>12. CASE Resteered(r)
  BY <1>0, <1>12, <1>g DEF Resteered, ChatsOnly
<1>13. CASE ResteerFails(r)
  BY <1>0, <1>13, <1>g DEF ResteerFails, ChatsOnly
<1>14. CASE MidDone(r)
  BY <1>14, BystanderMoves DEF MidDone
<1>15. CASE Seal(r)
  BY <1>0, <1>15, BystanderMoves DEF Seal, ChatsOnly
<1>16. CASE SealClear(r)
  BY <1>16, BystanderMoves DEF SealClear
<1>17. CASE FailClear(r)
  <2>1. Goto(r, "leaving") /\ UNCHANGED <<batch, author, owner>> /\ pc[r] = "failing"
    BY <1>17 DEF FailClear
  <2>2. ChatsOnly' /\ pc'[r] = "leaving" /\ owner = r
    BY <1>0, <1>h, <2>1, ChatsOnlyKept, OneMoves DEF HolderPCs, TurnPCs
  <2> QED BY <2>1, <2>2, BatchKept DEF BatchInv, BatchOwned, BatchAt
<1> QED BY <1>1, <1>2, <1>3, <1>4, <1>5, <1>6, <1>7, <1>8, <1>9, <1>10, <1>11, <1>12, <1>13, <1>14, <1>15, <1>16, <1>17 DEF RunningTurn

LEMMA ModelFreeKeepsBatch ==
    ASSUME IInv, BatchInv, NEW c \in Contenders, ModelFree(c)
    PROVE  BatchInv'
<1> USE DEF KeepGoing, Suspend, At, ChatPCs, lockVars
<1>1. CASE HoldClose(c)
  BY <1>1, BystanderMoves DEF HoldClose
<1>2. CASE HoldRestore(c)
  BY <1>2, BystanderMoves DEF HoldRestore
<1>3. CASE HoldStart(c)
  BY <1>3, BystanderMoves DEF HoldStart, Lock!SetAbort
<1>4. CASE ClearStart(c)
  <2>1. owner = c
    BY <1>4, NobodyElseWorks DEF ClearStart, HolderPCs
  <2> QED BY <1>4, <2>1, BystanderMoves DEF ClearStart
<1>5. CASE DeleteAdmit(c)
  BY <1>5, BystanderMoves DEF DeleteAdmit, Lock!SetAbort
<1>6. CASE DeleteAbortQueue(c)
  BY <1>6, BystanderMoves DEF DeleteAbortQueue
<1>7. CASE DeleteBegin(c)
  BY <1>7, BystanderMoves DEF DeleteBegin, Lock!BeginThreadDeletion, Lock!EndThreadDeletion
<1>8. CASE DeleteClose(c)
  BY <1>8, BystanderMoves DEF DeleteClose
<1>9. CASE DeleteClear(c)
  BY <1>9, BystanderMoves DEF DeleteClear
<1>10. CASE DeleteEnd(c)
  BY <1>10, BystanderMoves DEF DeleteEnd, Lock!EndThreadDeletion
<1> QED BY <1>1, <1>2, <1>3, <1>4, <1>5, <1>6, <1>7, <1>8, <1>9, <1>10 DEF ModelFree

LEMMA OthersKeepBatch ==
    ASSUME IInv, BatchInv,
           (\E c \in Contenders : Release(c)) \/ (\E s \in Stops : StopRestore(s))
             \/ UserStep \/ UNCHANGED vars
    PROVE  BatchInv'
<1> USE DEF KeepGoing, Suspend, At, ChatPCs, lockVars
<1>0. TypeOK /\ ChatsOnly
  BY DEF BatchInv, IInv
<1>1. ASSUME NEW c \in Contenders, Release(c) PROVE BatchInv'
  BY <1>0, <1>1, ChatsOnlyKept, BatchGone DEF Release
<1>2. ASSUME NEW s \in Stops, StopRestore(s) PROVE BatchInv'
  BY <1>2, BystanderMoves DEF StopRestore
<1>3. ASSUME NEW s \in Stops, StopSignal(s) PROVE BatchInv'
  BY <1>3, BystanderMoves DEF StopSignal, Lock!SetAbort
<1>4. ASSUME NEW c \in Contenders, Authorise(c) PROVE BatchInv'
  BY <1>4, BystanderMoves DEF Authorise
<1>5. ASSUME NEW c \in Contenders, Detach(c) PROVE BatchInv'
  BY <1>5, BystanderMoves DEF Detach
<1>6. ASSUME NEW c \in Contenders, CloseTurn(c) PROVE BatchInv'
  <2>1. /\ c \in Closable /\ c \in Turns /\ Goto(c, "failing")
        /\ UNCHANGED <<batch, author, owner>> /\ pc[c] \in HolderPCs
    BY <1>6, TurnAssumption DEF CloseTurn, TurnAssumption, HolderPCs, TurnPCs
  <2>2. ChatsOnly' /\ pc'[c] = "failing" /\ owner = c
    BY <1>0, <2>1, ChatsOnlyKept, OneMoves, NobodyElseWorks
  <2> QED BY <2>1, <2>2, BatchKept DEF BatchAt
<1>7. ASSUME NEW p \in Turns, WithdrawPrompt(p) PROVE BatchInv'
  BY <1>7 DEF WithdrawPrompt, callVars, BatchInv, BatchOwned, OwnBatch, ChatsOnly, PromptUser
<1>8. ASSUME UNCHANGED vars PROVE BatchInv'
  BY <1>8 DEF vars, callVars, BatchInv, BatchOwned, OwnBatch, ChatsOnly, PromptUser
<1> QED BY <1>1, <1>2, <1>3, <1>4, <1>5, <1>6, <1>7, <1>8 DEF UserStep

LEMMA BatchInit == ASSUME Init PROVE Custody /\ BatchInv
<1>1. Custody
  BY EmptyQueue DEF Init, Queue!QueueInit, Custody, Held, Unqueued
<1> QED BY <1>1 DEF Init, BatchInv, BatchOwned, OwnBatch, ChatsOnly, ChatPCs

LEMMA BatchStep ==
    ASSUME IInv, Custody, BatchInv, [Next]_vars
    PROVE  Custody' /\ BatchInv'
<1>1. Custody'
  BY StepFaithful, CustodyKept
<1>2. ASSUME NEW c \in Contenders, Arriving(c) \/ RunningTurn(c) \/ ModelFree(c)
      PROVE  BatchInv'
  BY <1>2, ArrivingKeepsBatch, RunningTurnKeepsBatch, ModelFreeKeepsBatch
<1>3. ASSUME \/ \E c \in Contenders : Release(c)
             \/ \E s \in Stops : StopRestore(s)
             \/ UserStep
             \/ UNCHANGED vars
      PROVE  BatchInv'
  BY <1>3, OthersKeepBatch
<1> QED BY <1>1, <1>2, <1>3 DEF Next, CallStep, Quiescent

LEMMA BatchAlways == Spec => [](IInv /\ Custody /\ BatchInv)
BY BatchInit, BatchStep, Invariance, PTL DEF Spec

(* A stream absorbs prompts of its own user only, and nobody absorbs a      *)
(* prompt who is not the turn that holds the thread: the batch was drained  *)
(* under the lock, with that test, and a note that was queued meanwhile is  *)
(* not in it.                                                               *)
AbsorbedByHolder ==
    \A p \in Prompts :
        outcome[p] # "absorbed" /\ outcome'[p] = "absorbed" =>
            /\ owner \in Turns /\ p \in batch
            /\ owner \in Streams => PromptUser(p) = UserOf[owner]

LEMMA NothingAbsorbed ==
    ASSUME \A p \in Prompts : outcome'[p] = "absorbed" => outcome[p] = "absorbed"
    PROVE  AbsorbedByHolder
BY DEF AbsorbedByHolder

LEMMA PushAbsorbsNothing ==
    ASSUME TypeOK, NEW n \in Prompts, Queue!Push(n)
    PROVE  AbsorbedByHolder
<1> DEFINE told == Queue!Woken(Queue!Evicted, "overflow")
<1>1. outcome' = [told EXCEPT ![n] = "pending"]
  BY DEF Queue!Push
<1>2. DOMAIN told = Prompts /\ \A p \in Prompts : told[p] \in {"overflow", outcome[p]}
  BY DEF Queue!Woken
<1> HIDE DEF told
<1>3. \A p \in Prompts : outcome'[p] \in {"pending", "overflow", outcome[p]}
  BY <1>1, <1>2
<1> QED BY <1>3, NothingAbsorbed

LEMMA ClearAbsorbsNothing ==
    ASSUME Queue!Clear \/ Queue!ClearWithRestore
    PROVE  AbsorbedByHolder
BY NothingAbsorbed DEF Queue!Clear, Queue!ClearWithRestore, Queue!Woken

LEMMA StepAbsorbs ==
    ASSUME IInv, BatchInv, [Next]_vars
    PROVE  AbsorbedByHolder
<1> USE DEF queueVars, At
<1>n. ASSUME UNCHANGED outcome PROVE AbsorbedByHolder
  BY <1>n, NothingAbsorbed
<1>p. ASSUME NEW n \in Prompts, Queue!Push(n) PROVE AbsorbedByHolder
  BY <1>p, PushAbsorbsNothing DEF IInv
<1>b. ASSUME NEW r \in Contenders, pc[r] \in {"redrive", "resteer"},
             outcome' = Queue!Woken(batch, "absorbed")
      PROVE  AbsorbedByHolder
  <2>1. owner = r /\ r \in Turns
    BY <1>b, NobodyElseWorks DEF HolderPCs, TurnPCs, IInv, TurnsOnly, TurnsOnlyPCs
  <2> QED BY <1>b, <2>1 DEF AbsorbedByHolder, Queue!Woken, BatchInv, OwnBatch
<1>1. ASSUME NEW c \in Contenders, Arriving(c) PROVE AbsorbedByHolder
  <2>1. CASE UNCHANGED outcome
    BY <1>n, <2>1
  <2>2. CASE PostPrompt(c) \/ EnqueuePrompt(c)
    <3>1. c \in Turns
      BY <2>2 DEF PostPrompt, EnqueuePrompt, IInv, TurnsOnly, TurnsOnlyPCs
    <3> QED BY <1>n, <1>p, <2>2, <3>1 DEF PostPrompt, EnqueuePrompt, Queue!Enqueue
  <2> QED BY <1>1, <2>1, <2>2 DEF Arriving, Enter, Probe, ProbeDrop, TryLock,
             CheckReleasing, WaitAcquire, WaitTimeout, Observe, QueueTimeout
<1>2. ASSUME NEW r \in Contenders, RunningTurn(r) PROVE AbsorbedByHolder
  <2>1. CASE UNCHANGED outcome
    BY <1>n, <2>1
  <2>2. CASE RouteAfterTools(r) \/ Continue(r)
    BY <1>n, <1>p, <2>2 DEF RouteAfterTools, Continue, Queue!Enqueue
  <2>3. CASE Drain(r)
    BY <1>n, <2>3, NothingAbsorbed DEF Drain, TakeBatch, Queue!Woken
  <2>4. CASE Redriven(r) \/ Resteered(r)
    BY <1>b, <2>4 DEF Redriven, Resteered
  <2>5. CASE RedriveFails(r) \/ ResteerFails(r)
    BY <2>5, NothingAbsorbed DEF RedriveFails, ResteerFails, Queue!Woken
  <2>6. CASE SealClear(r) \/ FailClear(r)
    BY <2>6, ClearAbsorbsNothing DEF SealClear, FailClear
  <2> QED BY <1>2, <2>1, <2>2, <2>3, <2>4, <2>5, <2>6
          DEF RunningTurn, StartTurn, ReleaseLock, DriveEnds, TurnFails, LoopTest,
              CloseQueue, Queue!BeginRelease, SteerDrain, MidDone, Seal
<1>3. ASSUME NEW c \in Contenders, ModelFree(c) PROVE AbsorbedByHolder
  BY <1>3, <1>n, ClearAbsorbsNothing
     DEF ModelFree, HoldClose, HoldRestore, HoldStart, ClearStart, ReleaseLock,
         DeleteAdmit, DeleteAbortQueue, DeleteBegin, DeleteClose, DeleteClear,
         DeleteEnd, Queue!BeginRelease
<1>4. ASSUME NEW c \in Contenders, Release(c) PROVE AbsorbedByHolder
  BY <1>4, <1>n DEF Release, ReleaseLock
<1>5. ASSUME NEW s \in Stops, StopRestore(s) PROVE AbsorbedByHolder
  BY <1>5, ClearAbsorbsNothing DEF StopRestore
<1>6. CASE UserStep
  <2>1. ASSUME NEW p \in Turns, WithdrawPrompt(p) PROVE AbsorbedByHolder
    BY <2>1, NothingAbsorbed DEF WithdrawPrompt, Queue!Withdraw, Queue!Woken
  <2> QED BY <1>6, <1>n, <2>1 DEF UserStep, Authorise, Detach, CloseTurn, StopSignal
<1>7. CASE UNCHANGED vars
  BY <1>7, <1>n DEF vars
<1> QED BY <1>1, <1>2, <1>3, <1>4, <1>5, <1>6, <1>7 DEF Next, CallStep, Quiescent

(* A queued prompt is absorbed by the turn that holds the thread, which has *)
(* drained it, and by a stream only if it is its own user's.                *)
THEOREM HolderAbsorbs == Spec => [][AbsorbedByHolder]_vars
BY BatchAlways, StepAbsorbs, PTL DEF Spec

(* Where every turn is a stream, a prompt runs with the memories and the    *)
(* credentials of its own user (astream() tests each prompt of a drain;     *)
(* chat() does not).                                                        *)
THEOREM OwnUser == ASSUME Chats = {} PROVE Spec => OwnUserOnly
<1>1. ASSUME AbsorbedByHolder
      PROVE  \A p \in Prompts : outcome[p] # "absorbed" /\ outcome'[p] = "absorbed"
                                    => PromptUser(p) = UserOf[owner]
  BY <1>1 DEF AbsorbedByHolder
<1> QED BY <1>1, HolderAbsorbs, PTL DEF OwnUserOnly

-----------------------------------------------------------------------------
(* Every pending prompt can be reached.                                     *)

Reach == \A p \in Prompts : outcome[p] = "pending" => p \in Range(queue) \cup batch

(* What a sequence loses with its head, or with one element, is that.       *)
LEMMA TailKeepsRest ==
    ASSUME NEW S, NEW s \in Seq(S), s # <<>>
    PROVE  Range(s) \ {Head(s)} \subseteq Range(Tail(s))
<1> DEFINE t == Tail(s)
<1>1. /\ DOMAIN s = 1 .. Len(s) /\ Len(s) \in Nat \ {0}
      /\ DOMAIN t = 1 .. (Len(s) - 1)
      /\ \A i \in 1 .. (Len(s) - 1) : t[i] = s[i + 1]
      /\ Head(s) = s[1]
  OBVIOUS
<1> HIDE DEF t
<1>2. ASSUME NEW i \in DOMAIN s, s[i] # Head(s) PROVE s[i] \in Range(t)
  <2>1. i - 1 \in DOMAIN t /\ t[i - 1] = s[i]
    BY <1>1, <1>2
  <2> QED BY <2>1 DEF Range
<1> QED BY <1>2 DEF Range, t

LEMMA AppendKeepsAll ==
    ASSUME NEW S, NEW s \in Seq(S), NEW e \in S
    PROVE  Range(s) \cup {e} \subseteq Range(Append(s, e))
<1> DEFINE t == Append(s, e)
<1>1. /\ DOMAIN s = 1 .. Len(s) /\ Len(s) \in Nat
      /\ DOMAIN t = 1 .. (Len(s) + 1)
      /\ t[Len(s) + 1] = e
      /\ \A i \in 1 .. Len(s) : t[i] = s[i]
  OBVIOUS
<1> HIDE DEF t
<1>2. Len(s) + 1 \in DOMAIN t /\ \A i \in 1 .. Len(s) : i \in DOMAIN t
  BY <1>1
<1> QED BY <1>1, <1>2 DEF Range, t

LEMMA RemoveKeepsRest ==
    ASSUME NEW S, NEW s \in Seq(S), NEW i \in DOMAIN s
    PROVE  Range(s) \ {s[i]} \subseteq Range(Without(s, i))
<1> DEFINE t == Without(s, i)
           before == SubSeq(s, 1, i - 1)
           after  == SubSeq(s, i + 1, Len(s))
<1>1. DOMAIN s = 1 .. Len(s) /\ Len(s) \in Nat /\ i \in 1 .. Len(s)
  OBVIOUS
<1>2. /\ before \in Seq(S) /\ Len(before) = i - 1
      /\ \A j \in 1 .. (i - 1) : before[j] = s[j]
  BY <1>1
<1>3. /\ after \in Seq(S) /\ Len(after) = Len(s) - i
      /\ \A j \in 1 .. (Len(s) - i) : after[j] = s[i + j]
  BY <1>1
<1>4. t = before \o after
  BY DEF Without
<1> HIDE DEF before, after, t
<1>5. /\ DOMAIN t = 1 .. (Len(before) + Len(after))
      /\ \A j \in 1 .. Len(before) : t[j] = before[j]
      /\ \A j \in 1 .. Len(after) : t[Len(before) + j] = after[j]
  <2>1. before \in Seq(S) /\ after \in Seq(S)
    BY <1>2, <1>3
  <2>2. /\ DOMAIN (before \o after) = 1 .. (Len(before) + Len(after))
        /\ \A j \in 1 .. Len(before) : (before \o after)[j] = before[j]
        /\ \A j \in 1 .. Len(after) : (before \o after)[Len(before) + j] = after[j]
    BY <2>1, ConcatAt
  <2> QED BY <1>4, <2>2
<1>6. ASSUME NEW j \in DOMAIN s, s[j] # s[i] PROVE s[j] \in Range(t)
  <2>1. CASE j < i
    <3>1. j \in 1 .. (i - 1) /\ j \in 1 .. Len(before) /\ j \in DOMAIN t
      BY <1>1, <1>2, <1>3, <1>5, <2>1
    <3>2. t[j] = s[j]
      BY <1>2, <1>5, <3>1
    <3> QED BY <3>1, <3>2 DEF Range
  <2>2. CASE j > i
    <3> DEFINE k == j - i
               m == Len(before) + k
    <3>1. k \in 1 .. (Len(s) - i) /\ i + k = j
      BY <1>1, <2>2
    <3>2. k \in 1 .. Len(after) /\ m \in 1 .. (Len(before) + Len(after))
      BY <1>1, <1>2, <1>3, <3>1
    <3> HIDE DEF k
    <3>3. t[m] = after[k] /\ after[k] = s[i + k]
      BY <1>3, <1>5, <3>1, <3>2
    <3>4. m \in DOMAIN t /\ t[m] = s[j]
      BY <1>5, <3>1, <3>2, <3>3
    <3> QED BY <3>4 DEF Range
  <2>3. j # i
    BY <1>6
  <2> QED BY <1>1, <2>1, <2>2, <2>3
<1> QED BY <1>6 DEF Range, t

-----------------------------------------------------------------------------
(* What each queue operation does to the reach of prompts.                  *)

(* Whoever lets a prompt go has told it its outcome.                        *)
LEMMA ReachKept ==
    ASSUME Reach,
           \A p \in Prompts : outcome'[p] = "pending" =>
               p \in Range(queue') \cup batch' \/
               (outcome[p] = "pending" /\ (p \in Range(queue) \cup batch
                                             => p \in Range(queue') \cup batch'))
    PROVE  Reach'
BY DEF Reach

LEMMA ReachPushed ==
    ASSUME Reach, TypeOK, NEW p \in Prompts, Queue!Push(p), batch' = batch
    PROVE  Reach'
<1> DEFINE kept == IF Queue!Evicted = {} THEN queue ELSE Tail(queue)
           told == Queue!Woken(Queue!Evicted, "overflow")
<1>1. queue \in Seq(Prompts)
  BY DEF TypeOK, Queue!QueueTypeOK
<1>2. kept \in Seq(Prompts) /\ Range(queue) \ Queue!Evicted \subseteq Range(kept)
  <2>1. CASE Queue!Evicted = {}
    BY <1>1, <2>1
  <2>2. CASE Queue!Evicted # {}
    <3>1. Queue!Evicted = {Head(queue)} /\ Len(queue) >= QueueMax /\ QueueMax \in Nat \ {0}
      BY <2>2, TurnAssumption DEF Queue!Evicted, TurnAssumption
    <3>2. queue # <<>>
      BY <1>1, <3>1
    <3>3. Tail(queue) \in Seq(Prompts)
      BY <1>1, <3>2
    <3> QED BY <1>1, <2>2, <3>1, <3>2, <3>3, TailKeepsRest
  <2> QED BY <2>1, <2>2
<1>3. queue' = Append(kept, p) /\ outcome' = [told EXCEPT ![p] = "pending"]
  BY DEF Queue!Push
<1>4. DOMAIN told = Prompts
      /\ \A q \in Prompts : told[q] = IF q \in Queue!Evicted THEN "overflow" ELSE outcome[q]
  BY DEF Queue!Woken
<1> HIDE DEF kept, told
<1>5. Range(kept) \cup {p} \subseteq Range(queue')
  BY <1>2, <1>3, AppendKeepsAll
<1>6. \A q \in Prompts \ {p} : outcome'[q] = "pending" =>
          outcome[q] = "pending" /\ q \notin Queue!Evicted
  BY <1>3, <1>4
<1> QED BY <1>2, <1>5, <1>6, ReachKept

LEMMA ReachWithdrawn ==
    ASSUME Reach, TypeOK, NEW p \in Prompts, Queue!Withdraw(p), batch' = batch
    PROVE  Reach'
<1>1. PICK i \in DOMAIN queue :
        /\ queue[i] = p
        /\ queue' = SubSeq(queue, 1, i - 1) \o SubSeq(queue, i + 1, Len(queue))
  BY DEF Queue!Withdraw
<1>2. Range(queue) \ {p} \subseteq Range(queue')
  <2>1. queue \in Seq(Prompts) /\ queue' = Without(queue, i)
    BY <1>1 DEF TypeOK, Queue!QueueTypeOK, Without
  <2> QED BY <1>1, <2>1, RemoveKeepsRest
<1>3. \A q \in Prompts : outcome'[q] = "pending" => outcome[q] = "pending" /\ q # p
  BY DEF Queue!Withdraw, Queue!Woken
<1> QED BY <1>2, <1>3, ReachKept

LEMMA ReachCleared ==
    ASSUME Reach, Queue!Clear \/ Queue!ClearWithRestore, batch' = batch
    PROVE  Reach'
<1>1. \A p \in Prompts : outcome'[p] = "pending" =>
          outcome[p] = "pending" /\ p \notin Range(queue)
  <2>1. CASE Queue!Clear
    BY <2>1 DEF Queue!Clear, Queue!Woken, Queue!Range, Range
  <2>2. CASE Queue!ClearWithRestore
    BY <2>2 DEF Queue!ClearWithRestore, Queue!Range, Range
  <2> QED BY <2>1, <2>2
<1> QED BY <1>1, ReachKept

(* notify_batch_absorbed and notify_batch_error.                            *)
LEMMA ReachTold ==
    ASSUME Reach, NEW result \in Queue!WokenWith, outcome' = Queue!Woken(batch, result),
           queue' = queue
    PROVE  Reach'
BY ReachKept DEF Queue!Woken, Queue!WokenWith

LEMMA ReachDrained ==
    ASSUME Reach, batch = {}, batch' \subseteq Range(queue),
           outcome' = Queue!Woken(Range(queue) \ batch', "cross_user")
    PROVE  Reach'
BY ReachKept DEF Queue!Woken

LEMMA ReachUntouched ==
    ASSUME Reach, UNCHANGED <<queue, outcome>>, batch' = batch \/ batch = {}
    PROVE  Reach'
BY ReachKept

LEMMA ReachStep ==
    ASSUME IInv, BatchInv, Reach, Closable = {}, [Next]_vars
    PROVE  Reach'
<1> USE DEF queueVars, At
<1>n. ASSUME UNCHANGED <<queue, outcome>>, batch' = batch \/ batch = {} PROVE Reach'
  BY <1>n, ReachUntouched
<1>p. ASSUME NEW n \in Prompts, Queue!Push(n), batch' = batch PROVE Reach'
  BY <1>p, ReachPushed DEF IInv
<1>b. ASSUME NEW result \in {"absorbed", "inject_failed"},
             outcome' = Queue!Woken(batch, result), queue' = queue
      PROVE  Reach'
  BY <1>b, ReachTold DEF Queue!WokenWith
<1>c. ASSUME Queue!Clear \/ Queue!ClearWithRestore, batch' = batch PROVE Reach'
  BY <1>c, ReachCleared
<1>e. ASSUME NEW c \in Contenders, pc[c] \in HolderPCs \ {"redrive", "resteer"}
      PROVE  batch = {}
  BY <1>e, BatchIsHolders DEF BatchInv, BatchOwned, BatchAt
<1>1. ASSUME NEW c \in Contenders, Arriving(c) PROVE Reach'
  <2>1. CASE UNCHANGED <<queue, outcome, batch>>
    BY <1>n, <2>1
  <2>2. CASE PostPrompt(c) \/ EnqueuePrompt(c)
    <3>1. c \in Turns
      BY <2>2 DEF PostPrompt, EnqueuePrompt, IInv, TurnsOnly, TurnsOnlyPCs
    <3> QED BY <1>n, <1>p, <2>2, <3>1 DEF PostPrompt, EnqueuePrompt, Queue!Enqueue
  <2> QED BY <1>1, <2>1, <2>2 DEF Arriving, Enter, Probe, ProbeDrop, TryLock,
             CheckReleasing, WaitAcquire, WaitTimeout, Observe, QueueTimeout
<1>2. ASSUME NEW r \in Contenders, RunningTurn(r) PROVE Reach'
  <2>1. CASE UNCHANGED <<queue, outcome, batch>>
    BY <1>n, <2>1
  <2>2. CASE RouteAfterTools(r) \/ Continue(r)
    BY <1>n, <1>p, <2>2 DEF RouteAfterTools, Continue, Queue!Enqueue
  <2>3. CASE Drain(r)
    <3>1. batch = {}
      BY <1>e, <2>3 DEF Drain, HolderPCs, TurnPCs
    <3>2. CASE TakeBatch(r, "redrive", "loop")
      <4>1. batch' \subseteq Range(queue)
            /\ outcome' = Queue!Woken(Range(queue) \ batch', "cross_user")
        BY <3>2 DEF TakeBatch, Acceptable
      <4> QED BY <3>1, <4>1, ReachDrained
    <3> QED BY <1>n, <2>3, <3>2 DEF Drain
  <2>4. CASE Redriven(r) \/ Resteered(r) \/ RedriveFails(r) \/ ResteerFails(r)
    BY <1>b, <2>4 DEF Redriven, Resteered, RedriveFails, ResteerFails
  <2>5. CASE SteerDrain(r)
    <3>1. batch = {} /\ batch' = Range(queue) /\ outcome' = outcome
      BY <1>e, <2>5 DEF SteerDrain, HolderPCs, TurnPCs
    <3> QED BY <3>1, ReachKept
  <2>6. CASE SealClear(r) \/ FailClear(r)
    BY <1>c, <2>6 DEF SealClear, FailClear
  <2> QED BY <1>2, <2>1, <2>2, <2>3, <2>4, <2>5, <2>6
          DEF RunningTurn, StartTurn, ReleaseLock, DriveEnds, TurnFails, LoopTest,
              CloseQueue, Queue!BeginRelease, MidDone, Seal
<1>3. ASSUME NEW c \in Contenders, ModelFree(c) PROVE Reach'
  BY <1>3, <1>n, <1>c
     DEF ModelFree, HoldClose, HoldRestore, HoldStart, ClearStart, ReleaseLock,
         DeleteAdmit, DeleteAbortQueue, DeleteBegin, DeleteClose, DeleteClear,
         DeleteEnd, Queue!BeginRelease
<1>4. ASSUME NEW c \in Contenders, Release(c) PROVE Reach'
  <2>1. batch = {}
    BY <1>e, <1>4 DEF Release, HolderPCs, TurnPCs
  <2> QED BY <1>4, <1>n, <2>1 DEF Release, ReleaseLock
<1>5. ASSUME NEW s \in Stops, StopRestore(s) PROVE Reach'
  BY <1>5, <1>c DEF StopRestore
<1>6. CASE UserStep
  <2>1. ASSUME NEW p \in Turns, WithdrawPrompt(p) PROVE Reach'
    BY <2>1, ReachWithdrawn DEF WithdrawPrompt, callVars, IInv
  <2> QED BY <1>6, <1>n, <2>1 DEF UserStep, Authorise, Detach, CloseTurn, StopSignal
<1>7. CASE UNCHANGED vars
  BY <1>7, <1>n DEF vars, callVars
<1> QED BY <1>1, <1>2, <1>3, <1>4, <1>5, <1>6, <1>7 DEF Next, CallStep, Quiescent

(* A prompt that waits for an answer is in the queue, once, or in the       *)
(* holder's batch, and an idle thread has no batch: through drains, failed  *)
(* injections, evictions, stops and deletions no pending prompt is dropped  *)
(* without being told.  (A stream that its consumer closes in a re-drive    *)
(* drops its batch: Closable is empty here.)                                *)
THEOREM Reachable == ASSUME Closable = {} PROVE Spec => []PendingReachable
<1>1. Init => Reach
  BY DEF Init, Queue!QueueInit, Reach
<1>2. IInv /\ BatchInv /\ Reach /\ [Next]_vars => Reach'
  BY ReachStep
<1>3. ASSUME IInv, Custody, BatchInv, Reach PROVE PendingReachable
  <2>1. Range(queue) \cup batch \subseteq Prompts
    BY <1>3, QueueInPrompts DEF IInv, TypeOK
  <2>2. owner = None => batch = {}
    BY <1>3, BatchIsHolders DEF BatchInv
  <2> QED BY <1>3, <2>1, <2>2 DEF PendingReachable, Custody, Held, Reach
<1> QED BY <1>1, <1>2, <1>3, BatchAlways, PTL DEF Spec

-----------------------------------------------------------------------------
(* Behind a holder that runs no model.                                      *)

QuietPCs == {"closed", "restored", "holding", "erasing"}

(* It closes the queue before it empties it.                                *)
QuietInv ==
    \A c \in Holds \cup Deletes :
        /\ pc[c] \in QuietPCs => releasing
        /\ pc[c] \in QuietPCs \ {"closed"} => queue = <<>>

(* Steps of other calls, and steps that end a call's hold.                  *)
LEMMA QuietKept ==
    ASSUME IInv, QuietInv, NEW c \in Actors, NEW place, Goto(c, place),
           place \notin QuietPCs \/ c \notin Holds \cup Deletes,
           releasing => releasing' \/ owner \in {c, None},
           releasing /\ queue = <<>> => queue' = <<>>
    PROVE  QuietInv'
<1> SUFFICES ASSUME NEW b \in Holds \cup Deletes, pc'[b] \in QuietPCs
             PROVE  releasing' /\ (pc'[b] \in QuietPCs \ {"closed"} => queue' = <<>>)
  BY DEF QuietInv
<1>1. b # c /\ pc'[b] = pc[b] /\ b \in Contenders /\ b # None
  BY OneMoves, TurnAssumption DEF IInv, TurnAssumption
<1>2. owner = b
  BY <1>1 DEF IInv, LockExclusion, HolderPCs, QuietPCs
<1>3. releasing /\ (pc[b] \in QuietPCs \ {"closed"} => queue = <<>>)
  BY <1>1 DEF QuietInv
<1> QED BY <1>1, <1>2, <1>3

LEMMA QuietStays ==
    ASSUME QuietInv, pc' = pc, releasing => releasing',
           releasing /\ queue = <<>> => queue' = <<>>
    PROVE  QuietInv'
BY DEF QuietInv

(* The steps of a holder that runs no model.                                *)
LEMMA QuietMoves ==
    ASSUME TypeOK, QuietInv, NEW c \in Contenders, NEW place, Goto(c, place),
           releasing' /\ queue' \in {queue, <<>>},
           place = "closed" \/ queue' = <<>>
    PROVE  QuietInv'
BY OneMoves DEF QuietInv, QuietPCs

LEMMA QuietArriving ==
    ASSUME IInv, QuietInv, NEW c \in Contenders, Arriving(c)
    PROVE  QuietInv'
<1> USE DEF KeepGoing, Suspend, At, QuietPCs, lockVars, queueVars
<1>1. CASE UNCHANGED <<queue, releasing>>
  BY <1>1, QuietKept DEF Arriving, Enter, Probe, ProbeDrop, PostPrompt, TryLock,
     CheckReleasing, EnqueuePrompt, WaitAcquire, WaitTimeout, Observe, QueueTimeout
<1>2. CASE PostPrompt(c)
  BY <1>1, <1>2, QuietKept DEF PostPrompt, Queue!Enqueue, Queue!Push, Queue!Accepting
<1>3. CASE EnqueuePrompt(c)
  BY <1>1, <1>3, QuietKept DEF EnqueuePrompt, Queue!Enqueue, Queue!Push, Queue!Accepting
<1> QED BY <1>1, <1>2, <1>3 DEF Arriving, Enter, Probe, ProbeDrop, TryLock,
           CheckReleasing, WaitAcquire, WaitTimeout, Observe, QueueTimeout

LEMMA QuietRunningTurn ==
    ASSUME IInv, QuietInv, NEW r \in Contenders, RunningTurn(r)
    PROVE  QuietInv'
<1> USE DEF KeepGoing, Suspend, At, QuietPCs, lockVars, queueVars
<1>h. pc[r] \in HolderPCs => owner = r
  BY NobodyElseWorks
<1>1. CASE StartTurn(r)
  BY <1>1, <1>h, QuietKept DEF StartTurn, Lock!SetAbort, ReleaseLock, HolderPCs
<1>2. CASE RouteAfterTools(r)
  BY <1>2, QuietStays DEF RouteAfterTools, Queue!Push, Queue!Accepting
<1>3. CASE DriveEnds(r)
  BY <1>3, QuietKept DEF DriveEnds
<1>4. CASE TurnFails(r)
  BY <1>4, QuietKept DEF TurnFails
<1>5. CASE LoopTest(r)
  BY <1>5, QuietKept DEF LoopTest
<1>6. CASE Drain(r)
  BY <1>6, QuietKept DEF Drain, TakeBatch
<1>7. CASE Continue(r)
  BY <1>7, QuietKept DEF Continue, Queue!Enqueue, Queue!Push, Queue!Accepting
<1>8. CASE CloseQueue(r)
  BY <1>8, QuietKept DEF CloseQueue, Queue!BeginRelease
<1>9. CASE Redriven(r) \/ RedriveFails(r)
  BY <1>9, QuietKept DEF Redriven, RedriveFails
<1>10. CASE SteerDrain(r)
  BY <1>10, QuietKept DEF SteerDrain
<1>11. CASE Resteered(r) \/ ResteerFails(r) \/ MidDone(r)
  BY <1>11, QuietKept DEF Resteered, ResteerFails, MidDone
<1>12. CASE Seal(r)
  BY <1>12, QuietKept DEF Seal, Queue!BeginRelease
<1>13. CASE SealClear(r) \/ FailClear(r)
  BY <1>13, QuietKept DEF SealClear, FailClear, Queue!Clear
<1> QED BY <1>1, <1>2, <1>3, <1>4, <1>5, <1>6, <1>7, <1>8, <1>9, <1>10, <1>11, <1>12, <1>13 DEF RunningTurn

LEMMA QuietModelFree ==
    ASSUME IInv, QuietInv, NEW c \in Contenders, ModelFree(c)
    PROVE  QuietInv'
<1> USE DEF KeepGoing, Suspend, At, QuietPCs, lockVars, queueVars
<1>h. pc[c] \in HolderPCs => owner = c
  BY NobodyElseWorks
<1>t. TypeOK
  BY DEF IInv
<1>1. CASE HoldClose(c)
  BY <1>1, <1>t, QuietMoves DEF HoldClose, Queue!BeginRelease
<1>2. CASE HoldRestore(c)
  <2>1. releasing
    BY <1>2 DEF HoldRestore, QuietInv
  <2> QED BY <1>2, <1>t, <2>1, QuietMoves DEF HoldRestore, Queue!ClearWithRestore
<1>3. CASE HoldStart(c)
  <2>1. releasing /\ queue = <<>>
    BY <1>3 DEF HoldStart, QuietInv
  <2> QED BY <1>3, <1>t, <2>1, QuietMoves DEF HoldStart
<1>4. CASE ClearStart(c)
  <2>1. c \notin Holds \cup Deletes
    BY <1>4, TurnAssumption DEF ClearStart, TurnAssumption
  <2> QED BY <1>4, <1>h, <2>1, QuietKept DEF ClearStart, Queue!BeginRelease, ReleaseLock, HolderPCs
<1>5. CASE DeleteAdmit(c)
  BY <1>5, QuietKept DEF DeleteAdmit, Lock!SetAbort
<1>6. CASE DeleteAbortQueue(c)
  BY <1>6, QuietKept DEF DeleteAbortQueue, Queue!Clear
<1>7. CASE DeleteBegin(c)
  BY <1>7, QuietKept DEF DeleteBegin
<1>8. CASE DeleteClose(c)
  BY <1>8, <1>t, QuietMoves DEF DeleteClose, Queue!BeginRelease
<1>9. CASE DeleteClear(c)
  <2>1. releasing
    BY <1>9 DEF DeleteClear, QuietInv
  <2> QED BY <1>9, <1>t, <2>1, QuietMoves DEF DeleteClear, Queue!Clear
<1>10. CASE DeleteEnd(c)
  BY <1>10, QuietKept DEF DeleteEnd
<1> QED BY <1>1, <1>2, <1>3, <1>4, <1>5, <1>6, <1>7, <1>8, <1>9, <1>10 DEF ModelFree

LEMMA QuietOthers ==
    ASSUME IInv, QuietInv,
           (\E c \in Contenders : Release(c)) \/ (\E s \in Stops : StopRestore(s))
             \/ UserStep \/ UNCHANGED vars
    PROVE  QuietInv'
<1> USE DEF KeepGoing, Suspend, At, QuietPCs, lockVars, queueVars
<1>1. ASSUME NEW c \in Contenders, Release(c) PROVE QuietInv'
  BY <1>1, QuietKept, NobodyElseWorks DEF Release, ReleaseLock, HolderPCs, TurnPCs
<1>2. ASSUME NEW s \in Stops, StopRestore(s) PROVE QuietInv'
  BY <1>2, QuietKept DEF StopRestore, Queue!ClearWithRestore
<1>3. ASSUME NEW s \in Stops, StopSignal(s) PROVE QuietInv'
  BY <1>3, QuietKept DEF StopSignal
<1>4. ASSUME NEW c \in Contenders, Authorise(c) \/ Detach(c) \/ CloseTurn(c) PROVE QuietInv'
  BY <1>4, QuietKept DEF Authorise, Detach, CloseTurn
<1>5. ASSUME NEW p \in Turns, WithdrawPrompt(p) PROVE QuietInv'
  <2>1. queue # <<>> /\ UNCHANGED <<pc, releasing>>
    BY <1>5 DEF WithdrawPrompt, Queue!Withdraw, callVars
  <2> QED BY <2>1, QuietStays
<1>6. CASE UNCHANGED vars
  BY <1>6, QuietStays DEF vars, callVars
<1> QED BY <1>1, <1>2, <1>3, <1>4, <1>5, <1>6 DEF UserStep

(* No prompt waits behind a running hold_thread() or behind a deletion that *)
(* is erasing the stores: neither would ever drain it.                      *)
THEOREM Quiet == Spec => []QuietBehindModelFree
<1>1. Init => QuietInv
  BY DEF Init, QuietInv, QuietPCs
<1>2. IInv /\ QuietInv /\ [Next]_vars => QuietInv'
  BY QuietArriving, QuietRunningTurn, QuietModelFree, QuietOthers
     DEF Next, CallStep, Quiescent
<1>3. QuietInv => QuietBehindModelFree
  BY DEF QuietInv, QuietPCs, QuietBehindModelFree
<1> QED BY <1>1, <1>2, <1>3, Invariance, PTL DEF Spec

-----------------------------------------------------------------------------
(* The halt count, where every turn is a stream.                            *)

HaltPCs == {"driving", "redrive", "failing"}
HaltInv == halted => owner \in Turns /\ pc[owner] \in HaltPCs

(* A step that observes no halt, of a call that is not there to consume it. *)
LEMMA HaltKept ==
    ASSUME IInv, HaltInv, NEW c \in Actors, NEW place, Goto(c, place),
           pc[c] \notin HaltPCs \/ (place = "failing" /\ owner' = owner),
           halted' => halted,
           owner' = owner \/ (owner' = None /\ owner = c) \/ (owner = None /\ owner' = c)
    PROVE  HaltInv'
<1> SUFFICES ASSUME halted' PROVE owner' \in Turns /\ pc'[owner'] \in HaltPCs
  BY DEF HaltInv
<1>1. owner \in Turns /\ pc[owner] \in HaltPCs /\ owner # None
  BY TurnAssumption DEF HaltInv, TurnAssumption
<1>2. pc'[c] = place /\ \A b \in Actors \ {c} : pc'[b] = pc[b]
  BY OneMoves DEF IInv
<1>3. owner' = owner \/ owner' = None
  BY <1>1
<1> QED BY <1>1, <1>2, <1>3 DEF HaltPCs

LEMMA HaltConsumed == ASSUME ~halted' PROVE HaltInv'
BY DEF HaltInv

LEMMA HaltArriving ==
    ASSUME IInv, HaltInv, NEW c \in Contenders, Arriving(c)
    PROVE  HaltInv'
<1> USE DEF KeepGoing, Suspend, At, HaltPCs, lockVars, queueVars, Lock!Acquire, Lock!LockFree
<1>1. CASE PostPrompt(c) \/ EnqueuePrompt(c)
  BY <1>1, HaltKept DEF PostPrompt, EnqueuePrompt, Queue!Enqueue
<1>2. CASE ProbeDrop(c)
  BY <1>2, HaltKept, NobodyElseWorks DEF ProbeDrop, HolderPCs
<1>3. CASE UNCHANGED halted
  BY <1>1, <1>2, <1>3, HaltKept DEF Arriving, Enter, Probe, TryLock,
     CheckReleasing, WaitAcquire, WaitTimeout, Observe, QueueTimeout
<1> QED BY <1>1, <1>2, <1>3 DEF Arriving, Enter, Probe, TryLock,
           CheckReleasing, WaitAcquire, WaitTimeout, Observe, QueueTimeout

LEMMA HaltRunningTurn ==
    ASSUME IInv, ChatsOnly, Chats = {}, HaltInv, NEW r \in Contenders, RunningTurn(r)
    PROVE  HaltInv'
<1> USE DEF KeepGoing, Suspend, At, HaltPCs, lockVars, queueVars
<1>h. pc[r] \in HolderPCs => owner = r
  BY NobodyElseWorks
<1>c. pc[r] \notin ChatPCs
  BY DEF ChatsOnly
<1>1. CASE StartTurn(r)
  BY <1>1, <1>h, HaltKept DEF StartTurn, Lock!SetAbort, ReleaseLock, HolderPCs
<1>2. CASE RouteAfterTools(r)
  <2>1. owner = r /\ r \in Turns /\ pc[r] \in {"driving", "redrive"}
    BY <1>2, <1>h, <1>c DEF RouteAfterTools, HolderPCs, TurnPCs, ChatPCs,
       IInv, TurnsOnly, TurnsOnlyPCs
  <2> QED BY <1>2, <2>1 DEF RouteAfterTools, HaltInv
<1>3. CASE DriveEnds(r) \/ Redriven(r) \/ FailClear(r)
  BY <1>3, HaltConsumed DEF DriveEnds, Redriven, FailClear, Queue!Clear
<1>4. CASE TurnFails(r)
  BY <1>4, HaltKept DEF TurnFails
<1>5. CASE LoopTest(r)
  BY <1>5, HaltKept DEF LoopTest
<1>6. CASE Drain(r)
  BY <1>6, HaltKept DEF Drain, TakeBatch
<1>7. CASE Continue(r)
  BY <1>7, HaltKept DEF Continue, Queue!Enqueue
<1>8. CASE CloseQueue(r)
  BY <1>8, HaltKept DEF CloseQueue, Queue!BeginRelease
<1>9. CASE RedriveFails(r)
  BY <1>9, HaltKept DEF RedriveFails
<1>10. CASE \/ SteerDrain(r) \/ Resteered(r) \/ ResteerFails(r) \/ MidDone(r)
            \/ Seal(r) \/ SealClear(r)
  BY <1>10, <1>c DEF SteerDrain, Resteered, ResteerFails, MidDone, Seal, SealClear, ChatPCs
<1> QED BY <1>1, <1>2, <1>3, <1>4, <1>5, <1>6, <1>7, <1>8, <1>9, <1>10 DEF RunningTurn

LEMMA HaltModelFree ==
    ASSUME IInv, HaltInv, NEW c \in Contenders, ModelFree(c)
    PROVE  HaltInv'
<1> USE DEF KeepGoing, Suspend, At, HaltPCs, lockVars, queueVars
<1>1. CASE HoldClose(c) \/ DeleteClose(c)
  BY <1>1, HaltKept DEF HoldClose, DeleteClose, Queue!BeginRelease
<1>2. CASE HoldRestore(c) \/ DeleteAbortQueue(c) \/ DeleteClear(c)
  BY <1>2, HaltConsumed DEF HoldRestore, DeleteAbortQueue, DeleteClear,
     Queue!Clear, Queue!ClearWithRestore
<1>3. CASE HoldStart(c) \/ DeleteAdmit(c)
  BY <1>3, HaltKept DEF HoldStart, DeleteAdmit, Lock!SetAbort
<1>4. CASE ClearStart(c)
  BY <1>4, NobodyElseWorks, HaltKept
     DEF ClearStart, Queue!BeginRelease, ReleaseLock, HolderPCs
<1>5. CASE DeleteBegin(c) \/ DeleteEnd(c)
  BY <1>5, HaltKept DEF DeleteBegin, DeleteEnd, Lock!BeginThreadDeletion, Lock!EndThreadDeletion
<1> QED BY <1>1, <1>2, <1>3, <1>4, <1>5 DEF ModelFree

LEMMA HaltOthers ==
    ASSUME IInv, HaltInv,
           (\E c \in Contenders : Release(c)) \/ (\E s \in Stops : StopRestore(s))
             \/ UserStep \/ UNCHANGED vars
    PROVE  HaltInv'
<1> USE DEF KeepGoing, Suspend, At, HaltPCs, lockVars, queueVars
<1>1. ASSUME NEW c \in Contenders, Release(c) PROVE HaltInv'
  BY <1>1, HaltKept, NobodyElseWorks DEF Release, ReleaseLock, HolderPCs, TurnPCs
<1>2. ASSUME NEW s \in Stops, StopRestore(s) PROVE HaltInv'
  BY <1>2, HaltConsumed DEF StopRestore, Queue!ClearWithRestore
<1>3. ASSUME NEW s \in Stops, StopSignal(s) PROVE HaltInv'
  BY <1>3, HaltKept DEF StopSignal, Lock!SetAbort
<1>4. ASSUME NEW c \in Contenders, Authorise(c) \/ Detach(c) \/ CloseTurn(c) PROVE HaltInv'
  BY <1>4, HaltKept DEF Authorise, Detach, CloseTurn
<1>5. ASSUME NEW p \in Turns, WithdrawPrompt(p) PROVE HaltInv'
  BY <1>5 DEF WithdrawPrompt, Queue!Withdraw, callVars, HaltInv
<1>6. CASE UNCHANGED vars
  BY <1>6 DEF vars, callVars, HaltInv
<1> QED BY <1>1, <1>2, <1>3, <1>4, <1>5, <1>6 DEF UserStep

(* A halt is reported by the turn that observed it: no idle thread has one  *)
(* left over.  (It is false of chat(), which does not consume the count of  *)
(* a re-drive: Chats is empty here.)                                        *)
THEOREM HaltsAreConsumed == ASSUME Chats = {} PROVE Spec => []HaltNotCarriedOver
<1>1. Init => HaltInv
  BY DEF Init, Queue!QueueInit, HaltInv
<1>2. IInv /\ BatchInv /\ HaltInv /\ [Next]_vars => HaltInv'
  BY HaltArriving, HaltRunningTurn, HaltModelFree, HaltOthers
     DEF Next, CallStep, Quiescent, BatchInv
<1>3. HaltInv => HaltNotCarriedOver
  BY TurnAssumption DEF HaltInv, HaltNotCarriedOver, TurnAssumption
<1> QED BY <1>1, <1>2, <1>3, BatchAlways, PTL DEF Spec

-----------------------------------------------------------------------------
(* One event loop.  When every call is a coroutine of it and nobody stops a *)
(* turn, a call that is between its attempt on the lock and its place in    *)
(* the queue, or between its last drain and the unlock, has the loop.       *)

AtomicPCs == {"try", "check", "enqueue", "held", "leaving"}
(* A holder at these places has drained for the last time ...               *)
DrainedPCs == {"held", "leaving", "ending", "holding"}
(* ... and at these it has closed the queue.                                *)
ClosedPCs == {"closing", "ending", "holding"}
(* No trigger, hold or deletion is there to be at one of these.             *)
Elsewhere == {"probe", "probing", "post", "aborting", "marked", "closed", "erasing", "restored"}

LastDrain ==
    /\ owner = None => queue = <<>>
    /\ owner # None /\ pc[owner] \in DrainedPCs => queue = <<>>
    /\ owner # None /\ pc[owner] \in ClosedPCs => releasing

LoopInv ==
    /\ ~abort
    /\ \A c \in Contenders :
          /\ pc[c] \notin Elsewhere
          /\ pc[c] \in AtomicPCs => loop = c
          /\ pc[c] \in {"check", "enqueue"} => owner # None
    /\ LastDrain

OneEventLoop == Contenders \subseteq OnLoop /\ Stops = {}

LEMMA OnlyStreamsAndClears ==
    ASSUME OneEventLoop
    PROVE  Chats = {} /\ Posts = {} /\ Holds = {} /\ Deletes = {}
BY TurnAssumption DEF OneEventLoop, TurnAssumption

(* The step of one call, with the others where they were.                   *)
LEMMA LoopKept ==
    ASSUME IInv, LoopInv, OneEventLoop, NEW c \in Contenders, NEW place,
           loop \in {None, c}, Goto(c, place), ~abort',
           place \notin Elsewhere,
           place \in AtomicPCs => loop' = c,
           place \in {"check", "enqueue"} => owner' # None,
           LastDrain'
    PROVE  LoopInv'
<1>1. pc'[c] = place /\ \A b \in Contenders \ {c} : pc'[b] = pc[b]
  BY OneMoves DEF IInv
<1>2. \A b \in Contenders \ {c} : pc[b] \notin AtomicPCs
  BY TurnAssumption DEF LoopInv, TurnAssumption
<1>3. ASSUME NEW b \in Contenders
      PROVE  /\ pc'[b] \notin Elsewhere
             /\ pc'[b] \in AtomicPCs => loop' = b
             /\ pc'[b] \in {"check", "enqueue"} => owner' # None
  <2>1. CASE b = c
    BY <1>1, <2>1
  <2>2. CASE b # c
    BY <1>1, <1>2, <2>2 DEF LoopInv, AtomicPCs
  <2> QED BY <2>1, <2>2
<1> QED BY <1>3 DEF LoopInv

(* A step that keeps the holder and the queue, of a call that is not about  *)
(* to be where the queue is drained or closed.                              *)
LEMMA DrainedKept ==
    ASSUME IInv, LastDrain, NEW c \in Contenders, NEW place, Goto(c, place),
           owner' = owner, queue' \in {queue, <<>>},
           releasing => releasing',
           owner = c =>
              /\ place \in DrainedPCs => queue' = <<>>
              /\ place \in ClosedPCs => releasing'
    PROVE  LastDrain'
<1>1. pc'[c] = place /\ \A b \in Actors \ {c} : pc'[b] = pc[b]
  BY OneMoves DEF IInv
<1>2. owner # None => owner \in Contenders
  BY DEF IInv, TypeOK, Lock!LockTypeOK
<1> QED BY <1>1, <1>2 DEF LastDrain

LEMMA DrainedAcquired ==
    ASSUME IInv, LastDrain, NEW c \in Contenders, Goto(c, "held"),
           Lock!Acquire(c), queue' = queue
    PROVE  LastDrain'
<1>1. pc'[c] = "held"
  BY OneMoves DEF IInv
<1> QED BY <1>1, TurnAssumption
        DEF LastDrain, Lock!Acquire, Lock!LockFree, ClosedPCs, TurnAssumption

LEMMA DrainedReleased ==
    ASSUME LastDrain, owner # None, pc[owner] \in DrainedPCs, ReleaseLock
    PROVE  LastDrain'
BY DEF LastDrain, ReleaseLock

(* A prompt is queued behind a holder that will drain again.                *)
LEMMA DrainedPushed ==
    ASSUME IInv, LoopInv, NEW c \in Contenders, NEW p \in Prompts, Queue!Push(p),
           owner' = owner, owner # None, loop \in {None, c},
           \A b \in Contenders \ {c} : pc'[b] = pc[b],
           pc'[c] \notin DrainedPCs \cup ClosedPCs
    PROVE  LastDrain' /\ pc[owner] # "ending"
<1>1. owner \in Contenders /\ ~releasing
  BY DEF IInv, TypeOK, Lock!LockTypeOK, Queue!Push, Queue!Accepting
<1>2. pc[owner] \notin ClosedPCs
  BY <1>1 DEF LoopInv, LastDrain
<1>3. owner = c \/ pc[owner] \notin DrainedPCs
  BY <1>1, <1>2, TurnAssumption DEF LoopInv, DrainedPCs, ClosedPCs, AtomicPCs, TurnAssumption
<1> QED BY <1>1, <1>2, <1>3 DEF LastDrain, ClosedPCs

LEMMA LoopArriving ==
    ASSUME IInv, LoopInv, OneEventLoop, NEW c \in Contenders, Arriving(c)
    PROVE  LoopInv'
<1> USE DEF KeepGoing, Suspend, At, Keeps, Yields, AtomicPCs, DrainedPCs, ClosedPCs,
            Elsewhere, lockVars, queueVars
<1>0. /\ c \in OnLoop /\ LastDrain /\ ~abort
      /\ pc[c] \notin Elsewhere
      /\ pc[c] \in {"check", "enqueue"} => owner # None
      /\ c # None /\ c \notin Posts \cup Chats
  BY OnlyStreamsAndClears, TurnAssumption DEF OneEventLoop, LoopInv, TurnAssumption
<1>h. pc[c] \notin HolderPCs => owner # c
  BY DEF IInv, LockExclusion
<1>a. ASSUME NEW place, Goto(c, place), UNCHANGED <<lockVars, queueVars>>,
             place \notin Elsewhere \cup DrainedPCs \cup ClosedPCs,
             loop \in {None, c},
             place \in AtomicPCs => loop' = c,
             place \in {"check", "enqueue"} => owner # None
      PROVE  LoopInv'
  BY <1>0, <1>a, DrainedKept, LoopKept
<1>1. CASE Enter(c)
  BY <1>0, <1>1, <1>a DEF Enter
<1>2. CASE TryLock(c)
  <2>1. CASE Lock!Acquire(c) /\ KeepGoing(c, "held") /\ UNCHANGED queueVars
    <3>1. LastDrain' /\ owner' = c /\ abort' = abort
      BY <1>0, <2>1, DrainedAcquired DEF Lock!Acquire
    <3> QED BY <1>0, <1>2, <2>1, <3>1, LoopKept DEF TryLock
  <2>2. CASE ~Lock!LockFree /\ UNCHANGED lockVars
    BY <1>0, <1>2, <1>a, <2>2 DEF TryLock, Lock!LockFree, Lock!Acquire
  <2> QED BY <1>2, <2>1, <2>2 DEF TryLock
<1>3. CASE CheckReleasing(c)
  BY <1>0, <1>3, <1>a DEF CheckReleasing
<1>4. CASE EnqueuePrompt(c)
  <2>1. owner # None /\ c \in Prompts /\ c \in Turns
    BY <1>0, <1>4 DEF EnqueuePrompt, IInv, TurnsOnly, TurnsOnlyPCs
  <2>2. CASE Queue!Enqueue(c) /\ Suspend(c, "queued")
    <3>1. pc'[c] = "queued" /\ \A b \in Contenders \ {c} : pc'[b] = pc[b]
      BY <2>2, OneMoves DEF IInv
    <3>2. LastDrain'
      BY <1>0, <1>4, <2>1, <2>2, <3>1, DrainedPushed DEF EnqueuePrompt, Queue!Enqueue
    <3> QED BY <1>0, <1>4, <2>2, <3>2, LoopKept DEF EnqueuePrompt
  <2>3. CASE Suspend(c, "wait") /\ UNCHANGED queueVars
    BY <1>0, <1>4, <1>a, <2>3 DEF EnqueuePrompt
  <2> QED BY <1>4, <2>2, <2>3 DEF EnqueuePrompt
<1>5. CASE WaitAcquire(c)
  <2>1. LastDrain' /\ owner' = c /\ abort' = abort
    BY <1>0, <1>5, DrainedAcquired DEF Lock!Acquire, WaitAcquire
  <2> QED BY <1>0, <1>5, <2>1, LoopKept DEF WaitAcquire
<1>6. CASE WaitTimeout(c) \/ Observe(c) \/ QueueTimeout(c)
  BY <1>0, <1>6, <1>a DEF WaitTimeout, Observe, QueueTimeout
<1> QED BY <1>0, <1>1, <1>2, <1>3, <1>4, <1>5, <1>6 DEF Arriving, Probe, ProbeDrop, PostPrompt

LEMMA LoopRunningTurn ==
    ASSUME IInv, ChatsOnly, LoopInv, OneEventLoop, NEW r \in Contenders, RunningTurn(r)
    PROVE  LoopInv'
<1> USE DEF KeepGoing, Suspend, At, Keeps, Yields, AtomicPCs, DrainedPCs, ClosedPCs,
            Elsewhere, lockVars, queueVars
<1>0. /\ r \in OnLoop /\ LastDrain /\ ~abort /\ r # None /\ r \notin Chats
      /\ pc[r] \notin ChatPCs
  BY OnlyStreamsAndClears, TurnAssumption
     DEF OneEventLoop, LoopInv, ChatsOnly, TurnAssumption
<1>h. pc[r] \in HolderPCs => owner = r
  BY NobodyElseWorks
<1>a. ASSUME NEW place, Goto(r, place), ~abort', owner' = owner,
             queue' \in {queue, <<>>}, releasing => releasing',
             loop \in {None, r}, owner = r,
             place \notin Elsewhere \cup {"check", "enqueue"},
             place \in AtomicPCs => loop' = r,
             place \in DrainedPCs => queue' = <<>>,
             place \in ClosedPCs => releasing'
      PROVE  LoopInv'
  BY <1>0, <1>a, DrainedKept, LoopKept
<1>1. CASE StartTurn(r)
  <2>1. pc[r] = "held" /\ owner = r /\ loop \in {None, r}
    BY <1>0, <1>1, <1>h DEF StartTurn, HolderPCs
  <2>2. CASE Suspend(r, "driving") /\ UNCHANGED queueVars
             /\ owner' = owner /\ ~abort'
    BY <1>0, <1>a, <2>1, <2>2
  <2>3. CASE ReleaseLock /\ Suspend(r, "refused")
    <3>1. LastDrain' /\ ~abort'
      BY <1>0, <2>1, <2>3, DrainedReleased DEF ReleaseLock
    <3> QED BY <2>1, <2>3, <3>1, LoopKept
  <2> QED BY <1>0, <1>1, <2>2, <2>3 DEF StartTurn, Lock!SetAbort
<1>2. CASE RouteAfterTools(r)
  <2>1. /\ owner = r /\ loop \in {None, r} /\ loop' = None
        /\ pc[r] \in {"driving", "redrive", "resteer"}
        /\ pc' = pc /\ UNCHANGED lockVars /\ owner # None
    BY <1>0, <1>2, <1>h DEF RouteAfterTools, HolderPCs, TurnPCs
  <2>2. LastDrain'
    <3>1. ASSUME NEW n \in Notes, Queue!Push(n) PROVE LastDrain'
      BY <2>1, <3>1, DrainedPushed
    <3>2. ASSUME UNCHANGED queue PROVE LastDrain'
      BY <1>0, <1>2, <2>1, <3>2 DEF RouteAfterTools, LastDrain
    <3> QED BY <1>2, <3>1, <3>2 DEF RouteAfterTools
  <2>3. \A b \in Contenders : pc[b] \notin AtomicPCs
    BY <2>1, TurnAssumption DEF LoopInv, TurnAssumption
  <2> QED BY <1>0, <2>1, <2>2, <2>3 DEF LoopInv
<1>3. CASE DriveEnds(r)
  BY <1>0, <1>3, <1>a, <1>h DEF DriveEnds, HolderPCs, TurnPCs
<1>4. CASE TurnFails(r)
  BY <1>0, <1>4, <1>a, <1>h DEF TurnFails, HolderPCs, TurnPCs
<1>5. CASE LoopTest(r)
  BY <1>0, <1>5, <1>a, <1>h DEF LoopTest, HolderPCs, TurnPCs
<1>6. CASE Drain(r)
  <2>1. /\ owner = r /\ loop \in {None, r} /\ owner # None /\ UNCHANGED lockVars
        /\ pc[r] \in {"drain", "closing"}
    BY <1>0, <1>6, <1>h DEF Drain, HolderPCs, TurnPCs
  <2>2. pc[r] = "closing" => releasing
    BY <1>0, <2>1 DEF LastDrain
  <2>3. CASE TakeBatch(r, "redrive", "loop")
    <3>1. /\ Goto(r, IF Acceptable(r) = {} THEN "loop" ELSE "redrive")
          /\ queue' = <<>> /\ releasing' = releasing
      BY <2>3 DEF TakeBatch
    <3> QED BY <1>0, <1>a, <2>1, <3>1
  <2>4. CASE queue = <<>> /\ UNCHANGED queueVars
             /\ Suspend(r, IF pc[r] = "drain" THEN "empty" ELSE "ending")
    BY <1>0, <1>a, <2>1, <2>2, <2>4
  <2> QED BY <1>6, <2>3, <2>4 DEF Drain
<1>7. CASE Continue(r)
  <2>1. /\ owner = r /\ loop \in {None, r} /\ owner # None /\ UNCHANGED lockVars
        /\ Goto(r, "loop")
        /\ \E n \in Notes : Queue!Push(n)
    BY <1>0, <1>7, <1>h DEF Continue, HolderPCs, TurnPCs, Queue!Enqueue
  <2>2. pc'[r] = "loop" /\ \A b \in Contenders \ {r} : pc'[b] = pc[b]
    BY <2>1, OneMoves DEF IInv
  <2>3. LastDrain'
    BY <2>1, <2>2, DrainedPushed
  <2> QED BY <1>0, <2>1, <2>3, LoopKept
<1>8. CASE CloseQueue(r)
  BY <1>0, <1>8, <1>a, <1>h DEF CloseQueue, HolderPCs, TurnPCs, Queue!BeginRelease
<1>9. CASE Redriven(r) \/ RedriveFails(r)
  BY <1>0, <1>9, <1>a, <1>h DEF Redriven, RedriveFails, HolderPCs, TurnPCs
<1>10. CASE \/ SteerDrain(r) \/ Resteered(r) \/ ResteerFails(r) \/ MidDone(r)
            \/ Seal(r) \/ SealClear(r)
  BY <1>0, <1>10 DEF SteerDrain, Resteered, ResteerFails, MidDone, Seal, SealClear, ChatPCs
<1>11. CASE FailClear(r)
  BY <1>0, <1>11, <1>a, <1>h DEF FailClear, HolderPCs, TurnPCs, Queue!Clear
<1> QED BY <1>1, <1>2, <1>3, <1>4, <1>5, <1>6, <1>7, <1>8, <1>9, <1>10, <1>11 DEF RunningTurn

LEMMA LoopOthers ==
    ASSUME IInv, LoopInv, OneEventLoop,
           \/ \E c \in Contenders : ModelFree(c) \/ Release(c)
           \/ UserStep \/ UNCHANGED vars
    PROVE  LoopInv'
<1> USE DEF KeepGoing, Suspend, At, Keeps, Yields, AtomicPCs, DrainedPCs, ClosedPCs,
            Elsewhere, lockVars, queueVars
<1>0. /\ Contenders \subseteq OnLoop /\ LastDrain /\ ~abort /\ None \notin Contenders
      /\ Chats = {} /\ Posts = {} /\ Holds = {} /\ Deletes = {} /\ Stops = {}
  BY OnlyStreamsAndClears, TurnAssumption DEF OneEventLoop, LoopInv, TurnAssumption
<1>1. ASSUME NEW c \in Contenders, ModelFree(c) PROVE LoopInv'
  <2>1. ClearStart(c)
    <3>1. pc[c] \notin Elsewhere
      BY DEF LoopInv
    <3> QED BY <1>0, <1>1, <3>1 DEF ModelFree, HoldClose, HoldRestore, HoldStart,
               DeleteAdmit, DeleteAbortQueue, DeleteBegin, DeleteClose, DeleteClear, DeleteEnd
  <2>2. pc[c] = "held" /\ owner = c /\ owner # None /\ loop \in {None, c}
    BY <1>0, <2>1, NobodyElseWorks DEF ClearStart, HolderPCs
  <2>3. queue = <<>>
    BY <1>0, <2>2 DEF LastDrain
  <2>4. CASE Queue!BeginRelease /\ Suspend(c, "holding") /\ UNCHANGED lockVars
    <3>1. LastDrain'
      BY <1>0, <2>2, <2>3, <2>4, DrainedKept DEF Queue!BeginRelease
    <3> QED BY <1>0, <2>2, <2>4, <3>1, LoopKept
  <2>5. CASE ReleaseLock /\ Suspend(c, "refused")
    <3>1. LastDrain' /\ ~abort'
      BY <1>0, <2>2, <2>5, DrainedReleased DEF ReleaseLock
    <3> QED BY <2>2, <2>5, <3>1, LoopKept
  <2> QED BY <2>1, <2>4, <2>5 DEF ClearStart
<1>2. ASSUME NEW c \in Contenders, Release(c) PROVE LoopInv'
  <2>1. pc[c] \in {"ending", "leaving", "holding"} /\ loop \in {None, c} /\ owner = c
    BY <1>0, <1>2, NobodyElseWorks DEF Release, HolderPCs, TurnPCs
  <2>2. LastDrain' /\ ~abort'
    BY <1>0, <1>2, <2>1, DrainedReleased DEF Release, ReleaseLock
  <2> QED BY <1>2, <2>1, <2>2, LoopKept DEF Release
<1>3. ASSUME NEW c \in Contenders, Authorise(c) PROVE LoopInv'
  <2>1. /\ pc[c] = "idle" /\ loop \in {None, c} /\ UNCHANGED <<lockVars, queueVars>>
        /\ Goto(c, "entry")
    BY <1>0, <1>3 DEF Authorise
  <2>2. owner # c
    BY <2>1 DEF IInv, LockExclusion, HolderPCs, TurnPCs
  <2>3. LastDrain'
    BY <1>0, <2>1, <2>2, DrainedKept
  <2> QED BY <1>0, <2>1, <2>3, LoopKept
<1>4. ASSUME NEW c \in Contenders, Detach(c) PROVE LoopInv'
  <2>1. /\ pc[c] = "queued" /\ loop \in {None, c} /\ UNCHANGED <<lockVars, queueVars>>
        /\ Goto(c, "detached")
    BY <1>0, <1>4 DEF Detach
  <2>2. owner # c
    BY <2>1 DEF IInv, LockExclusion, HolderPCs, TurnPCs
  <2>3. LastDrain'
    BY <1>0, <2>1, <2>2, DrainedKept
  <2> QED BY <1>0, <2>1, <2>3, LoopKept
<1>5. ASSUME NEW c \in Contenders, CloseTurn(c) PROVE LoopInv'
  <2>1. /\ loop \in {None, c} /\ UNCHANGED <<lockVars, queueVars>>
        /\ Goto(c, "failing")
    BY <1>0, <1>5 DEF CloseTurn
  <2>2. LastDrain'
    BY <1>0, <2>1, DrainedKept
  <2> QED BY <1>0, <2>1, <2>2, LoopKept
<1>6. ASSUME NEW p \in Turns, WithdrawPrompt(p) PROVE LoopInv'
  <2>1. queue # <<>> /\ UNCHANGED <<pc, loop, releasing, lockVars>>
    BY <1>6 DEF WithdrawPrompt, Queue!Withdraw, callVars
  <2> QED BY <2>1 DEF LoopInv, LastDrain
<1>7. CASE UNCHANGED vars
  BY <1>7 DEF vars, callVars, LoopInv, LastDrain
<1> QED BY <1>0, <1>1, <1>2, <1>3, <1>4, <1>5, <1>6, <1>7 DEF UserStep

LEMMA LoopStep ==
    ASSUME IInv, ChatsOnly, LoopInv, OneEventLoop, [Next]_vars
    PROVE  LoopInv'
<1>1. ASSUME NEW c \in Contenders, Arriving(c) \/ RunningTurn(c) PROVE LoopInv'
  BY <1>1, LoopArriving, LoopRunningTurn
<1>2. ASSUME \/ \E c \in Contenders : ModelFree(c) \/ Release(c)
             \/ UserStep \/ UNCHANGED vars
      PROVE  LoopInv'
  BY <1>2, LoopOthers
<1> QED BY <1>1, <1>2 DEF Next, CallStep, Quiescent, OneEventLoop

LEMMA LoopAlways == ASSUME OneEventLoop PROVE Spec => [](IInv /\ BatchInv /\ LoopInv)
<1>1. Init => LoopInv
  BY DEF Init, Queue!QueueInit, Lock!LockInit, LoopInv, LastDrain, AtomicPCs, Elsewhere
<1>2. IInv /\ BatchInv /\ LoopInv /\ [Next]_vars => LoopInv'
  BY LoopStep DEF BatchInv
<1> QED BY <1>1, <1>2, BatchAlways, PTL DEF Spec

(* Where one event loop runs every call (no trigger, chat(), hold, deletion *)
(* or stop), an idle thread has nothing queued: who found it taken queued   *)
(* before the holder's last drain, or waits for the lock.                   *)
THEOREM IdleMeansEmpty == ASSUME OneEventLoop PROVE Spec => []NoneLeftBehind
<1>1. LoopInv => NoneLeftBehind
  BY DEF LoopInv, LastDrain, NoneLeftBehind
<1> QED BY <1>1, LoopAlways, PTL

(* QueuedBehindHolder, of one step.                                         *)
QueuesBehindHolder ==
    \A p \in Prompts :
        outcome[p] = "unsent" /\ outcome'[p] = "pending"
            => owner # None /\ pc[owner] # "ending"

LEMMA QueuesNothing ==
    ASSUME \A p \in Prompts : outcome'[p] = "pending" => outcome[p] = "pending"
    PROVE  QueuesBehindHolder
BY DEF QueuesBehindHolder

(* A prompt that is queued there is queued behind a holder that has still   *)
(* to drain.                                                                *)
THEOREM QueuedInTime == ASSUME OneEventLoop PROVE Spec => QueuedBehindHolder
<1>1. ASSUME IInv, LoopInv, [Next]_vars PROVE QueuesBehindHolder
  <2> USE <1>1 DEF queueVars, At
  <2>n. ASSUME UNCHANGED outcome PROVE QueuesBehindHolder
    BY <2>n, QueuesNothing
  <2>c. ASSUME Queue!Clear \/ Queue!ClearWithRestore PROVE QueuesBehindHolder
    BY <2>c, QueuesNothing DEF Queue!Clear, Queue!ClearWithRestore, Queue!Woken
  <2>w. ASSUME NEW ps, NEW result \in Queue!WokenWith, outcome' = Queue!Woken(ps, result)
        PROVE  QueuesBehindHolder
    BY <2>w, QueuesNothing DEF Queue!Woken, Queue!WokenWith
  <2>p. ASSUME NEW n \in Prompts, Queue!Push(n), owner # None PROVE QueuesBehindHolder
    BY <2>p DEF Queue!Push, Queue!Accepting, LoopInv, LastDrain, ClosedPCs, QueuesBehindHolder
  <2>1. ASSUME NEW c \in Contenders, Arriving(c) PROVE QueuesBehindHolder
    <3>1. CASE EnqueuePrompt(c)
      <4>1. owner # None /\ c \in Prompts
        BY <3>1 DEF EnqueuePrompt, LoopInv, IInv, TurnsOnly, TurnsOnlyPCs
      <4> QED BY <2>n, <2>p, <3>1, <4>1 DEF EnqueuePrompt, Queue!Enqueue
    <3>2. CASE PostPrompt(c)
      BY <3>2 DEF PostPrompt, LoopInv, Elsewhere
    <3> QED BY <2>1, <2>n, <3>1, <3>2 DEF Arriving, Enter, Probe, ProbeDrop, TryLock,
               CheckReleasing, WaitAcquire, WaitTimeout, Observe, QueueTimeout
  <2>2. ASSUME NEW r \in Contenders, RunningTurn(r) PROVE QueuesBehindHolder
    <3>1. CASE RouteAfterTools(r) \/ Continue(r)
      <4>1. owner = r /\ owner # None
        BY <3>1, NobodyElseWorks, TurnAssumption
           DEF RouteAfterTools, Continue, HolderPCs, TurnPCs, TurnAssumption
      <4> QED BY <2>n, <2>p, <3>1, <4>1 DEF RouteAfterTools, Continue, Queue!Enqueue
    <3>2. CASE Drain(r)
      BY <2>n, <2>w, <3>2 DEF Drain, TakeBatch, Queue!WokenWith
    <3>3. CASE Redriven(r) \/ RedriveFails(r) \/ Resteered(r) \/ ResteerFails(r)
      BY <2>w, <3>3 DEF Redriven, RedriveFails, Resteered, ResteerFails, Queue!WokenWith
    <3>4. CASE SealClear(r) \/ FailClear(r)
      BY <2>c, <3>4 DEF SealClear, FailClear
    <3> QED BY <2>2, <2>n, <3>1, <3>2, <3>3, <3>4
            DEF RunningTurn, StartTurn, ReleaseLock, DriveEnds, TurnFails, LoopTest,
                CloseQueue, Queue!BeginRelease, SteerDrain, MidDone, Seal
  <2>3. ASSUME NEW c \in Contenders, ModelFree(c) PROVE QueuesBehindHolder
    BY <2>3, <2>n, <2>c
       DEF ModelFree, HoldClose, HoldRestore, HoldStart, ClearStart, ReleaseLock,
           DeleteAdmit, DeleteAbortQueue, DeleteBegin, DeleteClose, DeleteClear,
           DeleteEnd, Queue!BeginRelease
  <2>4. ASSUME NEW c \in Contenders, Release(c) PROVE QueuesBehindHolder
    BY <2>4, <2>n DEF Release, ReleaseLock
  <2>5. ASSUME NEW s \in Stops, StopRestore(s) PROVE QueuesBehindHolder
    BY <2>5, <2>c DEF StopRestore
  <2>6. CASE UserStep
    <3>1. ASSUME NEW p \in Turns, WithdrawPrompt(p) PROVE QueuesBehindHolder
      BY <2>w, <3>1 DEF WithdrawPrompt, Queue!Withdraw, Queue!WokenWith
    <3> QED BY <2>6, <2>n, <3>1 DEF UserStep, Authorise, Detach, CloseTurn, StopSignal
  <2>7. CASE UNCHANGED vars
    BY <2>7, <2>n DEF vars
  <2> QED BY <2>1, <2>2, <2>3, <2>4, <2>5, <2>6, <2>7 DEF Next, CallStep, Quiescent
<1>2. ASSUME QueuesBehindHolder
      PROVE  \A p \in Prompts : outcome[p] = "unsent" /\ outcome'[p] = "pending"
                                    => owner # None /\ pc[owner] # "ending"
  BY <1>2 DEF QueuesBehindHolder
<1> QED BY <1>1, <1>2, LoopAlways, PTL DEF Spec, QueuedBehindHolder
=============================================================================
