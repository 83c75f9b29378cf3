------------------------ MODULE PromptPromiseProofs -------------------------
(***************************************************************************)
(* TurnAdmission keeps the promise of PromptPromise, for every number of   *)
(* calls: whatever order stops, withdrawals, evictions, failures and       *)
(* drains come in, each message is refused, run or queued, and a queued    *)
(* one is answered at most once.                                           *)
(***************************************************************************)
EXTENDS TurnAdmissionProofs

(* Places from which a call does not go on to run.                          *)
Settled == {"queued", "answered", "refused", "detached"}

(* What is in the queue or in the holder's batch is pending, and is there   *)
(* once.                                                                    *)
Held ==
    /\ \A p \in Range(queue) \cup batch : outcome[p] = "pending"
    /\ Range(queue) \cap batch = {}
    /\ IsInjective(queue)

(* A call that has not queued its message has it still.                     *)
Unqueued == \A r \in Turns : pc[r] \notin Settled => outcome[r] = "unsent"

Custody == Held /\ Unqueued

USE DEF Turns, Contenders, Actors, Prompts

(* What a step may tell about a message, and how it may move a call.        *)
Told ==
    \A p \in Prompts :
        \/ outcome'[p] = outcome[p]
        \/ outcome[p] = "unsent"  /\ outcome'[p] = "pending"
        \/ outcome[p] = "pending" /\ outcome'[p] \in Queue!WokenWith

NoneQueued == \A r \in Turns : outcome'[r] = "pending" => outcome[r] = "pending"

MayMove(before, after) ==
    /\ before \notin {"refused", "answered", "detached", "finished"}
    /\ before \in RunPCs => after \in RunPCs
    /\ before = "queued" => after \in Settled

Moves == \A a \in Actors : pc'[a] = pc[a] \/ MayMove(pc[a], pc'[a])

Queues ==
    \A r \in Turns :
        outcome[r] = "unsent" /\ outcome'[r] = "pending"
            => pc[r] \in {"enqueue", "post"} /\ pc'[r] \in {"queued", "detached"}

-----------------------------------------------------------------------------
(* Sequences without repetition.                                            *)

LEMMA AppendOnce ==
    ASSUME NEW S, NEW s \in Seq(S), NEW e \in S, IsInjective(s), e \notin Range(s)
    PROVE  IsInjective(Append(s, e)) /\ Range(Append(s, e)) = Range(s) \cup {e}
<1> DEFINE t == Append(s, e)
<1>1. /\ DOMAIN s = 1 .. Len(s) /\ Len(s) \in Nat
      /\ DOMAIN t = 1 .. (Len(s) + 1)
      /\ t[Len(s) + 1] = e
      /\ \A i \in 1 .. Len(s) : t[i] = s[i]
  OBVIOUS
<1> HIDE DEF t
<1>2. \A i \in 1 .. (Len(s) + 1) : i = Len(s) + 1 \/ i \in 1 .. Len(s)
  BY <1>1
<1>3. IsInjective(t)
  BY <1>1, <1>2 DEF IsInjective, Range
<1>4. Range(t) \subseteq Range(s) \cup {e}
  BY <1>1, <1>2 DEF Range
<1>5. Range(s) \cup {e} \subseteq Range(t)
  <2>1. Len(s) + 1 \in DOMAIN t /\ \A i \in 1 .. Len(s) : i \in DOMAIN t
    BY <1>1
  <2> QED BY <1>1, <2>1 DEF Range
<1> QED BY <1>3, <1>4, <1>5 DEF t

LEMMA TailOnce ==
    ASSUME NEW S, NEW s \in Seq(S), s # <<>>, IsInjective(s)
    PROVE  /\ IsInjective(Tail(s))
           /\ Range(Tail(s)) \subseteq Range(s) \ {Head(s)}
           /\ Head(s) \in Range(s)
<1> DEFINE t == Tail(s)
<1>1. /\ DOMAIN s = 1 .. Len(s) /\ Len(s) \in Nat \ {0}
      /\ DOMAIN t = 1 .. (Len(s) - 1)
      /\ \A i \in 1 .. (Len(s) - 1) : t[i] = s[i + 1]
      /\ Head(s) = s[1]
  OBVIOUS
<1> HIDE DEF t
<1>2. \A i \in DOMAIN t : /\ i + 1 \in DOMAIN s /\ i + 1 # 1 /\ i \in Int
                          /\ t[i] = s[i + 1]
  BY <1>1
<1>3. IsInjective(t)
  <2> SUFFICES ASSUME NEW i \in DOMAIN t, NEW j \in DOMAIN t, t[i] = t[j]
               PROVE  i = j
    BY DEF IsInjective
  <2>1. s[i + 1] = s[j + 1] /\ i + 1 \in DOMAIN s /\ j + 1 \in DOMAIN s
    BY <1>2
  <2>2. i + 1 = j + 1
    BY <2>1 DEF IsInjective
  <2> QED BY <1>2, <2>2
<1>4. 1 \in DOMAIN s
  BY <1>1
<1>5. Range(t) \subseteq Range(s) \ {Head(s)} /\ Head(s) \in Range(s)
  BY <1>1, <1>2, <1>4 DEF Range, IsInjective
<1> QED BY <1>3, <1>5 DEF t

LEMMA ConcatAt ==
    ASSUME NEW S, NEW s \in Seq(S), NEW t \in Seq(S)
    PROVE  /\ DOMAIN (s \o t) = 1 .. (Len(s) + Len(t))
           /\ \A j \in 1 .. Len(s) : (s \o t)[j] = s[j]
           /\ \A j \in 1 .. Len(t) : (s \o t)[Len(s) + j] = t[j]
OBVIOUS

Without(s, i) == SubSeq(s, 1, i - 1) \o SubSeq(s, i + 1, Len(s))

LEMMA RemoveOnce ==
    ASSUME NEW S, NEW s \in Seq(S), NEW i \in DOMAIN s, IsInjective(s)
    PROVE  /\ IsInjective(Without(s, i))
           /\ Range(Without(s, i)) \subseteq Range(s) \ {s[i]}
<1> DEFINE t == Without(s, i)
           before == SubSeq(s, 1, i - 1)
           after  == SubSeq(s, i + 1, Len(s))
           From(j) == IF j < i THEN j ELSE j + 1
<1>1. DOMAIN s = 1 .. Len(s) /\ Len(s) \in Nat /\ i \in 1 .. Len(s)
  OBVIOUS
<1>2. /\ before \in Seq(S) /\ Len(before) = i - 1
      /\ \A j \in 1 .. (i - 1) : before[j] = s[j]
  BY <1>1
<1>3. /\ after \in Seq(S) /\ Len(after) = Len(s) - i
      /\ \A j \in 1 .. (Len(s) - i) : after[j] = s[i + j]
  BY <1>1
<1>4. t = before \o after
  BY DEF Without
<1> HIDE DEF before, after, t
<1>5. /\ DOMAIN t = 1 .. (Len(before) + Len(after))
      /\ \A j \in 1 .. Len(before) : t[j] = before[j]
      /\ \A j \in 1 .. Len(after) : t[Len(before) + j] = after[j]
  <2>1. before \in Seq(S) /\ after \in Seq(S)
    BY <1>2, <1>3
  <2>2. /\ DOMAIN (before \o after) = 1 .. (Len(before) + Len(after))
        /\ \A j \in 1 .. Len(before) : (before \o after)[j] = before[j]
        /\ \A j \in 1 .. Len(after) : (before \o after)[Len(before) + j] = after[j]
    BY <2>1, ConcatAt
  <2> QED BY <1>4, <2>2
<1>6. ASSUME NEW j \in DOMAIN t
      PROVE  j \in Int /\ From(j) \in DOMAIN s \ {i} /\ t[j] = s[From(j)]
  <2>1. j \in 1 .. (Len(s) - 1)
    BY <1>1, <1>2, <1>3, <1>5
  <2>2. CASE j < i
    <3>1. j \in 1 .. (i - 1) /\ j \in 1 .. Len(before) /\ j \in DOMAIN s /\ j # i
      BY <1>1, <1>2, <2>1, <2>2
    <3>2. t[j] = s[j]
      BY <1>2, <1>5, <3>1
    <3> QED BY <2>1, <2>2, <3>1, <3>2
  <2>3. CASE ~(j < i)
    <3> DEFINE k == j - (i - 1)
    <3>0. /\ i \in Int /\ j \in Int /\ Len(s) \in Int
          /\ Len(before) = i - 1 /\ Len(after) = Len(s) - i
          /\ i <= j /\ j <= Len(s) - 1
      BY <1>1, <1>2, <1>3, <2>1, <2>3
    <3>1. k \in 1 .. Len(after) /\ j = Len(before) + k /\ i + k = j + 1
      <4>1. k \in Int /\ 1 <= k /\ k <= Len(s) - i
        BY <3>0
      <4>2. j = (i - 1) + k
        BY <3>0
      <4>3. i + k = j + 1
        BY <3>0
      <4> HIDE DEF k
      <4> QED BY <3>0, <4>1, <4>2, <4>3
    <3>2. t[j] = after[k]
      <4> HIDE DEF k
      <4> QED BY <1>5, <3>1
    <3>3. after[k] = s[i + k]
      BY <1>3, <3>1
    <3>4. t[j] = s[j + 1]
      BY <3>1, <3>2, <3>3
    <3>5. j + 1 \in DOMAIN s /\ j + 1 # i /\ From(j) = j + 1
      BY <1>1, <2>3, <3>0
    <3> HIDE DEF From
    <3> QED BY <3>0, <3>4, <3>5
  <2> QED BY <2>2, <2>3
<1>7. IsInjective(t)
  <2> SUFFICES ASSUME NEW j \in DOMAIN t, NEW k \in DOMAIN t, t[j] = t[k]
               PROVE  j = k
    BY DEF IsInjective
  <2>1. s[From(j)] = s[From(k)] /\ From(j) \in DOMAIN s /\ From(k) \in DOMAIN s
    BY <1>6
  <2>2. From(j) = From(k)
    <3> DEFINE m == From(j)
               n == From(k)
    <3> HIDE DEF m, n
    <3>1. \A a, b \in DOMAIN s : s[a] = s[b] => a = b
      BY DEF IsInjective
    <3>2. s[m] = s[n] /\ m \in DOMAIN s /\ n \in DOMAIN s
      BY <2>1 DEF m, n
    <3>3. m = n
      BY <3>1, <3>2
    <3> QED BY <3>3 DEF m, n
  <2>3. i \in Int /\ j \in Int /\ k \in Int
    BY <1>1, <1>6
  <2> QED BY <2>2, <2>3
<1>8. Range(t) \subseteq Range(s) \ {s[i]}
  <2> SUFFICES ASSUME NEW j \in DOMAIN t
               PROVE  t[j] \in Range(s) /\ t[j] # s[i]
    BY DEF Range
  <2> HIDE DEF From
  <2>1. From(j) \in DOMAIN s /\ From(j) # i /\ t[j] = s[From(j)]
    BY <1>6
  <2> QED BY <2>1 DEF IsInjective, Range
<1> QED BY <1>7, <1>8 DEF t

-----------------------------------------------------------------------------
(* What each kind of queue operation does to the custody of prompts.        *)

(* Some of the prompts in custody are told their outcome, and are let go.   *)
LEMMA Answering ==
    ASSUME Held, NEW W \in SUBSET Prompts,
           W \subseteq Range(queue) \cup batch,
           \A p \in W : outcome'[p] \in Queue!WokenWith,
           \A p \in Prompts \ W : outcome'[p] = outcome[p],
           Range(queue') \cup batch' \subseteq (Range(queue) \cup batch) \ W,
           Range(queue) \cup batch \subseteq Prompts,
           Range(queue') \cap batch' = {}, IsInjective(queue')
    PROVE  Held' /\ Told /\ NoneQueued
<1>1. "pending" \notin Queue!WokenWith
  BY DEF Queue!WokenWith
<1>2. \A p \in Range(queue') \cup batch' : outcome'[p] = "pending"
  BY DEF Held
<1>3. Told
  BY DEF Held, Told
<1>4. NoneQueued
  BY <1>1 DEF NoneQueued
<1> QED BY <1>2, <1>3, <1>4 DEF Held

LEMMA NothingTold ==
    ASSUME Held, UNCHANGED <<queue, outcome>>, batch' \in {batch, {}}
    PROVE  Held' /\ Told /\ NoneQueued
BY DEF Held, Told, NoneQueued

LEMMA EmptyQueue == Range(<<>>) = {} /\ IsInjective(<<>>)
BY DEF Range, IsInjective

LEMMA QueueInPrompts ==
    ASSUME Queue!QueueTypeOK
    PROVE  Range(queue) \subseteq Prompts /\ outcome \in [Prompts -> Queue!Outcomes]
BY DEF Queue!QueueTypeOK, Range

(* notify_batch_absorbed and notify_batch_error, on the whole batch.        *)
LEMMA BatchTold ==
    ASSUME Held, TypeOK, NEW result \in Queue!WokenWith,
           outcome' = Queue!Woken(batch, result), batch' = {}, queue' = queue
    PROVE  Held' /\ Told /\ NoneQueued
<1>1. Range(queue) \cup batch \subseteq Prompts
  BY QueueInPrompts DEF TypeOK
<1>2. \A p \in batch : outcome'[p] = result
  BY <1>1 DEF Queue!Woken
<1>3. \A p \in Prompts \ batch : outcome'[p] = outcome[p]
  BY DEF Queue!Woken
<1>4. Range(queue') \cup batch' \subseteq (Range(queue) \cup batch) \ batch
  BY DEF Held
<1>5. Range(queue') \cap batch' = {} /\ IsInjective(queue')
  BY DEF Held
<1> QED BY <1>1, <1>2, <1>3, <1>4, <1>5, Answering

(* clear, with and without restore: the batch is not touched.               *)
LEMMA QueueCleared ==
    ASSUME Held, TypeOK, Queue!Clear \/ Queue!ClearWithRestore, batch' = batch
    PROVE  Held' /\ Told /\ NoneQueued
<1>1. Range(queue) \cup batch \subseteq Prompts
  BY QueueInPrompts DEF TypeOK
<1>2. queue' = <<>>
  BY DEF Queue!Clear, Queue!ClearWithRestore
<1>3. /\ \A p \in Range(queue) : outcome'[p] \in Queue!WokenWith
      /\ \A p \in Prompts \ Range(queue) : outcome'[p] = outcome[p]
  <2>1. CASE Queue!Clear
    BY <1>1, <2>1 DEF Queue!Clear, Queue!Woken, Queue!WokenWith, Queue!Range, Range
  <2>2. CASE Queue!ClearWithRestore
    <3>1. outcome' = [p \in Prompts |->
                        IF p \notin Range(queue) THEN outcome[p]
                        ELSE IF p \in Human THEN "restored" ELSE "aborted"]
      BY <2>2 DEF Queue!ClearWithRestore, Queue!Range, Range
    <3> QED BY <1>1, <3>1 DEF Queue!WokenWith
  <2> QED BY <2>1, <2>2
<1>5. /\ Range(queue') \cup batch' \subseteq (Range(queue) \cup batch) \ Range(queue)
      /\ Range(queue') \cap batch' = {} /\ IsInjective(queue')
  BY <1>2, EmptyQueue DEF Held
<1> QED BY <1>1, <1>3, <1>5, Answering

(* A drain: what is not acceptable is told so, the rest is the batch.       *)
LEMMA Drained ==
    ASSUME Held, TypeOK, queue' = <<>>, batch' \subseteq Range(queue),
           outcome' = Queue!Woken(Range(queue) \ batch', "cross_user")
    PROVE  Held' /\ Told /\ NoneQueued
<1> DEFINE W == Range(queue) \ batch'
<1>1. Range(queue) \cup batch \subseteq Prompts
  BY QueueInPrompts DEF TypeOK
<1>2. \A p \in W : outcome'[p] \in Queue!WokenWith
  BY <1>1 DEF Queue!Woken, Queue!WokenWith
<1>3. \A p \in Prompts \ W : outcome'[p] = outcome[p]
  BY DEF Queue!Woken
<1>4. /\ Range(queue') \cup batch' \subseteq (Range(queue) \cup batch) \ W
      /\ Range(queue') \cap batch' = {} /\ IsInjective(queue')
  BY EmptyQueue
<1> QED BY <1>1, <1>2, <1>3, <1>4, Answering

LEMMA Withdrawn ==
    ASSUME Held, TypeOK, NEW p \in Prompts, Queue!Withdraw(p), batch' = batch
    PROVE  Held' /\ Told /\ NoneQueued
<1>1. Range(queue) \cup batch \subseteq Prompts
  BY QueueInPrompts DEF TypeOK
<1>2. PICK i \in DOMAIN queue :
        /\ queue[i] = p
        /\ queue' = SubSeq(queue, 1, i - 1) \o SubSeq(queue, i + 1, Len(queue))
  BY DEF Queue!Withdraw
<1>3. queue \in Seq(Prompts) /\ IsInjective(queue)
  BY DEF TypeOK, Queue!QueueTypeOK, Held
<1>4. IsInjective(queue') /\ Range(queue') \subseteq Range(queue) \ {p}
  <2>1. queue' = Without(queue, i)
    BY <1>2 DEF Without
  <2> QED BY <1>2, <1>3, <2>1, RemoveOnce
<1>5. p \in Range(queue)
  BY <1>2 DEF Range
<1>6. \A q \in {p} : outcome'[q] \in Queue!WokenWith
  BY DEF Queue!Withdraw, Queue!Woken, Queue!WokenWith
<1>7. \A q \in Prompts \ {p} : outcome'[q] = outcome[q]
  BY DEF Queue!Withdraw, Queue!Woken
<1>8. /\ Range(queue') \cup batch' \subseteq (Range(queue) \cup batch) \ {p}
      /\ Range(queue') \cap batch' = {}
  BY <1>4, <1>5 DEF Held
<1> QED BY <1>1, <1>4, <1>5, <1>6, <1>7, <1>8, Answering

(* enqueue, at the bound and below it.                                      *)
LEMMA Pushed ==
    ASSUME Held, TypeOK, NEW p \in Prompts, outcome[p] = "unsent",
           Queue!Push(p), batch' = batch
    PROVE  /\ Held' /\ Told
           /\ \A q \in Prompts \ {p} : outcome'[q] = "pending" => outcome[q] = "pending"
<1> DEFINE kept == IF Queue!Evicted = {} THEN queue ELSE Tail(queue)
           told == Queue!Woken(Queue!Evicted, "overflow")
<1>1. /\ Range(queue) \cup batch \subseteq Prompts
      /\ queue \in Seq(Prompts) /\ IsInjective(queue)
      /\ p \notin Range(queue) \cup batch
  BY QueueInPrompts DEF TypeOK, Queue!QueueTypeOK, Held
<1>2. /\ kept \in Seq(Prompts) /\ IsInjective(kept)
      /\ Range(kept) \subseteq Range(queue) \ Queue!Evicted
      /\ Queue!Evicted \subseteq Range(queue)
  <2>1. CASE Queue!Evicted = {}
    BY <1>1, <2>1
  <2>2. CASE Queue!Evicted # {}
    <3>1. Queue!Evicted = {Head(queue)} /\ Len(queue) >= QueueMax /\ QueueMax \in Nat \ {0}
      BY <2>2, TurnAssumption DEF Queue!Evicted, TurnAssumption
    <3>2. queue # <<>>
      BY <1>1, <3>1
    <3>3. Tail(queue) \in Seq(Prompts)
      BY <1>1, <3>2
    <3> QED BY <1>1, <2>2, <3>1, <3>2, <3>3, TailOnce
  <2> QED BY <2>1, <2>2
<1>3. queue' = Append(kept, p) /\ outcome' = [told EXCEPT ![p] = "pending"]
  BY DEF Queue!Push
<1>4. /\ told \in [Prompts -> Queue!Outcomes]
      /\ \A q \in Prompts : told[q] = IF q \in Queue!Evicted THEN "overflow" ELSE outcome[q]
  <2>1. "overflow" \in Queue!Outcomes
    BY DEF Queue!Outcomes, Queue!WokenWith
  <2> QED BY <2>1, WokenType DEF TypeOK, Queue!Woken
<1> HIDE DEF kept, told
<1>5. IsInjective(queue') /\ Range(queue') = Range(kept) \cup {p}
  BY <1>1, <1>2, <1>3, AppendOnce
<1>6. /\ outcome'[p] = "pending"
      /\ \A q \in Prompts \ {p} :
            outcome'[q] = IF q \in Queue!Evicted THEN "overflow" ELSE outcome[q]
  BY <1>3, <1>4
<1>7. Range(queue') \cap batch' = {}
  BY <1>1, <1>2, <1>5 DEF Held
<1>8. \A q \in Range(queue') \cup batch' : outcome'[q] = "pending"
  <2> SUFFICES ASSUME NEW q \in Range(queue') \cup batch', q # p
               PROVE  outcome'[q] = "pending"
    BY <1>6
  <2>1. q \in Range(queue) \cup batch /\ q \notin Queue!Evicted
    BY <1>2, <1>5 DEF Held
  <2> QED BY <1>1, <1>6, <2>1 DEF Held
<1>9. Told
  BY <1>2, <1>6 DEF Told, Held, Queue!WokenWith
<1> QED BY <1>5, <1>6, <1>7, <1>8, <1>9 DEF Held

-----------------------------------------------------------------------------
(* One step per action: what it tells, and how it moves its call.           *)

Faithful == Held' /\ Told /\ Moves /\ Queues

LEMMA Moved ==
    ASSUME IInv, NEW a \in Actors, NEW place, Goto(a, place), MayMove(pc[a], place)
    PROVE  Moves
<1>1. pc \in [Actors -> PCs]
  BY DEF IInv, TypeOK
<1> QED BY <1>1 DEF Goto, Moves

LEMMA QueuesNone ==
    ASSUME NoneQueued
    PROVE  Queues
<1>1. "unsent" # "pending"
  OBVIOUS
<1> QED BY <1>1 DEF NoneQueued, Queues

(* enqueue_prompt by a call that found the thread busy.                     *)
LEMMA CallQueues ==
    ASSUME IInv, Custody, NEW r \in Turns, pc[r] \in {"enqueue", "post"},
           NEW place \in {"queued", "detached"}, Goto(r, place),
           Queue!Enqueue(r), batch' = batch
    PROVE  Faithful
<1>1. outcome[r] = "unsent"
  BY DEF Custody, Unqueued, Settled
<1>2. Held' /\ Told /\ \A q \in Prompts \ {r} : outcome'[q] = "pending" => outcome[q] = "pending"
  BY <1>1, Pushed DEF Queue!Enqueue, Custody, IInv
<1>3. Moves
  BY Moved DEF MayMove, RunPCs, TurnPCs
<1>4. pc'[r] = place
  BY DEF Goto, IInv, TypeOK
<1>5. Queues
  BY <1>2, <1>4 DEF Queues
<1> QED BY <1>2, <1>3, <1>5 DEF Faithful

(* A note: no call of its own is moved by it into the queue.                *)
LEMMA NoteQueues ==
    ASSUME IInv, Custody, NEW n \in Notes, outcome[n] = "unsent",
           Queue!Push(n), batch' = batch
    PROVE  Held' /\ Told /\ Queues
<1>1. Held' /\ Told /\ \A q \in Prompts \ {n} : outcome'[q] = "pending" => outcome[q] = "pending"
  BY Pushed DEF Custody, IInv
<1>2. n \notin Turns
  BY TurnAssumption DEF TurnAssumption
<1> QED BY <1>1, <1>2 DEF Queues

LEMMA ArrivingFaithful ==
    ASSUME IInv, Custody, NEW c \in Contenders, Arriving(c)
    PROVE  Faithful
<1> USE DEF KeepGoing, Suspend, At, MayMove, RunPCs, TurnPCs, Settled, queueVars
<1>n. ASSUME UNCHANGED <<queue, outcome, batch>> PROVE Held' /\ Told /\ Queues
  BY <1>n, NothingTold, QueuesNone DEF Custody
<1>t. pc[c] \in {"enqueue", "post"} => c \in Turns
  BY DEF IInv, TurnsOnly, TurnsOnlyPCs
<1>1. CASE Enter(c)
  BY <1>1, <1>n, Moved DEF Enter, Faithful
<1>2. CASE Probe(c)
  BY <1>2, <1>n, Moved DEF Probe, Faithful
<1>3. CASE ProbeDrop(c)
  BY <1>3, <1>n, Moved DEF ProbeDrop, Faithful
<1>4. CASE PostPrompt(c)
  <2>1. CASE Queue!Enqueue(c) /\ Goto(c, "detached")
    BY <1>4, <1>t, <2>1, CallQueues DEF PostPrompt
  <2>2. CASE Goto(c, "refused") /\ UNCHANGED queueVars
    BY <1>4, <1>n, <2>2, Moved DEF PostPrompt, Faithful
  <2> QED BY <1>4, <2>1, <2>2 DEF PostPrompt
<1>5. CASE TryLock(c)
  BY <1>5, <1>n, Moved DEF TryLock, Faithful
<1>6. CASE CheckReleasing(c)
  BY <1>6, <1>n, Moved DEF CheckReleasing, Faithful
<1>7. CASE EnqueuePrompt(c)
  <2>1. CASE Queue!Enqueue(c) /\ Goto(c, "queued")
    BY <1>7, <1>t, <2>1, CallQueues DEF EnqueuePrompt
  <2>2. CASE Goto(c, "wait") /\ UNCHANGED queueVars
    BY <1>7, <1>n, <2>2, Moved DEF EnqueuePrompt, Faithful
  <2> QED BY <1>7, <2>1, <2>2 DEF EnqueuePrompt
<1>8. CASE WaitAcquire(c)
  BY <1>8, <1>n, Moved DEF WaitAcquire, Faithful
<1>9. CASE WaitTimeout(c)
  BY <1>9, <1>n, Moved DEF WaitTimeout, Faithful
<1>10. CASE Observe(c)
  BY <1>10, <1>n, Moved DEF Observe, Faithful
<1>11. CASE QueueTimeout(c)
  BY <1>11, <1>n, Moved DEF QueueTimeout, Faithful
<1> QED BY <1>1, <1>2, <1>3, <1>4, <1>5, <1>6, <1>7, <1>8, <1>9, <1>10, <1>11 DEF Arriving

LEMMA RunningTurnFaithful ==
    ASSUME IInv, Custody, NEW r \in Contenders, RunningTurn(r)
    PROVE  Faithful
<1> USE DEF KeepGoing, Suspend, At, MayMove, RunPCs, TurnPCs, Settled, queueVars
<1>0. Held /\ TypeOK
  BY DEF Custody, IInv
<1>n. ASSUME UNCHANGED <<queue, outcome, batch>> PROVE Held' /\ Told /\ Queues
  BY <1>n, NothingTold, QueuesNone DEF Custody
<1>c. ASSUME Queue!Clear, batch' = batch PROVE Held' /\ Told /\ Queues
  BY <1>0, <1>c, QueueCleared, QueuesNone
<1>b. ASSUME NEW result \in {"absorbed", "inject_failed"},
             outcome' = Queue!Woken(batch, result), batch' = {}, queue' = queue
      PROVE  Held' /\ Told /\ Queues
  <2>1. result \in Queue!WokenWith
    BY DEF Queue!WokenWith
  <2> QED BY <1>0, <1>b, <2>1, BatchTold, QueuesNone
<1>1. CASE StartTurn(r)
  BY <1>1, <1>n, Moved DEF StartTurn, ReleaseLock, Faithful
<1>2. CASE RouteAfterTools(r)
  <2>1. Moves
    BY <1>2 DEF RouteAfterTools, Moves
  <2>2. CASE \E n \in Notes : outcome[n] = "unsent" /\ Queue!Push(n)
    BY <1>2, <2>1, <2>2, NoteQueues DEF RouteAfterTools, Faithful
  <2>3. CASE UNCHANGED <<queue, outcome, author>>
    BY <1>2, <1>n, <2>1, <2>3 DEF RouteAfterTools, Faithful
  <2> QED BY <1>2, <2>2, <2>3 DEF RouteAfterTools
<1>3. CASE DriveEnds(r)
  BY <1>3, <1>n, Moved DEF DriveEnds, Faithful
<1>4. CASE TurnFails(r)
  BY <1>4, <1>n, Moved DEF TurnFails, Faithful
<1>5. CASE LoopTest(r)
  BY <1>5, <1>n, Moved DEF LoopTest, Faithful
<1>6. CASE Drain(r)
  <2>1. PICK place \in {"redrive", "loop", "empty", "ending"} : Goto(r, place)
    BY <1>6 DEF Drain, TakeBatch
  <2>2. Moves
    BY <1>6, <2>1, Moved DEF Drain
  <2>3. CASE TakeBatch(r, "redrive", "loop")
    <3>1. batch' \subseteq Range(queue) /\ queue' = <<>>
          /\ outcome' = Queue!Woken(Range(queue) \ batch', "cross_user")
      BY <2>3 DEF TakeBatch, Acceptable
    <3> QED BY <1>0, <2>2, <3>1, Drained, QueuesNone DEF Faithful
  <2>4. CASE UNCHANGED <<queueVars, batch>>
    BY <1>n, <2>2, <2>4 DEF Faithful
  <2> QED BY <1>6, <2>3, <2>4 DEF Drain
<1>7. CASE Continue(r)
  <2>1. Moves
    BY <1>7, Moved DEF Continue
  <2> QED BY <1>7, <2>1, NoteQueues DEF Continue, Queue!Enqueue, Faithful
<1>8. CASE CloseQueue(r)
  BY <1>8, <1>n, Moved DEF CloseQueue, Queue!BeginRelease, Faithful
<1>9. CASE Redriven(r)
  BY <1>9, <1>b, Moved DEF Redriven, Faithful
<1>10. CASE RedriveFails(r)
  BY <1>10, <1>b, Moved DEF RedriveFails, Faithful
<1>11. CASE SteerDrain(r)
  <2>1. Moves
    BY <1>11, Moved DEF SteerDrain
  <2>2. /\ queue' = <<>> /\ batch' = Range(queue)
        /\ outcome' = outcome
    BY <1>11 DEF SteerDrain
  <2>3. outcome' = Queue!Woken(Range(queue) \ batch', "cross_user")
    BY <1>0, <2>2, QueueInPrompts DEF Queue!Woken, TypeOK
  <2> QED BY <1>0, <2>1, <2>2, <2>3, Drained, QueuesNone DEF Faithful
<1>12. CASE Resteered(r)
  BY <1>12, <1>b, Moved DEF Resteered, Faithful
<1>13. CASE ResteerFails(r)
  BY <1>13, <1>b, Moved DEF ResteerFails, Faithful
<1>14. CASE MidDone(r)
  BY <1>14, <1>n, Moved DEF MidDone, Faithful
<1>15. CASE Seal(r)
  BY <1>15, <1>n, Moved DEF Seal, Queue!BeginRelease, Faithful
<1>16. CASE SealClear(r)
  BY <1>16, <1>c, Moved DEF SealClear, Faithful
<1>17. CASE FailClear(r)
  BY <1>17, <1>c, Moved DEF FailClear, Faithful
<1> QED BY <1>1, <1>2, <1>3, <1>4, <1>5, <1>6, <1>7, <1>8, <1>9, <1>10, <1>11, <1>12, <1>13, <1>14, <1>15, <1>16, <1>17 DEF RunningTurn

LEMMA ModelFreeFaithful ==
    ASSUME IInv, Custody, NEW c \in Contenders, ModelFree(c)
    PROVE  Faithful
<1> USE DEF KeepGoing, Suspend, At, MayMove, RunPCs, TurnPCs, Settled, queueVars
<1>n. ASSUME UNCHANGED <<queue, outcome, batch>> PROVE Held' /\ Told /\ Queues
  BY <1>n, NothingTold, QueuesNone DEF Custody
<1>c. ASSUME Queue!Clear \/ Queue!ClearWithRestore, batch' = batch
      PROVE  Held' /\ Told /\ Queues
  BY <1>c, QueueCleared, QueuesNone DEF Custody, IInv
<1>1. CASE HoldClose(c)
  BY <1>1, <1>n, Moved DEF HoldClose, Queue!BeginRelease, Faithful
<1>2. CASE HoldRestore(c)
  BY <1>2, <1>c, Moved DEF HoldRestore, Faithful
<1>3. CASE HoldStart(c)
  BY <1>3, <1>n, Moved DEF HoldStart, Faithful
<1>4. CASE ClearStart(c)
  BY <1>4, <1>n, Moved DEF ClearStart, ReleaseLock, Queue!BeginRelease, Faithful
<1>5. CASE DeleteAdmit(c)
  BY <1>5, <1>n, Moved DEF DeleteAdmit, Faithful
<1>6. CASE DeleteAbortQueue(c)
  BY <1>6, <1>c, Moved DEF DeleteAbortQueue, Faithful
<1>7. CASE DeleteBegin(c)
  BY <1>7, <1>n, Moved DEF DeleteBegin, Faithful
<1>8. CASE DeleteClose(c)
  BY <1>8, <1>n, Moved DEF DeleteClose, Queue!BeginRelease, Faithful
<1>9. CASE DeleteClear(c)
  BY <1>9, <1>c, Moved DEF DeleteClear, Faithful
<1>10. CASE DeleteEnd(c)
  BY <1>10, <1>n, Moved DEF DeleteEnd, Faithful
<1> QED BY <1>1, <1>2, <1>3, <1>4, <1>5, <1>6, <1>7, <1>8, <1>9, <1>10 DEF ModelFree

LEMMA OthersFaithful ==
    ASSUME IInv, Custody,
           (\E c \in Contenders : Release(c)) \/ (\E s \in Stops : StopRestore(s))
             \/ UserStep \/ UNCHANGED vars
    PROVE  Faithful
<1> USE DEF KeepGoing, Suspend, At, MayMove, RunPCs, TurnPCs, Settled, queueVars
<1>n. ASSUME UNCHANGED <<queue, outcome>>, batch' \in {batch, {}}
      PROVE  Held' /\ Told /\ Queues
  BY <1>n, NothingTold, QueuesNone DEF Custody
<1>1. ASSUME NEW c \in Contenders, Release(c) PROVE Faithful
  BY <1>1, <1>n, Moved DEF Release, ReleaseLock, Faithful
<1>2. ASSUME NEW s \in Stops, StopRestore(s) PROVE Faithful
  <2>1. Held' /\ Told /\ Queues
    BY <1>2, QueueCleared, QueuesNone DEF StopRestore, Custody, IInv
  <2> QED BY <1>2, <2>1, Moved DEF StopRestore, Faithful
<1>3. ASSUME NEW s \in Stops, StopSignal(s) PROVE Faithful
  BY <1>3, <1>n, Moved DEF StopSignal, Faithful
<1>4. ASSUME NEW c \in Contenders, Authorise(c) PROVE Faithful
  BY <1>4, <1>n, Moved DEF Authorise, Faithful
<1>5. ASSUME NEW c \in Contenders, Detach(c) PROVE Faithful
  BY <1>5, <1>n, Moved DEF Detach, Faithful
<1>6. ASSUME NEW c \in Contenders, CloseTurn(c) PROVE Faithful
  BY <1>6, <1>n, Moved DEF CloseTurn, Faithful
<1>7. ASSUME NEW p \in Turns, WithdrawPrompt(p) PROVE Faithful
  <2>1. Held' /\ Told /\ Queues
    BY <1>7, Withdrawn, QueuesNone DEF WithdrawPrompt, callVars, Custody, IInv
  <2> QED BY <1>7, <2>1 DEF WithdrawPrompt, callVars, Faithful, Moves
<1>8. ASSUME UNCHANGED vars PROVE Faithful
  BY <1>8, <1>n DEF vars, callVars, Faithful, Moves
<1> QED BY <1>1, <1>2, <1>3, <1>4, <1>5, <1>6, <1>7, <1>8 DEF UserStep

LEMMA StepFaithful ==
    ASSUME IInv, Custody, [Next]_vars
    PROVE  Faithful
<1>1. ASSUME NEW c \in Contenders, Arriving(c) \/ RunningTurn(c) \/ ModelFree(c)
      PROVE  Faithful
  BY <1>1, ArrivingFaithful, RunningTurnFaithful, ModelFreeFaithful
<1>2. ASSUME \/ \E c \in Contenders : Release(c)
             \/ \E s \in Stops : StopRestore(s)
             \/ UserStep
             \/ UNCHANGED vars
      PROVE  Faithful
  BY <1>2, OthersFaithful
<1> QED BY <1>1, <1>2 DEF Next, CallStep, Quiescent

-----------------------------------------------------------------------------
(* Custody is inductive, and a faithful step keeps the promise.             *)

LEMMA CustodyKept ==
    ASSUME Custody, Faithful
    PROVE  Custody'
<1>1. ASSUME NEW r \in Turns, pc'[r] \notin Settled
      PROVE  outcome'[r] = "unsent"
  <2>1. pc[r] \notin Settled
    BY <1>1 DEF Faithful, Moves, MayMove, Settled
  <2>2. outcome[r] = "unsent"
    BY <2>1 DEF Custody, Unqueued
  <2>3. outcome'[r] # "pending"
    BY <1>1, <2>2 DEF Faithful, Queues, Settled
  <2> QED BY <2>2, <2>3 DEF Faithful, Told
<1> QED BY <1>1 DEF Custody, Unqueued, Faithful

LEMMA FateMoves ==
    ASSUME Custody, Faithful, NEW p \in Prompts
    PROVE  Fate'[p] = Fate[p] \/ Promise!May(Fate[p], Fate'[p])
<1>w. "unsent" \notin Queue!WokenWith /\ "pending" \notin Queue!WokenWith
  BY DEF Queue!WokenWith
<1>t. \/ outcome'[p] = outcome[p]
      \/ outcome[p] = "unsent"  /\ outcome'[p] = "pending"
      \/ outcome[p] = "pending" /\ outcome'[p] \in Queue!WokenWith
  BY DEF Faithful, Told
<1>1. CASE p \notin Turns
  <2>1. /\ Fate[p]  = IF outcome[p]  # "unsent" THEN outcome[p]  ELSE "new"
        /\ Fate'[p] = IF outcome'[p] # "unsent" THEN outcome'[p] ELSE "new"
    BY <1>1 DEF Fate
  <2> QED BY <1>w, <1>t, <2>1 DEF Promise!May
<1>2. CASE p \in Turns
  <2>1. /\ Fate[p]  = IF pc[p] \in RunPCs THEN "run"
                      ELSE IF outcome[p] # "unsent" THEN outcome[p]
                      ELSE IF pc[p] = "refused" THEN "refused" ELSE "new"
        /\ Fate'[p] = IF pc'[p] \in RunPCs THEN "run"
                      ELSE IF outcome'[p] # "unsent" THEN outcome'[p]
                      ELSE IF pc'[p] = "refused" THEN "refused" ELSE "new"
    BY <1>2 DEF Fate
  <2>2. pc'[p] = pc[p] \/ MayMove(pc[p], pc'[p])
    BY <1>2 DEF Faithful, Moves
  <2>3. RunPCs \cap Settled = {}
    BY DEF RunPCs, TurnPCs, Settled
  <2>4. pc[p] \notin Settled => outcome[p] = "unsent"
    BY <1>2 DEF Custody, Unqueued
  <2>5. CASE outcome'[p] = outcome[p]
    <3>1. CASE pc'[p] = pc[p]
      BY <2>1, <2>5, <3>1
    <3>2. CASE pc[p] \in RunPCs /\ pc'[p] \in RunPCs
      BY <2>1, <3>2
    <3>3. CASE pc[p] = "queued" /\ pc'[p] \in Settled
      BY <2>1, <2>3, <2>5, <3>3 DEF Settled, Promise!May
    <3>4. CASE pc[p] \notin RunPCs \cup Settled
      BY <2>1, <2>4, <2>5, <3>4 DEF Settled, Promise!May
    <3> QED BY <2>2, <3>1, <3>2, <3>3, <3>4 DEF MayMove, Settled
  <2>6. CASE outcome[p] = "unsent" /\ outcome'[p] = "pending"
    <3>1. pc[p] \in {"enqueue", "post"} /\ pc'[p] \in {"queued", "detached"}
      BY <1>2, <2>6 DEF Faithful, Queues
    <3> QED BY <2>1, <2>6, <3>1 DEF RunPCs, TurnPCs, Promise!May
  <2>7. CASE outcome[p] = "pending" /\ outcome'[p] \in Queue!WokenWith
    <3>1. pc[p] \in Settled
      BY <2>4, <2>7
    <3>2. pc'[p] \in Settled
      BY <2>2, <3>1 DEF MayMove, Settled
    <3> QED BY <1>w, <2>1, <2>3, <2>7, <3>1, <3>2 DEF Promise!May
  <2> QED BY <1>t, <2>5, <2>6, <2>7
<1> QED BY <1>1, <1>2

(* For any number of calls and any bound on the queue, each message is      *)
(* refused, runs as its own turn, or is queued and answered at most once:   *)
(* no order of drains, stops, withdrawals, evictions, deletions and         *)
(* failures gives it two answers, or runs what was queued or refused.       *)
THEOREM KeepsPromise == Spec => PromiseKept
<1>1. ASSUME Init PROVE Custody /\ Promise!Init
  <2>1. Held
    BY <1>1, EmptyQueue DEF Init, Queue!QueueInit, Held
  <2>2. \A p \in Prompts : outcome[p] = "unsent"
    BY <1>1 DEF Init, Queue!QueueInit
  <2>3. \A r \in Turns : pc[r] = "idle"
    BY <1>1 DEF Init
  <2>4. Promise!Init
    BY <2>2, <2>3 DEF Promise!Init, Fate, RunPCs, TurnPCs
  <2> QED BY <2>1, <2>2, <2>4 DEF Custody, Unqueued
<1>2. ASSUME IInv, Custody, [Next]_vars PROVE Custody'
  BY <1>2, StepFaithful, CustodyKept
<1>3. ASSUME IInv, IInv', Custody, [Next]_vars PROVE [Promise!Next]_Fate
  <2>1. \A p \in Prompts : Fate'[p] = Fate[p] \/ Promise!May(Fate[p], Fate'[p])
    BY <1>3, StepFaithful, FateMoves
  <2>2. Fate' \in [Prompts -> Promise!Fates]
    <3>1. outcome' \in [Prompts -> Queue!Outcomes]
      BY <1>3 DEF IInv, TypeOK, Queue!QueueTypeOK
    <3>2. \A p \in Prompts :
             Fate'[p] \in {"run", "refused", "new"} \cup (Queue!Outcomes \ {"unsent"})
      BY <3>1 DEF Fate
    <3>3. Fate' = [p \in Prompts |-> Fate'[p]]
      BY DEF Fate
    <3>4. {"run", "refused", "new"} \cup (Queue!Outcomes \ {"unsent"}) \subseteq Promise!Fates
      BY DEF Promise!Fates, Queue!Outcomes
    <3> QED BY <3>2, <3>3, <3>4
  <2> QED BY <2>1, <2>2 DEF Promise!Next
<1> QED BY <1>1, <1>2, <1>3, Invariance, PTL DEF Spec, PromiseKept, Promise!Spec

(* The message of a call that came to hold the thread was never queued: it  *)
(* is not also in another holder's drain.                                   *)
THEOREM OneUse == Spec => []RunOnce
<1>1. Init => Custody
  BY EmptyQueue DEF Init, Queue!QueueInit, Custody, Held, Unqueued
<1>2. IInv /\ Custody /\ [Next]_vars => Custody'
  BY StepFaithful, CustodyKept
<1>3. Custody => RunOnce
  BY DEF Custody, Unqueued, RunOnce, TurnPCs, Settled
<1> QED BY <1>1, <1>2, <1>3, Invariance, PTL DEF Spec
=============================================================================
