------------------------ MODULE InteractiveGateProofs ------------------------
(***************************************************************************)
(* What InteractiveGate guarantees for any finite set of requests: the     *)
(* counter is exact and waiters are served in order; and, as long as the   *)
(* setting is not changed, the ceiling holds and nobody waits beside room. *)
(***************************************************************************)
EXTENDS InteractiveGate, FiniteSetTheorems, TLAPS

-----------------------------------------------------------------------------
(* The deque: no request is in it twice.                                    *)

Deque(s) ==
    /\ s \in Seq(Requests)
    /\ \A i, j \in DOMAIN s : s[i] = s[j] => i = j

Elements(s) == {s[i] : i \in DOMAIN s}

LEMMA SuffixOfDeque ==
    ASSUME NEW s, Deque(s), NEW i \in DOMAIN s
    PROVE  /\ Deque(SubSeq(s, i + 1, Len(s)))
           /\ Elements(SubSeq(s, i + 1, Len(s))) \subseteq Elements(s) \ {s[i]}
<1> DEFINE t == SubSeq(s, i + 1, Len(s))
<1>1. s \in Seq(Requests) /\ DOMAIN s = 1 .. Len(s) /\ i \in 1 .. Len(s) /\ Len(s) \in Nat
  BY DEF Deque
<1>2. t \in Seq(Requests) /\ Len(t) = Len(s) - i
  BY <1>1
<1>3. \A k \in 1 .. Len(t) : t[k] = s[k + i] /\ k + i \in DOMAIN s
  BY <1>1, <1>2
<1>4. DOMAIN t = 1 .. Len(t)
  BY <1>2
<1> HIDE DEF t
<1>5. \A j, k \in DOMAIN t : t[j] = t[k] => j = k
  BY <1>1, <1>3, <1>4 DEF Deque
<1>6. Elements(t) \subseteq Elements(s) \ {s[i]}
  BY <1>1, <1>3, <1>4 DEF Elements, Deque
<1> QED BY <1>2, <1>5, <1>6 DEF Deque, t

LEMMA ConcatFacts ==
    ASSUME NEW S, NEW a \in Seq(S), NEW b \in Seq(S)
    PROVE  /\ a \o b \in Seq(S)
           /\ Len(a \o b) = Len(a) + Len(b)
           /\ \A k \in 1 .. Len(a) + Len(b) :
                 (a \o b)[k] = IF k <= Len(a) THEN a[k] ELSE b[k - Len(a)]
OBVIOUS

LEMMA DropFromDeque ==
    ASSUME NEW s, Deque(s), NEW i \in DOMAIN s
    PROVE  LET t == SubSeq(s, 1, i - 1) \o SubSeq(s, i + 1, Len(s)) IN
           Deque(t) /\ Elements(t) \subseteq Elements(s) \ {s[i]}
<1> DEFINE a == SubSeq(s, 1, i - 1)
           b == SubSeq(s, i + 1, Len(s))
           t == a \o b
<1>1. s \in Seq(Requests) /\ DOMAIN s = 1 .. Len(s) /\ i \in 1 .. Len(s) /\ Len(s) \in Nat
  BY DEF Deque
<1>2. a \in Seq(Requests) /\ Len(a) = i - 1 /\ \A k \in 1 .. Len(a) : a[k] = s[k]
  BY <1>1
<1>3. b \in Seq(Requests) /\ Len(b) = Len(s) - i /\ \A k \in 1 .. Len(b) : b[k] = s[k + i]
  BY <1>1
<1> HIDE DEF a, b
<1>4. /\ t \in Seq(Requests)
      /\ Len(t) = Len(a) + Len(b)
      /\ \A k \in 1 .. Len(a) + Len(b) : t[k] = IF k <= Len(a) THEN a[k] ELSE b[k - Len(a)]
  BY <1>2, <1>3, ConcatFacts
<1> HIDE DEF t
<1>5. \A k \in 1 .. Len(t) : t[k] = IF k < i THEN s[k] ELSE s[k + 1]
  <2> SUFFICES ASSUME NEW k \in 1 .. Len(t)
               PROVE  t[k] = IF k < i THEN s[k] ELSE s[k + 1]
    OBVIOUS
  <2>1. CASE k < i
    BY <1>1, <1>2, <1>4, <2>1
  <2>2. CASE ~(k < i)
    <3>1. t[k] = b[k - Len(a)]
      BY <1>1, <1>2, <1>3, <1>4, <2>2
    <3>2. k - Len(a) \in 1 .. Len(b) /\ (k - Len(a)) + i = k + 1
      BY <1>1, <1>2, <1>3, <1>4, <2>2
    <3> QED BY <1>3, <2>2, <3>1, <3>2
  <2> QED BY <2>1, <2>2
<1>6. DOMAIN t = 1 .. Len(t) /\ Len(t) = Len(s) - 1
  BY <1>1, <1>2, <1>3, <1>4
<1>7. \A j, k \in DOMAIN t : t[j] = t[k] => j = k
  BY <1>1, <1>5, <1>6 DEF Deque
<1>8. Elements(t) \subseteq Elements(s) \ {s[i]}
  BY <1>1, <1>5, <1>6 DEF Elements, Deque
<1> QED BY <1>4, <1>7, <1>8 DEF Deque, t, a, b

LEMMA AppendToDeque ==
    ASSUME NEW s, Deque(s), NEW r \in Requests, r \notin Elements(s)
    PROVE  Deque(Append(s, r)) /\ Elements(Append(s, r)) = Elements(s) \cup {r}
<1> DEFINE t == Append(s, r)
<1>1. s \in Seq(Requests) /\ DOMAIN s = 1 .. Len(s) /\ Len(s) \in Nat
  BY DEF Deque
<1>2. /\ t \in Seq(Requests) /\ Len(t) = Len(s) + 1 /\ t[Len(s) + 1] = r
      /\ DOMAIN t = 1 .. Len(t)
      /\ \A k \in 1 .. Len(s) : t[k] = s[k]
  BY <1>1
<1> HIDE DEF t
<1>3. \A j, k \in DOMAIN t : t[j] = t[k] => j = k
  BY <1>1, <1>2 DEF Deque, Elements
<1>4. Elements(t) = Elements(s) \cup {r}
  BY <1>1, <1>2 DEF Elements
<1> QED BY <1>2, <1>3, <1>4 DEF Deque, t

-----------------------------------------------------------------------------
(* The inductive invariant.  The count is exact only because a request that *)
(* was handed one is no longer in the deque (or a second release could hand *)
(* it another), and because a slot is held by running requests only.        *)

DequeLive ==
    /\ Deque(waiters)
    /\ \A r \in Elements(waiters) : pc[r] = "waiting" /\ future[r] \in {"pending", "cancelled"}

SlotsRun == \A r \in slots : pc[r] = "running"

GInv == TypeOK /\ SlotsAccounted /\ DequeLive /\ SlotsRun

LEMMA Finiteness ==
    ASSUME TypeOK
    PROVE  IsFiniteSet(slots) /\ IsFiniteSet(InHand)
           /\ Cardinality(slots) \in Nat /\ Cardinality(InHand) \in Nat
<1>1. slots \in SUBSET Requests /\ InHand \in SUBSET Requests /\ IsFiniteSet(Requests)
  BY GateAssumption DEF GateAssumption, TypeOK, InHand
<1> QED BY <1>1, FS_Subset, FS_CardinalityType

(* The head of every step: what remains to be shown of the deque.           *)
LEMMA DequeTyped ==
    ASSUME DequeLive
    PROVE  waiters \in Seq(Requests) /\ \A i \in DOMAIN waiters : pc[waiters[i]] = "waiting"
BY DEF DequeLive, Deque, Elements

(* _release with a count out: it is retired with the deque, or handed on.   *)
LEMMA ReleaseEffect ==
    ASSUME GInv, ReleaseCount, active # 0
    PROVE  \/ /\ Live = {} /\ active' = active - 1
              /\ waiters' = <<>> /\ UNCHANGED future
           \/ \E w \in Elements(waiters) :
                 /\ future[w] = "pending"
                 /\ future' = [future EXCEPT ![w] = "granted"]
                 /\ UNCHANGED active
                 /\ Deque(waiters')
                 /\ Elements(waiters') \subseteq Elements(waiters) \ {w}
<1>1. CASE Live = {}
  BY <1>1 DEF ReleaseCount
<1>2. CASE Live # {}
  <2>1. PICK i \in Live :
          /\ waiters' = SubSeq(waiters, i + 1, Len(waiters))
          /\ future' = [future EXCEPT ![waiters[i]] = "granted"]
          /\ UNCHANGED active
    BY <1>2 DEF ReleaseCount
  <2>2. i \in DOMAIN waiters /\ future[waiters[i]] = "pending" /\ waiters[i] \in Elements(waiters)
    BY <2>1 DEF Live, Elements
  <2>3. Deque(waiters') /\ Elements(waiters') \subseteq Elements(waiters) \ {waiters[i]}
    BY <2>1, <2>2, SuffixOfDeque DEF GInv, DequeLive
  <2> QED BY <2>1, <2>2, <2>3
<1> QED BY <1>1, <1>2

LEMMA LeaveEffect ==
    ASSUME GInv, NEW r \in Requests, Leave(r)
    PROVE  Deque(waiters') /\ Elements(waiters') \subseteq Elements(waiters) \ {r}
<1>1. Deque(waiters)
  BY DEF GInv, DequeLive
<1>2. CASE \E i \in DOMAIN waiters :
             /\ waiters[i] = r
             /\ waiters' = SubSeq(waiters, 1, i - 1) \o SubSeq(waiters, i + 1, Len(waiters))
  BY <1>1, <1>2, DropFromDeque
<1>3. CASE (\A i \in DOMAIN waiters : waiters[i] # r) /\ UNCHANGED waiters
  BY <1>1, <1>3 DEF Elements
<1> QED BY <1>2, <1>3 DEF Leave

LEMMA EmptyDeque == Deque(<<>>) /\ Elements(<<>>) = {}
BY DEF Deque, Elements

(* A step that moves request r and touches no count in hand but r's own.    *)
LEMMA CountKept ==
    ASSUME GInv, NEW r \in Requests, NEW place \in PCs, Goto(r, place),
           DequeLive', UNCHANGED active,
           future' \in [Requests -> Futures], knock' \in [Requests -> Knocks],
           limit' \in Limits,
           \/ UNCHANGED slots /\ InHand' = InHand
           \/ slots' = slots \cup {r} /\ r \in InHand /\ InHand' = InHand \ {r},
           SlotsRun'
    PROVE  GInv'
<1>1. pc' \in [Requests -> PCs] /\ slots' \in SUBSET Requests
  BY DEF Goto, GInv, TypeOK
<1>2. TypeOK'
  BY <1>1, DequeTyped DEF GInv, TypeOK, DequeLive, Deque, Elements
<1>3. active = Cardinality(slots) + Cardinality(InHand) /\ slots \cap InHand = {}
  BY DEF GInv, SlotsAccounted
<1>4. IsFiniteSet(slots) /\ IsFiniteSet(InHand)
      /\ Cardinality(slots) \in Nat /\ Cardinality(InHand) \in Nat
  BY Finiteness DEF GInv
<1>5. CASE UNCHANGED slots /\ InHand' = InHand
  BY <1>2, <1>3, <1>5 DEF GInv, SlotsAccounted
<1>6. CASE slots' = slots \cup {r} /\ r \in InHand /\ InHand' = InHand \ {r}
  <2>1. Cardinality(slots') = Cardinality(slots) + 1
    BY <1>3, <1>4, <1>6, FS_AddElement
  <2>2. Cardinality(InHand') = Cardinality(InHand) - 1
    BY <1>4, <1>6, FS_RemoveElement
  <2> QED BY <1>2, <1>3, <1>4, <1>6, <2>1, <2>2 DEF GInv, SlotsAccounted
<1> QED BY <1>5, <1>6

(* A release that frees the slots of gone, while request r moves on.        *)
LEMMA CountReleased ==
    ASSUME GInv, NEW r \in Requests, NEW place \in PCs \ {"waiting"}, Goto(r, place),
           pc[r] = "waiting" => future[r] = "granted",
           UNCHANGED <<knock, limit>>, ReleaseCount,
           \/ r \in slots /\ slots' = slots \ {r}
           \/ r \in InHand /\ UNCHANGED slots
    PROVE  GInv'
<1>1. active = Cardinality(slots) + Cardinality(InHand) /\ slots \cap InHand = {}
  BY DEF GInv, SlotsAccounted
<1>2. IsFiniteSet(slots) /\ IsFiniteSet(InHand)
      /\ Cardinality(slots) \in Nat /\ Cardinality(InHand) \in Nat
  BY Finiteness DEF GInv
<1>3. /\ pc' = [pc EXCEPT ![r] = place] /\ pc \in [Requests -> PCs]
      /\ future \in [Requests -> Futures] /\ slots \in SUBSET Requests
      /\ active \in Nat /\ knock' \in [Requests -> Knocks] /\ limit' \in Limits
  BY DEF Goto, GInv, TypeOK
<1>4. pc' \in [Requests -> PCs] /\ pc'[r] = place /\ \A q \in Requests \ {r} : pc'[q] = pc[q]
  BY <1>3
(* One count less is held: r's slot, or what was in r's hand.               *)
<1> DEFINE hand == InHand \ {r}
<1>5. /\ active - 1 = Cardinality(slots') + Cardinality(hand)
      /\ slots' \cap hand = {} /\ slots' \subseteq slots /\ IsFiniteSet(hand)
      /\ r \notin slots' /\ active # 0
      /\ Cardinality(slots') \in Nat /\ Cardinality(hand) \in Nat
  <2>1. IsFiniteSet(hand)
    BY <1>2, FS_RemoveElement
  <2>2. CASE r \in slots /\ slots' = slots \ {r}
    <3>1. Cardinality(slots') = Cardinality(slots) - 1 /\ IsFiniteSet(slots')
      BY <1>2, <2>2, FS_RemoveElement
    <3>2. hand = InHand
      BY <1>1, <2>2
    <3>3. Cardinality(slots') \in Nat
      BY <3>1, FS_CardinalityType
    <3>4. active - 1 = Cardinality(slots') + Cardinality(hand) /\ active # 0
          /\ Cardinality(hand) \in Nat
      <4>1. Cardinality(hand) = Cardinality(InHand)
        BY <3>2
      <4> HIDE DEF hand
      <4> QED BY <1>1, <1>2, <3>1, <3>3, <4>1
    <3>5. slots' \cap hand = {} /\ slots' \subseteq slots /\ r \notin slots'
      BY <1>1, <2>2, <3>2
    <3> QED BY <2>1, <3>3, <3>4, <3>5
  <2>3. CASE r \in InHand /\ UNCHANGED slots
    <3>1. Cardinality(hand) = Cardinality(InHand) - 1
      BY <1>2, <2>3, FS_RemoveElement
    <3>2. Cardinality(hand) \in Nat
      BY <2>1, FS_CardinalityType
    <3> QED BY <1>1, <1>2, <2>1, <2>3, <3>1, <3>2
  <2> QED BY <2>2, <2>3
<1>6. SlotsRun'
  BY <1>3, <1>4, <1>5 DEF GInv, SlotsRun
<1>7. CASE /\ active' = active - 1 /\ waiters' = <<>> /\ UNCHANGED future
  <2>1. InHand' = hand
    BY <1>4, <1>7 DEF InHand
  <2>2. SlotsAccounted'
    BY <1>5, <1>7, <2>1 DEF SlotsAccounted
  <2>3. DequeLive'
    BY <1>7, EmptyDeque DEF DequeLive
  <2>4. TypeOK'
    BY <1>3, <1>4, <1>5, <1>7, <2>3, DequeTyped DEF TypeOK, DequeLive, Deque, Elements
  <2> QED BY <1>6, <2>2, <2>3, <2>4 DEF GInv
<1>8. ASSUME NEW w \in Elements(waiters),
             future[w] = "pending",
             future' = [future EXCEPT ![w] = "granted"],
             UNCHANGED active,
             Deque(waiters'),
             Elements(waiters') \subseteq Elements(waiters) \ {w}
      PROVE  GInv'
  <2>1. w \in Requests /\ pc[w] = "waiting" /\ w # r /\ w \notin slots
    BY <1>8 DEF GInv, DequeLive, Deque, Elements, SlotsRun
  <2>2. /\ future' \in [Requests -> Futures] /\ future'[w] = "granted"
        /\ \A q \in Requests \ {w} : future'[q] = future[q]
    BY <1>3, <1>8, <2>1 DEF Futures
  <2>3. InHand' = hand \cup {w} /\ w \notin hand
    BY <1>4, <1>8, <2>1, <2>2 DEF InHand
  <2>4. Cardinality(InHand') = Cardinality(hand) + 1
    BY <1>5, <2>3, FS_AddElement
  <2>5. SlotsAccounted'
    BY <1>3, <1>5, <1>8, <2>1, <2>3, <2>4 DEF SlotsAccounted
  <2>6. DequeLive'
    <3> SUFFICES ASSUME NEW q \in Elements(waiters')
                 PROVE  pc'[q] = "waiting" /\ future'[q] \in {"pending", "cancelled"}
      BY <1>8 DEF DequeLive
    <3>1. q \in Elements(waiters) /\ q # w /\ q \in Requests
      BY <1>8 DEF GInv, DequeLive, Deque, Elements
    <3>2. pc[q] = "waiting" /\ future[q] \in {"pending", "cancelled"}
      BY <3>1 DEF GInv, DequeLive
    <3>3. q # r
      BY <3>2, <1>5 DEF InHand, GInv, SlotsRun
    <3> QED BY <1>4, <2>2, <3>1, <3>2, <3>3
  <2>7. TypeOK'
    BY <1>3, <1>4, <1>5, <1>8, <2>2, <2>6, DequeTyped DEF TypeOK, DequeLive, Deque, Elements
  <2> QED BY <1>6, <2>5, <2>6, <2>7 DEF GInv
<1> QED BY <1>5, <1>7, <1>8, ReleaseEffect

LEMMA InitGInv ==
    ASSUME Init
    PROVE  GInv
<1>1. TypeOK
  BY GateAssumption DEF Init, TypeOK, PCs, Futures, Knocks, GateAssumption
<1>2. InHand = {} /\ slots = {} /\ active = 0
  BY DEF Init, InHand
<1>3. SlotsAccounted
  BY <1>2, FS_EmptySet DEF SlotsAccounted
<1>4. DequeLive /\ SlotsRun
  BY <1>2, EmptyDeque DEF Init, DequeLive, SlotsRun
<1> QED BY <1>1, <1>3, <1>4 DEF GInv

LEMMA RequestKeepsGInv ==
    ASSUME GInv, NEW r \in Requests,
           RequestStep(r) \/ Knock(r, "cancel") \/ ReleaseEarly(r)
    PROVE  GInv'
<1>0. /\ pc \in [Requests -> PCs] /\ future \in [Requests -> Futures]
      /\ knock \in [Requests -> Knocks] /\ slots \in SUBSET Requests
      /\ limit \in Limits /\ active \in Nat
      /\ DequeLive /\ SlotsRun
  BY DEF GInv, TypeOK
<1>e. pc[r] # "waiting" => r \notin Elements(waiters)
  BY <1>0 DEF DequeLive
<1> USE DEF PCs, Futures, Knocks
<1>1. CASE PassExempt(r)
  <2>1. InHand' = InHand /\ DequeLive' /\ SlotsRun'
    BY <1>0, <1>1, <1>e DEF PassExempt, Goto, InHand, DequeLive, SlotsRun, Elements
  <2> QED BY <1>0, <1>1, <2>1, CountKept DEF PassExempt
<1>2. CASE Admit(r)
  <2>1. InHand' = InHand /\ DequeLive' /\ SlotsRun' /\ r \notin slots
    BY <1>0, <1>2, <1>e DEF Admit, Goto, InHand, DequeLive, SlotsRun, Elements
  <2>2. Cardinality(slots') = Cardinality(slots) + 1
    BY <1>2, <2>1, Finiteness, FS_AddElement DEF Admit, GInv
  <2>3. slots' \cap InHand' = {}
    BY <1>2, <2>1 DEF Admit, GInv, SlotsAccounted, InHand
  <2>4. SlotsAccounted'
    BY <1>2, <2>1, <2>2, <2>3, Finiteness DEF Admit, GInv, SlotsAccounted
  <2>5. TypeOK'
    BY <1>0, <1>2, <2>1, DequeTyped DEF Admit, Goto, TypeOK, DequeLive, Deque, Elements
  <2> QED BY <2>1, <2>4, <2>5 DEF GInv
<1>3. CASE StartWaiting(r)
  <2>1. InHand' = InHand /\ SlotsRun'
    BY <1>0, <1>3 DEF StartWaiting, Goto, InHand, SlotsRun
  <2>2. DequeLive'
    <3>0. r \notin Elements(waiters)
      BY <1>3, <1>e DEF StartWaiting
    <3>1. CASE r \in Patient
      <4>1. Deque(waiters') /\ Elements(waiters') = Elements(waiters) \cup {r}
        <5>1. waiters' = Append(waiters, r)
          BY <1>3, <3>1 DEF StartWaiting
        <5>2. Deque(waiters)
          BY <1>0 DEF DequeLive
        <5> QED BY <3>0, <5>1, <5>2, AppendToDeque
      <4>2. Elements(waiters) \subseteq Requests
        BY <1>0 DEF DequeLive, Deque, Elements
      <4> QED BY <1>0, <1>3, <3>1, <4>1, <4>2 DEF StartWaiting, Goto, DequeLive
    <3>2. CASE r \notin Patient
      <4>1. UNCHANGED <<waiters, future>> /\ \A q \in Requests \ {r} : pc'[q] = pc[q]
        BY <1>0, <1>3, <3>2 DEF StartWaiting, Goto
      <4>2. Elements(waiters) \subseteq Requests
        BY <1>0 DEF DequeLive, Deque, Elements
      <4> QED BY <1>0, <3>0, <4>1, <4>2 DEF DequeLive
    <3> QED BY <3>1, <3>2
  <2>3. PICK place \in PCs : Goto(r, place)
    BY <1>3 DEF StartWaiting
  <2> QED BY <1>0, <1>3, <2>1, <2>2, <2>3, CountKept DEF StartWaiting
<1>4. ASSUME NEW what \in {"timeout", "cancel"}, Knock(r, what) PROVE GInv'
  <2>1. InHand' = InHand /\ DequeLive' /\ SlotsRun' /\ knock' \in [Requests -> Knocks]
    BY <1>0, <1>4 DEF Knock, InHand, DequeLive, SlotsRun, Elements
  <2>2. Goto(r, "waiting")
    BY <1>0, <1>4 DEF Knock, Goto
  <2> QED BY <1>0, <1>4, <2>1, <2>2, CountKept DEF Knock
<1>5. CASE GiveUp(r)
  <2>1. InHand' = InHand /\ DequeLive' /\ SlotsRun' /\ future' \in [Requests -> Futures]
    BY <1>0, <1>5 DEF GiveUp, InHand, DequeLive, SlotsRun, Elements
  <2>2. Goto(r, "waiting")
    BY <1>0, <1>5 DEF GiveUp, Goto
  <2> QED BY <1>0, <1>5, <2>1, <2>2, CountKept DEF GiveUp
<1>6. CASE WakeAdmitted(r)
  <2>1. Deque(waiters') /\ Elements(waiters') \subseteq Elements(waiters) \ {r}
    BY <1>6, LeaveEffect DEF WakeAdmitted
  <2>2. r \in InHand /\ InHand' = InHand \ {r} /\ SlotsRun'
    BY <1>0, <1>6 DEF WakeAdmitted, Goto, InHand, SlotsRun
  <2>3. Elements(waiters) \subseteq Requests
    BY <1>0 DEF DequeLive, Deque, Elements
  <2>4. DequeLive'
    BY <1>0, <1>6, <2>1, <2>3 DEF WakeAdmitted, Goto, DequeLive
  <2> QED BY <1>0, <1>6, <2>2, <2>4, CountKept DEF WakeAdmitted
<1>7. CASE WakeGivesBack(r)
  BY <1>0, <1>7, CountReleased DEF WakeGivesBack, InHand
<1>8. CASE WakeEmpty(r)
  <2>1. Deque(waiters') /\ Elements(waiters') \subseteq Elements(waiters) \ {r}
    BY <1>8, LeaveEffect DEF WakeEmpty
  <2>2. InHand' = InHand /\ SlotsRun'
    BY <1>0, <1>8 DEF WakeEmpty, Goto, InHand, SlotsRun
  <2>3. Elements(waiters) \subseteq Requests
    BY <1>0 DEF DequeLive, Deque, Elements
  <2>4. DequeLive'
    BY <1>0, <1>8, <2>1, <2>3 DEF WakeEmpty, Goto, DequeLive
  <2>5. PICK place \in PCs : Goto(r, place)
    BY <1>8 DEF WakeEmpty
  <2> QED BY <1>0, <1>8, <2>2, <2>4, <2>5, CountKept DEF WakeEmpty
<1>9. CASE ReleaseFinally(r) \/ ReleaseEarly(r)
  <2>1. PICK place \in {"over", "observing"} : Goto(r, place)
    BY <1>9 DEF ReleaseFinally, ReleaseEarly
  <2>2. CASE r \in slots
    BY <1>9, <2>1, <2>2, CountReleased DEF ReleaseFinally, ReleaseEarly, SlotRelease
  <2>3. CASE r \notin slots
    <3>1. UNCHANGED <<slots, active, waiters, future>>
      BY <1>9, <2>3 DEF ReleaseFinally, ReleaseEarly, SlotRelease
    <3>2. InHand' = InHand /\ DequeLive' /\ SlotsRun'
      BY <1>0, <1>9, <1>e, <2>1, <2>3, <3>1
         DEF ReleaseFinally, ReleaseEarly, Goto, InHand, DequeLive, SlotsRun, Elements
    <3> QED BY <1>0, <1>9, <2>1, <3>1, <3>2, CountKept DEF ReleaseFinally, ReleaseEarly
  <2> QED BY <2>2, <2>3
<1> QED BY <1>1, <1>2, <1>3, <1>4, <1>5, <1>6, <1>7, <1>8, <1>9 DEF RequestStep

LEMMA NextGInv ==
    ASSUME GInv, [Next]_vars
    PROVE  GInv'
<1>1. ASSUME NEW r \in Requests, RequestStep(r) \/ Knock(r, "cancel") \/ ReleaseEarly(r)
      PROVE  GInv'
  BY <1>1, RequestKeepsGInv
<1>2. ASSUME UNCHANGED <<active, waiters, future, knock, slots, pc>>, limit' \in Limits
      PROVE  GInv'
  BY <1>2 DEF GInv, TypeOK, SlotsAccounted, InHand, DequeLive, Deque, Elements, SlotsRun
<1>3. ASSUME NEW l \in Limits, SetLimit(l) PROVE GInv'
  BY <1>2, <1>3 DEF SetLimit
<1>4. CASE UNCHANGED vars
  BY <1>2, <1>4 DEF vars, GInv, TypeOK
<1> QED BY <1>1, <1>3, <1>4 DEF Next

-----------------------------------------------------------------------------
(* Theorems.                                                                *)

LEMMA GateInvariance == Spec => []GInv
<1>1. Init => GInv
  BY InitGInv
<1>2. GInv /\ [Next]_vars => GInv'
  BY NextGInv
<1> QED BY <1>1, <1>2, PTL DEF Spec

(* Types, and the deque holds waiting requests only: whichever of hand-off, *)
(* timeout and cancellation comes first, a request that leaves takes its    *)
(* future with it.                                                          *)
THEOREM GateTypeCorrect == Spec => []TypeOK
<1>1. GInv => TypeOK
  BY DEF GInv
<1> QED BY <1>1, GateInvariance, PTL

(* _active is exact, for any number of requests and whatever the setting    *)
(* is changed to: no interleaving of the gate's steps leaks or mints a slot. *)
THEOREM CounterExact == Spec => []SlotsAccounted
<1>1. GInv => SlotsAccounted
  BY DEF GInv
<1> QED BY <1>1, GateInvariance, PTL

(* A live waiter is handed a count only when no live one came before it.    *)
THEOREM Fifo == Spec => ServedInOrder
<1>1. ASSUME GInv, [Next]_vars
      PROVE  [\A i, j \in Live : i < j => future'[waiters[j]] # "granted"]_vars
  <2> SUFFICES ASSUME Next, NEW i \in Live, NEW j \in Live, i < j
               PROVE  future'[waiters[j]] # "granted"
    BY <1>1
  <2>1. /\ i \in DOMAIN waiters /\ j \in DOMAIN waiters
        /\ future[waiters[i]] = "pending" /\ future[waiters[j]] = "pending"
        /\ waiters[i] \in Requests /\ waiters[j] \in Requests
        /\ future \in [Requests -> Futures]
    BY <1>1 DEF Live, GInv, TypeOK, DequeLive, Deque
  <2>2. CASE ReleaseCount
    <3>1. CASE UNCHANGED future
      BY <2>1, <3>1
    <3>2. CASE \E k \in Live : /\ \A l \in Live : k <= l
                               /\ future' = [future EXCEPT ![waiters[k]] = "granted"]
      <4>1. PICK k \in Live : /\ k <= i
                              /\ future' = [future EXCEPT ![waiters[k]] = "granted"]
        BY <3>2
      <4>2. k \in DOMAIN waiters /\ k # j
        BY <1>1, <2>1, <4>1 DEF Live, GInv, TypeOK
      <4>3. waiters[k] # waiters[j]
        BY <1>1, <2>1, <4>2 DEF GInv, DequeLive, Deque
      <4> QED BY <2>1, <4>1, <4>3
    <3> QED BY <2>2, <3>1, <3>2 DEF ReleaseCount
  <2>3. CASE UNCHANGED future
    BY <2>1, <2>3
  <2>4. CASE \E r \in Requests, f \in {"pending", "cancelled"} : future' = [future EXCEPT ![r] = f]
    BY <2>1, <2>4
  <2> QED BY <2>2, <2>3, <2>4
          DEF Next, RequestStep, PassExempt, Admit, StartWaiting, Knock, GiveUp, WakeAdmitted,
              WakeGivesBack, WakeEmpty, ReleaseFinally, ReleaseEarly, SlotRelease, SetLimit, vars
<1> QED BY <1>1, GateInvariance, PTL DEF Spec, ServedInOrder

-----------------------------------------------------------------------------
(* While the setting stands still.                                          *)

Bounded == WaitOnlyWhenFull /\ (limit # 0 => active <= limit)

LEMMA LiveAreListed ==
    Live # {} <=> \E r \in Elements(waiters) : future[r] = "pending"
BY DEF Live, Elements

LEMMA StepKeepsBounded ==
    ASSUME Limits = {FirstLimit}, GInv, Bounded, [Next]_vars
    PROVE  Bounded'
<1>0. GInv' /\ active \in Nat /\ limit \in Nat /\ limit' = limit
  BY NextGInv, GateAssumption DEF GInv, TypeOK, GateAssumption
<1>1. ASSUME UNCHANGED active, Live' # {} => Live # {} PROVE Bounded'
  BY <1>0, <1>1 DEF Bounded, WaitOnlyWhenFull
<1>2. CASE UNCHANGED <<active, waiters, future>>
  BY <1>1, <1>2 DEF Live
<1>3. ASSUME ReleaseCount PROVE Bounded'
  <2>1. CASE active = 0
    BY <1>2, <1>3, <2>1 DEF ReleaseCount
  <2>2. CASE active # 0 /\ active' = active - 1 /\ waiters' = <<>>
    <3>1. Live' = {}
      BY <2>2, EmptyDeque, LiveAreListed DEF Live
    <3> QED BY <1>0, <2>2, <3>1 DEF Bounded, WaitOnlyWhenFull
  <2>3. ASSUME active # 0, NEW w \in Elements(waiters), UNCHANGED active, future[w] = "pending"
        PROVE  Bounded'
    <3>1. Live # {}
      BY <2>3, LiveAreListed
    <3> QED BY <1>1, <2>3, <3>1
  <2> QED BY <1>3, <2>1, <2>2, <2>3, ReleaseEffect
<1>4. ASSUME NEW r \in Requests, UNCHANGED active, Leave(r) \/ UNCHANGED waiters,
             future' = [future EXCEPT ![r] = "cancelled"] \/ UNCHANGED future
      PROVE  Bounded'
  <2>1. Elements(waiters') \subseteq Elements(waiters)
    BY <1>4, LeaveEffect
  <2>2. \A q \in Requests : future'[q] = "pending" => future[q] = "pending"
    BY <1>4 DEF GInv, TypeOK
  <2>3. Elements(waiters) \subseteq Requests
    BY DEF GInv, DequeLive, Deque, Elements
  <2>4. ASSUME Live' # {} PROVE Live # {}
    <3>1. PICK q \in Elements(waiters') : future'[q] = "pending"
      BY <2>4 DEF Live, Elements
    <3> QED BY <2>1, <2>2, <2>3, <3>1, LiveAreListed
  <2> QED BY <1>4, <1>1, <2>4
<1>5. ASSUME NEW r \in Requests, Admit(r) PROVE Bounded'
  <2>1. Live = {} /\ active' = active + 1 /\ Live' = Live
    BY <1>0, <1>5 DEF Admit, HasRoom, Bounded, WaitOnlyWhenFull, Live
  <2> QED BY <1>0, <1>5, <2>1 DEF Admit, HasRoom, Bounded, WaitOnlyWhenFull
<1>6. ASSUME NEW r \in Requests, StartWaiting(r) PROVE Bounded'
  BY <1>0, <1>6 DEF StartWaiting, HasRoom, Bounded, WaitOnlyWhenFull
<1> QED BY <1>2, <1>3, <1>4, <1>5, <1>6
        DEF Next, RequestStep, PassExempt, Knock, GiveUp, WakeAdmitted,
            WakeGivesBack, WakeEmpty, ReleaseFinally, ReleaseEarly, SlotRelease, SetLimit, vars

LEMMA BoundedInvariance == Limits = {FirstLimit} => (Spec => []Bounded)
<1> SUFFICES ASSUME Limits = {FirstLimit} PROVE Spec => []Bounded
  OBVIOUS
<1>1. Init => Bounded
  BY GateAssumption DEF Init, Bounded, WaitOnlyWhenFull, Live, GateAssumption
<1>2. GInv /\ Bounded /\ [Next]_vars => Bounded'
  BY StepKeepsBounded
<1> QED BY <1>1, <1>2, GateInvariance, PTL DEF Spec

(* While the setting stands still, no more turns than it says run or have a *)
(* slot in hand, for any limit and any number of requests.                  *)
THEOREM Ceiling == Limits = {FirstLimit} => (Spec => []CeilingHeld)
<1> SUFFICES ASSUME Limits = {FirstLimit} PROVE Spec => []CeilingHeld
  OBVIOUS
<1>1. ASSUME GInv, Bounded PROVE CeilingHeld
  <2>1. Cardinality(slots \cup InHand) = Cardinality(slots) + Cardinality(InHand)
    <3>1. IsFiniteSet(slots) /\ IsFiniteSet(InHand) /\ slots \cap InHand = {}
      BY <1>1, Finiteness DEF GInv, SlotsAccounted
    <3>2. Cardinality(slots \cup InHand)
            = Cardinality(slots) + Cardinality(InHand) - Cardinality(slots \cap InHand)
      BY <3>1, FS_Union
    <3>3. Cardinality(slots) \in Nat /\ Cardinality(InHand) \in Nat
      BY <3>1, FS_CardinalityType
    <3>4. Cardinality(slots \cap InHand) = 0
      BY <3>1, FS_EmptySet
    <3> QED BY <3>2, <3>3, <3>4
  <2>2. Cardinality(slots \cup InHand) = active
    BY <1>1, <2>1 DEF GInv, SlotsAccounted
  <2> QED BY <1>1, <2>2 DEF Bounded, CeilingHeld
<1> QED BY <1>1, GateInvariance, BoundedInvariance, PTL

(* While the setting stands still, no request waits beside a free slot.     *)
THEOREM NoIdleSlot == Limits = {FirstLimit} => (Spec => []WaitOnlyWhenFull)
<1> SUFFICES ASSUME Limits = {FirstLimit} PROVE Spec => []WaitOnlyWhenFull
  OBVIOUS
<1>1. Bounded => WaitOnlyWhenFull
  BY DEF Bounded
<1> QED BY <1>1, BoundedInvariance, PTL
=============================================================================
