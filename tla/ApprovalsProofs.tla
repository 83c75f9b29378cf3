---------------------------- MODULE ApprovalsProofs ----------------------------
(***************************************************************************)
(* Proofs about Approvals, for any holds, resolve calls and cap: the types *)
(* are right, at most one party answers a hold, nothing goes ahead without *)
(* consent, a waiter leaves no record behind, and nobody is told that a    *)
(* hold is stale while it waits for its answer.                            *)
(*                                                                         *)
(* The argument: an entry of the registry has an open future that nobody   *)
(* has answered yet (Entry); the pop ends that for good, because the       *)
(* future of an id is registered once (Fresh).  What is posted, what the   *)
(* future was set to and what the turn was told is the one answer that was *)
(* taken (Taken).                                                          *)
(***************************************************************************)
EXTENDS Approvals, FiniteSetTheorems, TLAPS

(* A hold that has not been registered.                                    *)
Unregistered == {"new", "checked", "written"}

Fresh(h) ==
    at[h] \in Unregistered =>
        /\ h \notin items
        /\ took[h] = {}
        /\ posted[h] = <<>>

Entry(h) ==
    h \in items => Open(h) /\ took[h] = {} /\ posted[h] = <<>>

Said(h, answer) == \E w \in Takers : <<w, answer>> \in took[h]

Taken(h) ==
    /\ \A a, b \in took[h] : a = b
    /\ \A w \in Takers : <<w, "approved">> \in took[h] => w \in Resolvers
    /\ posted[h] = <<>> \/ \E a \in Answers : posted[h] = <<a>> /\ Said(h, a)
    /\ future[h] \in Answers => Said(h, future[h])
    /\ verdict[h] \in {"allow", "chosen"} => Said(h, "approved")

(* The record: it is there from its write to the end of its waiter.        *)
Recorded(h) ==
    /\ at[h] = "persisting" => h \in Fallbacks
    /\ h \in disk => at[h] \notin {"new", "checked"} /\ persist[h] = "none"
    /\ h \in disk /\ at[h] = "ended" => h \in Fallbacks /\ verdict[h] = "none"
    /\ persist[h] # "none" =>
         /\ h \in Fallbacks
         /\ \/ at[h] = "persisting"
            \/ at[h] = "ended" /\ verdict[h] = "none"

(* A hold of the API's loop that waits is in the registry or answered, and *)
(* is registered in the step that mints it.                                *)
Reached(h) ==
    h \in OnLoop =>
        /\ at[h] \notin {"checked", "written"}
        /\ at[h] \in {"persisting", "waiting"} =>
             h \in items \/ took[h] # {}

(* Who did not find a hold of the API's loop in the registry never will.   *)
Missed(r) ==
    \A h \in OnLoop :
        call[r].pc \in {"loading", "found", "cleaning"} /\ call[r].hold = h =>
            h \notin items /\ at[h] \notin Unregistered

Called(r) ==
    call[r].pc \in {"loading", "found", "cleaning"} => call[r].hold \in Holds

GoodHold(h) == Fresh(h) /\ Entry(h) /\ Taken(h) /\ Recorded(h) /\ Reached(h)

HoldInv == \A h \in Holds : GoodHold(h)
CallInv == \A r \in Resolvers : Missed(r) /\ Called(r)

IInv == TypeOK /\ HoldInv /\ CallInv

-------------------------------------------------------------------------------

(* Everything of one hold, and nothing of the others.                      *)
Same(g) ==
    /\ (g \in items') = (g \in items)
    /\ future'[g] = future[g]
    /\ posted'[g] = posted[g]
    /\ at'[g] = at[g]
    /\ verdict'[g] = verdict[g]
    /\ took'[g] = took[g]
    /\ persist'[g] = persist[g]
    /\ g \in disk' => g \in disk

(* What is the same for a hold keeps what holds of it.                     *)
LEMMA SameHold ==
    ASSUME NEW g \in Holds, GoodHold(g), Same(g), kind' = kind
    PROVE  GoodHold(g)'
<1>1. Fallbacks' = Fallbacks /\ OnLoop' = OnLoop
  BY DEF Fallbacks, OnLoop, Bridged
<1>2. Open(g)' = Open(g)
  BY DEF Same, Open
<1>3. Fresh(g)' /\ Entry(g)'
  BY <1>2 DEF GoodHold, Same, Fresh, Entry
<1>4. Taken(g)'
  BY DEF GoodHold, Same, Taken, Said
<1>5. Recorded(g)'
  BY <1>1 DEF GoodHold, Same, Recorded
<1>6. Reached(g)'
  BY <1>1 DEF GoodHold, Same, Reached
<1>. QED  BY <1>3, <1>4, <1>5, <1>6 DEF GoodHold

(* Calls that stay where they are keep what holds of them, unless their    *)
(* hold is registered.                                                     *)
LEMMA SameCalls ==
    ASSUME CallInv, kind' = kind, call' = call,
           items' \subseteq items \cup {h \in Holds : at[h] \in Unregistered},
           \A h \in Holds : at'[h] \in Unregistered => at[h] \in Unregistered
    PROVE  CallInv'
<1>1. OnLoop' = OnLoop /\ OnLoop \subseteq Holds
  BY DEF OnLoop, Bridged
<1>. QED  BY <1>1 DEF CallInv, Missed, Called

(* A step about one hold.                                                  *)
LEMMA OneHold ==
    ASSUME HoldInv, kind' = kind, NEW h \in Holds, GoodHold(h)',
           \A g \in Holds : g # h => Same(g)
    PROVE  HoldInv'
<1>1. ASSUME NEW g \in Holds, g # h PROVE GoodHold(g)'
  BY <1>1, SameHold DEF HoldInv
<1>. QED  BY <1>1 DEF HoldInv

(* The kinds, and with them the sets of holds, are as they were.           *)
LEMMA SameKinds ==
    ASSUME kind' = kind
    PROVE  Fallbacks' = Fallbacks /\ OnLoop' = OnLoop /\ Hooks' = Hooks
  BY DEF Fallbacks, OnLoop, Hooks, Bridged

(* A verdict is of the kind of its hold.                                   *)
LEMMA VerdictKind ==
    ASSUME NEW h \in Holds,
           NEW o \in Answers \cup {"timeout", "cancelled", "refused"}
    PROVE  /\ Verdict(h, o) \in Verdicts
           /\ h \in Fallbacks => Verdict(h, o) \notin {"allow", "deny"}
           /\ h \in Hooks => Verdict(h, o) \notin {"chosen", "swap", "fail"}
           /\ Verdict(h, o) \in {"allow", "chosen"} => o = "approved"
           /\ o = "cancelled" => Verdict(h, o) = "none"
  BY ApprovalsAssumption DEF Verdict, HookVerdict, FallbackVerdict, Verdicts, Hooks

LEMMA TellType ==
    ASSUME TypeOK, kind' = kind, NEW h \in Holds,
           NEW o \in Answers \cup {"timeout", "cancelled", "refused"}, Tell(h, o)
    PROVE  /\ verdict' \in [Holds -> Verdicts]
           /\ \A g \in Fallbacks' : verdict'[g] \notin {"allow", "deny"}
           /\ \A g \in Hooks' : verdict'[g] \notin {"chosen", "swap", "fail"}
<1>1. verdict' \in [Holds -> Verdicts]
  BY VerdictKind DEF TypeOK, Tell
<1>2. \A g \in Holds : verdict'[g] = IF g = h THEN Verdict(h, o) ELSE verdict[g]
  BY DEF TypeOK, Tell
<1>3. Fallbacks \subseteq Holds /\ Hooks \subseteq Holds
  BY DEF Fallbacks, Hooks
<1>. QED  BY <1>1, <1>2, <1>3, VerdictKind, SameKinds DEF TypeOK

-------------------------------------------------------------------------------
(* The waiter of a hook.                                                   *)

LEMMA MintInv ==
    ASSUME IInv, NEW h \in Holds, Mint(h)
    PROVE  IInv'
<1>. USE DEF IInv
<1>0. kind' = kind /\ GoodHold(h) /\ h \in OnLoop
  BY DEF Mint, Add, HoldInv, othersVars, OnLoop
<1>1. TypeOK'
  BY SameKinds, <1>0 DEF TypeOK, RendezvousTypeOK, Points, Verdicts, vars, othersVars, rendezvous, Mint, Add
<1>2. GoodHold(h)'
  <2>. USE DEF GoodHold, TypeOK, RendezvousTypeOK, rendezvous, othersVars
  <2>1. Fresh(h)'
    BY <1>0 DEF Fresh, Unregistered, Mint, Add
  <2>2. Entry(h)'
    BY <1>0 DEF Entry, Fresh, Unregistered, Open, Mint, Add
  <2>3. Taken(h)'
    BY <1>0, ApprovalsAssumption DEF Taken, Said, Fresh, Unregistered, Mint, Add
  <2>4. Recorded(h)'
    BY <1>0, SameKinds DEF Recorded, Mint, Add
  <2>5. Reached(h)'
    BY <1>0, SameKinds DEF Reached, Mint, Add
  <2>. QED  BY <2>1, <2>2, <2>3, <2>4, <2>5
<1>3. \A g \in Holds : g # h => Same(g)
  BY DEF Same, TypeOK, RendezvousTypeOK, Points, Verdicts, vars, othersVars, rendezvous, Mint, Add
<1>4. HoldInv'
  BY <1>0, <1>2, <1>3, OneHold
<1>5. CallInv'
  BY <1>0, SameCalls DEF TypeOK, RendezvousTypeOK, Unregistered, rendezvous, othersVars,
     Mint, Add
<1>. QED  BY <1>1, <1>4, <1>5

LEMMA MintRefusedInv ==
    ASSUME IInv, NEW h \in Holds, MintRefused(h)
    PROVE  IInv'
<1>. USE DEF IInv
<1>0. kind' = kind /\ GoodHold(h)
  BY DEF MintRefused, Tell, HoldInv, othersVars
<1>t. /\ verdict' \in [Holds -> Verdicts]
      /\ \A g \in Fallbacks' : verdict'[g] \notin {"allow", "deny"}
      /\ \A g \in Hooks' : verdict'[g] \notin {"chosen", "swap", "fail"}
  BY <1>0, TellType DEF MintRefused
<1>v. verdict'[h] = Verdict(h, "refused") /\ took'[h] = took[h]
  BY <1>0 DEF TypeOK, MintRefused, Tell, othersVars
<1>1. TypeOK'
  <2>1. RendezvousTypeOK'
    BY DEF TypeOK, RendezvousTypeOK, rendezvous, MintRefused
  <2>2. at' \in [Holds -> Points] /\ persist' \in [Holds -> {"none", "queued", "writing", "refused"}]
    BY DEF TypeOK, Points, MintRefused
  <2>3. disk' \subseteq Holds /\ call' = call /\ took' = took
    BY DEF TypeOK, othersVars, MintRefused
  <2>. QED  BY <2>1, <2>2, <2>3, <1>0, <1>t DEF TypeOK
<1>2. GoodHold(h)'
  <2>. USE DEF GoodHold, TypeOK, RendezvousTypeOK, rendezvous, othersVars
  <2>1. Fresh(h)'
    BY <1>0 DEF Fresh, Unregistered, MintRefused
  <2>2. Entry(h)'
    BY <1>0 DEF Entry, Fresh, Unregistered, Open, MintRefused
  <2>3. Taken(h)'
    BY <1>0, <1>v, VerdictKind, ApprovalsAssumption DEF Taken, Said, Fresh, Unregistered, MintRefused
  <2>4. Recorded(h)'
    BY <1>0, SameKinds, <1>v, VerdictKind DEF Recorded, MintRefused
  <2>5. Reached(h)'
    BY <1>0, SameKinds DEF Reached, MintRefused
  <2>. QED  BY <2>1, <2>2, <2>3, <2>4, <2>5
<1>3. \A g \in Holds : g # h => Same(g)
  BY DEF Same, TypeOK, RendezvousTypeOK, Points, Verdicts, vars, othersVars, rendezvous, MintRefused, Tell
<1>4. HoldInv'
  BY <1>0, <1>2, <1>3, OneHold
<1>5. CallInv'
  BY <1>0, SameCalls DEF TypeOK, RendezvousTypeOK, Unregistered, rendezvous, othersVars,
     MintRefused
<1>. QED  BY <1>1, <1>4, <1>5

LEMMA BridgeChecksInv ==
    ASSUME IInv, NEW h \in Holds, BridgeChecks(h)
    PROVE  IInv'
<1>. USE DEF IInv
<1>0. kind' = kind /\ GoodHold(h) /\ h \notin OnLoop
  BY DEF BridgeChecks, HoldInv, othersVars, OnLoop
<1>1. TypeOK'
  BY SameKinds, <1>0 DEF TypeOK, RendezvousTypeOK, Points, Verdicts, vars, othersVars, rendezvous, BridgeChecks
<1>2. GoodHold(h)'
  <2>. USE DEF GoodHold, TypeOK, RendezvousTypeOK, rendezvous, othersVars
  <2>1. Fresh(h)'
    BY <1>0 DEF Fresh, Unregistered, BridgeChecks
  <2>2. Entry(h)'
    BY <1>0 DEF Entry, Fresh, Unregistered, Open, BridgeChecks
  <2>3. Taken(h)'
    BY <1>0, ApprovalsAssumption DEF Taken, Said, Fresh, Unregistered, BridgeChecks
  <2>4. Recorded(h)'
    BY <1>0, SameKinds DEF Recorded, BridgeChecks
  <2>5. Reached(h)'
    BY <1>0, SameKinds DEF Reached, BridgeChecks
  <2>. QED  BY <2>1, <2>2, <2>3, <2>4, <2>5
<1>3. \A g \in Holds : g # h => Same(g)
  BY DEF Same, TypeOK, RendezvousTypeOK, Points, Verdicts, vars, othersVars, rendezvous, BridgeChecks
<1>4. HoldInv'
  BY <1>0, <1>2, <1>3, OneHold
<1>5. CallInv'
  BY <1>0, SameCalls DEF TypeOK, RendezvousTypeOK, Unregistered, rendezvous, othersVars,
     BridgeChecks
<1>. QED  BY <1>1, <1>4, <1>5

LEMMA BridgeWritesInv ==
    ASSUME IInv, NEW h \in Holds, BridgeWrites(h)
    PROVE  IInv'
<1>. USE DEF IInv
<1>0. kind' = kind /\ GoodHold(h)
  BY DEF BridgeWrites, HoldInv, othersVars
<1>1. TypeOK'
  BY SameKinds, <1>0 DEF TypeOK, RendezvousTypeOK, Points, Verdicts, vars, othersVars, rendezvous, BridgeWrites
<1>2. GoodHold(h)'
  <2>. USE DEF GoodHold, TypeOK, RendezvousTypeOK, rendezvous, othersVars
  <2>1. Fresh(h)'
    BY <1>0 DEF Fresh, Unregistered, BridgeWrites
  <2>2. Entry(h)'
    BY <1>0 DEF Entry, Fresh, Unregistered, Open, BridgeWrites
  <2>3. Taken(h)'
    BY <1>0, ApprovalsAssumption DEF Taken, Said, Fresh, Unregistered, BridgeWrites
  <2>4. Recorded(h)'
    BY <1>0, SameKinds DEF Recorded, BridgeWrites
  <2>5. Reached(h)'
    BY <1>0, SameKinds DEF Reached, BridgeWrites
  <2>. QED  BY <2>1, <2>2, <2>3, <2>4, <2>5
<1>3. \A g \in Holds : g # h => Same(g)
  BY DEF Same, TypeOK, RendezvousTypeOK, Points, Verdicts, vars, othersVars, rendezvous, BridgeWrites
<1>4. HoldInv'
  BY <1>0, <1>2, <1>3, OneHold
<1>5. CallInv'
  BY <1>0, SameCalls DEF TypeOK, RendezvousTypeOK, Unregistered, rendezvous, othersVars,
     BridgeWrites
<1>. QED  BY <1>1, <1>4, <1>5

LEMMA BridgeRegistersInv ==
    ASSUME IInv, NEW h \in Holds, BridgeRegisters(h)
    PROVE  IInv'
<1>. USE DEF IInv
<1>0. kind' = kind /\ GoodHold(h)
  BY DEF BridgeRegisters, Add, HoldInv, othersVars
<1>1. TypeOK'
  BY SameKinds, <1>0 DEF TypeOK, RendezvousTypeOK, Points, Verdicts, vars, othersVars, rendezvous, BridgeRegisters, Add
<1>2. GoodHold(h)'
  <2>. USE DEF GoodHold, TypeOK, RendezvousTypeOK, rendezvous, othersVars
  <2>1. Fresh(h)'
    BY <1>0 DEF Fresh, Unregistered, BridgeRegisters, Add
  <2>2. Entry(h)'
    BY <1>0 DEF Entry, Fresh, Unregistered, Open, BridgeRegisters, Add
  <2>3. Taken(h)'
    BY <1>0, ApprovalsAssumption DEF Taken, Said, Fresh, Unregistered, BridgeRegisters, Add
  <2>4. Recorded(h)'
    BY <1>0, SameKinds DEF Recorded, BridgeRegisters, Add
  <2>5. Reached(h)'
    BY <1>0, SameKinds DEF Reached, BridgeRegisters, Add
  <2>. QED  BY <2>1, <2>2, <2>3, <2>4, <2>5
<1>3. \A g \in Holds : g # h => Same(g)
  BY DEF Same, TypeOK, RendezvousTypeOK, Points, Verdicts, vars, othersVars, rendezvous, BridgeRegisters, Add
<1>4. HoldInv'
  BY <1>0, <1>2, <1>3, OneHold
<1>5. CallInv'
  BY <1>0, SameCalls DEF TypeOK, RendezvousTypeOK, Unregistered, rendezvous, othersVars,
     BridgeRegisters, Add
<1>. QED  BY <1>1, <1>4, <1>5

LEMMA LeaveInv ==
    ASSUME IInv, NEW h \in Holds, NEW o \in Answers \cup {"timeout", "cancelled"},
           Leave(h, o),
           o = "approved" => Said(h, o)
    PROVE  IInv'
<1>. USE DEF IInv
<1>0. kind' = kind /\ GoodHold(h)
  BY DEF Leave, LeavesRecord, Close, Tell, HoldInv, othersVars
<1>t. /\ verdict' \in [Holds -> Verdicts]
      /\ \A g \in Fallbacks' : verdict'[g] \notin {"allow", "deny"}
      /\ \A g \in Hooks' : verdict'[g] \notin {"chosen", "swap", "fail"}
  BY <1>0, TellType DEF Leave, LeavesRecord, Close
<1>v. verdict'[h] = Verdict(h, o) /\ took'[h] = took[h]
  BY <1>0 DEF TypeOK, Leave, LeavesRecord, Close, Tell, othersVars
<1>1. TypeOK'
  <2>1. RendezvousTypeOK'
    BY DEF TypeOK, RendezvousTypeOK, rendezvous, Leave, LeavesRecord, Close
  <2>2. at' \in [Holds -> Points] /\ persist' \in [Holds -> {"none", "queued", "writing", "refused"}]
    BY DEF TypeOK, Points, Leave, LeavesRecord, Close
  <2>3. disk' \subseteq Holds /\ call' = call /\ took' = took
    BY DEF TypeOK, othersVars, Leave, LeavesRecord, Close
  <2>. QED  BY <2>1, <2>2, <2>3, <1>0, <1>t DEF TypeOK
<1>2. GoodHold(h)'
  <2>. USE DEF GoodHold, TypeOK, RendezvousTypeOK, rendezvous, othersVars
  <2>1. Fresh(h)'
    BY <1>0 DEF Fresh, Unregistered, Leave, LeavesRecord, Close
  <2>2. Entry(h)'
    BY <1>0 DEF Entry, Fresh, Unregistered, Open, Leave, LeavesRecord, Close
  <2>3. Taken(h)'
    BY <1>0, <1>v, VerdictKind, ApprovalsAssumption DEF Taken, Said, Fresh, Unregistered, Leave, LeavesRecord, Close
  <2>4. Recorded(h)'
    BY <1>0, SameKinds, <1>v, VerdictKind DEF Recorded, Leave, LeavesRecord, Close
  <2>5. Reached(h)'
    BY <1>0, SameKinds DEF Reached, Leave, LeavesRecord, Close
  <2>. QED  BY <2>1, <2>2, <2>3, <2>4, <2>5
<1>3. \A g \in Holds : g # h => Same(g)
  BY DEF Same, TypeOK, RendezvousTypeOK, Points, Verdicts, vars, othersVars, rendezvous, Leave, LeavesRecord, Close, Tell
<1>4. HoldInv'
  BY <1>0, <1>2, <1>3, OneHold
<1>5. CallInv'
  BY <1>0, SameCalls DEF TypeOK, RendezvousTypeOK, Unregistered, rendezvous, othersVars,
     Leave, LeavesRecord, Close
<1>. QED  BY <1>1, <1>4, <1>5

LEMMA BridgeDeletesInv ==
    ASSUME IInv, NEW h \in Holds, BridgeDeletes(h)
    PROVE  IInv'
<1>. USE DEF IInv
<1>0. kind' = kind /\ GoodHold(h)
  BY DEF BridgeDeletes, HoldInv, othersVars
<1>1. TypeOK'
  BY SameKinds, <1>0 DEF TypeOK, RendezvousTypeOK, Points, Verdicts, vars, othersVars, rendezvous, BridgeDeletes
<1>2. GoodHold(h)'
  <2>. USE DEF GoodHold, TypeOK, RendezvousTypeOK, rendezvous, othersVars
  <2>1. Fresh(h)'
    BY <1>0 DEF Fresh, Unregistered, BridgeDeletes
  <2>2. Entry(h)'
    BY <1>0 DEF Entry, Fresh, Unregistered, Open, BridgeDeletes
  <2>3. Taken(h)'
    BY <1>0, ApprovalsAssumption DEF Taken, Said, Fresh, Unregistered, BridgeDeletes
  <2>4. Recorded(h)'
    BY <1>0, SameKinds DEF Recorded, BridgeDeletes
  <2>5. Reached(h)'
    BY <1>0, SameKinds DEF Reached, BridgeDeletes
  <2>. QED  BY <2>1, <2>2, <2>3, <2>4, <2>5
<1>3. \A g \in Holds : g # h => Same(g)
  BY DEF Same, TypeOK, RendezvousTypeOK, Points, Verdicts, vars, othersVars, rendezvous, BridgeDeletes
<1>4. HoldInv'
  BY <1>0, <1>2, <1>3, OneHold
<1>5. CallInv'
  BY <1>0, SameCalls DEF TypeOK, RendezvousTypeOK, Unregistered, rendezvous, othersVars,
     BridgeDeletes
<1>. QED  BY <1>1, <1>4, <1>5

-------------------------------------------------------------------------------
(* The waiter of a fallback.                                               *)

LEMMA ParksInv ==
    ASSUME IInv, NEW h \in Holds, Parks(h)
    PROVE  IInv'
<1>. USE DEF IInv
<1>0. kind' = kind /\ GoodHold(h)
  BY DEF Parks, Add, HoldInv, othersVars
<1>1. TypeOK'
  BY SameKinds, <1>0 DEF TypeOK, RendezvousTypeOK, Points, Verdicts, vars, othersVars, rendezvous, Parks, Add
<1>2. GoodHold(h)'
  <2>. USE DEF GoodHold, TypeOK, RendezvousTypeOK, rendezvous, othersVars
  <2>1. Fresh(h)'
    BY <1>0 DEF Fresh, Unregistered, Parks, Add
  <2>2. Entry(h)'
    BY <1>0 DEF Entry, Fresh, Unregistered, Open, Parks, Add
  <2>3. Taken(h)'
    BY <1>0, ApprovalsAssumption DEF Taken, Said, Fresh, Unregistered, Parks, Add
  <2>4. Recorded(h)'
    BY <1>0, SameKinds DEF Recorded, Parks, Add
  <2>5. Reached(h)'
    BY <1>0, SameKinds DEF Reached, Parks, Add
  <2>. QED  BY <2>1, <2>2, <2>3, <2>4, <2>5
<1>3. \A g \in Holds : g # h => Same(g)
  BY DEF Same, TypeOK, RendezvousTypeOK, Points, Verdicts, vars, othersVars, rendezvous, Parks, Add
<1>4. HoldInv'
  BY <1>0, <1>2, <1>3, OneHold
<1>5. CallInv'
  BY <1>0, SameCalls DEF TypeOK, RendezvousTypeOK, Unregistered, rendezvous, othersVars,
     Parks, Add
<1>. QED  BY <1>1, <1>4, <1>5

LEMMA PersistChecksInv ==
    ASSUME IInv, NEW h \in Holds, PersistChecks(h)
    PROVE  IInv'
<1>. USE DEF IInv
<1>0. kind' = kind /\ GoodHold(h)
  BY DEF PersistChecks, HoldInv, othersVars
<1>1. TypeOK'
  BY SameKinds, <1>0 DEF TypeOK, RendezvousTypeOK, Points, Verdicts, vars, othersVars, rendezvous, PersistChecks
<1>2. GoodHold(h)'
  <2>. USE DEF GoodHold, TypeOK, RendezvousTypeOK, rendezvous, othersVars
  <2>1. Fresh(h)'
    BY <1>0 DEF Fresh, Unregistered, PersistChecks
  <2>2. Entry(h)'
    BY <1>0 DEF Entry, Fresh, Unregistered, Open, PersistChecks
  <2>3. Taken(h)'
    BY <1>0, ApprovalsAssumption DEF Taken, Said, Fresh, Unregistered, PersistChecks
  <2>4. Recorded(h)'
    BY <1>0, SameKinds DEF Recorded, PersistChecks
  <2>5. Reached(h)'
    BY <1>0, SameKinds DEF Reached, PersistChecks
  <2>. QED  BY <2>1, <2>2, <2>3, <2>4, <2>5
<1>3. \A g \in Holds : g # h => Same(g)
  BY DEF Same, TypeOK, RendezvousTypeOK, Points, Verdicts, vars, othersVars, rendezvous, PersistChecks
<1>4. HoldInv'
  BY <1>0, <1>2, <1>3, OneHold
<1>5. CallInv'
  BY <1>0, SameCalls DEF TypeOK, RendezvousTypeOK, Unregistered, rendezvous, othersVars,
     PersistChecks
<1>. QED  BY <1>1, <1>4, <1>5

LEMMA PersistWritesInv ==
    ASSUME IInv, NEW h \in Holds, PersistWrites(h)
    PROVE  IInv'
<1>. USE DEF IInv
<1>0. kind' = kind /\ GoodHold(h)
  BY DEF PersistWrites, HoldInv, othersVars
<1>1. TypeOK'
  BY SameKinds, <1>0 DEF TypeOK, RendezvousTypeOK, Points, Verdicts, vars, othersVars, rendezvous, PersistWrites
<1>2. GoodHold(h)'
  <2>. USE DEF GoodHold, TypeOK, RendezvousTypeOK, rendezvous, othersVars
  <2>1. Fresh(h)'
    BY <1>0 DEF Fresh, Unregistered, PersistWrites
  <2>2. Entry(h)'
    BY <1>0 DEF Entry, Fresh, Unregistered, Open, PersistWrites
  <2>3. Taken(h)'
    BY <1>0, ApprovalsAssumption DEF Taken, Said, Fresh, Unregistered, PersistWrites
  <2>4. Recorded(h)'
    BY <1>0, SameKinds DEF Recorded, PersistWrites
  <2>5. Reached(h)'
    BY <1>0, SameKinds DEF Reached, PersistWrites
  <2>. QED  BY <2>1, <2>2, <2>3, <2>4, <2>5
<1>3. \A g \in Holds : g # h => Same(g)
  BY DEF Same, TypeOK, RendezvousTypeOK, Points, Verdicts, vars, othersVars, rendezvous, PersistWrites
<1>4. HoldInv'
  BY <1>0, <1>2, <1>3, OneHold
<1>5. CallInv'
  BY <1>0, SameCalls DEF TypeOK, RendezvousTypeOK, Unregistered, rendezvous, othersVars,
     PersistWrites
<1>. QED  BY <1>1, <1>4, <1>5

LEMMA AnnouncesInv ==
    ASSUME IInv, NEW h \in Holds, Announces(h)
    PROVE  IInv'
<1>. USE DEF IInv
<1>0. kind' = kind /\ GoodHold(h)
  BY DEF Announces, HoldInv, othersVars
<1>1. TypeOK'
  BY SameKinds, <1>0 DEF TypeOK, RendezvousTypeOK, Points, Verdicts, vars, othersVars, rendezvous, Announces
<1>2. GoodHold(h)'
  <2>. USE DEF GoodHold, TypeOK, RendezvousTypeOK, rendezvous, othersVars
  <2>1. Fresh(h)'
    BY <1>0 DEF Fresh, Unregistered, Announces
  <2>2. Entry(h)'
    BY <1>0 DEF Entry, Fresh, Unregistered, Open, Announces
  <2>3. Taken(h)'
    BY <1>0, ApprovalsAssumption DEF Taken, Said, Fresh, Unregistered, Announces
  <2>4. Recorded(h)'
    BY <1>0, SameKinds DEF Recorded, Announces
  <2>5. Reached(h)'
    BY <1>0, SameKinds DEF Reached, Announces
  <2>. QED  BY <2>1, <2>2, <2>3, <2>4, <2>5
<1>3. \A g \in Holds : g # h => Same(g)
  BY DEF Same, TypeOK, RendezvousTypeOK, Points, Verdicts, vars, othersVars, rendezvous, Announces
<1>4. HoldInv'
  BY <1>0, <1>2, <1>3, OneHold
<1>5. CallInv'
  BY <1>0, SameCalls DEF TypeOK, RendezvousTypeOK, Unregistered, rendezvous, othersVars,
     Announces
<1>. QED  BY <1>1, <1>4, <1>5

LEMMA ParkRefusedInv ==
    ASSUME IInv, NEW h \in Holds, ParkRefused(h)
    PROVE  IInv'
<1>. USE DEF IInv
<1>0. kind' = kind /\ GoodHold(h)
  BY DEF ParkRefused, ParkFails, Tell, Close, HoldInv, othersVars
<1>t. /\ verdict' \in [Holds -> Verdicts]
      /\ \A g \in Fallbacks' : verdict'[g] \notin {"allow", "deny"}
      /\ \A g \in Hooks' : verdict'[g] \notin {"chosen", "swap", "fail"}
  BY <1>0, TellType DEF ParkRefused, ParkFails, Close
<1>v. verdict'[h] = Verdict(h, "refused") /\ took'[h] = took[h]
  BY <1>0 DEF TypeOK, ParkRefused, ParkFails, Tell, Close, othersVars
<1>1. TypeOK'
  <2>1. RendezvousTypeOK'
    BY DEF TypeOK, RendezvousTypeOK, rendezvous, ParkRefused, ParkFails, Close
  <2>2. at' \in [Holds -> Points] /\ persist' \in [Holds -> {"none", "queued", "writing", "refused"}]
    BY DEF TypeOK, Points, ParkRefused, ParkFails, Close
  <2>3. disk' \subseteq Holds /\ call' = call /\ took' = took
    BY DEF TypeOK, othersVars, ParkRefused, ParkFails, Close
  <2>. QED  BY <2>1, <2>2, <2>3, <1>0, <1>t DEF TypeOK
<1>2. GoodHold(h)'
  <2>. USE DEF GoodHold, TypeOK, RendezvousTypeOK, rendezvous, othersVars
  <2>1. Fresh(h)'
    BY <1>0 DEF Fresh, Unregistered, ParkRefused, ParkFails, Close
  <2>2. Entry(h)'
    BY <1>0 DEF Entry, Fresh, Unregistered, Open, ParkRefused, ParkFails, Close
  <2>3. Taken(h)'
    BY <1>0, <1>v, VerdictKind, ApprovalsAssumption DEF Taken, Said, Fresh, Unregistered, ParkRefused, ParkFails, Close
  <2>4. Recorded(h)'
    BY <1>0, SameKinds, <1>v, VerdictKind DEF Recorded, ParkRefused, ParkFails, Close
  <2>5. Reached(h)'
    BY <1>0, SameKinds DEF Reached, ParkRefused, ParkFails, Close
  <2>. QED  BY <2>1, <2>2, <2>3, <2>4, <2>5
<1>3. \A g \in Holds : g # h => Same(g)
  BY DEF Same, TypeOK, RendezvousTypeOK, Points, Verdicts, vars, othersVars, rendezvous, ParkRefused, ParkFails, Tell, Close
<1>4. HoldInv'
  BY <1>0, <1>2, <1>3, OneHold
<1>5. CallInv'
  BY <1>0, SameCalls DEF TypeOK, RendezvousTypeOK, Unregistered, rendezvous, othersVars,
     ParkRefused, ParkFails, Close
<1>. QED  BY <1>1, <1>4, <1>5

LEMMA CancelsParkInv ==
    ASSUME IInv, NEW h \in Holds, CancelsPark(h)
    PROVE  IInv'
<1>. USE DEF IInv
<1>0. kind' = kind /\ GoodHold(h)
  BY DEF CancelsPark, ParkFails, Tell, Close, HoldInv, othersVars
<1>t. /\ verdict' \in [Holds -> Verdicts]
      /\ \A g \in Fallbacks' : verdict'[g] \notin {"allow", "deny"}
      /\ \A g \in Hooks' : verdict'[g] \notin {"chosen", "swap", "fail"}
  BY <1>0, TellType DEF CancelsPark, ParkFails, Close
<1>v. verdict'[h] = Verdict(h, "cancelled") /\ took'[h] = took[h]
  BY <1>0 DEF TypeOK, CancelsPark, ParkFails, Tell, Close, othersVars
<1>1. TypeOK'
  <2>1. RendezvousTypeOK'
    BY DEF TypeOK, RendezvousTypeOK, rendezvous, CancelsPark, ParkFails, Close
  <2>2. at' \in [Holds -> Points] /\ persist' \in [Holds -> {"none", "queued", "writing", "refused"}]
    BY DEF TypeOK, Points, CancelsPark, ParkFails, Close
  <2>3. disk' \subseteq Holds /\ call' = call /\ took' = took
    BY DEF TypeOK, othersVars, CancelsPark, ParkFails, Close
  <2>. QED  BY <2>1, <2>2, <2>3, <1>0, <1>t DEF TypeOK
<1>2. GoodHold(h)'
  <2>. USE DEF GoodHold, TypeOK, RendezvousTypeOK, rendezvous, othersVars
  <2>1. Fresh(h)'
    BY <1>0 DEF Fresh, Unregistered, CancelsPark, ParkFails, Close
  <2>2. Entry(h)'
    BY <1>0 DEF Entry, Fresh, Unregistered, Open, CancelsPark, ParkFails, Close
  <2>3. Taken(h)'
    BY <1>0, <1>v, VerdictKind, ApprovalsAssumption DEF Taken, Said, Fresh, Unregistered, CancelsPark, ParkFails, Close
  <2>4. Recorded(h)'
    BY <1>0, SameKinds, <1>v, VerdictKind DEF Recorded, CancelsPark, ParkFails, Close
  <2>5. Reached(h)'
    BY <1>0, SameKinds DEF Reached, CancelsPark, ParkFails, Close
  <2>. QED  BY <2>1, <2>2, <2>3, <2>4, <2>5
<1>3. \A g \in Holds : g # h => Same(g)
  BY DEF Same, TypeOK, RendezvousTypeOK, Points, Verdicts, vars, othersVars, rendezvous, CancelsPark, ParkFails, Tell, Close
<1>4. HoldInv'
  BY <1>0, <1>2, <1>3, OneHold
<1>5. CallInv'
  BY <1>0, SameCalls DEF TypeOK, RendezvousTypeOK, Unregistered, rendezvous, othersVars,
     CancelsPark, ParkFails, Close
<1>. QED  BY <1>1, <1>4, <1>5

LEMMA SweepRecordInv ==
    ASSUME IInv, NEW h \in Holds, SweepRecord(h)
    PROVE  IInv'
<1>. USE DEF IInv
<1>0. kind' = kind /\ GoodHold(h)
  BY DEF SweepRecord, HoldInv, othersVars
<1>1. TypeOK'
  BY SameKinds, <1>0 DEF TypeOK, RendezvousTypeOK, Points, Verdicts, vars, othersVars, rendezvous, SweepRecord
<1>2. GoodHold(h)'
  <2>. USE DEF GoodHold, TypeOK, RendezvousTypeOK, rendezvous, othersVars
  <2>1. Fresh(h)'
    BY <1>0 DEF Fresh, Unregistered, SweepRecord
  <2>2. Entry(h)'
    BY <1>0 DEF Entry, Fresh, Unregistered, Open, SweepRecord
  <2>3. Taken(h)'
    BY <1>0, ApprovalsAssumption DEF Taken, Said, Fresh, Unregistered, SweepRecord
  <2>4. Recorded(h)'
    BY <1>0, SameKinds DEF Recorded, SweepRecord
  <2>5. Reached(h)'
    BY <1>0, SameKinds DEF Reached, SweepRecord
  <2>. QED  BY <2>1, <2>2, <2>3, <2>4, <2>5
<1>3. \A g \in Holds : g # h => Same(g)
  BY DEF Same, TypeOK, RendezvousTypeOK, Points, Verdicts, vars, othersVars, rendezvous, SweepRecord
<1>4. HoldInv'
  BY <1>0, <1>2, <1>3, OneHold
<1>5. CallInv'
  BY <1>0, SameCalls DEF TypeOK, RendezvousTypeOK, Unregistered, rendezvous, othersVars,
     SweepRecord
<1>. QED  BY <1>1, <1>4, <1>5

-------------------------------------------------------------------------------
(* Those who answer.                                                       *)

(* A callback runs: an open future gets the answer that was taken.         *)
LEMMA DeliverInv ==
    ASSUME IInv, NEW h \in Holds, Deliver(h),
           UNCHANGED <<at, verdict, disk, persist, othersVars>>
    PROVE  IInv'
<1>. USE DEF IInv
<1>0. kind' = kind /\ GoodHold(h) /\ items' = items
  BY DEF HoldInv, othersVars, Deliver
<1>1. PICK a \in Answers : posted[h] = <<a>> /\ Said(h, a)
  BY <1>0 DEF GoodHold, Taken, Deliver
<1>2. Head(posted[h]) = a /\ Tail(posted[h]) = <<>>
  BY <1>1
<1>3. /\ future' = [future EXCEPT ![h] = IF Open(h) THEN a ELSE future[h]]
      /\ posted' = [posted EXCEPT ![h] = <<>>]
  BY <1>2 DEF Deliver
<1>4. h \notin items /\ at[h] \notin Unregistered
  BY <1>0, <1>1 DEF GoodHold, Entry, Fresh
<1>5. TypeOK'
  BY SameKinds, <1>0, <1>3 DEF TypeOK, RendezvousTypeOK, othersVars
<1>6. GoodHold(h)'
  <2>. USE DEF GoodHold, TypeOK, RendezvousTypeOK, othersVars
  <2>1. Fresh(h)' /\ Entry(h)'
    BY <1>0, <1>4 DEF Fresh, Entry
  <2>2. future'[h] = (IF Open(h) THEN a ELSE future[h]) /\ posted'[h] = <<>>
    BY <1>3
  <2>3. Taken(h)'
    BY <1>0, <1>1, <2>2 DEF Taken, Said
  <2>4. Recorded(h)' /\ Reached(h)'
    BY <1>0, SameKinds DEF Recorded, Reached
  <2>. QED  BY <2>1, <2>3, <2>4
<1>7. \A g \in Holds : g # h => Same(g)
  BY <1>0, <1>3 DEF Same, TypeOK, RendezvousTypeOK, othersVars
<1>8. HoldInv'
  BY <1>0, <1>6, <1>7, OneHold
<1>9. CallInv'
  BY <1>0, SameCalls DEF othersVars
<1>. QED  BY <1>5, <1>8, <1>9

(* Popping open entries and posting one answer to each.                    *)
LEMMA WakeHolds ==
    ASSUME IInv, NEW hs \in SUBSET items, NEW who \in Takers,
           NEW answer \in Answers, Wake(hs, who, answer),
           answer = "approved" => who \in Resolvers,
           UNCHANGED <<kind, at, verdict, disk, persist>>
    PROVE  /\ HoldInv' /\ RendezvousTypeOK'
           /\ took' \in [Holds -> SUBSET (Takers \X Answers)]
           /\ items' \subseteq items
<1>. USE DEF IInv
<1>1. items \subseteq Holds /\ items' = items \ hs /\ future' = future
  BY DEF Wake, Drain, TypeOK, RendezvousTypeOK
<1>2. \A h \in items : Open(h) /\ took[h] = {} /\ posted[h] = <<>>
  BY <1>1 DEF HoldInv, GoodHold, Entry
<1>3. took' = [h \in Holds |-> IF h \in hs THEN {<<who, answer>>} ELSE took[h]]
  BY <1>1, <1>2 DEF Wake
<1>4. Append(<<>>, answer) = <<answer>>
  OBVIOUS
<1>5. posted' = [h \in Holds |-> IF h \in hs THEN <<answer>> ELSE posted[h]]
  BY <1>1, <1>2, <1>4 DEF Wake, Drain
<1>6. RendezvousTypeOK'
  BY <1>1, <1>5 DEF TypeOK, RendezvousTypeOK
<1>7. took' \in [Holds -> SUBSET (Takers \X Answers)]
  BY <1>3 DEF TypeOK
<1>8. ASSUME NEW h \in Holds PROVE GoodHold(h)'
  <2>1. CASE h \notin hs
    <3>1. Same(h)
      BY <2>1, <1>1, <1>3, <1>5 DEF Same
    <3>. QED  BY <3>1, SameHold DEF HoldInv
  <2>2. CASE h \in hs
    <3>1. GoodHold(h) /\ h \in items /\ took[h] = {} /\ Open(h) /\ at[h] \notin Unregistered
      BY <2>2, <1>2 DEF HoldInv, GoodHold, Fresh
    <3>2. took'[h] = {<<who, answer>>} /\ posted'[h] = <<answer>> /\ h \notin items'
      BY <2>2, <1>1, <1>3, <1>5
    <3>3. Fresh(h)' /\ Entry(h)'
      BY <3>1, <3>2 DEF Fresh, Entry
    <3>4. ~Said(h, "approved")
      BY <3>1 DEF Said
    <3>5. Said(h, answer)' /\ future'[h] \notin Answers
      BY <3>1, <3>2, <1>1, ApprovalsAssumption DEF Said, Open
    <3>6. Taken(h)'
      BY <3>1, <3>2, <3>4, <3>5 DEF GoodHold, Taken
    <3>7. Recorded(h)' /\ Reached(h)'
      BY <3>1, <3>2, SameKinds DEF GoodHold, Recorded, Reached
    <3>. QED  BY <3>3, <3>6, <3>7 DEF GoodHold
  <2>. QED  BY <2>1, <2>2
<1>. QED  BY <1>1, <1>6, <1>7, <1>8 DEF HoldInv

LEMMA WakeAlone ==
    ASSUME IInv, NEW hs \in SUBSET items, NEW who \in {"stop", "sweep"},
           Wake(hs, who, "aborted"),
           UNCHANGED <<kind, at, verdict, disk, persist, call>>
    PROVE  IInv'
<1>1. "aborted" \in Answers /\ who \in Takers
  BY ApprovalsAssumption DEF Takers
<1>2. /\ HoldInv' /\ RendezvousTypeOK' /\ items' \subseteq items
      /\ took' \in [Holds -> SUBSET (Takers \X Answers)]
  BY <1>1, WakeHolds
<1>3. CallInv'
  BY <1>2, SameCalls DEF IInv
<1>4. TypeOK'
  BY <1>2, SameKinds DEF IInv, TypeOK
<1>. QED  BY <1>2, <1>3, <1>4 DEF IInv

LEMMA StopInv ==
    ASSUME IInv, NEW t \in Threads, Stop(t)
    PROVE  IInv'
  BY WakeAlone DEF Stop

LEMMA SweepFutureInv ==
    ASSUME IInv, NEW h \in Holds, SweepFuture(h)
    PROVE  IInv'
  BY WakeAlone DEF SweepFuture

(* A call that moves, and finds its hold gone unless it is a bridged one.  *)
LEMMA MovedCall ==
    ASSUME IInv, NEW r \in Resolvers, NEW pc, NEW h, Goes(r, pc, h),
           pc \in {"loading", "found", "cleaning"} =>
               /\ h \in Holds
               /\ h \in OnLoop => h \notin items' /\ at[h] \notin Unregistered,
           kind' = kind, at' = at, items' \subseteq items
    PROVE  CallInv'
<1>1. OnLoop' = OnLoop /\ OnLoop \subseteq Holds
  BY DEF OnLoop, Bridged
<1>2. call' = [call EXCEPT ![r] = [pc |-> pc, hold |-> h]]
  BY DEF Goes
<1>3. call'[r] = [pc |-> pc, hold |-> h]
  BY <1>2 DEF IInv, TypeOK
<1>4. \A q \in Resolvers : q # r => call'[q] = call[q]
  BY <1>2 DEF IInv, TypeOK
<1>5. Missed(r)' /\ Called(r)'
  BY <1>1, <1>3 DEF Missed, Called
<1>6. ASSUME NEW q \in Resolvers, q # r PROVE Missed(q)' /\ Called(q)'
  BY <1>1, <1>4, <1>6 DEF Missed, Called, IInv, CallInv
<1>. QED  BY <1>5, <1>6 DEF CallInv

LEMMA CallType ==
    ASSUME TypeOK, NEW r \in Resolvers, NEW h \in Holds \cup {None},
           NEW pc \in {"idle", "loading", "found", "cleaning", "done"}, Goes(r, pc, h)
    PROVE  call' \in [Resolvers -> Calls]
  BY DEF TypeOK, Goes, Calls

LEMMA AnswerInv ==
    ASSUME IInv, NEW r \in Resolvers, NEW h \in Holds, Answer(r, h),
           h \in OnLoop => at[h] \notin Unregistered,
           UNCHANGED <<kind, at, verdict, disk, persist>>
    PROVE  IInv'
<1>1. PICK answer \in {"approved", "denied"} : Wake({h} \cap items, r, answer)
  BY DEF Answer
<1>2. answer \in Answers /\ r \in Takers
  BY ApprovalsAssumption DEF Takers
<1>3. /\ HoldInv' /\ RendezvousTypeOK' /\ items' \subseteq items
      /\ took' \in [Holds -> SUBSET (Takers \X Answers)]
  BY <1>1, <1>2, WakeHolds
<1>4. h \notin items'
  BY <1>1 DEF Wake, Drain
<1>5. PICK pc \in {"done", "cleaning"}, g \in {None, h} :
          Goes(r, pc, g) /\ (pc = "cleaning" => g = h)
  BY DEF Answer
<1>6. CallInv'
  BY <1>3, <1>4, <1>5, MovedCall
<1>7. call' \in [Resolvers -> Calls]
  BY <1>5, CallType DEF IInv
<1>8. TypeOK'
  BY <1>3, <1>7, SameKinds DEF IInv, TypeOK
<1>. QED  BY <1>3, <1>6, <1>8 DEF IInv

(* A call that changes nothing of the holds but, at most, drops a record.  *)
LEMMA QuietCall ==
    ASSUME IInv, NEW r \in Resolvers,
           NEW pc \in {"idle", "loading", "found", "cleaning", "done"},
           NEW h \in Holds \cup {None}, Goes(r, pc, h),
           pc \in {"loading", "found", "cleaning"} =>
               /\ h \in Holds
               /\ h \in OnLoop => h \notin items /\ at[h] \notin Unregistered,
           UNCHANGED <<rendezvous, kind, at, verdict, persist, took>>,
           disk' \subseteq disk
    PROVE  IInv'
<1>. USE DEF IInv
<1>1. CallInv'
  BY MovedCall DEF rendezvous
<1>2. \A g \in Holds : Same(g)
  BY DEF Same, rendezvous
<1>3. HoldInv'
  BY <1>2, SameHold DEF HoldInv
<1>4. call' \in [Resolvers -> Calls]
  BY CallType
<1>5. TypeOK'
  BY <1>4, SameKinds DEF TypeOK, RendezvousTypeOK, rendezvous
<1>. QED  BY <1>1, <1>3, <1>5

LEMMA LooksInv ==
    ASSUME IInv, NEW r \in Resolvers, NEW h \in Holds, Looks(r, h)
    PROVE  IInv'
<1>1. HoldInv /\ GoodHold(h)
  BY DEF IInv, HoldInv
<1>2. CASE h \in items \cap OnLoop
  <2>1. at[h] \notin Unregistered
    BY <1>1, <1>2 DEF GoodHold, Fresh
  <2>. QED  BY <1>2, <2>1, AnswerInv DEF Looks
<1>3. CASE h \notin items \cap OnLoop
  <2>1. h \in OnLoop => at[h] # "written"
    BY <1>1 DEF GoodHold, Reached
  <2>. QED  BY <1>3, <2>1, QuietCall DEF Looks, rendezvous, Unregistered
<1>. QED  BY <1>2, <1>3

LEMMA LoadsInv ==
    ASSUME IInv, NEW r \in Resolvers, Loads(r)
    PROVE  IInv'
<1>1. Missed(r) /\ Called(r) /\ call[r].pc = "loading"
  BY DEF IInv, CallInv, Loads
<1>2. call[r].hold \in Holds
  BY <1>1 DEF Called
<1>3. call[r].hold \in OnLoop =>
          call[r].hold \notin items /\ at[call[r].hold] \notin Unregistered
  BY <1>1 DEF Missed
<1>4. PICK pc \in {"found", "done"}, g \in {call[r].hold, None} :
          Goes(r, pc, g) /\ (pc = "found" => g = call[r].hold)
  BY DEF Loads
<1>. QED  BY <1>2, <1>3, <1>4, QuietCall DEF Loads

LEMMA ResolvesInv ==
    ASSUME IInv, NEW r \in Resolvers, Resolves(r)
    PROVE  IInv'
<1>1. Missed(r) /\ Called(r) /\ call[r].pc = "found"
  BY DEF IInv, CallInv, Resolves
<1>2. call[r].hold \in Holds
  BY <1>1 DEF Called
<1>3. call[r].hold \in OnLoop => at[call[r].hold] \notin Unregistered
  BY <1>1 DEF Missed
<1>. QED  BY <1>2, <1>3, AnswerInv DEF Resolves

LEMMA CleansInv ==
    ASSUME IInv, NEW r \in Resolvers, Cleans(r)
    PROVE  IInv'
  BY QuietCall DEF Cleans

(* What is left after a crash: records, verdicts and who was told what.    *)
LEMMA CrashInv ==
    ASSUME IInv, Crash
    PROVE  IInv'
<1>. USE DEF IInv
<1>1. /\ items' = {} /\ kind' = kind /\ verdict' = verdict /\ disk' = disk
      /\ took' = took
      /\ future' = [h \in Holds |-> "none"] /\ posted' = [h \in Holds |-> <<>>]
      /\ persist' = [h \in Holds |-> "none"]
      /\ at' = [h \in Holds |->
                  IF at[h] \in {"new", "ended"} THEN at[h] ELSE "lost"]
  BY DEF Crash, Forget
<1>2. ASSUME NEW r \in Resolvers
      PROVE  /\ call'[r] \in Calls
             /\ call'[r].pc \notin {"loading", "found", "cleaning"}
  BY DEF Crash, TypeOK, Calls
<1>3. call' \in [Resolvers -> Calls]
  BY <1>2 DEF Crash
<1>4. TypeOK'
  BY <1>1, <1>3, SameKinds DEF TypeOK, RendezvousTypeOK, Points
<1>5. ASSUME NEW h \in Holds PROVE GoodHold(h)'
  <2>1. GoodHold(h) /\ items' = {} /\ future'[h] = "none" /\ posted'[h] = <<>>
        /\ persist'[h] = "none"
        /\ at'[h] = IF at[h] \in {"new", "ended"} THEN at[h] ELSE "lost"
    BY <1>1 DEF HoldInv
  <2>2. Fresh(h)' /\ Entry(h)'
    BY <1>1, <2>1 DEF GoodHold, Fresh, Entry, Unregistered
  <2>3. Taken(h)'
    BY <1>1, <2>1, ApprovalsAssumption DEF GoodHold, Taken, Said
  <2>4. Recorded(h)' /\ Reached(h)'
    BY <1>1, <2>1, SameKinds DEF GoodHold, Recorded, Reached
  <2>. QED  BY <2>2, <2>3, <2>4 DEF GoodHold
<1>6. CallInv'
  BY <1>2 DEF CallInv, Missed, Called
<1>. QED  BY <1>4, <1>5, <1>6 DEF HoldInv

-------------------------------------------------------------------------------

LEMMA InitInv == Init => IInv
<1>. SUFFICES ASSUME Init PROVE IInv
  OBVIOUS
<1>1. TypeOK
  <2>1. RendezvousTypeOK
    BY DEF Init, RendezvousInit, RendezvousTypeOK
  <2>2. call \in [Resolvers -> Calls]
    BY DEF Init, Calls
  <2>3. /\ verdict \in [Holds -> Verdicts]
        /\ \A h \in Holds : verdict[h] = "none"
    BY DEF Init, Verdicts
  <2>. QED  BY <2>1, <2>2, <2>3 DEF Init, TypeOK, Points, Fallbacks, Hooks
<1>2. HoldInv
  BY ApprovalsAssumption DEF Init, RendezvousInit, HoldInv, GoodHold, Fresh, Entry,
     Taken, Said, Recorded, Reached, Unregistered
<1>3. CallInv
  BY DEF Init, CallInv, Missed, Called
<1>. QED  BY <1>1, <1>2, <1>3 DEF IInv

LEMMA WaitInv ==
    ASSUME IInv, NEW h \in Holds, Wait(h)
    PROVE  IInv'
<1>1. CASE Resumes(h)
  <2>1. future[h] \in Answers /\ Leave(h, future[h])
    BY <1>1 DEF Resumes
  <2>2. Said(h, future[h])
    BY <2>1 DEF IInv, HoldInv, GoodHold, Taken
  <2>. QED  BY <2>1, <2>2, LeaveInv
<1>2. CASE TimesOut(h) \/ CancelsWait(h)
  BY <1>2, LeaveInv DEF TimesOut, CancelsWait
<1>3. CASE Mint(h) \/ MintRefused(h) \/ BridgeChecks(h) \/ BridgeWrites(h)
           \/ BridgeRegisters(h) \/ BridgeDeletes(h)
  BY <1>3, MintInv, MintRefusedInv, BridgeChecksInv, BridgeWritesInv,
     BridgeRegistersInv, BridgeDeletesInv
<1>4. CASE Parks(h) \/ PersistChecks(h) \/ PersistWrites(h) \/ Announces(h)
           \/ ParkRefused(h) \/ CancelsPark(h)
  BY <1>4, ParksInv, PersistChecksInv, PersistWritesInv, AnnouncesInv,
     ParkRefusedInv, CancelsParkInv
<1>5. CASE Deliver(h) /\ UNCHANGED <<at, verdict, disk, persist, othersVars>>
  BY <1>5, DeliverInv
<1>. QED  BY <1>1, <1>2, <1>3, <1>4, <1>5 DEF Wait

LEMMA NextInv == IInv /\ [Next]_vars => IInv'
<1>. SUFFICES ASSUME IInv, [Next]_vars PROVE IInv'
  OBVIOUS
<1>1. CASE UNCHANGED vars
  <2>1. \A g \in Holds : Same(g)
    BY <1>1 DEF vars, othersVars, Same, rendezvous
  <2>2. HoldInv'
    BY <1>1, <2>1, SameHold DEF vars, othersVars, IInv, HoldInv
  <2>3. CallInv'
    BY <1>1, SameCalls DEF vars, othersVars, rendezvous, IInv
  <2>4. TypeOK'
    BY <1>1, SameKinds DEF vars, othersVars, rendezvous, IInv, TypeOK, RendezvousTypeOK
  <2>. QED  BY <2>2, <2>3, <2>4 DEF IInv
<1>2. CASE \E h \in Holds : Wait(h) \/ SweepFuture(h) \/ SweepRecord(h)
  BY <1>2, WaitInv, SweepFutureInv, SweepRecordInv
<1>3. CASE \E r \in Resolvers : Resolve(r)
  BY <1>3, LooksInv, LoadsInv, ResolvesInv, CleansInv DEF Resolve
<1>4. CASE (\E t \in Threads : Stop(t)) \/ Crash
  BY <1>4, StopInv, CrashInv
<1>. QED  BY <1>1, <1>2, <1>3, <1>4 DEF Next

LEMMA Inductive == Spec => []IInv
  BY InitInv, NextInv, PTL DEF Spec

-------------------------------------------------------------------------------

(* Every variable has a value the code gives it.                           *)
THEOREM TypeCorrect == Spec => []TypeOK
<1>1. IInv => TypeOK
  BY DEF IInv
<1>. QED  BY <1>1, Inductive, PTL

(* At most one resolve call, stop or sweep is told that it woke a waiter.  *)
THEOREM OneAnswer == Spec => []OneTaker
<1>1. IInv => OneTaker
  BY DEF IInv, HoldInv, GoodHold, Taken, OneTaker
<1>. QED  BY <1>1, Inductive, PTL

(* Nothing goes ahead as approved unless a resolve call approved it.       *)
THEOREM OnlyByConsent == Spec => []Consent
<1>1. ASSUME IInv, NEW h \in Holds, verdict[h] \in {"allow", "chosen"}
      PROVE  \E r \in Resolvers : <<r, "approved">> \in took[h]
  <2>1. Taken(h)
    BY <1>1 DEF IInv, HoldInv, GoodHold
  <2>2. Said(h, "approved")
    BY <1>1, <2>1 DEF Taken
  <2>3. PICK w \in Takers : <<w, "approved">> \in took[h]
    BY <2>2 DEF Said
  <2>. QED  BY <2>1, <2>3 DEF Taken
<1>2. IInv => Consent
  BY <1>1 DEF Consent
<1>. QED  BY <1>2, Inductive, PTL

(* A waiter that ended left no record, unless its turn was cancelled while *)
(* the record was persisted.                                               *)
THEOREM WaitersClean == Spec => []NoOrphans
<1>1. IInv => NoOrphans
  BY DEF IInv, TypeOK, HoldInv, GoodHold, Recorded, NoOrphans
<1>. QED  BY <1>1, Inductive, PTL

(* Nobody is told that a hold is stale while it waits for its answer.      *)
THEOREM StaleOver == Spec => []StaleIsOver
<1>1. ASSUME IInv, NEW r \in Resolvers, NEW h \in OnLoop,
             call[r].pc = "cleaning", call[r].hold = h, at[h] = "waiting"
      PROVE  took[h] # {}
  <2>1. h \in Holds
    BY DEF OnLoop
  <2>2. Reached(h) /\ h \notin items
    BY <1>1, <2>1 DEF IInv, HoldInv, GoodHold, CallInv, Missed
  <2>. QED  BY <1>1, <2>2 DEF Reached
<1>2. IInv => StaleIsOver
  BY <1>1 DEF StaleIsOver
<1>. QED  BY <1>2, Inductive, PTL

-------------------------------------------------------------------------------
(* The cap.  A fallback is let in by its check, which counts everything    *)
(* that is registered: whoever was let in before and is still registered   *)
(* is counted, because it registered before it checked.                    *)

LetIn(h) ==
    /\ h \in items
    /\ \/ at[h] = "waiting"
       \/ persist[h] = "writing"
       \/ at[h] = "persisting" /\ persist[h] = "none"

Admitted == {h \in Fallbacks : LetIn(h)}

BoundInv ==
    /\ IsFiniteSet(items) /\ IsFiniteSet(disk)
    /\ Cardinality(Admitted) <= Cap

(* No step but a check lets a fallback in.                                 *)
LEMMA LetInStep ==
    ASSUME IInv, [Next]_vars, NEW g \in Fallbacks, LetIn(g)', ~LetIn(g)
    PROVE  PersistChecks(g) /\ RoomFor(g)
<1>. USE DEF IInv
<1>. DEFINE Aside == <<at, verdict, disk, persist, othersVars>>
<1>0. at \in [Holds -> Points] /\ DOMAIN persist = Holds
  BY DEF TypeOK
<1>1. g \in Holds /\ GoodHold(g) /\ g \notin Bridged
  BY DEF Fallbacks, Bridged, HoldInv
<1>2. at[g] # "written" /\ (at[g] = "new" => g \notin items)
  BY <1>1 DEF GoodHold, Reached, Fresh, OnLoop, Unregistered
<1>3. PICK h \in Holds : Wait(h)
  <2>1. CASE UNCHANGED vars
    BY <2>1 DEF vars, rendezvous, LetIn
  <2>2. ASSUME NEW h \in Holds, SweepFuture(h) \/ SweepRecord(h) PROVE FALSE
    BY <2>2 DEF SweepFuture, SweepRecord, Wake, Drain, rendezvous, LetIn
  <2>3. ASSUME NEW r \in Resolvers, Resolve(r) PROVE FALSE
    BY <2>3 DEF Resolve, Looks, Loads, Resolves, Cleans, Answer, Wake, Drain,
       rendezvous, LetIn
  <2>4. ASSUME NEW t \in Threads, Stop(t) PROVE FALSE
    BY <2>4 DEF Stop, Wake, Drain, LetIn
  <2>5. ~Crash
    BY DEF Crash, Forget, LetIn
  <2>. QED  BY <2>1, <2>2, <2>3, <2>4, <2>5 DEF Next
<1>4. ASSUME Deliver(h) /\ UNCHANGED Aside PROVE FALSE
  BY <1>0, <1>1, <1>2, <1>4 DEF Deliver, LetIn
<1>5. ASSUME MintRefused(h) PROVE FALSE
  BY <1>0, <1>1, <1>2, <1>5 DEF MintRefused, rendezvous, LetIn
<1>6. ASSUME BridgeChecks(h) PROVE FALSE
  BY <1>0, <1>1, <1>2, <1>6 DEF BridgeChecks, rendezvous, LetIn
<1>7. ASSUME BridgeWrites(h) PROVE FALSE
  BY <1>0, <1>1, <1>2, <1>7 DEF BridgeWrites, rendezvous, LetIn
<1>8. ASSUME BridgeDeletes(h) PROVE FALSE
  BY <1>0, <1>1, <1>2, <1>8 DEF BridgeDeletes, rendezvous, LetIn
<1>9. ASSUME Mint(h) PROVE FALSE
  BY <1>0, <1>1, <1>2, <1>9 DEF Mint, Add, Hooks, LetIn
<1>10. ASSUME BridgeRegisters(h) PROVE FALSE
  BY <1>0, <1>1, <1>2, <1>10 DEF BridgeRegisters, Add, LetIn
<1>11. ASSUME Resumes(h) \/ TimesOut(h) \/ CancelsWait(h) PROVE FALSE
  BY <1>0, <1>1, <1>2, <1>11 DEF Resumes, TimesOut, CancelsWait, Leave, LeavesRecord, LetIn
<1>12. ASSUME Parks(h) PROVE FALSE
  BY <1>0, <1>1, <1>2, <1>12 DEF Parks, Add, LetIn
<1>13. ASSUME PersistWrites(h) PROVE FALSE
  BY <1>0, <1>1, <1>2, <1>13 DEF PersistWrites, rendezvous, LetIn
<1>14. ASSUME Announces(h) PROVE FALSE
  BY <1>0, <1>1, <1>2, <1>14 DEF Announces, rendezvous, LetIn
<1>15. ASSUME ParkRefused(h) PROVE FALSE
  BY <1>0, <1>1, <1>2, <1>15 DEF ParkRefused, ParkFails, LetIn
<1>16. ASSUME CancelsPark(h) PROVE FALSE
  BY <1>0, <1>1, <1>2, <1>16 DEF CancelsPark, ParkFails, LetIn
<1>17. PersistChecks(h)
  BY <1>3, <1>4, <1>5, <1>6, <1>7, <1>8, <1>9, <1>10, <1>11, <1>12, <1>13, <1>14, <1>15, <1>16 DEF Wait
<1>18. g = h /\ RoomFor(g)
  BY <1>0, <1>1, <1>17 DEF PersistChecks, rendezvous, LetIn
<1>. QED  BY <1>17, <1>18

(* The registry and the directory grow by one entry at most, and no hold   *)
(* changes its kind.                                                       *)
LEMMA Growth ==
    ASSUME [Next]_vars
    PROVE  /\ kind' = kind
           /\ \E h : items' \subseteq items \cup {h} /\ disk' \subseteq disk \cup {h}
<1>. DEFINE Grows(h) == items' \subseteq items \cup {h} /\ disk' \subseteq disk \cup {h}
<1>1. CASE UNCHANGED vars
  BY <1>1 DEF vars, othersVars, rendezvous
<1>2. ASSUME NEW h \in Holds, Wait(h) PROVE kind' = kind /\ Grows(h)
  <2>1. CASE Mint(h) \/ MintRefused(h) \/ BridgeChecks(h) \/ BridgeWrites(h)
             \/ BridgeRegisters(h) \/ BridgeDeletes(h)
    BY <2>1 DEF Mint, MintRefused, BridgeChecks, BridgeWrites, BridgeRegisters,
       BridgeDeletes, Add, rendezvous, othersVars
  <2>2. CASE Parks(h) \/ PersistChecks(h) \/ PersistWrites(h) \/ Announces(h)
             \/ ParkRefused(h) \/ CancelsPark(h)
    BY <2>2 DEF Parks, PersistChecks, PersistWrites, Announces, ParkRefused,
       CancelsPark, ParkFails, Add, rendezvous, othersVars
  <2>3. CASE Resumes(h) \/ TimesOut(h) \/ CancelsWait(h)
    BY <2>3 DEF Resumes, TimesOut, CancelsWait, Leave, LeavesRecord, othersVars
  <2>4. CASE Deliver(h) /\ UNCHANGED <<at, verdict, disk, persist, othersVars>>
    BY <2>4 DEF Deliver, othersVars
  <2>. QED  BY <1>2, <2>1, <2>2, <2>3, <2>4 DEF Wait
<1>3. ASSUME NEW h \in Holds, SweepFuture(h) \/ SweepRecord(h)
      PROVE  kind' = kind /\ Grows(h)
  BY <1>3 DEF SweepFuture, SweepRecord, Wake, Drain, rendezvous, othersVars
<1>4. ASSUME NEW r \in Resolvers, Resolve(r) PROVE kind' = kind /\ Grows(r)
  BY <1>4 DEF Resolve, Looks, Loads, Resolves, Cleans, Answer, Wake, Drain, rendezvous
<1>5. ASSUME NEW t \in Threads, Stop(t) PROVE kind' = kind /\ Grows(t)
  BY <1>5 DEF Stop, Wake, Drain
<1>6. CASE Crash
  BY <1>6 DEF Crash, Forget
<1>. QED  BY <1>1, <1>2, <1>3, <1>4, <1>5, <1>6 DEF Next

LEMMA CapType == Cap \in Nat
  BY ApprovalsAssumption

LEMMA BoundStep ==
    ASSUME IInv, BoundInv, [Next]_vars
    PROVE  BoundInv'
<1>1. PICK e : items' \subseteq items \cup {e} /\ disk' \subseteq disk \cup {e}
  BY Growth
<1>2. IsFiniteSet(items') /\ IsFiniteSet(disk')
  BY <1>1, FS_AddElement, FS_Subset DEF BoundInv
<1>3. Admitted \subseteq items /\ IsFiniteSet(Admitted) /\ Cardinality(Admitted) \in Nat
  <2>1. Admitted \subseteq items
    BY DEF Admitted, LetIn
  <2>. QED  BY <2>1, FS_Subset, FS_CardinalityType DEF BoundInv
<1>4. Fallbacks' = Fallbacks
  BY Growth, SameKinds
<1>5. CASE \E g \in Fallbacks : LetIn(g)' /\ ~LetIn(g)
  <2>1. PICK g \in Fallbacks : LetIn(g)' /\ ~LetIn(g)
    BY <1>5
  <2>2. PersistChecks(g) /\ RoomFor(g)
    BY <2>1, LetInStep
  <2>3. \A f \in Fallbacks : LetIn(f)' /\ ~LetIn(f) => f = g
    <3>1. persist' = [persist EXCEPT ![g] = IF RoomFor(g) THEN "writing" ELSE "refused"]
      BY <2>2 DEF PersistChecks
    <3>2. ASSUME NEW f \in Fallbacks, LetIn(f)', ~LetIn(f), f # g PROVE FALSE
      <4>1. PersistChecks(f)
        BY <3>2, LetInStep
      <4>2. persist'[f] # persist[f]
        <5>1. f \in Holds /\ DOMAIN persist = Holds
          BY DEF Fallbacks, IInv, TypeOK
        <5>. QED  BY <4>1, <5>1 DEF PersistChecks
      <4>. QED  BY <3>1, <3>2, <4>2
    <3>. QED  BY <3>2
  <2>4. Admitted' \subseteq Admitted \cup {g}
    BY <2>3, <1>4 DEF Admitted
  <2>5. IsFiniteSet(Pending(g) \ {g})
    <3>1. IsFiniteSet(items \cup disk)
      BY FS_Union DEF BoundInv
    <3>2. Pending(g) \ {g} \subseteq items \cup disk
      BY DEF Pending
    <3>. QED  BY <3>1, <3>2, FS_Subset
  <2>6. Admitted \subseteq Pending(g) \ {g}
    BY <2>1 DEF Admitted, LetIn, Pending, Hooks
  <2>7. Cardinality(Admitted) <= Cardinality(Pending(g) \ {g})
    BY <2>5, <2>6, FS_Subset
  <2>8. Cardinality(Admitted) + 1 <= Cap
    <3>1. Cardinality(Pending(g) \ {g}) \in Nat
      BY <2>5, FS_CardinalityType
    <3>. QED  BY <1>3, <2>2, <2>7, <3>1, CapType DEF RoomFor, BoundInv
  <2>9. g \notin Admitted
    BY <2>1 DEF Admitted
  <2>10. /\ IsFiniteSet(Admitted \cup {g})
         /\ Cardinality(Admitted \cup {g}) = Cardinality(Admitted) + 1
    BY <1>3, <2>9, FS_AddElement
  <2>11. Cardinality(Admitted') <= Cardinality(Admitted \cup {g})
         /\ Cardinality(Admitted') \in Nat
    BY <2>4, <2>10, FS_Subset, FS_CardinalityType
  <2>. QED  BY <1>2, <1>3, <2>8, <2>10, <2>11, CapType DEF BoundInv
<1>6. CASE \A g \in Fallbacks : LetIn(g)' => LetIn(g)
  <2>1. Admitted' \subseteq Admitted
    BY <1>4, <1>6 DEF Admitted
  <2>2. Cardinality(Admitted') <= Cardinality(Admitted) /\ Cardinality(Admitted') \in Nat
    BY <1>3, <2>1, FS_Subset, FS_CardinalityType
  <2>. QED  BY <1>2, <1>3, <2>2, CapType DEF BoundInv
<1>. QED  BY <1>5, <1>6

LEMMA BoundInit == Init => BoundInv
<1>. SUFFICES ASSUME Init PROVE BoundInv
  OBVIOUS
<1>1. items = {} /\ disk = {}
  BY DEF Init, RendezvousInit
<1>2. Admitted = {}
  BY <1>1 DEF Admitted, LetIn
<1>3. IsFiniteSet({}) /\ Cardinality({}) = 0
  BY FS_EmptySet
<1>. QED  BY <1>1, <1>2, <1>3, CapType DEF BoundInv

(* No more than Cap fallbacks wait for an answer at once.                  *)
THEOREM CapKept == Spec => []UnansweredBound
<1>1. ASSUME BoundInv PROVE UnansweredBound
  <2>. DEFINE W == {h \in Fallbacks \cap items : at[h] = "waiting"}
  <2>1. W \subseteq Admitted /\ Admitted \subseteq items
    BY DEF Admitted, LetIn
  <2>2. IsFiniteSet(Admitted)
    BY <1>1, <2>1, FS_Subset DEF BoundInv
  <2>3. Cardinality(W) <= Cardinality(Admitted) /\ Cardinality(W) \in Nat
        /\ Cardinality(Admitted) \in Nat
    BY <2>1, <2>2, FS_Subset, FS_CardinalityType
  <2>4. Cardinality(W) <= Cap
    BY <1>1, <2>3, CapType DEF BoundInv
  <2>. QED  BY <2>4 DEF UnansweredBound
<1>2. Spec => []BoundInv
  BY BoundInit, BoundStep, Inductive, PTL DEF Spec
<1>. QED  BY <1>1, <1>2, PTL

===============================================================================
