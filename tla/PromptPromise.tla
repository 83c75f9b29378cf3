--------------------------- MODULE PromptPromise ----------------------------
(***************************************************************************)
(* What Nymeria promises about a message sent to a thread, whatever turns, *)
(* stops, deletions and failures it meets there: it is refused, or it runs *)
(* as a turn of its own, or it is accepted into the queue and its sender   *)
(* told once what became of it.  Each happens at most once and excludes    *)
(* the others; one step may settle several messages (a stop, a clear).     *)
(***************************************************************************)
CONSTANTS
    Messages,
    Answers     \* what the sender of a queued message can be told

VARIABLE fate

Fates == {"new", "refused", "run", "pending"} \cup Answers

Init == fate = [m \in Messages |-> "new"]

May(before, after) ==
    \/ before = "new"     /\ after \in {"refused", "run", "pending"}
    \/ before = "pending" /\ after \in Answers

Next ==
    /\ fate' \in [Messages -> Fates]
    /\ \A m \in Messages : fate'[m] = fate[m] \/ May(fate[m], fate'[m])

Spec == Init /\ [][Next]_fate
=============================================================================
