------------------------------- MODULE TurnFeed -------------------------------
(***************************************************************************)
(* What the clients of a thread's turns are promised about the events a    *)
(* turn sends, whatever is evicted, cut, resumed or restarted between: a   *)
(* client is shown the events of one turn, from the first, in order, none  *)
(* twice and none left out, and it is told that the reply is whole only    *)
(* once it was shown an event that ends one.                               *)
(***************************************************************************)
EXTENDS Naturals

CONSTANTS Turns, Clients, None

VARIABLES
    made,       \* how many events each turn has sent
    ends,       \* which of them say that the turn ended
    of,         \* the turn whose events a client is shown
    upto,       \* the number of the last event it was shown
    shown,      \* how many it was shown
    verdict     \* what it was told in the end

vars == <<made, ends, of, upto, shown, verdict>>

Init ==
    /\ made = [t \in Turns |-> 0]
    /\ ends = [t \in Turns |-> {}]
    /\ of = [c \in Clients |-> None]
    /\ upto = [c \in Clients |-> 0] /\ shown = [c \in Clients |-> 0]
    /\ verdict = [c \in Clients |-> "open"]

Make(t) ==
    /\ made' = [made EXCEPT ![t] = @ + 1]
    /\ ends' \in {ends, [ends EXCEPT ![t] = @ \cup {made[t] + 1}]}
    /\ UNCHANGED <<of, upto, shown, verdict>>

Show(c, t) ==
    /\ of[c] \in {None, t}
    /\ upto[c] < made[t]
    /\ of' = [of EXCEPT ![c] = t]
    /\ upto' = [upto EXCEPT ![c] = @ + 1]
    /\ shown' = [shown EXCEPT ![c] = @ + 1]
    /\ UNCHANGED <<made, ends>>

EndSeen(c) == of[c] # None /\ \E n \in ends[of[c]] : n <= upto[c]

(* One step may settle several clients: the server restarts.               *)
Told(c) ==
    \/ verdict'[c] = verdict[c]
    \/ verdict[c] = "open" /\ verdict'[c] = "partial"
    \/ verdict[c] = "open" /\ verdict'[c] = "whole" /\ EndSeen(c)

Tell ==
    /\ verdict' \in [Clients -> {"open", "whole", "partial"}]
    /\ \A c \in Clients : Told(c)
    /\ UNCHANGED <<made, ends, of, upto, shown>>

Next ==
    \/ \E t \in Turns : Make(t)
    \/ \E c \in Clients, t \in Turns :
          /\ Show(c, t)
          /\ verdict[c] = "open"
          /\ verdict' \in {verdict, [verdict EXCEPT ![c] = "partial"]}
    \/ Tell

Spec == Init /\ [][Next]_vars
===============================================================================
