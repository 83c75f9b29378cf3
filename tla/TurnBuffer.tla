------------------------------ MODULE TurnBuffer ------------------------------
(***************************************************************************)
(* core/turn_stream_buffer.py and core/loop_pulse.py, for one thread: a    *)
(* buffer per turn that keeps the last events the turn sent, the registry  *)
(* that names the current buffer, and the doorbell that wakes the readers. *)
(* An event is known by its number in its turn (seq); what it says does    *)
(* not matter here.  A writer may be a thread of its own, so each critical *)
(* section of an append is an operator of its own.                         *)
(***************************************************************************)
EXTENDS Integers

CONSTANTS
    Turns,
    OnLoop,     \* the turns that write from the readers' event loop
    Readers,
    MaxEvents,  \* MAX_EVENTS_PER_TURN
    None

ASSUME TurnBufferAssumption ==
    /\ OnLoop \subseteq Turns
    /\ MaxEvents \in Nat \ {0}
    /\ None \notin Turns

VARIABLES
    state,      \* what its buffer says of a turn; "none" before it has one
    stamped,    \* _next_seq - 1
    lo, hi,     \* _entries: the events lo .. hi, none if lo > hi
    current,    \* _buffers.get(thread_id)
    aged,       \* its turn ended more than the retention time ago
    doomed,     \* a buffer found expired, about to be discarded
    source,     \* the turn whose buffer a reader reads
    bell        \* the asyncio.Event a reader captured, and what became of it

buffers == <<state, stamped, lo, hi>>
registry == <<current, aged, doomed>>
doorbell == <<source, bell>>
turnBuffer == <<buffers, registry, doorbell>>

Ended == {"done", "error", "aborted"}

TurnBufferTypeOK ==
    /\ state \in [Turns -> {"none", "live"} \cup Ended]
    /\ stamped \in [Turns -> Nat] /\ hi \in [Turns -> Nat]
    /\ lo \in [Turns -> Nat \ {0}]
    /\ aged \in BOOLEAN
    /\ current \in Turns \cup {None} /\ doomed \in Turns \cup {None}
    /\ source \in [Readers -> Turns \cup {None}]
    /\ bell \in [Readers -> {"none", "armed", "rung", "set"}]

TurnBufferInit ==
    /\ state = [t \in Turns |-> "none"]
    /\ stamped = [t \in Turns |-> 0] /\ hi = [t \in Turns |-> 0]
    /\ lo = [t \in Turns |-> 1]
    /\ current = None /\ aged = FALSE /\ doomed = None
    /\ source = [r \in Readers |-> None]
    /\ bell = [r \in Readers |-> "none"]

(***************************************************************************)
(* The writer's side.                                                      *)
(***************************************************************************)
(* begin_turn: the predecessor stays live, it is managed by its runner.    *)
BeginTurn(t) ==
    /\ state' = [state EXCEPT ![t] = "live"]
    /\ current' = t /\ aged' = FALSE
    /\ UNCHANGED doomed

(* append is Stamp, Store and Ring, a critical section each.               *)
Stamp(t) == stamped' = [stamped EXCEPT ![t] = @ + 1]

(* The event is kept and the oldest are evicted: past MaxEvents always,    *)
(* and past the byte bound as many as it takes, the new one included.      *)
Store(t) ==
    LET last == hi[t] + 1
        first == IF lo[t] + MaxEvents > last THEN lo[t] ELSE last + 1 - MaxEvents
    IN  /\ hi' = [hi EXCEPT ![t] = last]
        /\ \E keep \in first .. last + 1 : lo' = [lo EXCEPT ![t] = keep]

(* Mutant: a writer off the loop swaps the event and sets nothing.         *)
RingOnLoopOnly(t) ==
    /\ bell' = [r \in Readers |->
                  IF source[r] = t /\ bell[r] = "armed" /\ t \in OnLoop
                  THEN "set" ELSE bell[r]]
    /\ UNCHANGED source

(* LoopPulse.ring: every listener's event is set, at once by a writer on   *)
(* the loop, by a callback of the loop (Callback) otherwise.               *)
Ring(t) ==
    /\ bell' = [r \in Readers |->
                  IF source[r] = t /\ bell[r] = "armed"
                  THEN IF t \in OnLoop THEN "set" ELSE "rung"
                  ELSE bell[r]]
    /\ UNCHANGED source

Finish(t, how) ==
    state' = [state EXCEPT ![t] = IF @ = "live" THEN how ELSE @]

Callback(r) ==
    /\ bell[r] = "rung"
    /\ bell' = [bell EXCEPT ![r] = "set"]
    /\ UNCHANGED source

(***************************************************************************)
(* The reader's side.                                                      *)
(***************************************************************************)
EntriesAfter(t, n) == {i \in lo[t] .. hi[t] : i > n}

HasReplayGap(t, n) ==
    IF lo[t] > hi[t] THEN lo[t] > 1 /\ n < stamped[t]
                     ELSE lo[t] > n + 1

(* LoopPulse.listen: it is the event of this moment that is captured.      *)
Listen(r) ==
    /\ bell' = [bell EXCEPT ![r] = "armed"]
    /\ UNCHANGED source

Subscribe(r, t) ==
    /\ source' = [source EXCEPT ![r] = t]
    /\ bell' = [bell EXCEPT ![r] = "none"]

(***************************************************************************)
(* The registry.                                                           *)
(***************************************************************************)
Age ==
    /\ current # None /\ ~aged
    /\ state[current] \in Ended
    /\ aged' = TRUE
    /\ UNCHANGED <<buffers, current, doomed>>

(* get: an expired buffer is not given out, but discarded afterwards.      *)
Attachable == IF aged THEN None ELSE current

Look ==
    /\ doomed' = IF aged THEN current ELSE doomed
    /\ UNCHANGED <<buffers, aged, current>>

Drop ==
    /\ current' = None /\ aged' = FALSE
    /\ UNCHANGED buffers

(* Mutant: whatever buffer is there now goes.                              *)
DiscardWhatever ==
    /\ doomed # None
    /\ Drop
    /\ doomed' = None

(* _discard: only if it is still the buffer that had expired.              *)
Discard ==
    /\ doomed # None
    /\ IF current = doomed THEN Drop ELSE UNCHANGED <<buffers, current, aged>>
    /\ doomed' = None

DropThread == Drop /\ UNCHANGED doomed

===============================================================================
