------------------------------ MODULE TurnStream ------------------------------
(***************************************************************************)
(* How the events of a thread's turns reach the clients that show them.    *)
(* A turn (core/turn_runner.py) writes its events to the buffer of         *)
(* TurnBuffer; a reader, on the API's event loop, sends what the buffer    *)
(* holds down a connection; a client shows it and, when the connection is  *)
(* cut, finds its turn again and resumes after the last event it has seen  *)
(* (triggers/sse_consumer.py).                                             *)
(*                                                                         *)
(* A turn in OnLoop is a POST /chat: it runs on the API's loop, and its    *)
(* client is the one that posted it.  Any other turn is an autonomous one: *)
(* it runs on the bridge's loop in a thread of its own, and its client is  *)
(* the bot that attaches to it when the firehose announces it.  So each    *)
(* turn has one client and one reader, named as the turn is.               *)
(***************************************************************************)
EXTENDS TurnBuffer, FiniteSets

CONSTANTS
    MaxOutput,      \* bound of the model: events of a turn before its last,
                    \* if it has a client
    Window,         \* events on their way in one connection
    MaxAttempts,    \* CHAT_RECOVERY_MAX_ATTEMPTS
    Scenarios       \* which turns there are, which of them have a client,
                    \* and how many faults there may be: cuts, restarts,
                    \* deletions and expiries

ASSUME TurnStreamAssumption ==
    /\ Readers = Turns
    /\ MaxOutput \in Nat /\ Window \in Nat \ {0}
    /\ MaxAttempts \in Nat
    /\ Scenarios \subseteq
         [cast: SUBSET Turns, audience: SUBSET Turns, faults: Nat]

VARIABLES
    holder,     \* who has the thread's lock
    at,         \* where the task of a turn is
    then,       \* what it does once the event at hand is written
    ends,       \* its events of type done or error
    rd,         \* where the reader of a client is
    cursor,     \* the reader's cursor
    batch,      \* events it has taken from the buffer, not yet sent
    wire,       \* events sent, not yet received; 0 is turn_attach
    cl,         \* where the client is
    pin,        \* the turn it asks for; None if any will do
    upto,       \* its last_seq
    shown,      \* history: how many events it has dispatched
    note,       \* what this attachment has brought
    tries,      \* the attempts it made (chat), the retries (attach)
    completion, \* the firehose's task_completed: "none", "held" or "given"
    faults,     \* how many may still happen
    deleted,    \* the thread was deleted
    audience    \* the turns that have a client: of a chat's, the others
                \* left at once; of an autonomous turn, no bot watches

turnVars == <<holder, at, then, ends>>
readerVars == <<rd, cursor, batch, wire>>
clientVars == <<cl, pin, upto, shown, note, tries, completion>>
otherVars == <<faults, deleted, audience>>
vars == <<turnBuffer, turnVars, readerVars, clientVars, otherVars>>

Chats == OnLoop
Watched == Turns \ OnLoop

Points == {"off", "asked", "opening", "running", "stamped", "stored",
           "ending", "finished", "over", "dead"}
ReaderPoints == {"off", "mailbox", "listen", "fetch", "gap", "look", "give",
                 "drain", "check", "wait", "ended", "gapped"}
Outcomes == {"completed", "recovered", "lost", "raised", "delivered",
             "fallback"}
ClientPoints == {"off", "primary", "backoff", "attaching", "attached"}
                \cup Outcomes

Init ==
    /\ TurnBufferInit
    /\ holder = None
    /\ then = [t \in Turns |-> "proceed"]
    /\ ends = [t \in Turns |-> {}]
    /\ rd = [c \in Turns |-> "off"]
    /\ cursor = [c \in Turns |-> 0]
    /\ batch = [c \in Turns |-> {}] /\ wire = [c \in Turns |-> {}]
    /\ cl = [c \in Turns |-> "off"]
    /\ pin = [c \in Turns |-> IF c \in Chats THEN c ELSE None]
    /\ upto = [c \in Turns |-> 0] /\ shown = [c \in Turns |-> 0]
    /\ note = [c \in Turns |-> "none"]
    /\ tries = [c \in Turns |-> 0]
    /\ completion = [c \in Turns |-> "none"]
    /\ deleted = FALSE
    /\ \E s \in Scenarios :
          /\ at = [t \in Turns |-> IF t \in s.cast THEN "off" ELSE "dead"]
          /\ audience = s.audience /\ faults = s.faults

Least(S) == CHOOSE n \in S : \A m \in S : n <= m

(***************************************************************************)
(* The API's loop runs one task at a time, up to the task's next await:    *)
(* nothing else on the loop moves while a reader looks at its buffer.  A   *)
(* chat turn writes an event on the loop, so all at once.                  *)
(***************************************************************************)
MidRead(c) == rd[c] \in {"fetch", "gap", "look", "drain", "check"}
LoopFree == \A c \in Turns : ~MidRead(c)
ReaderMay(c) == \A d \in Turns \ {c} : ~MidRead(d)

(***************************************************************************)
(* A turn.                                                                 *)
(***************************************************************************)
TurnPart == UNCHANGED <<registry, readerVars, clientVars, otherVars>>

(* POST /chat: the task is started and the response waits in the mailbox   *)
(* for the holder's buffer.                                                *)
Ask(t) ==
    /\ t \in Chats /\ at[t] = "off" /\ ~deleted
    /\ at' = [at EXCEPT ![t] = "asked"]
    /\ IF t \in audience
       THEN /\ cl' = [cl EXCEPT ![t] = "primary"]
            /\ rd' = [rd EXCEPT ![t] = "mailbox"]
       ELSE UNCHANGED <<cl, rd>>
    /\ UNCHANGED <<turnBuffer, holder, then, ends, cursor, batch, wire, pin,
                   upto, shown, note, tries, completion, otherVars>>

(* The turn has the lock: started() registers its buffer and records       *)
(* turn_started, and hands the response of a chat the buffer.              *)
Begin(t) ==
    /\ holder = None /\ ~deleted
    /\ holder' = t
    /\ BeginTurn(t)
    /\ UNCHANGED <<then, ends, cursor, batch, wire, clientVars, otherVars>>

BeginChat(t) ==
    /\ t \in Chats /\ at[t] = "asked" /\ LoopFree
    /\ Begin(t)
    /\ Stamp(t) /\ Store(t)
    /\ at' = [at EXCEPT ![t] = "running"]
    /\ IF rd[t] = "mailbox"
       THEN rd' = [rd EXCEPT ![t] = "listen"] /\ Subscribe(t, t)
       ELSE UNCHANGED <<rd, doorbell>>

BeginWatched(t) ==
    /\ t \in Watched /\ at[t] = "off"
    /\ Begin(t)
    /\ at' = [at EXCEPT ![t] = "opening"]
    /\ UNCHANGED <<stamped, lo, hi, rd, doorbell>>

(* record: one event goes through append, which a worker may be stopped in *)
(* anywhere; an event of type done or error is one of ends.                *)
Write(t, last, next) ==
    /\ Stamp(t)
    /\ then' = [then EXCEPT ![t] = next]
    /\ ends' = IF last THEN [ends EXCEPT ![t] = @ \cup {stamped[t] + 1}]
                       ELSE ends
    /\ IF t \in Watched
       THEN /\ at' = [at EXCEPT ![t] = "stamped"]
            /\ UNCHANGED <<state, lo, hi, doorbell>>
       ELSE /\ LoopFree
            /\ Store(t) /\ Ring(t)
            /\ IF next = "proceed" THEN UNCHANGED <<state, at>>
               ELSE Finish(t, next) /\ at' = [at EXCEPT ![t] = "over"]
    /\ UNCHANGED holder /\ TurnPart

TurnStarted(t) == at[t] = "opening" /\ Write(t, FALSE, "proceed")

Output(t) == IF t \in audience THEN MaxOutput ELSE 1

(* What astream yields, and the footer of a quick turn after it.           *)
Chunk(t) ==
    /\ at[t] = "running" /\ stamped[t] < Output(t)
    /\ holder = t \/ t \in Chats
    /\ Write(t, FALSE, "proceed")

(* A chat goes on after an error chunk, a worker's turn stops at it.       *)
ErrorChunk(t) ==
    /\ at[t] = "running" /\ stamped[t] < Output(t) /\ holder = t
    /\ Write(t, TRUE, IF t \in Chats THEN "proceed" ELSE "error")

(* The generator is closed: the lock goes before the turn's last event.    *)
Release(t) ==
    /\ holder = t /\ at[t] \in {"running", "over"}
    /\ holder' = None
    /\ UNCHANGED <<buffers, doorbell, at, then, ends>> /\ TurnPart

Done(t) == at[t] = "running" /\ holder # t /\ Write(t, TRUE, "done")

(* An exception, from the generator or from what follows it.               *)
Fail(t) == at[t] = "running" /\ holder # t /\ Write(t, TRUE, "error")

(* A worker is interrupted and cancels its turn.                           *)
Abort(t) ==
    /\ t \in Watched /\ at[t] = "running" /\ holder # t
    /\ at' = [at EXCEPT ![t] = "ending"]
    /\ then' = [then EXCEPT ![t] = "aborted"]
    /\ UNCHANGED <<buffers, doorbell, holder, ends>> /\ TurnPart

(* A worker's writes, a critical section at a time.                        *)
Append(t) ==
    /\ at[t] = "stamped"
    /\ Store(t)
    /\ at' = [at EXCEPT ![t] = "stored"]
    /\ UNCHANGED <<state, stamped, doorbell, holder, then, ends>> /\ TurnPart

Pulse(t) ==
    /\ at[t] \in {"stored", "finished"}
    /\ Ring(t)
    /\ at' = [at EXCEPT ![t] =
                IF @ = "finished" THEN "over"
                ELSE IF then[t] = "proceed" THEN "running" ELSE "ending"]
    /\ UNCHANGED <<buffers, holder, then, ends>> /\ TurnPart

(* Mutant: finish wakes nobody.                                            *)
FinishSilently(t) ==
    /\ at[t] = "ending"
    /\ Finish(t, then[t])
    /\ at' = [at EXCEPT ![t] = "over"]
    /\ UNCHANGED <<stamped, lo, hi, doorbell, holder, then, ends>> /\ TurnPart

FinishTurn(t) ==
    /\ at[t] = "ending"
    /\ Finish(t, then[t])
    /\ at' = [at EXCEPT ![t] = "finished"]
    /\ UNCHANGED <<stamped, lo, hi, doorbell, holder, then, ends>> /\ TurnPart

TurnStep(t) ==
    \/ BeginChat(t) \/ BeginWatched(t) \/ TurnStarted(t) \/ Chunk(t)
    \/ ErrorChunk(t) \/ Release(t) \/ Done(t) \/ Fail(t) \/ Abort(t)
    \/ Append(t) \/ Pulse(t) \/ FinishTurn(t)

(***************************************************************************)
(* A reader: stream_entries, once the response pulls its next entry.       *)
(***************************************************************************)
ReaderPart ==
    UNCHANGED <<buffers, registry, turnVars, clientVars, otherVars>>
Go(c, point) == rd' = [rd EXCEPT ![c] = point]

StartLook(c) ==
    /\ rd[c] = "listen" /\ ReaderMay(c)
    /\ Listen(c)
    /\ Go(c, "fetch")
    /\ UNCHANGED <<cursor, batch, wire>> /\ ReaderPart

Unread(c) == EntriesAfter(source[c], cursor[c])

(* Mutant: the batch is not looked at for a gap.                            *)
FetchUnchecked(c) ==
    /\ rd[c] = "fetch"
    /\ IF Unread(c) = {} THEN Go(c, "gap") /\ UNCHANGED batch
       ELSE Go(c, "give") /\ batch' = [batch EXCEPT ![c] = Unread(c)]
    /\ UNCHANGED <<doorbell, cursor, wire>> /\ ReaderPart

Fetch(c) ==
    /\ rd[c] = "fetch"
    /\ IF Unread(c) = {} THEN Go(c, "gap") /\ UNCHANGED batch
       ELSE IF Least(Unread(c)) > cursor[c] + 1
       THEN Go(c, "gapped") /\ UNCHANGED batch
       ELSE Go(c, "give") /\ batch' = [batch EXCEPT ![c] = Unread(c)]
    /\ UNCHANGED <<doorbell, cursor, wire>> /\ ReaderPart

(* has_replay_gap, after an empty batch and once more before the end.      *)
LookForGap(c) ==
    /\ rd[c] \in {"gap", "check"}
    /\ Go(c, IF HasReplayGap(source[c], cursor[c]) THEN "gapped"
             ELSE IF rd[c] = "gap" THEN "look" ELSE "ended")
    /\ UNCHANGED <<doorbell, cursor, batch, wire>> /\ ReaderPart

(* Each yield may suspend the reader: the client is slow.                  *)
Give(c) ==
    /\ rd[c] = "give" /\ ReaderMay(c)
    /\ Cardinality(wire[c]) < Window
    /\ LET n == Least(batch[c])
       IN  /\ cursor' = [cursor EXCEPT ![c] = n]
           /\ batch' = [batch EXCEPT ![c] = @ \ {n}]
           /\ wire' = [wire EXCEPT ![c] = @ \cup {n}]
           /\ Go(c, IF batch[c] = {n} THEN "look" ELSE "give")
    /\ UNCHANGED doorbell /\ ReaderPart

LookAtState(c) ==
    /\ rd[c] = "look" /\ ReaderMay(c)
    /\ Go(c, IF state[source[c]] = "live" THEN "wait" ELSE "drain")
    /\ UNCHANGED <<doorbell, cursor, batch, wire>> /\ ReaderPart

(* Drain-then-stop.                                                        *)
Drain(c) ==
    /\ rd[c] = "drain"
    /\ Go(c, IF Unread(c) = {} THEN "check" ELSE "listen")
    /\ UNCHANGED <<doorbell, cursor, batch, wire>> /\ ReaderPart

Wake(c) ==
    /\ rd[c] = "wait" /\ bell[c] = "set"
    /\ Go(c, "listen")
    /\ UNCHANGED <<doorbell, cursor, batch, wire>> /\ ReaderPart

(* _READER_WAIT_SECONDS.                                                   *)
Poll(c) ==
    /\ rd[c] = "wait" /\ bell[c] # "set"
    /\ Go(c, "listen")
    /\ UNCHANGED <<doorbell, cursor, batch, wire>> /\ ReaderPart

RunCallback(c) ==
    /\ LoopFree /\ Callback(c)
    /\ UNCHANGED <<readerVars>> /\ ReaderPart

ReaderStep(c) ==
    \/ StartLook(c) \/ Fetch(c) \/ LookForGap(c) \/ Give(c)
    \/ LookAtState(c) \/ Drain(c) \/ Wake(c) \/ RunCallback(c)

(***************************************************************************)
(* A client.                                                               *)
(***************************************************************************)
ClientPart == UNCHANGED <<buffers, turnVars, deleted, audience>>
Online(c) == cl[c] \in {"primary", "attaching", "attached"}

(* turn_started is not rendered, and done ends an attach unrendered.       *)
Rendered(c) == upto[c] > 1
TerminalSeen(c) == \E n \in ends[c] : n <= upto[c]
IsDone(t, n) == then[t] = "done" /\ n = stamped[t]

Hangup(c) ==
    /\ rd' = [rd EXCEPT ![c] = "off"]
    /\ batch' = [batch EXCEPT ![c] = {}]
    /\ wire' = [wire EXCEPT ![c] = {}]
    /\ cursor' = [cursor EXCEPT ![c] = 0]
    /\ bell' = [bell EXCEPT ![c] = "none"]
    /\ UNCHANGED source

(* An attach that finds its turn gone before it rendered anything falls    *)
(* back; any other failure is tried again once, and what was rendered      *)
(* stands.                                                                 *)
AttachFails(c, gone) ==
    IF gone /\ ~Rendered(c) THEN "fallback"
    ELSE IF tries[c] = 0 THEN "attaching"
    ELSE IF Rendered(c) THEN "delivered" ELSE "fallback"

(* Where a client goes when its connection is cut.                         *)
AfterCut(c) ==
    IF c \in Watched THEN AttachFails(c, FALSE)
    ELSE IF cl[c] = "primary"
    THEN IF upto[c] = 0 THEN "raised"
         ELSE IF TerminalSeen(c) THEN "completed" ELSE "backoff"
    ELSE "backoff"
TriesAfterCut(c) ==
    IF c \in Watched THEN 1 ELSE IF note[c] = "none" THEN tries[c] ELSE 0

(* A client moves on, or ends: _enter_fallback hands a stashed completion  *)
(* to the firehose.                                                        *)
Settle(c, where, attempts) ==
    /\ cl' = [cl EXCEPT ![c] = where]
    /\ tries' = [tries EXCEPT ![c] = IF where \in Outcomes THEN 0 ELSE attempts]
    /\ note' = [note EXCEPT ![c] = "none"]
    /\ completion' = [completion EXCEPT ![c] =
                        IF where = "fallback" /\ @ = "held" THEN "given" ELSE @]

Cut(c) ==
    /\ Online(c) /\ faults > 0 /\ LoopFree
    /\ faults' = faults - 1
    /\ Settle(c, AfterCut(c), TriesAfterCut(c))
    /\ Hangup(c)
    /\ UNCHANGED <<registry, pin, upto, shown>> /\ ClientPart

(* turn_attach names the turn a bot has got, and it asks for no other.     *)
TakeAttach(c) ==
    /\ 0 \in wire[c]
    /\ pin' = [pin EXCEPT ![c] = source[c]]
    /\ wire' = [wire EXCEPT ![c] = @ \ {0}]
    /\ UNCHANGED <<registry, doorbell, rd, cursor, batch, cl, upto, shown, note,
                   tries, completion, faults>>
    /\ ClientPart

(* The next event off the wire is dispatched.                              *)
Take(c) ==
    /\ wire[c] # {} /\ 0 \notin wire[c]
    /\ LET n == Least(wire[c]) IN
       /\ upto' = [upto EXCEPT ![c] =
                     IF c \in Watched \/ n > @ THEN n ELSE @]
       /\ shown' = [shown EXCEPT ![c] = @ + 1]
       /\ IF c \in Watched /\ IsDone(source[c], n)
          THEN Settle(c, "delivered", 0) /\ Hangup(c)
          ELSE /\ note' = [note EXCEPT ![c] =
                             IF n \in ends[source[c]] \/ @ = "finished"
                             THEN "finished" ELSE "moved"]
               /\ wire' = [wire EXCEPT ![c] = @ \ {n}]
               /\ UNCHANGED <<cl, tries, completion, rd, cursor, batch,
                              doorbell>>
    /\ UNCHANGED <<registry, pin, faults>> /\ ClientPart

(* The stream is over, cleanly or with a turn_replay_gap frame.            *)
AfterEnd(c) ==
    IF c \in Watched THEN "delivered"
    ELSE IF cl[c] = "primary"
    THEN IF rd[c] = "gapped" THEN "lost"
         ELSE IF TerminalSeen(c) THEN "completed" ELSE "backoff"
    ELSE IF rd[c] = "ended" /\ note[c] = "finished" THEN "recovered" ELSE "lost"

StreamEnds(c) ==
    /\ Online(c) /\ wire[c] = {} /\ rd[c] \in {"ended", "gapped"}
    /\ Settle(c, AfterEnd(c), tries[c])
    /\ Hangup(c)
    /\ UNCHANGED <<registry, pin, upto, shown, faults>> /\ ClientPart

(* ATTACH_IDLE_TIMEOUT_SECONDS.                                            *)
IdleOut(c) ==
    /\ cl[c] = "attached" /\ wire[c] = {} /\ rd[c] = "wait"
    /\ Settle(c, IF c \in Watched THEN AttachFails(c, FALSE) ELSE "lost", 1)
    /\ Hangup(c)
    /\ UNCHANGED <<registry, pin, upto, shown, faults>> /\ ClientPart

(* GET /threads/{id}/status: the thread's turn, and whether it is busy.    *)
AskStatus(c) ==
    /\ cl[c] = "backoff" /\ LoopFree
    /\ IF tries[c] = MaxAttempts THEN Settle(c, "lost", 0) /\ UNCHANGED registry
       ELSE /\ Settle(c, IF Attachable = c THEN "attaching"
                         ELSE IF holder = None THEN "lost" ELSE "backoff",
                      tries[c] + 1)
            /\ Look
    /\ UNCHANGED <<doorbell, readerVars, pin, upto, shown, faults>>
    /\ ClientPart

(* GET /threads/{id}/turn/stream: 404, 410 or a reader from last_seq on.   *)
Reattach(c) ==
    /\ cl[c] = "attaching" /\ LoopFree
    /\ LET t == Attachable
           gone == \/ t = None
                   \/ pin[c] \notin {None, t}
                   \/ HasReplayGap(t, upto[c])
       IN  IF gone
           THEN /\ Settle(c, IF c \in Watched THEN AttachFails(c, TRUE) ELSE "lost", 1)
                /\ UNCHANGED <<doorbell, readerVars>>
           ELSE /\ Settle(c, "attached", tries[c])
                /\ Subscribe(c, t)
                /\ rd' = [rd EXCEPT ![c] = "listen"]
                /\ cursor' = [cursor EXCEPT ![c] = upto[c]]
                /\ wire' = [wire EXCEPT ![c] = {0}]
                /\ UNCHANGED batch
    /\ Look
    /\ UNCHANGED <<pin, upto, shown, faults>> /\ ClientPart

(* The firehose tells the bot that an autonomous turn has started (once    *)
(* its first chunk is out), and later that it is completed.                *)
Announce(c) ==
    /\ c \in Watched \cap audience /\ cl[c] = "off" /\ stamped[c] > 1
    /\ cl' = [cl EXCEPT ![c] = "attaching"]
    /\ UNCHANGED <<doorbell, registry, readerVars, pin, upto, shown, note, tries,
                   completion, faults>>
    /\ ClientPart

Complete(c) ==
    /\ c \in Watched /\ at[c] = "over" /\ cl[c] # "off"
    /\ completion[c] = "none"
    /\ completion' = [completion EXCEPT ![c] =
                        IF cl[c] = "fallback" THEN "given" ELSE "held"]
    /\ UNCHANGED <<doorbell, registry, readerVars, cl, pin, upto, shown, note,
                   tries, faults>>
    /\ ClientPart

ClientStep(c) ==
    \/ TakeAttach(c) \/ Take(c) \/ StreamEnds(c) \/ AskStatus(c) \/ Reattach(c)
    \/ Announce(c) \/ Complete(c)

(* The status route cannot be reached.                                     *)
StatusFails(c) ==
    /\ cl[c] = "backoff" /\ tries[c] < MaxAttempts
    /\ tries' = [tries EXCEPT ![c] = @ + 1]
    /\ UNCHANGED <<doorbell, registry, readerVars, cl, pin, upto, shown, note,
                   completion, faults>>
    /\ ClientPart

(* The API process is gone, with its turns and their buffers.              *)
Restart ==
    /\ faults > 0
    /\ faults' = faults - 1
    /\ holder' = None
    /\ current' = None /\ aged' = FALSE /\ doomed' = None
    /\ at' = [t \in Turns |-> IF at[t] \in {"off", "over"} THEN at[t] ELSE "dead"]
    /\ rd' = [c \in Turns |-> "off"]
    /\ bell' = [c \in Turns |-> "none"] /\ cursor' = [c \in Turns |-> 0]
    /\ batch' = [c \in Turns |-> {}] /\ wire' = [c \in Turns |-> {}]
    /\ cl' = [c \in Turns |-> IF Online(c) THEN AfterCut(c) ELSE cl[c]]
    /\ tries' = [c \in Turns |->
          IF ~Online(c) THEN tries[c]
          ELSE IF AfterCut(c) \in Outcomes THEN 0 ELSE TriesAfterCut(c)]
    /\ note' = [c \in Turns |-> "none"]
    /\ completion' = [c \in Turns |->
          IF Online(c) /\ AfterCut(c) = "fallback" /\ completion[c] = "held"
          THEN "given" ELSE completion[c]]
    /\ UNCHANGED <<buffers, source, then, ends, pin, upto, shown,
                   deleted, audience>>

(***************************************************************************)
(* The registry: retention, the sweep, and a deletion, which has the lock  *)
(* and after which no turn is admitted.                                    *)
(***************************************************************************)
Retention ==
    /\ Age /\ faults > 0
    /\ faults' = faults - 1
    /\ UNCHANGED <<doorbell, turnVars, readerVars, clientVars, deleted, audience>>

Sweep ==
    /\ \/ aged /\ doomed = None /\ Look
       \/ Discard
    /\ UNCHANGED <<doorbell, turnVars, readerVars, clientVars, otherVars>>

Delete ==
    /\ holder = None /\ ~deleted /\ faults > 0
    /\ \A t \in Chats : at[t] # "asked"
    /\ deleted' = TRUE /\ faults' = faults - 1
    /\ DropThread
    /\ UNCHANGED <<doorbell, turnVars, readerVars, clientVars, audience>>

Next ==
    \/ \E t \in Turns :
          \/ Ask(t) \/ TurnStep(t)
          \/ ReaderStep(t) \/ Poll(t)
          \/ ClientStep(t) \/ Cut(t) \/ StatusFails(t) \/ IdleOut(t)
    \/ Retention \/ Sweep \/ Delete \/ Restart

Spec == Init /\ [][Next]_vars

(* The loop's ready queue is first in, first out, so whatever is ready     *)
(* again and again has its turn; what is sent arrives unless the           *)
(* connection is cut.  Nothing has to be asked, and no reader counts on    *)
(* its poll, no client on its idle timeout.                                *)
FairSpec ==
    /\ Spec
    /\ SF_vars(\E t \in Turns : TurnStep(t))
    /\ SF_vars(\E c \in Turns : ReaderStep(c))
    /\ SF_vars(\E c \in Turns : ClientStep(c))

(***************************************************************************)
(* Properties.                                                             *)
(***************************************************************************)
TypeOK ==
    /\ TurnBufferTypeOK
    /\ holder \in Turns \cup {None}
    /\ at \in [Turns -> Points]
    /\ then \in [Turns -> {"proceed"} \cup Ended]
    /\ ends \in [Turns -> SUBSET (Nat \ {0})]
    /\ rd \in [Turns -> ReaderPoints]
    /\ cursor \in [Turns -> Nat]
    /\ batch \in [Turns -> SUBSET (Nat \ {0})]
    /\ wire \in [Turns -> SUBSET Nat]
    /\ cl \in [Turns -> ClientPoints]
    /\ pin \in [Turns -> Turns \cup {None}]
    /\ upto \in [Turns -> Nat] /\ shown \in [Turns -> Nat]
    /\ note \in [Turns -> {"none", "moved", "finished"}]
    /\ tries \in [Turns -> Nat]
    /\ completion \in [Turns -> {"none", "held", "given"}]
    /\ faults \in Nat /\ deleted \in BOOLEAN
    /\ audience \subseteq Turns

(* Every client is shown the events of one turn, in order, once each, and  *)
(* is told it is whole only after its end: TurnFeed is implemented by the  *)
(* buffer, its readers and the two clients' ways of resuming.              *)
VerdictOf(c) ==
    CASE cl[c] \in {"completed", "recovered"} -> "whole"
      [] cl[c] \in Outcomes \ {"completed", "recovered"} -> "partial"
      [] OTHER -> "open"
Feed == INSTANCE TurnFeed WITH
    Clients <- Turns,
    made <- stamped,
    of <- [c \in Turns |-> IF upto[c] = 0 THEN None ELSE source[c]],
    verdict <- [c \in Turns |-> VerdictOf(c)]
FeedKept == Feed!Spec

(* A reader that waits has nothing to read, or is about to be woken: by    *)
(* the event it captured, or by a writer that has still to ring.  Polling  *)
(* is only a backstop.                                                     *)
NoWakeLost ==
    \A c \in Turns :
        rd[c] = "wait" /\ bell[c] = "armed" =>
            \/ at[source[c]] \in {"stored", "finished"}
            \/ Unread(c) = {} /\ state[source[c]] = "live"

(* The live turn that has the thread can be found and joined, whatever     *)
(* expiry of its predecessors' buffers is under way.                       *)
HolderAttachable ==
    holder # None /\ state[holder] = "live" => current = holder

(* A stashed completion is not forgotten when the attach gives up: the     *)
(* firehose delivers it.                                                   *)
FallbackTells ==
    \A c \in Watched : cl[c] = "fallback" => completion[c] # "held"

(* Whoever has been shown the end of its turn is not told that the rest of  *)
(* the reply was lost (sse_consumer.py:799).                                *)
WholeIsNotLost ==
    \A c \in Chats : cl[c] = "lost" => ~IsDone(c, upto[c])

(* An attach that took the delivery over has rendered something, or the     *)
(* completion it kept from the firehose is lost (sse_consumer.py:1243).     *)
NothingSwallowed == \A c \in Watched : cl[c] = "delivered" => Rendered(c)

(* A client that asked or was attached comes to an end, and so does every  *)
(* turn that was asked for or has begun, without a poll or an idle timeout *)
(* to help.                                                                *)
AtRest(t) ==
    at[t] \in {"off", "over", "dead"} /\ cl[t] \in {"off"} \cup Outcomes
AllEnd == \A t \in Turns : []<>AtRest(t)

===============================================================================
