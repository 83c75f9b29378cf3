--------------------------- MODULE TurnStreamProofs ---------------------------
(***************************************************************************)
(* Theorems about TurnStream, for any number of turns, any lengths, sizes  *)
(* and scenarios.                                                          *)
(***************************************************************************)
EXTENDS TurnStream, TLAPS

(***************************************************************************)
(* What each part keeps.                                                   *)
(***************************************************************************)
Begun(t) == at[t] \notin {"off", "asked"}
Pending(t) == at[t] \in {"stored", "finished"}
Reading(c) == rd[c] \notin {"off", "mailbox"}

(* A buffer holds a segment of what was stamped, and is live once begun.    *)
BufferOK(t) ==
    /\ hi[t] <= stamped[t] /\ lo[t] <= hi[t] + 1
    /\ at[t] = "stamped" => hi[t] < stamped[t]
    /\ ends[t] \subseteq 1 .. stamped[t]
    /\ state[t] # "none" => Begun(t)
    /\ at[t] = "ending" => then[t] \in Ended

(* What is under way and what is in hand follow what the client has seen,   *)
(* without a hole.                                                          *)
ReaderOK(c) ==
    /\ ~Reading(c) => wire[c] = {}
    /\ rd[c] # "give" => batch[c] = {}
    /\ rd[c] = "mailbox" => /\ c \in Chats /\ cl[c] = "primary"
                            /\ cursor[c] = 0 /\ upto[c] = 0
    /\ Reading(c) => /\ cl[c] \in {"primary", "attached"}
                     /\ source[c] # None
                     /\ upto[c] <= cursor[c] /\ cursor[c] <= hi[source[c]]
                     /\ wire[c] \ {0} = upto[c] + 1 .. cursor[c]
                     /\ 0 \notin wire[c] => pin[c] # None
    /\ rd[c] = "give" =>
          \E m \in cursor[c] + 1 .. hi[source[c]] : batch[c] = cursor[c] + 1 .. m

(* A client that has seen something asks for that turn and no other.        *)
ClientOK(c) ==
    /\ cl[c] = "off" => rd[c] = "off" /\ upto[c] = 0 /\ cursor[c] = 0
    /\ cl[c] = "primary" => c \in Chats
    /\ c \in Chats => /\ pin[c] = c /\ source[c] \in {None, c}
                      /\ at[c] = "off" => cl[c] = "off"
    /\ c \in Watched => cl[c] \notin {"completed", "recovered"}
    /\ cl[c] = "attaching" => rd[c] = "off"
    /\ source[c] # None => Begun(source[c])
    /\ pin[c] # None /\ source[c] # None => pin[c] = source[c]
    /\ upto[c] > 0 => /\ source[c] # None /\ pin[c] # None
                      /\ upto[c] <= hi[source[c]]
    /\ shown[c] = upto[c]
    /\ note[c] = "finished" =>
          source[c] # None /\ \E n \in ends[source[c]] : n <= upto[c]

(* Between its look and its wait a reader misses nothing that no writer is  *)
(* about to ring for.                                                       *)
BellOK(c) ==
    /\ rd[c] \in {"gap", "look", "give", "wait"}
    /\ bell[c] = "armed" /\ ~Pending(source[c])
    => /\ Unread(c) \subseteq batch[c]
       /\ rd[c] = "wait" => state[source[c]] = "live"

RegistryOK ==
    /\ current # None => Begun(current)
    /\ aged => current # None /\ state[current] \in Ended
    /\ doomed # None => state[doomed] \in Ended
    /\ HolderAttachable

IInv ==
    /\ TypeOK
    /\ \A t \in Turns : BufferOK(t)
    /\ \A c \in Turns : ReaderOK(c) /\ ClientOK(c) /\ BellOK(c)
    /\ RegistryOK

(* The types, by component.                                                 *)
BufferTypes ==
    /\ state \in [Turns -> {"none", "live"} \cup Ended]
    /\ stamped \in [Turns -> Nat] /\ hi \in [Turns -> Nat]
    /\ lo \in [Turns -> Nat \ {0}]
RegistryTypes ==
    /\ aged \in BOOLEAN
    /\ current \in Turns \cup {None} /\ doomed \in Turns \cup {None}
BellTypes ==
    /\ source \in [Turns -> Turns \cup {None}]
    /\ bell \in [Turns -> {"none", "armed", "rung", "set"}]
TurnTypes ==
    /\ holder \in Turns \cup {None}
    /\ at \in [Turns -> Points]
    /\ then \in [Turns -> {"proceed"} \cup Ended]
    /\ ends \in [Turns -> SUBSET (Nat \ {0})]
ReaderTypes ==
    /\ rd \in [Turns -> ReaderPoints]
    /\ cursor \in [Turns -> Nat]
    /\ batch \in [Turns -> SUBSET (Nat \ {0})]
    /\ wire \in [Turns -> SUBSET Nat]
SeenTypes ==
    /\ pin \in [Turns -> Turns \cup {None}]
    /\ upto \in [Turns -> Nat] /\ shown \in [Turns -> Nat]
SettledTypes ==
    /\ cl \in [Turns -> ClientPoints]
    /\ note \in [Turns -> {"none", "moved", "finished"}]
    /\ tries \in [Turns -> Nat]
    /\ completion \in [Turns -> {"none", "held", "given"}]
OtherTypes ==
    /\ faults \in Nat /\ deleted \in BOOLEAN
    /\ audience \subseteq Turns

-------------------------------------------------------------------------------
(* TypeOK is these together, before a step and after it; a part that is    *)
(* not moved stays typed.                                                   *)
LEMMA Types ==
    TypeOK <=> /\ BufferTypes /\ RegistryTypes /\ BellTypes /\ TurnTypes
               /\ ReaderTypes /\ SeenTypes /\ SettledTypes /\ OtherTypes
<1> USE TurnStreamAssumption DEF TurnStreamAssumption
<1>1. TurnBufferTypeOK <=> BufferTypes /\ RegistryTypes /\ BellTypes
  BY DEF TurnBufferTypeOK, BufferTypes, RegistryTypes, BellTypes
<1> QED BY <1>1 DEF TypeOK, TurnTypes, ReaderTypes, SeenTypes, SettledTypes, OtherTypes

LEMMA TypesAfter ==
    ASSUME BufferTypes', RegistryTypes', BellTypes', TurnTypes', ReaderTypes',
           SeenTypes', SettledTypes', OtherTypes'
    PROVE  TypeOK'
<1> USE TurnStreamAssumption DEF TurnStreamAssumption
<1>1. TurnBufferTypeOK'
  BY DEF TurnBufferTypeOK, BufferTypes, RegistryTypes, BellTypes
<1> QED BY <1>1 DEF TypeOK, TurnTypes, ReaderTypes, SeenTypes, SettledTypes, OtherTypes

LEMMA TypesThen ==
    ASSUME TypeOK'
    PROVE  /\ BufferTypes' /\ RegistryTypes' /\ BellTypes' /\ TurnTypes'
           /\ ReaderTypes' /\ SeenTypes' /\ SettledTypes' /\ OtherTypes'
<1> USE TurnStreamAssumption DEF TurnStreamAssumption
<1>1. TurnBufferTypeOK'
  BY DEF TypeOK
<1>2. BufferTypes' /\ RegistryTypes' /\ BellTypes'
  BY <1>1 DEF TurnBufferTypeOK, BufferTypes, RegistryTypes, BellTypes
<1> QED BY <1>2 DEF TypeOK, TurnTypes, ReaderTypes, SeenTypes, SettledTypes, OtherTypes

LEMMA TypesUnmoved ==
    ASSUME TypeOK
    PROVE  /\ UNCHANGED buffers => BufferTypes'
           /\ UNCHANGED registry => RegistryTypes'
           /\ UNCHANGED doorbell => BellTypes'
           /\ UNCHANGED turnVars => TurnTypes'
           /\ UNCHANGED readerVars => ReaderTypes'
           /\ UNCHANGED <<pin, upto, shown>> => SeenTypes'
           /\ UNCHANGED <<cl, note, tries, completion>> => SettledTypes'
           /\ UNCHANGED otherVars => OtherTypes'
<1>1. UNCHANGED buffers => BufferTypes'
  BY Types DEF buffers, BufferTypes
<1>2. UNCHANGED registry => RegistryTypes'
  BY Types DEF registry, RegistryTypes
<1>3. UNCHANGED doorbell => BellTypes'
  BY Types DEF doorbell, BellTypes
<1>4. UNCHANGED turnVars => TurnTypes'
  BY Types DEF turnVars, TurnTypes
<1>5. UNCHANGED readerVars => ReaderTypes'
  BY Types DEF readerVars, ReaderTypes
<1>6. UNCHANGED <<pin, upto, shown>> => SeenTypes'
  BY Types DEF SeenTypes
<1>7. UNCHANGED <<cl, note, tries, completion>> => SettledTypes'
  BY Types DEF SettledTypes
<1>8. UNCHANGED otherVars => OtherTypes'
  BY Types DEF otherVars, OtherTypes
<1> QED BY <1>1, <1>2, <1>3, <1>4, <1>5, <1>6, <1>7, <1>8

(* The parts that several actions share.                                    *)
LEMMA StoreTypes ==
    ASSUME TypeOK, NEW t \in Turns, Store(t)
    PROVE  /\ hi' \in [Turns -> Nat] /\ lo' \in [Turns -> Nat \ {0}]
           /\ hi' = [hi EXCEPT ![t] = hi[t] + 1]
           /\ \E keep \in lo[t] .. hi[t] + 2 : lo' = [lo EXCEPT ![t] = keep]
<1>1. lo[t] \in Nat \ {0} /\ hi[t] \in Nat /\ MaxEvents \in Nat \ {0}
  BY Types, TurnBufferAssumption DEF BufferTypes, TurnBufferAssumption
<1> DEFINE last == hi[t] + 1
           first == IF lo[t] + MaxEvents > last THEN lo[t] ELSE last + 1 - MaxEvents
<1>2. PICK keep \in first .. last + 1 : lo' = [lo EXCEPT ![t] = keep]
  BY DEF Store
<1>3. first \in Nat \ {0} /\ lo[t] <= first
  BY <1>1
<1>4. keep \in lo[t] .. hi[t] + 2 /\ keep \in Nat \ {0}
  BY <1>1, <1>2, <1>3
<1>5. hi' = [hi EXCEPT ![t] = hi[t] + 1]
  BY DEF Store
<1>6. hi \in [Turns -> Nat] /\ lo \in [Turns -> Nat \ {0}]
  BY Types DEF BufferTypes
<1>7. hi' \in [Turns -> Nat]
  BY <1>1, <1>5, <1>6
<1>8. lo' \in [Turns -> Nat \ {0}]
  BY <1>2, <1>4, <1>6
<1> QED BY <1>2, <1>4, <1>5, <1>7, <1>8

LEMMA RingTypes ==
    ASSUME TypeOK, NEW t \in Turns, Ring(t)
    PROVE  BellTypes'
BY Types, TurnStreamAssumption DEF BellTypes, Ring, TurnStreamAssumption

LEMMA LookTypes ==
    ASSUME TypeOK, Look
    PROVE  BufferTypes' /\ RegistryTypes'
<1>1. UNCHANGED buffers
  BY DEF Look
<1>2. RegistryTypes'
  BY Types DEF Look, RegistryTypes
<1> QED BY <1>1, <1>2, TypesUnmoved

LEMMA SettleTypes ==
    ASSUME TypeOK, NEW c \in Turns, NEW where \in ClientPoints, NEW n \in Nat,
           Settle(c, where, n)
    PROVE  SettledTypes'
BY Types DEF SettledTypes, Settle

LEMMA HangupTypes ==
    ASSUME TypeOK, NEW c \in Turns, Hangup(c)
    PROVE  ReaderTypes' /\ BellTypes'
<1>1. ReaderTypes'
  BY Types DEF ReaderTypes, Hangup, ReaderPoints
<1>2. BellTypes'
  BY Types DEF BellTypes, Hangup
<1> QED BY <1>1, <1>2

LEMMA GoTypes ==
    ASSUME TypeOK, NEW c \in Turns, NEW p \in ReaderPoints, Go(c, p)
    PROVE  rd' \in [Turns -> ReaderPoints]
BY Types DEF ReaderTypes, Go

LEMMA UnreadType ==
    ASSUME TypeOK, NEW c \in Turns, source[c] # None
    PROVE  Unread(c) \subseteq Nat \ {0}
BY Types DEF BufferTypes, BellTypes, ReaderTypes, Unread, EntriesAfter

-------------------------------------------------------------------------------
(* Least finds the first number of an interval.                             *)
LEMMA LeastOfInterval ==
    ASSUME NEW a \in Nat, NEW b \in Nat, a <= b
    PROVE  Least(a .. b) = a
<1>1. a \in a .. b /\ \A m \in a .. b : a <= m
  OBVIOUS
<1>2. Least(a .. b) \in a .. b /\ \A m \in a .. b : Least(a .. b) <= m
  BY <1>1, Zenon DEF Least
<1> QED BY <1>1, <1>2

(* So what a reader gives next is what follows its cursor, and what a client *)
(* takes next follows what it has seen.                                     *)
LEMMA NextGiven ==
    ASSUME TypeOK, NEW c \in Turns, ReaderOK(c), rd[c] = "give"
    PROVE  /\ source[c] \in Turns /\ cursor[c] \in Nat /\ hi[source[c]] \in Nat
           /\ Least(batch[c]) = cursor[c] + 1
           /\ \E m \in cursor[c] + 1 .. hi[source[c]] :
                 batch[c] = cursor[c] + 1 .. m
<1>1. source[c] \in Turns
  BY Types DEF BellTypes, ReaderOK, Reading
<1>2. cursor[c] \in Nat /\ hi[source[c]] \in Nat
  BY <1>1, Types DEF BufferTypes, ReaderTypes
<1>3. PICK m \in cursor[c] + 1 .. hi[source[c]] : batch[c] = cursor[c] + 1 .. m
  BY DEF ReaderOK
<1>4. Least(batch[c]) = cursor[c] + 1
  BY <1>2, <1>3, LeastOfInterval
<1> QED BY <1>1, <1>2, <1>3, <1>4

LEMMA NextTaken ==
    ASSUME TypeOK, NEW c \in Turns, ReaderOK(c), wire[c] # {}, 0 \notin wire[c]
    PROVE  /\ Reading(c) /\ cl[c] \in {"primary", "attached"}
           /\ source[c] \in Turns /\ cursor[c] \in Nat /\ upto[c] \in Nat
           /\ wire[c] = upto[c] + 1 .. cursor[c] /\ upto[c] + 1 <= cursor[c]
           /\ cursor[c] <= hi[source[c]] /\ hi[source[c]] \in Nat
           /\ Least(wire[c]) = upto[c] + 1
<1>1. Reading(c) /\ cl[c] \in {"primary", "attached"}
      /\ cursor[c] <= hi[source[c]]
      /\ wire[c] = upto[c] + 1 .. cursor[c]
  BY DEF ReaderOK
<1>2. source[c] \in Turns
  BY <1>1, Types DEF BellTypes, ReaderOK
<1>3. cursor[c] \in Nat /\ upto[c] \in Nat /\ hi[source[c]] \in Nat
  BY <1>2, Types DEF BufferTypes, ReaderTypes, SeenTypes
<1>4. upto[c] + 1 <= cursor[c]
  BY <1>1, <1>3
<1>5. Least(wire[c]) = upto[c] + 1
  BY <1>1, <1>3, <1>4, LeastOfInterval
<1> QED BY <1>1, <1>2, <1>3, <1>4, <1>5

-------------------------------------------------------------------------------
(* The types are kept by the steps of a turn.                               *)
LEMMA WriteTypes ==
    ASSUME TypeOK, NEW t \in Turns, NEW last,
           NEW next \in {"proceed", "done", "error"}, Write(t, last, next)
    PROVE  TypeOK'
<1>1. TurnPart
  BY DEF Write
<1>2. RegistryTypes' /\ ReaderTypes' /\ SeenTypes' /\ SettledTypes' /\ OtherTypes'
  BY <1>1, TypesUnmoved DEF TurnPart, clientVars
<1>3. stamped' \in [Turns -> Nat]
  <2>1. stamped' = [stamped EXCEPT ![t] = stamped[t] + 1]
    BY DEF Write, Stamp
  <2>2. stamped \in [Turns -> Nat]
    BY Types DEF BufferTypes
  <2>3. stamped[t] + 1 \in Nat
    BY <2>2
  <2> QED BY <2>1, <2>2, <2>3
<1>4. TurnTypes'
  <2>1. then' \in [Turns -> {"proceed"} \cup Ended] /\ holder' \in Turns \cup {None}
    BY Types DEF Write, TurnTypes, Ended
  <2>2. ends' \in [Turns -> SUBSET (Nat \ {0})]
    <3>1. ends \in [Turns -> SUBSET (Nat \ {0})]
      BY Types DEF TurnTypes
    <3>2. stamped[t] \in Nat
      BY Types DEF BufferTypes
    <3>3. stamped[t] + 1 \in Nat \ {0}
      BY <3>2
    <3>4. \/ ends' = ends
          \/ ends' = [ends EXCEPT ![t] = ends[t] \cup {stamped[t] + 1}]
      BY DEF Write
    <3>5. ends[t] \cup {stamped[t] + 1} \in SUBSET (Nat \ {0})
      BY <3>1, <3>3
    <3> QED BY <3>1, <3>4, <3>5
  <2>3. at' \in [Turns -> Points]
    BY Types DEF Write, TurnTypes, Points
  <2> QED BY <2>1, <2>2, <2>3 DEF TurnTypes
<1>5. state' \in [Turns -> {"none", "live"} \cup Ended]
  BY Types DEF Write, Finish, BufferTypes, Ended
<1>6. CASE t \in Watched
  <2>1. UNCHANGED <<lo, hi, doorbell>>
    BY <1>6 DEF Write
  <2>2. BufferTypes' /\ BellTypes'
    BY <2>1, <1>3, <1>5, Types, TypesUnmoved DEF BufferTypes
  <2> QED BY <2>2, <1>2, <1>4, TypesAfter
<1>7. CASE t \notin Watched
  <2>1. Store(t) /\ Ring(t)
    BY <1>7 DEF Write
  <2>2. BufferTypes'
    BY <2>1, <1>3, <1>5, StoreTypes DEF BufferTypes
  <2>3. BellTypes'
    BY <2>1, RingTypes
  <2> QED BY <2>2, <2>3, <1>2, <1>4, TypesAfter
<1> QED BY <1>6, <1>7

LEMMA TurnTypesKept ==
    ASSUME TypeOK, NEW t \in Turns, TurnStep(t),
           at[t] = "ending" => then[t] \in Ended
    PROVE  TypeOK'
<1>1. CASE BeginChat(t)
  <2>1. UNCHANGED <<then, ends, cursor, batch, wire, clientVars, otherVars>>
        /\ holder' = t /\ current' = t /\ aged' = FALSE /\ doomed' = doomed
    BY <1>1 DEF BeginChat, Begin, BeginTurn
  <2>2. SeenTypes' /\ SettledTypes' /\ OtherTypes'
    BY <2>1, TypesUnmoved DEF clientVars
  <2>3. TurnTypes'
    <3>1. at' = [at EXCEPT ![t] = "running"]
      BY <1>1 DEF BeginChat
    <3> QED BY <2>1, <3>1, Types DEF TurnTypes, Points
  <2>4. RegistryTypes'
    BY <2>1, Types DEF RegistryTypes
  <2>5. BufferTypes'
    <3>1. state' = [state EXCEPT ![t] = "live"] /\ Stamp(t) /\ Store(t)
      BY <1>1 DEF BeginChat, Begin, BeginTurn
    <3>2. state' \in [Turns -> {"none", "live"} \cup Ended]
          /\ stamped' \in [Turns -> Nat]
      BY <3>1, Types DEF Stamp, BufferTypes
    <3> QED BY <3>1, <3>2, StoreTypes DEF BufferTypes
  <2>6. BellTypes' /\ ReaderTypes'
    <3>1. CASE rd[t] = "mailbox"
      <4>1. rd' = [rd EXCEPT ![t] = "listen"] /\ Subscribe(t, t)
        BY <1>1, <3>1 DEF BeginChat
      <4>2. BellTypes'
        BY <4>1, Types DEF Subscribe, BellTypes
      <4>3. ReaderTypes'
        BY <4>1, <2>1, Types DEF ReaderTypes, ReaderPoints
      <4> QED BY <4>2, <4>3
    <3>2. CASE rd[t] # "mailbox"
      <4>1. UNCHANGED doorbell /\ UNCHANGED readerVars
        BY <1>1, <2>1, <3>2 DEF BeginChat, readerVars
      <4> QED BY <4>1, TypesUnmoved
    <3> QED BY <3>1, <3>2
  <2> QED BY <2>2, <2>3, <2>4, <2>5, <2>6, TypesAfter
<1>2. CASE BeginWatched(t)
  <2>1. UNCHANGED readerVars /\ UNCHANGED <<then, ends, clientVars, otherVars, stamped, lo, hi, doorbell>>
        /\ holder' = t /\ current' = t /\ aged' = FALSE /\ doomed' = doomed
    BY <1>2 DEF BeginWatched, Begin, BeginTurn, readerVars
  <2>2. SeenTypes' /\ SettledTypes' /\ OtherTypes' /\ BellTypes' /\ ReaderTypes'
    BY <2>1, TypesUnmoved DEF clientVars
  <2>3. TurnTypes'
    <3>1. at' = [at EXCEPT ![t] = "opening"]
      BY <1>2 DEF BeginWatched
    <3> QED BY <2>1, <3>1, Types DEF TurnTypes, Points
  <2>4. RegistryTypes'
    BY <2>1, Types DEF RegistryTypes
  <2>5. BufferTypes'
    <3>1. state' = [state EXCEPT ![t] = "live"]
      BY <1>2 DEF BeginWatched, Begin, BeginTurn
    <3> QED BY <2>1, <3>1, Types DEF BufferTypes
  <2> QED BY <2>2, <2>3, <2>4, <2>5, TypesAfter
<1>3. CASE TurnStarted(t) \/ Chunk(t) \/ ErrorChunk(t) \/ Done(t) \/ Fail(t)
  BY <1>3, WriteTypes DEF TurnStarted, Chunk, ErrorChunk, Done, Fail
<1>4. CASE Release(t) \/ Abort(t) \/ Append(t) \/ Pulse(t) \/ FinishTurn(t)
  <2>1. TurnPart
    BY <1>4 DEF Release, Abort, Append, Pulse, FinishTurn
  <2>2. RegistryTypes' /\ ReaderTypes' /\ SeenTypes' /\ SettledTypes' /\ OtherTypes'
    BY <2>1, TypesUnmoved DEF TurnPart, clientVars
  <2>3. TurnTypes'
    BY <1>4, Types DEF Release, Abort, Append, Pulse, FinishTurn, TurnTypes,
                       Points, Ended
  <2>4. BellTypes'
    <3>1. UNCHANGED doorbell \/ Ring(t)
      BY <1>4 DEF Release, Abort, Append, Pulse, FinishTurn
    <3> QED BY <3>1, TypesUnmoved, RingTypes
  <2>5. BufferTypes'
    <3>1. CASE Append(t)
      BY <3>1, StoreTypes, Types DEF Append, BufferTypes
    <3>2. CASE FinishTurn(t)
      BY <3>2, Types DEF FinishTurn, Finish, BufferTypes
    <3>3. CASE Release(t) \/ Abort(t) \/ Pulse(t)
      BY <3>3, TypesUnmoved DEF Release, Abort, Pulse
    <3> QED BY <1>4, <3>1, <3>2, <3>3
  <2> QED BY <2>2, <2>3, <2>4, <2>5, TypesAfter
<1> QED BY <1>1, <1>2, <1>3, <1>4 DEF TurnStep

-------------------------------------------------------------------------------
(* They are kept by the steps of a reader.                                  *)
LEMMA ReaderTypesKept ==
    ASSUME TypeOK, NEW c \in Turns, ReaderStep(c) \/ Poll(c),
           ReaderOK(c)
    PROVE  TypeOK'
<1>1. BufferTypes' /\ RegistryTypes' /\ TurnTypes' /\ SeenTypes' /\ SettledTypes'
      /\ OtherTypes'
  <2>1. ReaderPart
    BY DEF ReaderStep, Poll, StartLook, Fetch, LookForGap, Give, LookAtState,
           Drain, Wake, RunCallback
  <2> QED BY <2>1, TypesUnmoved DEF ReaderPart, clientVars
<1>2. BellTypes'
  <2>1. UNCHANGED doorbell \/ Listen(c) \/ Callback(c)
    BY DEF ReaderStep, Poll, StartLook, Fetch, LookForGap, Give, LookAtState,
           Drain, Wake, RunCallback
  <2>2. Listen(c) \/ Callback(c) => BellTypes'
    BY Types DEF BellTypes, Listen, Callback
  <2> QED BY <2>1, <2>2, TypesUnmoved
<1>3. ReaderTypes'
  <2>1. rd \in [Turns -> ReaderPoints] /\ cursor \in [Turns -> Nat]
        /\ batch \in [Turns -> SUBSET (Nat \ {0})] /\ wire \in [Turns -> SUBSET Nat]
    BY Types DEF ReaderTypes
  <2>2. CASE \/ StartLook(c) \/ LookForGap(c) \/ LookAtState(c) \/ Drain(c)
             \/ Wake(c) \/ Poll(c) \/ RunCallback(c)
    <3>1. UNCHANGED <<cursor, batch, wire>>
      BY <2>2 DEF Poll, StartLook, LookForGap, LookAtState, Drain, Wake,
                  RunCallback, readerVars
    <3>2. rd' \in [Turns -> ReaderPoints]
      BY <2>1, <2>2 DEF Poll, StartLook, LookForGap, LookAtState, Drain, Wake,
                  RunCallback, readerVars, Go, ReaderPoints
    <3> QED BY <2>1, <3>1, <3>2 DEF ReaderTypes
  <2>3. CASE Fetch(c)
    <3>1. UNCHANGED <<cursor, wire>>
      BY <2>3 DEF Fetch
    <3>2. rd' \in [Turns -> ReaderPoints]
      BY <2>1, <2>3 DEF Fetch, Go, ReaderPoints
    <3>3. Unread(c) \in SUBSET (Nat \ {0})
      BY <2>3, UnreadType DEF Fetch, ReaderOK, Reading
    <3>4. batch' \in [Turns -> SUBSET (Nat \ {0})]
      BY <2>1, <2>3, <3>3 DEF Fetch
    <3> QED BY <2>1, <3>1, <3>2, <3>4 DEF ReaderTypes
  <2>4. CASE Give(c)
    <3> DEFINE n == Least(batch[c])
    <3>1. rd[c] = "give"
      BY <2>4 DEF Give
    <3>2. n \in Nat \ {0}
      BY <3>1, NextGiven
    <3>3. /\ cursor' = [cursor EXCEPT ![c] = n]
          /\ batch' = [batch EXCEPT ![c] = @ \ {n}]
          /\ wire' = [wire EXCEPT ![c] = @ \cup {n}]
          /\ Go(c, IF batch[c] = {n} THEN "look" ELSE "give")
      BY <2>4 DEF Give
    <3>4. rd' \in [Turns -> ReaderPoints]
      BY <2>1, <3>3 DEF Go, ReaderPoints
    <3> HIDE DEF n
    <3>5. cursor' \in [Turns -> Nat]
      BY <2>1, <3>2, <3>3
    <3>6. batch' \in [Turns -> SUBSET (Nat \ {0})]
      BY <2>1, <3>3
    <3>7. wire' \in [Turns -> SUBSET Nat]
      BY <2>1, <3>2, <3>3
    <3> QED BY <3>4, <3>5, <3>6, <3>7 DEF ReaderTypes
  <2> QED BY <2>2, <2>3, <2>4 DEF ReaderStep
<1> QED BY <1>1, <1>2, <1>3, TypesAfter

-------------------------------------------------------------------------------
(* They are kept by the steps of a client.                                  *)
LEMMA AfterTypes ==
    ASSUME TypeOK, NEW c \in Turns
    PROVE  /\ AfterCut(c) \in ClientPoints /\ AfterEnd(c) \in ClientPoints
           /\ AttachFails(c, TRUE) \in ClientPoints
           /\ AttachFails(c, FALSE) \in ClientPoints
           /\ tries[c] \in Nat /\ TriesAfterCut(c) \in Nat
<1>1. tries[c] \in Nat
  BY Types DEF SettledTypes
<1>2. TriesAfterCut(c) \in Nat
  BY <1>1 DEF TriesAfterCut
<1>3. AttachFails(c, TRUE) \in ClientPoints /\ AttachFails(c, FALSE) \in ClientPoints
  BY DEF AttachFails, ClientPoints, Outcomes
<1>4. AfterCut(c) \in ClientPoints /\ AfterEnd(c) \in ClientPoints
  BY <1>3 DEF AfterCut, AfterEnd, ClientPoints, Outcomes
<1> QED BY <1>1, <1>2, <1>3, <1>4

LEMMA ClientTypesKept ==
    ASSUME TypeOK, NEW c \in Turns, ReaderOK(c),
           ClientStep(c) \/ Cut(c) \/ StatusFails(c) \/ IdleOut(c)
    PROVE  TypeOK'
<1> USE DEF ClientPart
<1>1. BufferTypes' /\ TurnTypes' /\ deleted' \in BOOLEAN /\ audience' \subseteq Turns
  <2>1. ClientPart
    BY DEF ClientStep, Cut, StatusFails, IdleOut, TakeAttach, Take, StreamEnds,
           AskStatus, Reattach, Announce, Complete
  <2>2. deleted \in BOOLEAN /\ audience \subseteq Turns
    BY Types DEF OtherTypes
  <2> QED BY <2>1, <2>2, TypesUnmoved
<1>2. OtherTypes'
  <2>1. faults \in Nat /\ (faults' = faults \/ (faults > 0 /\ faults' = faults - 1))
    BY Types DEF OtherTypes, ClientStep, Cut, StatusFails, IdleOut, TakeAttach,
           Take, StreamEnds, AskStatus, Reattach, Announce, Complete
  <2> QED BY <1>1, <2>1 DEF OtherTypes
<1>3. CASE TakeAttach(c)
  <2>1. UNCHANGED <<registry, doorbell, rd, cursor, batch, cl, upto, shown, note,
                    tries, completion>>
        /\ pin' = [pin EXCEPT ![c] = source[c]]
        /\ wire' = [wire EXCEPT ![c] = @ \ {0}]
    BY <1>3 DEF TakeAttach
  <2>2. RegistryTypes' /\ BellTypes' /\ SettledTypes'
    BY <2>1, TypesUnmoved
  <2>3. ReaderTypes'
    BY <2>1, Types DEF ReaderTypes
  <2>4. SeenTypes'
    BY <2>1, Types DEF SeenTypes, BellTypes
  <2> QED BY <1>1, <1>2, <2>2, <2>3, <2>4, TypesAfter
<1>4. CASE Take(c)
  <2> DEFINE n == Least(wire[c])
  <2>1. n \in Nat
    BY <1>4, NextTaken DEF Take
  <2>2. /\ upto' = [upto EXCEPT ![c] = IF c \in Watched \/ n > @ THEN n ELSE @]
        /\ shown' = [shown EXCEPT ![c] = @ + 1]
        /\ UNCHANGED <<registry, pin>>
        /\ \/ Settle(c, "delivered", 0) /\ Hangup(c)
           \/ /\ note' = [note EXCEPT ![c] =
                             IF n \in ends[source[c]] \/ @ = "finished"
                             THEN "finished" ELSE "moved"]
              /\ wire' = [wire EXCEPT ![c] = @ \ {n}]
              /\ UNCHANGED <<cl, tries, completion, rd, cursor, batch, doorbell>>
    BY <1>4 DEF Take
  <2> HIDE DEF n
  <2>3. SeenTypes'
    <3>1. SeenTypes
      BY Types
    <3> QED BY <2>1, <2>2, <3>1 DEF SeenTypes
  <2>4. RegistryTypes'
    BY <2>2, TypesUnmoved
  <2>5. CASE Settle(c, "delivered", 0) /\ Hangup(c)
    <3>1. SettledTypes'
      BY <2>5, SettleTypes DEF ClientPoints, Outcomes
    <3> QED BY <1>1, <1>2, <2>3, <2>4, <2>5, <3>1, HangupTypes, TypesAfter
  <2>6. CASE UNCHANGED <<cl, tries, completion, rd, cursor, batch, doorbell>>
             /\ wire' = [wire EXCEPT ![c] = @ \ {n}]
             /\ note' = [note EXCEPT ![c] =
                             IF n \in ends[source[c]] \/ @ = "finished"
                             THEN "finished" ELSE "moved"]
    <3>1. SettledTypes'
      BY <2>6, Types DEF SettledTypes
    <3>2. ReaderTypes'
      BY <2>6, Types DEF ReaderTypes
    <3> QED BY <1>1, <1>2, <2>3, <2>4, <2>6, <3>1, <3>2, TypesUnmoved, TypesAfter
  <2> QED BY <2>2, <2>5, <2>6
<1>5. CASE StreamEnds(c) \/ Cut(c) \/ IdleOut(c)
  <2>1. PICK where \in ClientPoints, k \in Nat : Settle(c, where, k)
    <3>1. 1 \in Nat /\ "lost" \in ClientPoints
      BY DEF ClientPoints, Outcomes
    <3> QED BY <1>5, <3>1, AfterTypes, Zenon DEF StreamEnds, Cut, IdleOut
  <2>2. Hangup(c) /\ UNCHANGED <<registry, pin, upto, shown>>
    BY <1>5 DEF StreamEnds, Cut, IdleOut
  <2>3. SettledTypes' /\ ReaderTypes' /\ BellTypes' /\ RegistryTypes' /\ SeenTypes'
    BY <2>1, <2>2, SettleTypes, HangupTypes, TypesUnmoved
  <2> QED BY <1>1, <1>2, <2>3, TypesAfter
<1>6. CASE AskStatus(c)
  <2>1. UNCHANGED <<doorbell, readerVars, pin, upto, shown>>
    BY <1>6 DEF AskStatus
  <2>2. UNCHANGED registry \/ Look
    BY <1>6 DEF AskStatus
  <2>3. PICK where \in ClientPoints, k \in Nat : Settle(c, where, k)
    <3>0. tries[c] \in Nat
      BY AfterTypes
    <3>1. /\ "lost" \in ClientPoints /\ "attaching" \in ClientPoints
          /\ "backoff" \in ClientPoints
      BY DEF ClientPoints, Outcomes
    <3> DEFINE found == IF Attachable = c THEN "attaching"
                        ELSE IF holder = None THEN "lost" ELSE "backoff"
    <3>2. found \in ClientPoints
      BY <3>1
    <3>3. Settle(c, "lost", 0) \/ Settle(c, found, tries[c] + 1)
      BY <1>6 DEF AskStatus
    <3> HIDE DEF found
    <3>4. tries[c] + 1 \in Nat /\ 0 \in Nat
      BY <3>0
    <3> QED BY <3>1, <3>2, <3>3, <3>4
  <2>4. SettledTypes' /\ ReaderTypes' /\ BellTypes' /\ RegistryTypes' /\ SeenTypes'
    BY <2>1, <2>2, <2>3, SettleTypes, LookTypes, TypesUnmoved
  <2> QED BY <1>1, <1>2, <2>4, TypesAfter
<1>7. CASE Reattach(c)
  <2>1. Look /\ UNCHANGED <<pin, upto, shown>>
    BY <1>7 DEF Reattach
  <2>2. PICK where \in ClientPoints, k \in Nat : Settle(c, where, k)
    <3>1. /\ 1 \in Nat /\ tries[c] \in Nat
          /\ "lost" \in ClientPoints /\ "attached" \in ClientPoints
          /\ AttachFails(c, TRUE) \in ClientPoints
      BY AfterTypes DEF ClientPoints, Outcomes
    <3> QED BY <1>7, <3>1, Zenon DEF Reattach
  <2>3. ReaderTypes' /\ BellTypes'
    <3>1. CASE UNCHANGED <<doorbell, readerVars>>
      BY <3>1, TypesUnmoved
    <3>2. CASE ~UNCHANGED <<doorbell, readerVars>>
      <4>1. /\ Subscribe(c, Attachable) /\ Attachable # None
            /\ rd' = [rd EXCEPT ![c] = "listen"]
            /\ cursor' = [cursor EXCEPT ![c] = upto[c]]
            /\ wire' = [wire EXCEPT ![c] = {0}]
            /\ UNCHANGED batch
        BY <1>7, <3>2 DEF Reattach
      <4>2. Attachable \in Turns /\ upto[c] \in Nat
        BY <4>1, Types DEF Attachable, RegistryTypes, SeenTypes
      <4>3. ReaderTypes'
        BY <4>1, <4>2, Types DEF ReaderTypes, ReaderPoints
      <4>4. BellTypes'
        BY <4>1, <4>2, Types DEF BellTypes, Subscribe
      <4> QED BY <4>3, <4>4
    <3> QED BY <3>1, <3>2
  <2>4. SettledTypes' /\ RegistryTypes' /\ SeenTypes'
    BY <2>1, <2>2, SettleTypes, LookTypes, TypesUnmoved
  <2> QED BY <1>1, <1>2, <2>3, <2>4, TypesAfter
<1>8. CASE Announce(c) \/ Complete(c) \/ StatusFails(c)
  <2>1. UNCHANGED <<doorbell, registry, readerVars, pin, upto, shown, note>>
    BY <1>8 DEF Announce, Complete, StatusFails
  <2>2. SettledTypes'
    <3>1. SettledTypes
      BY Types
    <3>2. CASE Announce(c)
      BY <3>1, <3>2 DEF Announce, SettledTypes, ClientPoints
    <3>3. CASE Complete(c)
      BY <3>1, <3>3 DEF Complete, SettledTypes
    <3>4. CASE StatusFails(c)
      BY <3>1, <3>4 DEF StatusFails, SettledTypes
    <3> QED BY <1>8, <3>2, <3>3, <3>4
  <2> QED BY <1>1, <1>2, <2>1, <2>2, TypesUnmoved, TypesAfter
<1> QED BY <1>3, <1>4, <1>5, <1>6, <1>7, <1>8 DEF ClientStep

(* They are kept by a chat's start and by what happens to the registry and  *)
(* the process.                                                             *)
LEMMA OtherTypesKept ==
    ASSUME TypeOK,
           (\E t \in Turns : Ask(t)) \/ Retention \/ Sweep \/ Delete \/ Restart
    PROVE  TypeOK'
<1>1. ASSUME NEW t \in Turns, Ask(t)
      PROVE  TypeOK'
  <2>1. UNCHANGED <<buffers, registry, doorbell, holder, then, ends, cursor, batch,
                    wire, pin, upto, shown, note, tries, completion>>
        /\ UNCHANGED otherVars
    BY <1>1 DEF Ask, turnBuffer
  <2>2. TurnTypes'
    BY <1>1, <2>1, Types DEF Ask, TurnTypes, Points
  <2>3. ReaderTypes'
    BY <1>1, <2>1, Types DEF Ask, ReaderTypes, ReaderPoints
  <2>4. SettledTypes'
    BY <1>1, <2>1, Types DEF Ask, SettledTypes, ClientPoints
  <2> QED BY <2>1, <2>2, <2>3, <2>4, TypesUnmoved, TypesAfter
<1>2. faults > 0 /\ faults' = faults - 1 => faults' \in Nat
  BY Types DEF OtherTypes
<1>3. CASE Retention \/ Sweep \/ Delete
  <2>1. UNCHANGED <<doorbell, turnVars, readerVars, clientVars, buffers>>
    BY <1>3 DEF Retention, Sweep, Delete, Age, Look, Discard, Drop, DropThread
  <2>2. RegistryTypes'
    BY <1>3, Types DEF Retention, Sweep, Delete, Age, Look, Discard, Drop,
                       DropThread, RegistryTypes
  <2>3. OtherTypes'
    BY <1>2, <1>3, Types DEF Retention, Sweep, Delete, OtherTypes, otherVars
  <2> QED BY <2>1, <2>2, <2>3, TypesUnmoved, TypesAfter DEF clientVars
<1>4. CASE Restart
  <2>1. UNCHANGED <<buffers, source, then, ends, pin, upto, shown, deleted, audience>>
    BY <1>4 DEF Restart
  <2>2. RegistryTypes'
    BY <1>4 DEF Restart, RegistryTypes
  <2>3. BellTypes'
    BY <1>4, <2>1, Types DEF Restart, BellTypes
  <2>4. TurnTypes'
    <3>1. at' \in [Turns -> Points]
      BY <1>4, Types DEF Restart, TurnTypes, Points
    <3> QED BY <1>4, <2>1, <3>1, Types DEF Restart, TurnTypes
  <2>5. ReaderTypes'
    BY <1>4 DEF Restart, ReaderTypes, ReaderPoints
  <2>6. SettledTypes'
    <3>1. SettledTypes
      BY Types
    <3>2. cl' \in [Turns -> ClientPoints]
      BY <1>4, <3>1, AfterTypes DEF Restart, SettledTypes
    <3>3. tries' \in [Turns -> Nat]
      BY <1>4, <3>1, AfterTypes DEF Restart, SettledTypes
    <3>4. note' \in [Turns -> {"none", "moved", "finished"}]
      BY <1>4 DEF Restart
    <3>5. completion' \in [Turns -> {"none", "held", "given"}]
      BY <1>4, <3>1 DEF Restart, SettledTypes
    <3> QED BY <3>2, <3>3, <3>4, <3>5 DEF SettledTypes
  <2>7. OtherTypes'
    BY <1>2, <1>4, <2>1, Types DEF Restart, OtherTypes
  <2> QED BY <2>1, <2>2, <2>3, <2>4, <2>5, <2>6, <2>7, TypesUnmoved, TypesAfter
<1> QED BY <1>1, <1>3, <1>4

-------------------------------------------------------------------------------
(* What a reader has not read yet is the end of what its buffer holds; with *)
(* no hole before it, it starts right after the cursor.                     *)
LEMMA UnreadIsInterval ==
    ASSUME TypeOK, NEW c \in Turns, source[c] # None,
           Unread(c) # {}, ~(Least(Unread(c)) > cursor[c] + 1)
    PROVE  /\ Unread(c) = cursor[c] + 1 .. hi[source[c]]
           /\ cursor[c] + 1 <= hi[source[c]]
<1> DEFINE t == source[c]
           first == IF lo[t] > cursor[c] THEN lo[t] ELSE cursor[c] + 1
<1>1. t \in Turns /\ lo[t] \in Nat /\ hi[t] \in Nat /\ cursor[c] \in Nat
  BY TurnStreamAssumption DEF TypeOK, TurnBufferTypeOK, TurnStreamAssumption
<1>2. first \in Nat /\ cursor[c] < first
  BY <1>1
<1>3. Unread(c) = first .. hi[t]
  BY <1>1 DEF Unread, EntriesAfter
<1> HIDE DEF first
<1>4. first <= hi[t]
  BY <1>1, <1>2, <1>3
<1>5. Least(Unread(c)) = first
  BY <1>1, <1>2, <1>3, <1>4, LeastOfInterval
<1> QED BY <1>1, <1>2, <1>3, <1>4, <1>5

(* It holds in the beginning.                                               *)
LEMMA InitInv == Init => IInv
<1> SUFFICES ASSUME Init PROVE IInv
  OBVIOUS
<1> USE TurnBufferAssumption, TurnStreamAssumption
    DEF TurnBufferAssumption, TurnStreamAssumption
<1>1. PICK s \in Scenarios :
        /\ at = [t \in Turns |-> IF t \in s.cast THEN "off" ELSE "dead"]
        /\ audience = s.audience /\ faults = s.faults
  BY DEF Init
<1>2. TypeOK
  <2>1. TurnBufferTypeOK
    <3>1. TurnBufferInit
      BY DEF Init
    <3>2. \A t \in Turns : 1 \in Nat \ {0} /\ 0 \in Nat
      OBVIOUS
    <3> QED BY <3>1, <3>2 DEF TurnBufferInit, TurnBufferTypeOK
  <2>2. audience \subseteq Turns /\ faults \in Nat
    BY <1>1
  <2>3. at \in [Turns -> Points]
    BY <1>1 DEF Points
  <2>4. /\ pin \in [Turns -> Turns \cup {None}]
        /\ rd \in [Turns -> ReaderPoints] /\ cl \in [Turns -> ClientPoints]
    BY DEF Init, ReaderPoints, ClientPoints, Outcomes, Chats
  <2>5. /\ holder \in Turns \cup {None}
        /\ then \in [Turns -> {"proceed"} \cup Ended]
        /\ ends \in [Turns -> SUBSET (Nat \ {0})]
        /\ cursor \in [Turns -> Nat]
        /\ batch \in [Turns -> SUBSET (Nat \ {0})]
        /\ wire \in [Turns -> SUBSET Nat]
        /\ upto \in [Turns -> Nat] /\ shown \in [Turns -> Nat]
        /\ note \in [Turns -> {"none", "moved", "finished"}]
        /\ tries \in [Turns -> Nat]
        /\ completion \in [Turns -> {"none", "held", "given"}]
        /\ deleted \in BOOLEAN
    BY DEF Init
  <2> QED BY <2>1, <2>2, <2>3, <2>4, <2>5 DEF TypeOK
<1>3. ASSUME NEW c \in Turns
      PROVE  /\ state[c] = "none" /\ stamped[c] = 0 /\ hi[c] = 0 /\ lo[c] = 1
             /\ source[c] = None /\ ends[c] = {} /\ rd[c] = "off"
             /\ batch[c] = {} /\ wire[c] = {} /\ cursor[c] = 0 /\ cl[c] = "off"
             /\ pin[c] = (IF c \in Chats THEN c ELSE None)
             /\ upto[c] = 0 /\ shown[c] = 0 /\ note[c] = "none"
             /\ at[c] \in {"off", "dead"}
  BY <1>1 DEF Init, TurnBufferInit
<1>4. \A t \in Turns : BufferOK(t)
  BY <1>3 DEF BufferOK
<1>5. ASSUME NEW c \in Turns
      PROVE  ReaderOK(c) /\ ClientOK(c) /\ BellOK(c)
  <2>1. ReaderOK(c)
    BY <1>3 DEF ReaderOK, Reading
  <2>2. ClientOK(c)
    BY <1>3 DEF ClientOK, Chats, Watched
  <2>3. BellOK(c)
    BY <1>3 DEF BellOK
  <2> QED BY <2>1, <2>2, <2>3
<1>6. RegistryOK
  BY DEF Init, TurnBufferInit, RegistryOK, HolderAttachable
<1> QED BY <1>2, <1>4, <1>5, <1>6 DEF IInv


-------------------------------------------------------------------------------
(* What a step keeps of a client and of a reader that it does not touch,    *)
(* whatever their turn goes on to write.                                    *)
LEMMA Bystander ==
    ASSUME TypeOK, TypeOK', NEW c \in Turns, ReaderOK(c), ClientOK(c),
           rd'[c] = rd[c], cursor'[c] = cursor[c], batch'[c] = batch[c],
           wire'[c] = wire[c], cl'[c] = cl[c], pin'[c] = pin[c],
           upto'[c] = upto[c], shown'[c] = shown[c], note'[c] = note[c],
           source'[c] = source[c], at'[c] = "off" => at[c] = "off",
           NEW s, s = source[c],
           s # None => /\ hi[s] <= hi'[s] /\ stamped[s] <= stamped'[s]
                       /\ ends[s] \subseteq ends'[s]
                       /\ Begun(s) => Begun(s)'
    PROVE  ReaderOK(c)' /\ ClientOK(c)'
<1>1. /\ cursor[c] \in Nat /\ upto[c] \in Nat
      /\ s # None => /\ s \in Turns /\ hi[s] \in Nat /\ stamped[s] \in Nat
                     /\ hi'[s] \in Nat /\ stamped'[s] \in Nat
                     /\ ends[s] \subseteq Nat
  <2>1. cursor[c] \in Nat /\ upto[c] \in Nat /\ s \in Turns \cup {None}
    BY Types DEF ReaderTypes, SeenTypes, BellTypes
  <2>2. ASSUME NEW t \in Turns
        PROVE  hi[t] \in Nat /\ stamped[t] \in Nat /\ ends[t] \subseteq Nat
               /\ hi'[t] \in Nat /\ stamped'[t] \in Nat
    <3>1. hi[t] \in Nat /\ stamped[t] \in Nat
      BY Types DEF BufferTypes
    <3>2. ends[t] \subseteq Nat
      BY Types DEF TurnTypes
    <3>3. hi'[t] \in Nat /\ stamped'[t] \in Nat
      BY TypesThen DEF BufferTypes
    <3> QED BY <3>1, <3>2, <3>3
  <2> QED BY <2>1, <2>2
<1>2. ReaderOK(c)'
  <2>1. (~Reading(c) => wire[c] = {})'
    BY DEF ReaderOK, Reading
  <2>2. (rd[c] # "give" => batch[c] = {})'
    BY DEF ReaderOK
  <2>3. (rd[c] = "mailbox" => /\ c \in Chats /\ cl[c] = "primary"
                              /\ cursor[c] = 0 /\ upto[c] = 0)'
    BY DEF ReaderOK
  <2>4. (Reading(c) => /\ cl[c] \in {"primary", "attached"}
                       /\ source[c] # None
                       /\ upto[c] <= cursor[c] /\ cursor[c] <= hi[source[c]]
                       /\ wire[c] \ {0} = upto[c] + 1 .. cursor[c]
                       /\ 0 \notin wire[c] => pin[c] # None)'
    BY <1>1 DEF ReaderOK, Reading
  <2>5. (rd[c] = "give" =>
          \E m \in cursor[c] + 1 .. hi[source[c]] : batch[c] = cursor[c] + 1 .. m)'
    <3> SUFFICES ASSUME rd[c] = "give"
                 PROVE  \E m \in cursor[c] + 1 .. hi'[s] : batch[c] = cursor[c] + 1 .. m
      OBVIOUS
    <3>1. PICK m \in cursor[c] + 1 .. hi[s] : batch[c] = cursor[c] + 1 .. m
      BY DEF ReaderOK
    <3>2. s # None
      BY DEF ReaderOK, Reading
    <3>3. m \in cursor[c] + 1 .. hi'[s]
      BY <1>1, <3>1, <3>2
    <3> QED BY <3>1, <3>3
  <2> QED BY <2>1, <2>2, <2>3, <2>4, <2>5 DEF ReaderOK
<1>3. ClientOK(c)'
  <2>1. (source[c] # None => Begun(source[c]))'
    BY DEF ClientOK
  <2>2. (upto[c] > 0 => /\ source[c] # None /\ pin[c] # None
                        /\ upto[c] <= hi[source[c]])'
    BY <1>1 DEF ClientOK
  <2>3. (note[c] = "finished" =>
            source[c] # None /\ \E n \in ends[source[c]] : n <= upto[c])'
    BY <1>1 DEF ClientOK
  <2>4. /\ (cl[c] = "off" => rd[c] = "off" /\ upto[c] = 0 /\ cursor[c] = 0)'
        /\ (cl[c] = "primary" => c \in Chats)'
        /\ (c \in Chats => /\ pin[c] = c /\ source[c] \in {None, c}
                           /\ at[c] = "off" => cl[c] = "off")'
        /\ (c \in Watched => cl[c] \notin {"completed", "recovered"})'
        /\ (cl[c] = "attaching" => rd[c] = "off")'
        /\ (pin[c] # None /\ source[c] # None => pin[c] = source[c])'
        /\ (shown[c] = upto[c])'
    BY DEF ClientOK
  <2> QED BY <2>1, <2>2, <2>3, <2>4 DEF ClientOK
<1> QED BY <1>2, <1>3

LEMMA BellUntouched ==
    ASSUME NEW c \in Turns, BellOK(c),
           rd'[c] = rd[c], cursor'[c] = cursor[c], batch'[c] = batch[c],
           source'[c] = source[c], bell'[c] = bell[c],
           NEW s, s = source[c], lo'[s] = lo[s], hi'[s] = hi[s],
           state'[s] = state[s], Pending(s) => Pending(s)'
    PROVE  BellOK(c)'
BY DEF BellOK, Unread, EntriesAfter

(* A step that belongs to one reader or client leaves the others alone:     *)
(* what is left to show is what it does to its own.                         *)
LEMMA ActorFrame ==
    ASSUME IInv, TypeOK', NEW c \in Turns,
           UNCHANGED <<state, stamped, lo, hi>>, UNCHANGED <<at, then, ends>>,
           \A d \in Turns \ {c} :
              /\ rd'[d] = rd[d] /\ cursor'[d] = cursor[d] /\ batch'[d] = batch[d]
              /\ wire'[d] = wire[d] /\ cl'[d] = cl[d] /\ pin'[d] = pin[d]
              /\ upto'[d] = upto[d] /\ shown'[d] = shown[d] /\ note'[d] = note[d]
              /\ source'[d] = source[d] /\ bell'[d] = bell[d],
           ReaderOK(c)', ClientOK(c)', BellOK(c)', RegistryOK'
    PROVE  IInv'
<1>1. \A t \in Turns : BufferOK(t)'
  BY DEF IInv, BufferOK, Begun
<1>2. ASSUME NEW d \in Turns
      PROVE  ReaderOK(d)' /\ ClientOK(d)' /\ BellOK(d)'
  <2>1. CASE d = c
    BY <2>1
  <2>2. CASE d # c
    <3>4. PICK s : s = source[d]
      OBVIOUS
    <3>1. TypeOK /\ ReaderOK(d) /\ ClientOK(d) /\ BellOK(d)
      BY DEF IInv
    <3>2. s # None => /\ hi[s] <= hi'[s] /\ stamped[s] <= stamped'[s]
                      /\ ends[s] \subseteq ends'[s]
                      /\ Begun(s) => Begun(s)'
      <4>1. s # None => hi[s] \in Nat /\ stamped[s] \in Nat
        BY <3>1, <3>4, Types DEF BufferTypes, BellTypes
      <4> QED BY <4>1 DEF Begun
    <3>3. Pending(s) => Pending(s)'
      BY DEF Pending
    <3>5. /\ rd'[d] = rd[d] /\ cursor'[d] = cursor[d] /\ batch'[d] = batch[d]
          /\ wire'[d] = wire[d] /\ cl'[d] = cl[d] /\ pin'[d] = pin[d]
          /\ upto'[d] = upto[d] /\ shown'[d] = shown[d] /\ note'[d] = note[d]
          /\ source'[d] = source[d] /\ bell'[d] = bell[d]
      BY <2>2
    <3>6. ReaderOK(d)' /\ ClientOK(d)'
      BY <3>1, <3>2, <3>4, <3>5, Bystander
    <3>7. BellOK(d)'
      BY <3>1, <3>3, <3>4, <3>5, BellUntouched
    <3> QED BY <3>6, <3>7
  <2> QED BY <2>1, <2>2
<1> QED BY <1>1, <1>2 DEF IInv

-------------------------------------------------------------------------------
(* The steps of a reader.                                                   *)
LEMMA ReaderFrame ==
    ASSUME IInv, TypeOK', NEW c \in Turns, ReaderPart, source' = source,
           \A d \in Turns \ {c} :
              /\ rd'[d] = rd[d] /\ cursor'[d] = cursor[d] /\ batch'[d] = batch[d]
              /\ wire'[d] = wire[d] /\ bell'[d] = bell[d],
           cl[c] \in {"off", "attaching"} => /\ rd'[c] = rd[c]
                                             /\ cursor'[c] = cursor[c],
           ReaderOK(c)', BellOK(c)'
    PROVE  IInv'
<1>1. /\ UNCHANGED <<state, stamped, lo, hi>> /\ UNCHANGED <<current, aged, doomed>>
      /\ UNCHANGED <<holder, at, then, ends>>
      /\ UNCHANGED <<cl, pin, upto, shown, note>>
  BY DEF ReaderPart, buffers, registry, turnVars, clientVars
<1>2. ClientOK(c)'
  BY <1>1 DEF IInv, ClientOK, Begun
<1>3. RegistryOK'
  BY <1>1 DEF IInv, RegistryOK, HolderAttachable, Begun
<1> QED BY <1>1, <1>2, <1>3, ActorFrame

(* Of its own variables, most steps of a reader move only the place it is   *)
(* at.                                                                      *)
LEMMA GoFrame ==
    ASSUME IInv, TypeOK', NEW c \in Turns, NEW p, Go(c, p),
           UNCHANGED <<doorbell, cursor, batch, wire>>, ReaderPart,
           Reading(c), rd[c] # "give", p \in ReaderPoints \ {"off", "mailbox", "give"},
           BellOK(c)'
    PROVE  IInv'
<1>1. TypeOK /\ ReaderOK(c) /\ ClientOK(c)
  BY DEF IInv
<1>2. rd'[c] = p /\ \A d \in Turns \ {c} : rd'[d] = rd[d]
  BY <1>1, Types DEF Go, ReaderTypes
<1>3. /\ UNCHANGED <<source, bell>> /\ hi' = hi
      /\ UNCHANGED <<cl, pin, upto, shown, note>>
  BY DEF ReaderPart, buffers, doorbell, clientVars
<1>4. ReaderOK(c)'
  BY <1>1, <1>2, <1>3 DEF ReaderOK, Reading
<1>5. cl[c] \notin {"off", "attaching"}
  BY <1>1 DEF ReaderOK
<1> QED BY <1>2, <1>3, <1>4, <1>5, ReaderFrame

LEMMA ReaderKeeps ==
    ASSUME IInv, TypeOK', NEW c \in Turns, ReaderStep(c) \/ Poll(c)
    PROVE  IInv'
<1>1. TypeOK /\ ReaderOK(c) /\ ClientOK(c) /\ BellOK(c)
  BY DEF IInv
<1>2. ReaderPart
  BY DEF ReaderStep, Poll, StartLook, Fetch, LookForGap, Give, LookAtState,
         Drain, Wake, RunCallback
<1>3. /\ UNCHANGED <<state, lo, hi, at>>
      /\ UNCHANGED <<cl, pin, upto, shown, note>>
  BY <1>2 DEF ReaderPart, buffers, turnVars, clientVars
<1>4. /\ rd \in [Turns -> ReaderPoints] /\ cursor \in [Turns -> Nat]
      /\ batch \in [Turns -> SUBSET (Nat \ {0})] /\ wire \in [Turns -> SUBSET Nat]
      /\ bell \in [Turns -> {"none", "armed", "rung", "set"}]
  BY <1>1, Types DEF ReaderTypes, BellTypes
<1>5. CASE StartLook(c)
  <2>1. /\ rd[c] = "listen" /\ rd'[c] = "fetch"
        /\ UNCHANGED <<source, cursor, batch, wire>>
        /\ \A d \in Turns \ {c} : rd'[d] = rd[d] /\ bell'[d] = bell[d]
    BY <1>4, <1>5 DEF StartLook, Go, Listen
  <2>2. ReaderOK(c)'
    BY <1>1, <1>3, <2>1 DEF ReaderOK, Reading
  <2>3. BellOK(c)'
    BY <2>1 DEF BellOK
  <2>4. cl[c] \notin {"off", "attaching"}
    BY <1>1, <2>1 DEF ReaderOK, Reading
  <2> QED BY <1>2, <2>1, <2>2, <2>3, <2>4, ReaderFrame
<1>6. CASE Fetch(c)
  <2>1. rd[c] = "fetch" /\ UNCHANGED <<doorbell, cursor, wire>>
    BY <1>6 DEF Fetch
  <2>2. CASE Unread(c) = {}
    <3>1. Go(c, "gap") /\ UNCHANGED batch
      BY <1>6, <2>2 DEF Fetch
    <3>2. BellOK(c)'
      <4>1. Unread(c)' = {} /\ rd'[c] = "gap"
        BY <1>3, <1>4, <2>1, <2>2, <3>1 DEF Unread, EntriesAfter, doorbell, Go
      <4> QED BY <4>1 DEF BellOK
    <3> QED BY <1>2, <2>1, <3>1, <3>2, GoFrame DEF Reading, ReaderPoints
  <2>3. CASE Unread(c) # {} /\ Least(Unread(c)) > cursor[c] + 1
    <3>1. Go(c, "gapped") /\ UNCHANGED batch
      BY <1>6, <2>3 DEF Fetch
    <3>2. BellOK(c)'
      <4>1. rd'[c] = "gapped"
        BY <1>4, <3>1 DEF Go
      <4> QED BY <4>1 DEF BellOK
    <3> QED BY <1>2, <2>1, <3>1, <3>2, GoFrame DEF Reading, ReaderPoints
  <2>4. CASE Unread(c) # {} /\ ~(Least(Unread(c)) > cursor[c] + 1)
    <3>1. Go(c, "give") /\ batch' = [batch EXCEPT ![c] = Unread(c)]
      BY <1>6, <2>4 DEF Fetch
    <3>2. /\ rd'[c] = "give" /\ batch'[c] = Unread(c)
          /\ UNCHANGED <<source, bell, cursor, wire>>
          /\ \A d \in Turns \ {c} : rd'[d] = rd[d] /\ batch'[d] = batch[d]
      BY <1>4, <2>1, <3>1 DEF Go, doorbell
    <3>3. source[c] # None /\ cl[c] \notin {"off", "attaching"}
      BY <1>1, <2>1 DEF ReaderOK, Reading
    <3>4. /\ Unread(c) = cursor[c] + 1 .. hi[source[c]]
          /\ cursor[c] + 1 <= hi[source[c]]
      BY <1>1, <2>4, <3>3, UnreadIsInterval
    <3>5. hi[source[c]] \in cursor[c] + 1 .. hi[source[c]]
      <4>1. source[c] \in Turns
        BY <1>1, <3>3, Types DEF BellTypes
      <4>2. cursor[c] \in Nat /\ hi[source[c]] \in Nat
        BY <1>1, <4>1, Types DEF BufferTypes, ReaderTypes
      <4> QED BY <3>4, <4>2
    <3>6. ReaderOK(c)'
      <4>1. /\ cl[c] \in {"primary", "attached"}
            /\ upto[c] <= cursor[c] /\ cursor[c] <= hi[source[c]]
            /\ wire[c] \ {0} = upto[c] + 1 .. cursor[c]
            /\ 0 \notin wire[c] => pin[c] # None
        BY <1>1, <2>1 DEF ReaderOK, Reading
      <4> QED BY <1>3, <3>2, <3>3, <3>4, <3>5, <4>1 DEF ReaderOK, Reading
    <3>7. BellOK(c)'
      <4>1. Unread(c)' = Unread(c)
        BY <1>3, <3>2 DEF Unread, EntriesAfter
      <4> QED BY <3>2, <4>1 DEF BellOK
    <3> QED BY <1>2, <3>2, <3>3, <3>6, <3>7, ReaderFrame
  <2> QED BY <2>2, <2>3, <2>4
<1>7. CASE Give(c)
  <2>1. rd[c] = "give"
    BY <1>7 DEF Give
  <2>2. /\ Least(batch[c]) = cursor[c] + 1 /\ source[c] \in Turns
        /\ cursor[c] \in Nat /\ hi[source[c]] \in Nat
    BY <1>1, <2>1, NextGiven
  <2>3. PICK m \in cursor[c] + 1 .. hi[source[c]] : batch[c] = cursor[c] + 1 .. m
    BY <1>1, <2>1, NextGiven
  <2>4. /\ cursor'[c] = cursor[c] + 1
        /\ batch'[c] = batch[c] \ {cursor[c] + 1}
        /\ wire'[c] = wire[c] \cup {cursor[c] + 1}
        /\ rd'[c] = IF batch[c] = {cursor[c] + 1} THEN "look" ELSE "give"
    BY <1>4, <1>7, <2>2 DEF Give, Go
  <2>5. /\ UNCHANGED <<source, bell>>
        /\ \A d \in Turns \ {c} : /\ rd'[d] = rd[d] /\ cursor'[d] = cursor[d]
                                  /\ batch'[d] = batch[d] /\ wire'[d] = wire[d]
    BY <1>4, <1>7 DEF Give, Go, doorbell
  <2>6. batch'[c] = cursor[c] + 2 .. m /\ (batch[c] = {cursor[c] + 1} <=> m = cursor[c] + 1)
    <3>1. batch'[c] = cursor[c] + 2 .. m
      BY <2>2, <2>3, <2>4
    <3>2. batch[c] = {cursor[c] + 1} => m = cursor[c] + 1
      <4>1. m \in cursor[c] + 1 .. m
        BY <2>2, <2>3
      <4> QED BY <2>3, <4>1
    <3>3. m = cursor[c] + 1 => batch[c] = {cursor[c] + 1}
      BY <2>2, <2>3
    <3> QED BY <3>1, <3>2, <3>3
  <2>7. /\ cl[c] \in {"primary", "attached"} /\ source[c] # None
        /\ upto[c] \in Nat /\ upto[c] <= cursor[c]
        /\ wire[c] \ {0} = upto[c] + 1 .. cursor[c]
        /\ 0 \notin wire[c] => pin[c] # None
    BY <1>1, <2>1, Types DEF ReaderOK, Reading, SeenTypes
  <2>8. ReaderOK(c)'
    <3>1. wire'[c] \ {0} = upto[c] + 1 .. cursor'[c]
      BY <2>2, <2>4, <2>7
    <3>2. cursor'[c] <= hi[source[c]] /\ upto[c] <= cursor'[c]
      BY <2>2, <2>3, <2>4, <2>7
    <3>3. 0 \notin wire'[c] => pin[c] # None
      BY <2>4, <2>7
    <3>4. rd'[c] \in {"look", "give"} /\ (rd'[c] # "give" => batch'[c] = {})
      BY <2>2, <2>3, <2>4, <2>6
    <3>5. rd'[c] = "give" => /\ m \in cursor'[c] + 1 .. hi[source[c]]
                             /\ batch'[c] = cursor'[c] + 1 .. m
      <4> SUFFICES ASSUME rd'[c] = "give"
                   PROVE  /\ m \in cursor'[c] + 1 .. hi[source[c]]
                          /\ batch'[c] = cursor'[c] + 1 .. m
        OBVIOUS
      <4>1. m # cursor[c] + 1
        BY <2>4, <2>6
      <4>2. cursor'[c] + 1 = cursor[c] + 2
        BY <2>2, <2>4
      <4> QED BY <2>2, <2>3, <2>6, <4>1, <4>2
    <3> QED BY <1>3, <2>5, <2>7, <3>1, <3>2, <3>3, <3>4, <3>5 DEF ReaderOK, Reading
  <2>9. BellOK(c)'
    <3>1. Unread(c)' \subseteq Unread(c) \ {cursor[c] + 1}
      <4>1. lo[source[c]] \in Nat
        BY <1>1, <2>2, Types DEF BufferTypes
      <4> QED BY <1>3, <2>2, <2>4, <2>5, <4>1 DEF Unread, EntriesAfter
    <3>2. rd'[c] \in {"look", "give"}
      BY <2>4
    <3> QED BY <1>1, <1>3, <2>1, <2>4, <2>5, <3>1, <3>2 DEF BellOK, Pending
  <2> QED BY <1>2, <2>5, <2>7, <2>8, <2>9, ReaderFrame
<1>8. CASE LookForGap(c) \/ LookAtState(c) \/ Drain(c) \/ Wake(c) \/ Poll(c)
  <2>1. PICK p \in ReaderPoints \ {"off", "mailbox", "give"} : Go(c, p)
    BY <1>8 DEF LookForGap, LookAtState, Drain, Wake, Poll, ReaderPoints
  <2>2. /\ UNCHANGED <<doorbell, cursor, batch, wire>>
        /\ rd[c] \in {"gap", "check", "look", "drain", "wait"}
    BY <1>8 DEF LookForGap, LookAtState, Drain, Wake, Poll
  <2>3. BellOK(c)'
    <3>1. Unread(c)' = Unread(c) /\ UNCHANGED <<source, bell>>
      BY <1>3, <2>2 DEF Unread, EntriesAfter, doorbell
    <3>2. \/ rd'[c] \notin {"gap", "look", "give", "wait"}
          \/ rd[c] = "gap" /\ rd'[c] = "look"
          \/ rd[c] = "look" /\ rd'[c] = "wait" /\ state[source[c]] = "live"
      BY <1>4, <1>8 DEF LookForGap, LookAtState, Drain, Wake, Poll, Go
    <3> QED BY <1>1, <1>3, <2>2, <3>1, <3>2 DEF BellOK, Pending
  <2> QED BY <1>2, <2>1, <2>2, <2>3, GoFrame DEF Reading
<1>9. CASE RunCallback(c)
  <2>1. /\ bell'[c] = "set" /\ UNCHANGED <<source, rd, cursor, batch, wire>>
        /\ \A d \in Turns \ {c} : bell'[d] = bell[d]
    BY <1>4, <1>9 DEF RunCallback, Callback, readerVars
  <2>2. ReaderOK(c)'
    BY <1>1, <1>3, <2>1 DEF ReaderOK, Reading
  <2>3. BellOK(c)'
    BY <2>1 DEF BellOK
  <2> QED BY <1>2, <2>1, <2>2, <2>3, ReaderFrame
<1> QED BY <1>5, <1>6, <1>7, <1>8, <1>9 DEF ReaderStep

-------------------------------------------------------------------------------
(* The steps of a client.                                                   *)
LEMMA RegistryLooked ==
    ASSUME IInv, UNCHANGED <<state, at, holder>>, UNCHANGED registry \/ Look
    PROVE  RegistryOK'
<1>1. RegistryOK
  BY DEF IInv
<1>2. /\ UNCHANGED <<current, aged>>
      /\ doomed' = doomed \/ (aged /\ doomed' = current)
  BY DEF Look, registry
<1> QED BY <1>1, <1>2 DEF RegistryOK, HolderAttachable, Begun

(* Whatever it was shown, a client that hangs up keeps it.                  *)
LEMMA HungUp ==
    ASSUME IInv, TypeOK', NEW c \in Turns, ClientPart, Hangup(c),
           \A d \in Turns \ {c} :
              /\ cl'[d] = cl[d] /\ upto'[d] = upto[d] /\ shown'[d] = shown[d]
              /\ note'[d] = note[d],
           UNCHANGED <<registry, pin>>,
           cl[c] # "off", cl'[c] \notin {"off", "primary"}, note'[c] = "none",
           c \in Watched => cl'[c] \notin {"completed", "recovered"},
           shown'[c] = upto'[c],
           upto'[c] = upto[c] \/ (/\ source[c] # None /\ pin[c] # None
                                  /\ upto'[c] <= hi[source[c]])
    PROVE  IInv'
<1>1. TypeOK /\ ClientOK(c)
  BY DEF IInv
<1>2. UNCHANGED <<state, stamped, lo, hi>> /\ UNCHANGED <<holder, at, then, ends>>
  BY DEF ClientPart, buffers, turnVars
<1>3. /\ rd'[c] = "off" /\ batch'[c] = {} /\ wire'[c] = {} /\ cursor'[c] = 0
      /\ source' = source /\ bell'[c] = "none"
      /\ \A d \in Turns \ {c} :
            /\ rd'[d] = rd[d] /\ cursor'[d] = cursor[d] /\ batch'[d] = batch[d]
            /\ wire'[d] = wire[d] /\ bell'[d] = bell[d]
  BY <1>1, Types DEF Hangup, ReaderTypes, BellTypes
<1>4. ReaderOK(c)'
  BY <1>3 DEF ReaderOK, Reading
<1>5. BellOK(c)'
  BY <1>3 DEF BellOK
<1>6. ClientOK(c)'
  <2>1. (upto[c] > 0 => /\ source[c] # None /\ pin[c] # None
                        /\ upto[c] <= hi[source[c]])'
    BY <1>1, <1>2, <1>3 DEF ClientOK
  <2> QED BY <1>1, <1>2, <1>3, <2>1 DEF ClientOK, Begun
<1>7. RegistryOK'
  BY <1>2, RegistryLooked
<1>8. \A d \in Turns \ {c} :
              /\ rd'[d] = rd[d] /\ cursor'[d] = cursor[d] /\ batch'[d] = batch[d]
              /\ wire'[d] = wire[d] /\ cl'[d] = cl[d] /\ pin'[d] = pin[d]
              /\ upto'[d] = upto[d] /\ shown'[d] = shown[d] /\ note'[d] = note[d]
              /\ source'[d] = source[d] /\ bell'[d] = bell[d]
  BY <1>3
<1> QED BY <1>2, <1>4, <1>5, <1>6, <1>7, <1>8, ActorFrame

(* A client that is not connected may move on, or out.                      *)
LEMMA MovedOn ==
    ASSUME IInv, TypeOK', NEW c \in Turns, ClientPart, Reading(c)' = FALSE,
           UNCHANGED <<doorbell, readerVars, pin, upto, shown>>,
           UNCHANGED registry \/ Look,
           \A d \in Turns \ {c} : cl'[d] = cl[d] /\ note'[d] = note[d],
           rd[c] = "off", cl'[c] \notin {"off", "primary", "completed", "recovered"},
           c \in Chats => at[c] # "off",
           note'[c] \in {"none", note[c]}
    PROVE  IInv'
<1>1. TypeOK /\ ClientOK(c) /\ ReaderOK(c)
  BY DEF IInv
<1>2. UNCHANGED <<state, stamped, lo, hi>> /\ UNCHANGED <<holder, at, then, ends>>
  BY DEF ClientPart, buffers, turnVars
<1>3. UNCHANGED <<source, bell>> /\ UNCHANGED <<rd, cursor, batch, wire>>
  BY DEF doorbell, readerVars
<1>4. ReaderOK(c)'
  BY <1>1, <1>2, <1>3 DEF ReaderOK, Reading
<1>5. BellOK(c)'
  BY <1>3 DEF BellOK
<1>6. ClientOK(c)'
  BY <1>1, <1>2, <1>3 DEF ClientOK, Begun
<1>7. RegistryOK'
  BY <1>2, RegistryLooked
<1> QED BY <1>2, <1>3, <1>4, <1>5, <1>6, <1>7, ActorFrame

LEMMA TakeAttachKeeps ==
    ASSUME IInv, TypeOK', NEW c \in Turns, TakeAttach(c)
    PROVE  IInv'
<1>1. TypeOK /\ ClientOK(c) /\ ReaderOK(c) /\ BellOK(c)
  BY DEF IInv
<1>2. UNCHANGED <<state, stamped, lo, hi>> /\ UNCHANGED <<holder, at, then, ends>>
  BY DEF TakeAttach, ClientPart, buffers, turnVars
<1>3. /\ UNCHANGED registry /\ UNCHANGED <<source, bell>>
      /\ UNCHANGED <<rd, cursor, batch, cl, upto, shown, note>>
      /\ 0 \in wire[c] /\ pin'[c] = source[c] /\ wire'[c] = wire[c] \ {0}
      /\ \A d \in Turns \ {c} : pin'[d] = pin[d] /\ wire'[d] = wire[d]
  BY <1>1, Types DEF TakeAttach, doorbell, SeenTypes, ReaderTypes
<1>4. Reading(c) /\ source[c] # None
  BY <1>1, <1>3 DEF ReaderOK
<1>5. wire'[c] \ {0} = wire[c] \ {0}
  BY <1>3
<1>6. ReaderOK(c)'
  BY <1>1, <1>2, <1>3, <1>4, <1>5 DEF ReaderOK, Reading
<1>7. ClientOK(c)'
  BY <1>1, <1>2, <1>3, <1>4 DEF ClientOK, Begun
<1>8. BellOK(c)'
  BY <1>1, <1>2, <1>3 DEF BellOK, Pending, Unread, EntriesAfter
<1>9. RegistryOK'
  BY <1>2, <1>3, RegistryLooked
<1> QED BY <1>2, <1>3, <1>6, <1>7, <1>8, <1>9, ActorFrame

LEMMA TakeKeeps ==
    ASSUME IInv, TypeOK', NEW c \in Turns, Take(c)
    PROVE  IInv'
<1>1. TypeOK /\ ClientOK(c) /\ ReaderOK(c) /\ BellOK(c)
  BY DEF IInv
<1>2. UNCHANGED <<state, stamped, lo, hi>> /\ UNCHANGED <<holder, at, then, ends>>
      /\ UNCHANGED <<registry, pin>> /\ ClientPart
  BY DEF Take, ClientPart, buffers, turnVars
<1>3. /\ Reading(c) /\ cl[c] \in {"primary", "attached"}
      /\ source[c] \in Turns /\ cursor[c] \in Nat /\ upto[c] \in Nat
      /\ wire[c] = upto[c] + 1 .. cursor[c] /\ upto[c] + 1 <= cursor[c]
      /\ cursor[c] <= hi[source[c]] /\ hi[source[c]] \in Nat
      /\ Least(wire[c]) = upto[c] + 1 /\ 0 \notin wire[c]
  BY <1>1, NextTaken DEF Take
<1>4. source[c] # None /\ pin[c] # None
  BY <1>1, <1>3 DEF ReaderOK
<1>5. /\ upto'[c] = upto[c] + 1 /\ shown'[c] = shown[c] + 1
      /\ \A d \in Turns \ {c} : upto'[d] = upto[d] /\ shown'[d] = shown[d]
  BY <1>1, <1>3, Types DEF Take, SeenTypes
<1>6. shown'[c] = upto'[c] /\ upto'[c] <= hi[source[c]]
  BY <1>1, <1>3, <1>5 DEF ClientOK
<1>7. CASE Settle(c, "delivered", 0) /\ Hangup(c)
  <2>1. /\ cl'[c] = "delivered" /\ note'[c] = "none"
        /\ \A d \in Turns \ {c} : cl'[d] = cl[d] /\ note'[d] = note[d]
    BY <1>1, <1>7, Types DEF Settle, SettledTypes
  <2>2. cl[c] # "off"
    BY <1>3
  <2>3. \A d \in Turns \ {c} :
              /\ cl'[d] = cl[d] /\ upto'[d] = upto[d] /\ shown'[d] = shown[d]
              /\ note'[d] = note[d]
    BY <1>5, <2>1
  <2> QED BY <1>2, <1>4, <1>6, <1>7, <2>1, <2>2, <2>3, HungUp
<1>8. CASE /\ note' = [note EXCEPT ![c] =
                             IF Least(wire[c]) \in ends[source[c]] \/ @ = "finished"
                             THEN "finished" ELSE "moved"]
           /\ wire' = [wire EXCEPT ![c] = @ \ {Least(wire[c])}]
           /\ UNCHANGED <<cl, tries, completion, rd, cursor, batch, doorbell>>
  <2>1. /\ note'[c] = "finished" => upto[c] + 1 \in ends[source[c]] \/ note[c] = "finished"
        /\ wire'[c] = wire[c] \ {upto[c] + 1}
        /\ UNCHANGED <<cl, rd, cursor, batch>> /\ UNCHANGED <<source, bell>>
        /\ \A d \in Turns \ {c} : note'[d] = note[d] /\ wire'[d] = wire[d]
    BY <1>1, <1>3, <1>8, Types DEF SettledTypes, ReaderTypes, doorbell
  <2>2. ReaderOK(c)'
    <3>1. /\ wire'[c] \ {0} = upto'[c] + 1 .. cursor[c] /\ 0 \notin wire'[c]
          /\ upto'[c] <= cursor[c]
      BY <1>3, <1>5, <2>1
    <3>2. rd[c] # "mailbox"
      BY <1>3 DEF Reading
    <3> QED BY <1>1, <1>2, <1>3, <1>4, <2>1, <3>1, <3>2 DEF ReaderOK, Reading
  <2>3. ClientOK(c)'
    <3>1. (note[c] = "finished" =>
              source[c] # None /\ \E n \in ends[source[c]] : n <= upto[c])'
      <4> SUFFICES ASSUME note'[c] = "finished"
                   PROVE  \E n \in ends[source[c]] : n <= upto'[c]
        BY <1>2, <1>4, <2>1
      <4>1. CASE upto[c] + 1 \in ends[source[c]]
        BY <1>3, <1>5, <4>1
      <4>2. CASE note[c] = "finished"
        <5>1. PICK n \in ends[source[c]] : n <= upto[c]
          BY <1>1, <4>2 DEF ClientOK
        <5>2. n \in Nat
          BY <1>1, <1>3, <5>1, Types DEF TurnTypes
        <5> QED BY <1>3, <1>5, <5>1, <5>2
      <4> QED BY <2>1, <4>1, <4>2
    <3>2. cl[c] \notin {"off", "attaching"}
      BY <1>3
    <3> QED BY <1>1, <1>2, <1>4, <1>6, <2>1, <3>1, <3>2 DEF ClientOK, Begun
  <2>4. BellOK(c)'
    BY <1>1, <1>2, <2>1 DEF BellOK, Pending, Unread, EntriesAfter
  <2>5. RegistryOK'
    BY <1>2, RegistryLooked
  <2> QED BY <1>2, <1>5, <2>1, <2>2, <2>3, <2>4, <2>5, ActorFrame
<1> QED BY <1>7, <1>8 DEF Take

LEMMA ReattachKeeps ==
    ASSUME IInv, TypeOK', NEW c \in Turns, Reattach(c)
    PROVE  IInv'
<1>1. TypeOK /\ ClientOK(c) /\ ReaderOK(c) /\ BellOK(c) /\ RegistryOK
  BY DEF IInv
<1>2. UNCHANGED <<state, stamped, lo, hi>> /\ UNCHANGED <<holder, at, then, ends>>
      /\ UNCHANGED <<pin, upto, shown>> /\ Look /\ ClientPart
      /\ cl[c] = "attaching"
  BY DEF Reattach, ClientPart, buffers, turnVars
<1>3. rd[c] = "off" /\ (c \in Chats => at[c] # "off")
  BY <1>1, <1>2 DEF ClientOK
<1> DEFINE t == Attachable
           gone == t = None \/ pin[c] \notin {None, t} \/ HasReplayGap(t, upto[c])
           lost == IF c \in Watched THEN AttachFails(c, TRUE) ELSE "lost"
<1>4. CASE gone
  <2>1. Settle(c, lost, 1) /\ UNCHANGED <<doorbell, readerVars>>
    BY <1>4 DEF Reattach
  <2>2. lost \in {"lost", "fallback", "attaching", "delivered"}
    BY DEF AttachFails
  <2>3. /\ cl'[c] = lost /\ note'[c] = "none"
        /\ \A d \in Turns \ {c} : cl'[d] = cl[d] /\ note'[d] = note[d]
    BY <1>1, <2>1, Types DEF Settle, SettledTypes
  <2>4. Reading(c)' = FALSE
    BY <1>3, <2>1 DEF Reading, readerVars
  <2> HIDE DEF lost
  <2> QED BY <1>2, <1>3, <2>1, <2>2, <2>3, <2>4, MovedOn
<1>5. CASE ~gone
  <2>1. PICK u : u = t
    OBVIOUS
  <2>2. /\ u # None /\ pin[c] \in {None, u}
        /\ Settle(c, "attached", tries[c]) /\ Subscribe(c, u)
        /\ rd' = [rd EXCEPT ![c] = "listen"]
        /\ cursor' = [cursor EXCEPT ![c] = upto[c]]
        /\ wire' = [wire EXCEPT ![c] = {0}]
        /\ UNCHANGED batch
    BY <1>5, <2>1 DEF Reattach
  <2>3. u \in Turns /\ Begun(u)
    BY <1>1, <2>1, <2>2, Types DEF Attachable, RegistryTypes, RegistryOK
  <2>4. /\ cl'[c] = "attached" /\ note'[c] = "none" /\ source'[c] = u
        /\ rd'[c] = "listen" /\ cursor'[c] = upto[c] /\ wire'[c] = {0}
        /\ bell'[c] = "none" /\ batch' = batch
        /\ \A d \in Turns \ {c} :
              /\ cl'[d] = cl[d] /\ note'[d] = note[d] /\ source'[d] = source[d]
              /\ rd'[d] = rd[d] /\ cursor'[d] = cursor[d] /\ wire'[d] = wire[d]
              /\ bell'[d] = bell[d]
    BY <1>1, <2>2, Types DEF Settle, Subscribe, SettledTypes, ReaderTypes, BellTypes
  <2>5. upto[c] \in Nat /\ hi[u] \in Nat /\ upto[c] <= hi[u]
    <3>1. upto[c] \in Nat /\ hi[u] \in Nat
      BY <1>1, <2>3, Types DEF SeenTypes, BufferTypes
    <3>2. upto[c] > 0 => u = source[c] /\ upto[c] <= hi[source[c]]
      BY <1>1, <2>2 DEF ClientOK
    <3> QED BY <3>1, <3>2
  <2>6. ReaderOK(c)'
    <3>1. {0} \ {0} = upto[c] + 1 .. upto[c]
      BY <2>5
    <3>2. batch[c] = {}
      BY <1>1, <1>3 DEF ReaderOK
    <3> QED BY <1>2, <2>2, <2>4, <2>5, <3>1, <3>2 DEF ReaderOK, Reading
  <2>7. ClientOK(c)'
    <3>1. c \in Chats => u = c
      BY <1>1, <2>2, <2>3, TurnBufferAssumption
         DEF ClientOK, Chats, TurnBufferAssumption
    <3> QED BY <1>1, <1>2, <1>3, <2>2, <2>3, <2>4, <2>5, <3>1 DEF ClientOK, Begun
  <2>8. BellOK(c)'
    BY <2>4 DEF BellOK
  <2>9. RegistryOK'
    BY <1>2, RegistryLooked
  <2>10. \A d \in Turns \ {c} :
              /\ rd'[d] = rd[d] /\ cursor'[d] = cursor[d] /\ batch'[d] = batch[d]
              /\ wire'[d] = wire[d] /\ cl'[d] = cl[d] /\ pin'[d] = pin[d]
              /\ upto'[d] = upto[d] /\ shown'[d] = shown[d] /\ note'[d] = note[d]
              /\ source'[d] = source[d] /\ bell'[d] = bell[d]
    BY <1>2, <2>4
  <2> QED BY <1>2, <2>6, <2>7, <2>8, <2>9, <2>10, ActorFrame
<1> QED BY <1>4, <1>5

(* Where a client goes when its stream fails or ends is no place to start.  *)
LEMMA WhereNext ==
    ASSUME NEW c \in Turns, cl[c] \in {"primary", "attaching", "attached"},
           c \in Watched => cl[c] # "primary"
    PROVE  \A w \in {AfterCut(c), AfterEnd(c), AttachFails(c, FALSE)} :
              /\ w \notin {"off", "primary"}
              /\ c \in Watched => w \notin {"completed", "recovered"}
BY DEF AfterCut, AfterEnd, AttachFails

LEMMA ClientKeeps ==
    ASSUME IInv, TypeOK', NEW c \in Turns,
           ClientStep(c) \/ Cut(c) \/ StatusFails(c) \/ IdleOut(c)
    PROVE  IInv'
<1>1. TypeOK /\ ClientOK(c) /\ ReaderOK(c)
  BY DEF IInv
<1>2. CASE TakeAttach(c)
  BY <1>2, TakeAttachKeeps
<1>3. CASE Take(c)
  BY <1>3, TakeKeeps
<1>4. CASE StreamEnds(c) \/ Cut(c) \/ IdleOut(c)
  <2>1. PICK where, k : Settle(c, where, k)
                        /\ where \in {AfterCut(c), AfterEnd(c),
                                      AttachFails(c, FALSE), "lost"}
    BY <1>4, Zenon DEF StreamEnds, Cut, IdleOut
  <2>2. /\ Hangup(c) /\ UNCHANGED <<registry, pin>> /\ UNCHANGED <<upto, shown>>
        /\ ClientPart /\ cl[c] \in {"primary", "attaching", "attached"}
    BY <1>4 DEF StreamEnds, Cut, IdleOut, Online
  <2>3. c \in Watched => cl[c] # "primary"
    BY <1>1 DEF ClientOK, Watched, Chats
  <2>4. /\ where \notin {"off", "primary"}
        /\ c \in Watched => where \notin {"completed", "recovered"}
    BY <2>1, <2>2, <2>3, WhereNext
  <2>5. /\ cl'[c] = where /\ note'[c] = "none"
        /\ \A d \in Turns \ {c} : cl'[d] = cl[d] /\ note'[d] = note[d]
    BY <1>1, <2>1, Types DEF Settle, SettledTypes
  <2>6. shown[c] = upto[c]
    BY <1>1 DEF ClientOK
  <2> QED BY <2>2, <2>4, <2>5, <2>6, HungUp
<1>5. CASE AskStatus(c)
  <2>1. PICK where, k : Settle(c, where, k)
                        /\ where \in {"lost", "attaching", "backoff"}
    <3> DEFINE found == IF Attachable = c THEN "attaching"
                        ELSE IF holder = None THEN "lost" ELSE "backoff"
    <3>1. found \in {"lost", "attaching", "backoff"}
      OBVIOUS
    <3>2. Settle(c, "lost", 0) \/ Settle(c, found, tries[c] + 1)
      BY <1>5, Zenon DEF AskStatus
    <3> HIDE DEF found
    <3> QED BY <3>1, <3>2, Zenon
  <2>2. /\ UNCHANGED <<doorbell, readerVars, pin, upto, shown>> /\ ClientPart
        /\ (UNCHANGED registry \/ Look) /\ cl[c] = "backoff"
    BY <1>5 DEF AskStatus
  <2>3. /\ cl'[c] = where /\ note'[c] = "none"
        /\ \A d \in Turns \ {c} : cl'[d] = cl[d] /\ note'[d] = note[d]
    BY <1>1, <2>1, Types DEF Settle, SettledTypes
  <2>4. rd[c] = "off" /\ (c \in Chats => at[c] # "off")
    BY <1>1, <2>2 DEF ReaderOK, ClientOK, Reading
  <2>5. Reading(c)' = FALSE
    BY <2>2, <2>4 DEF Reading, readerVars
  <2>6. cl'[c] \notin {"off", "primary", "completed", "recovered"}
    BY <2>1, <2>3
  <2> QED BY <2>2, <2>3, <2>4, <2>5, <2>6, MovedOn
<1>6. CASE Reattach(c)
  BY <1>6, ReattachKeeps
<1>7. CASE Announce(c)
  <2>1. /\ UNCHANGED <<doorbell, readerVars, pin, upto, shown>> /\ ClientPart
        /\ UNCHANGED registry /\ cl[c] = "off" /\ c \in Watched /\ note' = note
    BY <1>7 DEF Announce
  <2>2. cl'[c] = "attaching" /\ \A d \in Turns \ {c} : cl'[d] = cl[d]
    BY <1>1, <1>7, Types DEF Announce, SettledTypes
  <2>3. rd[c] = "off" /\ c \notin Chats
    BY <1>1, <2>1 DEF ClientOK, Watched, Chats
  <2>4. Reading(c)' = FALSE
    BY <2>1, <2>3 DEF Reading, readerVars
  <2> QED BY <2>1, <2>2, <2>3, <2>4, MovedOn
<1>8. CASE Complete(c) \/ StatusFails(c)
  <2>1. /\ UNCHANGED <<source, bell>> /\ UNCHANGED <<rd, cursor, batch, wire>>
        /\ UNCHANGED <<cl, pin, upto, shown, note>> /\ UNCHANGED registry
        /\ UNCHANGED <<state, stamped, lo, hi>> /\ UNCHANGED <<holder, at, then, ends>>
    BY <1>8 DEF Complete, StatusFails, ClientPart, buffers, turnVars, doorbell,
                readerVars
  <2>2. ReaderOK(c)'
    BY <1>1, <2>1 DEF ReaderOK, Reading
  <2>3. ClientOK(c)'
    BY <1>1, <2>1 DEF ClientOK, Begun
  <2>4. BellOK(c)'
    BY <2>1 DEF IInv, BellOK, Pending, Unread, EntriesAfter
  <2>5. RegistryOK'
    BY <2>1, RegistryLooked
  <2> QED BY <2>1, <2>2, <2>3, <2>4, <2>5, ActorFrame
<1> QED BY <1>2, <1>3, <1>4, <1>5, <1>6, <1>7, <1>8 DEF ClientStep

-------------------------------------------------------------------------------
(* The steps of a turn: what it does not touch is kept by whatever only     *)
(* adds to its buffer.                                                      *)
LEMMA TurnFrame ==
    ASSUME IInv, TypeOK', NEW t \in Turns,
           UNCHANGED readerVars, UNCHANGED clientVars, source' = source,
           \A d \in Turns \ {t} :
              /\ state'[d] = state[d] /\ stamped'[d] = stamped[d]
              /\ lo'[d] = lo[d] /\ hi'[d] = hi[d] /\ at'[d] = at[d]
              /\ then'[d] = then[d] /\ ends'[d] = ends[d],
           \A d \in Turns : source[d] # t => bell'[d] = bell[d],
           hi[t] <= hi'[t], stamped[t] <= stamped'[t], ends[t] \subseteq ends'[t],
           Begun(t) => Begun(t)', at'[t] = "off" => at[t] = "off",
           BufferOK(t)', RegistryOK',
           \A d \in Turns : source[d] = t => BellOK(d)'
    PROVE  IInv'
<1>1. ASSUME NEW d \in Turns
      PROVE  BufferOK(d)'
  <2>1. BufferOK(d)
    BY DEF IInv
  <2>2. CASE d # t
    BY <2>1, <2>2 DEF BufferOK, Begun
  <2> QED BY <2>2
<1>2. ASSUME NEW d \in Turns
      PROVE  ReaderOK(d)' /\ ClientOK(d)' /\ BellOK(d)'
  <2>1. PICK s : s = source[d]
    OBVIOUS
  <2>2. TypeOK /\ ReaderOK(d) /\ ClientOK(d) /\ BellOK(d)
    BY DEF IInv
  <2>3. s \in Turns \cup {None}
    BY <2>1, <2>2, Types DEF BellTypes
  <2>4. s # None => /\ hi[s] <= hi'[s] /\ stamped[s] <= stamped'[s]
                    /\ ends[s] \subseteq ends'[s]
                    /\ Begun(s) => Begun(s)'
    <3>1. s # None => hi[s] \in Nat /\ stamped[s] \in Nat
      BY <2>2, <2>3, Types DEF BufferTypes
    <3>2. CASE s = t
      BY <3>2
    <3>3. CASE s # t
      BY <2>3, <3>1, <3>3 DEF Begun
    <3> QED BY <3>2, <3>3
  <2>5. /\ rd'[d] = rd[d] /\ cursor'[d] = cursor[d] /\ batch'[d] = batch[d]
        /\ wire'[d] = wire[d] /\ cl'[d] = cl[d] /\ pin'[d] = pin[d]
        /\ upto'[d] = upto[d] /\ shown'[d] = shown[d] /\ note'[d] = note[d]
        /\ source'[d] = source[d]
    BY DEF readerVars, clientVars
  <2>6. at'[d] = "off" => at[d] = "off"
    OBVIOUS
  <2>7. ReaderOK(d)' /\ ClientOK(d)'
    BY <2>1, <2>2, <2>4, <2>5, <2>6, Bystander
  <2>8. BellOK(d)'
    <3>1. CASE s = t
      BY <2>1, <3>1
    <3>2. CASE s # t /\ s # None
      <4>1. /\ lo'[s] = lo[s] /\ hi'[s] = hi[s] /\ state'[s] = state[s]
            /\ Pending(s) => Pending(s)'
        BY <2>3, <3>2 DEF Pending
      <4>2. bell'[d] = bell[d]
        BY <2>1, <3>2
      <4> QED BY <2>1, <2>2, <2>5, <4>1, <4>2, BellUntouched
    <3>3. CASE s = None
      <4>1. rd[d] \in {"off", "mailbox"}
        BY <2>1, <2>2, <3>3 DEF ReaderOK, Reading
      <4> QED BY <2>5, <4>1 DEF BellOK
    <3> QED BY <3>1, <3>2, <3>3
  <2> QED BY <2>7, <2>8
<1> QED BY <1>1, <1>2 DEF IInv

(* The registry looks at the buffers' states and at who has the lock.       *)
LEMMA RegistryKept ==
    ASSUME IInv, NEW t \in Turns, UNCHANGED registry, holder' \in {holder, None},
           \A d \in Turns : /\ Begun(d) => Begun(d)'
                            /\ state'[d] = state[d]
                               \/ (state[d] = "live" /\ state'[d] \in Ended)
    PROVE  RegistryOK'
<1>1. RegistryOK /\ TypeOK
  BY DEF IInv
<1>2. /\ current \in Turns \cup {None} /\ doomed \in Turns \cup {None}
      /\ holder \in Turns \cup {None}
  BY <1>1, Types DEF RegistryTypes, TurnTypes
<1>3. UNCHANGED <<current, aged, doomed>>
  BY DEF registry
<1>4. "live" \notin Ended
  BY DEF Ended
<1> QED BY <1>1, <1>2, <1>3, <1>4 DEF RegistryOK, HolderAttachable

(* After a ring no reader of the turn has an event it still waits for.      *)
LEMMA Rung ==
    ASSUME TypeOK, NEW t \in Turns, Ring(t)
    PROVE  /\ source' = source
           /\ \A d \in Turns : source[d] # t => bell'[d] = bell[d]
           /\ \A d \in Turns : source[d] = t => BellOK(d)'
<1>1. ASSUME NEW d \in Turns
      PROVE  bell'[d] = (IF source[d] = t /\ bell[d] = "armed"
                         THEN IF t \in OnLoop THEN "set" ELSE "rung"
                         ELSE bell[d])
  BY TurnStreamAssumption DEF Ring, TurnStreamAssumption
<1>2. \A d \in Turns : source[d] = t => bell'[d] # "armed"
  BY <1>1
<1> QED BY <1>1, <1>2 DEF Ring, BellOK

LEMMA BufferFacts ==
    ASSUME IInv, NEW t \in Turns
    PROVE  /\ BufferOK(t) /\ TypeOK
           /\ hi[t] \in Nat /\ stamped[t] \in Nat /\ lo[t] \in Nat \ {0}
           /\ ends[t] \subseteq Nat /\ then[t] \in {"proceed"} \cup Ended
<1>1. BufferOK(t) /\ TypeOK
  BY DEF IInv
<1>2. hi[t] \in Nat /\ stamped[t] \in Nat /\ lo[t] \in Nat \ {0}
  BY <1>1, Types DEF BufferTypes
<1>3. ends[t] \subseteq Nat /\ then[t] \in {"proceed"} \cup Ended
  BY <1>1, Types DEF TurnTypes
<1> QED BY <1>1, <1>2, <1>3

(* Of TurnPart, what the frames ask for.                                    *)
LEMMA TurnPartKeeps ==
    ASSUME TurnPart
    PROVE  UNCHANGED readerVars /\ UNCHANGED clientVars /\ UNCHANGED registry
BY DEF TurnPart

(* Until its turn rings, a reader's bell is as it was; afterwards it has    *)
(* been woken.                                                              *)
LEMMA QuietBell ==
    ASSUME IInv, NEW t \in Turns, UNCHANGED readerVars, UNCHANGED doorbell,
           \/ Pending(t)'
           \/ /\ lo'[t] = lo[t] /\ hi'[t] = hi[t] /\ state'[t] = state[t]
              /\ ~Pending(t)
    PROVE  /\ source' = source
           /\ \A d \in Turns : source[d] # t => bell'[d] = bell[d]
           /\ \A d \in Turns : source[d] = t => BellOK(d)'
<1>1. UNCHANGED <<source, bell>> /\ UNCHANGED <<rd, cursor, batch, wire>>
  BY DEF doorbell, readerVars
<1>2. ASSUME NEW d \in Turns, source[d] = t
      PROVE  BellOK(d)'
  <2>1. BellOK(d)
    BY DEF IInv
  <2>2. CASE Pending(t)'
    BY <1>1, <1>2, <2>2 DEF BellOK, Pending
  <2>3. CASE lo'[t] = lo[t] /\ hi'[t] = hi[t] /\ state'[t] = state[t] /\ ~Pending(t)
    BY <1>1, <1>2, <2>1, <2>3, BellUntouched
  <2> QED BY <2>2, <2>3
<1> QED BY <1>1, <1>2

LEMMA WriteKeeps ==
    ASSUME IInv, TypeOK', NEW t \in Turns, NEW last,
           NEW next \in {"proceed", "done", "error"},
           at[t] \in {"opening", "running"}, Write(t, last, next)
    PROVE  IInv'
<1>1. /\ BufferOK(t) /\ TypeOK
      /\ hi[t] \in Nat /\ stamped[t] \in Nat /\ lo[t] \in Nat \ {0}
      /\ ends[t] \subseteq Nat
  BY BufferFacts
<1>2. UNCHANGED readerVars /\ UNCHANGED clientVars /\ UNCHANGED registry
      /\ holder' = holder
  BY TurnPartKeeps DEF Write
<1>3. /\ stamped \in [Turns -> Nat] /\ hi \in [Turns -> Nat]
      /\ lo \in [Turns -> Nat \ {0}] /\ state \in [Turns -> {"none", "live"} \cup Ended]
      /\ at \in [Turns -> Points] /\ then \in [Turns -> {"proceed"} \cup Ended]
      /\ ends \in [Turns -> SUBSET (Nat \ {0})]
  BY <1>1, Types DEF BufferTypes, TurnTypes
<1>4. /\ stamped'[t] = stamped[t] + 1 /\ then'[t] = next
      /\ ends'[t] \in {ends[t], ends[t] \cup {stamped[t] + 1}}
      /\ \A d \in Turns \ {t} : /\ stamped'[d] = stamped[d] /\ then'[d] = then[d]
                                /\ ends'[d] = ends[d]
  BY <1>3 DEF Write, Stamp
<1>5. ends'[t] \subseteq 1 .. stamped'[t] /\ ends[t] \subseteq ends'[t]
      /\ stamped[t] <= stamped'[t]
  BY <1>1, <1>4 DEF BufferOK
<1>6. CASE t \in Watched
  <2>1. /\ at'[t] = "stamped" /\ UNCHANGED <<state, lo, hi>> /\ UNCHANGED doorbell
        /\ \A d \in Turns \ {t} : at'[d] = at[d]
    BY <1>3, <1>6 DEF Write, doorbell
  <2>2. BufferOK(t)'
    BY <1>1, <1>4, <1>5, <2>1 DEF BufferOK, Begun
  <2>3. Begun(t) => Begun(t)'
    BY <2>1 DEF Begun
  <2>4. RegistryOK'
    BY <1>2, <2>1, RegistryKept DEF Begun
  <2>5. /\ source' = source
        /\ \A d \in Turns : source[d] # t => bell'[d] = bell[d]
        /\ \A d \in Turns : source[d] = t => BellOK(d)'
    BY <1>2, <2>1, QuietBell DEF Pending
  <2> QED BY <1>1, <1>2, <1>4, <1>5, <2>1, <2>2, <2>3, <2>4, <2>5, TurnFrame
<1>7. CASE t \notin Watched
  <2>1. Store(t) /\ Ring(t)
    BY <1>7 DEF Write
  <2>2. /\ hi'[t] = hi[t] + 1 /\ lo'[t] \in lo[t] .. hi[t] + 2
        /\ \A d \in Turns \ {t} : hi'[d] = hi[d] /\ lo'[d] = lo[d]
    BY <1>1, <1>3, <2>1, StoreTypes
  <2>3. /\ \A d \in Turns \ {t} : state'[d] = state[d] /\ at'[d] = at[d]
        /\ at'[t] \in {at[t], "over"}
        /\ state'[t] = state[t] \/ (state[t] = "live" /\ state'[t] \in Ended)
    BY <1>3, <1>7 DEF Write, Finish, Ended
  <2>4. Begun(t)
    BY DEF Begun
  <2>5. Begun(t)' /\ at'[t] \notin {"off", "stamped", "ending"}
    BY <2>3 DEF Begun
  <2>6. BufferOK(t)'
    BY <1>1, <1>4, <1>5, <2>2, <2>5 DEF BufferOK
  <2>7. RegistryOK'
    BY <1>2, <2>3, <2>5, RegistryKept DEF Begun
  <2>8. hi[t] <= hi'[t]
    BY <1>1, <2>2
  <2> QED BY <1>1, <1>2, <1>4, <1>5, <2>1, <2>2, <2>3, <2>5, <2>6, <2>7, <2>8,
             Rung, TurnFrame
<1> QED BY <1>6, <1>7

LEMMA WorkerKeeps ==
    ASSUME IInv, TypeOK', NEW t \in Turns,
           Release(t) \/ Abort(t) \/ Append(t) \/ Pulse(t) \/ FinishTurn(t)
    PROVE  IInv'
<1>1. /\ BufferOK(t) /\ TypeOK
      /\ hi[t] \in Nat /\ stamped[t] \in Nat /\ lo[t] \in Nat \ {0}
      /\ then[t] \in {"proceed"} \cup Ended
  BY BufferFacts
<1>2. UNCHANGED readerVars /\ UNCHANGED clientVars /\ UNCHANGED registry
  BY TurnPartKeeps DEF Release, Abort, Append, Pulse, FinishTurn
<1>3. /\ stamped' = stamped /\ ends' = ends /\ holder' \in {holder, None}
      /\ Begun(t)
      /\ at[t] \in {"running", "over", "stamped", "stored", "finished", "ending"}
  BY DEF Release, Abort, Append, Pulse, FinishTurn, Begun, buffers
<1>4. /\ hi \in [Turns -> Nat]
      /\ lo \in [Turns -> Nat \ {0}] /\ state \in [Turns -> {"none", "live"} \cup Ended]
      /\ at \in [Turns -> Points] /\ then \in [Turns -> {"proceed"} \cup Ended]
  BY <1>1, Types DEF BufferTypes, TurnTypes
<1>5. /\ \A d \in Turns \ {t} : /\ state'[d] = state[d]
                                /\ at'[d] = at[d] /\ then'[d] = then[d]
      /\ at'[t] \notin {"off", "asked", "stamped"} \/ at'[t] = at[t]
  BY <1>4 DEF Release, Abort, Append, Pulse, FinishTurn, Finish, buffers
<1>6. /\ \A d \in Turns \ {t} : lo'[d] = lo[d] /\ hi'[d] = hi[d]
      /\ hi[t] <= hi'[t] /\ hi'[t] <= stamped[t] /\ lo'[t] <= hi'[t] + 1
      /\ at'[t] = "stamped" => hi'[t] < stamped[t]
  <2>1. CASE Append(t)
    <3>1. hi[t] < stamped[t] /\ at'[t] = "stored"
      BY <1>1, <1>4, <2>1 DEF BufferOK, Append
    <3>2. /\ hi'[t] = hi[t] + 1 /\ lo'[t] \in lo[t] .. hi[t] + 2
          /\ \A d \in Turns \ {t} : hi'[d] = hi[d] /\ lo'[d] = lo[d]
      BY <1>1, <1>4, <2>1, StoreTypes DEF Append
    <3> QED BY <1>1, <3>1, <3>2
  <2>2. CASE ~Append(t)
    <3>1. UNCHANGED <<lo, hi>>
      BY <2>2 DEF Release, Abort, Pulse, FinishTurn, buffers
    <3> QED BY <1>1, <1>5, <3>1 DEF BufferOK
  <2> QED BY <2>1, <2>2
<1>7. at'[t] = "ending" => then'[t] \in Ended
  BY <1>1, <1>4 DEF Release, Abort, Append, Pulse, FinishTurn, BufferOK, Ended
<1>8. state'[t] = state[t] \/ (state[t] = "live" /\ state'[t] \in Ended)
  <2>1. CASE FinishTurn(t)
    <3>1. then[t] \in Ended
      BY <1>1, <2>1 DEF BufferOK, FinishTurn
    <3> QED BY <1>4, <2>1, <3>1 DEF FinishTurn, Finish
  <2>2. CASE ~FinishTurn(t)
    BY <2>2 DEF Release, Abort, Append, Pulse, buffers
  <2> QED BY <2>1, <2>2
<1>9. Begun(t)' /\ at'[t] # "off"
  BY <1>3, <1>5 DEF Begun
<1>10. BufferOK(t)'
  BY <1>1, <1>3, <1>6, <1>7, <1>9 DEF BufferOK
<1>11. RegistryOK'
  BY <1>2, <1>3, <1>5, <1>8, <1>9, RegistryKept DEF Begun
<1>12. /\ source' = source
       /\ \A d \in Turns : source[d] # t => bell'[d] = bell[d]
       /\ \A d \in Turns : source[d] = t => BellOK(d)'
  <2>1. CASE Pulse(t)
    BY <1>1, <2>1, Rung DEF Pulse
  <2>2. CASE Append(t) \/ FinishTurn(t)
    <3>1. Pending(t)' /\ UNCHANGED doorbell
      BY <1>4, <2>2 DEF Append, FinishTurn, Pending, doorbell
    <3> QED BY <1>2, <3>1, QuietBell
  <2>3. CASE Release(t) \/ Abort(t)
    <3>1. /\ lo'[t] = lo[t] /\ hi'[t] = hi[t] /\ state'[t] = state[t]
          /\ ~Pending(t) /\ UNCHANGED doorbell
      BY <2>3 DEF Release, Abort, Pending, buffers, doorbell
    <3> QED BY <1>2, <3>1, QuietBell
  <2> QED BY <2>1, <2>2, <2>3
<1>13. stamped[t] <= stamped'[t] /\ ends[t] \subseteq ends'[t]
  BY <1>1, <1>3
<1> QED BY <1>2, <1>3, <1>5, <1>6, <1>9, <1>10, <1>11, <1>12, <1>13, TurnFrame

-------------------------------------------------------------------------------
(* The start of a turn: no reader has its buffer yet.                       *)
LEMMA StartFrame ==
    ASSUME IInv, TypeOK', NEW t \in Turns, ~Begun(t),
           \A d \in Turns \ {t} :
              /\ state'[d] = state[d] /\ stamped'[d] = stamped[d]
              /\ lo'[d] = lo[d] /\ hi'[d] = hi[d] /\ at'[d] = at[d]
              /\ then'[d] = then[d] /\ ends'[d] = ends[d]
              /\ rd'[d] = rd[d] /\ cursor'[d] = cursor[d] /\ batch'[d] = batch[d]
              /\ wire'[d] = wire[d] /\ cl'[d] = cl[d] /\ pin'[d] = pin[d]
              /\ upto'[d] = upto[d] /\ shown'[d] = shown[d] /\ note'[d] = note[d]
              /\ source'[d] = source[d] /\ bell'[d] = bell[d],
           BufferOK(t)', RegistryOK', ReaderOK(t)', ClientOK(t)', BellOK(t)'
    PROVE  IInv'
<1>1. ASSUME NEW d \in Turns
      PROVE  BufferOK(d)'
  <2>1. BufferOK(d)
    BY DEF IInv
  <2>2. CASE d # t
    BY <2>1, <2>2 DEF BufferOK, Begun
  <2> QED BY <2>2
<1>2. ASSUME NEW d \in Turns, d # t
      PROVE  ReaderOK(d)' /\ ClientOK(d)' /\ BellOK(d)'
  <2>1. PICK s : s = source[d]
    OBVIOUS
  <2>2. TypeOK /\ ReaderOK(d) /\ ClientOK(d) /\ BellOK(d)
    BY DEF IInv
  <2>3. s \in Turns \cup {None}
    BY <2>1, <2>2, Types DEF BellTypes
  <2>4. s # None => s \in Turns \ {t}
    BY <2>1, <2>2, <2>3 DEF ClientOK
  <2>5. s # None => /\ hi[s] <= hi'[s] /\ stamped[s] <= stamped'[s]
                    /\ ends[s] \subseteq ends'[s]
                    /\ Begun(s) => Begun(s)'
    <3>1. s # None => hi[s] \in Nat /\ stamped[s] \in Nat
      BY <2>2, <2>3, Types DEF BufferTypes
    <3> QED BY <2>4, <3>1 DEF Begun
  <2>6. /\ rd'[d] = rd[d] /\ cursor'[d] = cursor[d] /\ batch'[d] = batch[d]
        /\ wire'[d] = wire[d] /\ cl'[d] = cl[d] /\ pin'[d] = pin[d]
        /\ upto'[d] = upto[d] /\ shown'[d] = shown[d] /\ note'[d] = note[d]
        /\ source'[d] = source[d] /\ bell'[d] = bell[d] /\ at'[d] = at[d]
    BY <1>2
  <2>7. ReaderOK(d)' /\ ClientOK(d)'
    BY <2>1, <2>2, <2>5, <2>6, Bystander
  <2>8. BellOK(d)'
    <3>1. CASE s # None
      <4>1. /\ lo'[s] = lo[s] /\ hi'[s] = hi[s] /\ state'[s] = state[s]
            /\ Pending(s) => Pending(s)'
        BY <2>4, <3>1 DEF Pending
      <4> QED BY <2>1, <2>2, <2>6, <4>1, BellUntouched
    <3>2. CASE s = None
      <4>1. rd[d] \in {"off", "mailbox"}
        BY <2>1, <2>2, <3>2 DEF ReaderOK, Reading
      <4> QED BY <2>6, <4>1 DEF BellOK
    <3> QED BY <3>1, <3>2
  <2> QED BY <2>7, <2>8
<1> QED BY <1>1, <1>2 DEF IInv

(* A turn that has not begun has an empty buffer and a client that has      *)
(* seen nothing.                                                            *)
LEMMA NotBegun ==
    ASSUME IInv, NEW t \in Turns, ~Begun(t)
    PROVE  /\ state[t] = "none" /\ current # t /\ doomed # t
           /\ source[t] # t
           /\ t \in Chats => /\ source[t] = None /\ upto[t] = 0
                             /\ note[t] # "finished" /\ rd[t] \in {"off", "mailbox"}
                             /\ pin[t] = t
<1>1. /\ TypeOK /\ BufferOK(t) /\ RegistryOK /\ ClientOK(t) /\ ReaderOK(t)
  BY DEF IInv
<1>2. state[t] = "none"
  BY <1>1 DEF BufferOK
<1>3. current # t /\ doomed # t
  BY <1>1, <1>2, TurnBufferAssumption DEF RegistryOK, Ended, TurnBufferAssumption
<1>4. source[t] # t
  BY <1>1, TurnBufferAssumption DEF ClientOK, TurnBufferAssumption
<1>5. t \in Chats => source[t] = None
  BY <1>1, <1>4 DEF ClientOK
<1>6. upto[t] \in Nat /\ (rd[t] \in ReaderPoints)
  BY <1>1, Types DEF SeenTypes, ReaderTypes
<1>7. t \in Chats => /\ upto[t] = 0 /\ note[t] # "finished" /\ pin[t] = t
                     /\ rd[t] \in {"off", "mailbox"}
  BY <1>1, <1>5, <1>6 DEF ClientOK, ReaderOK, Reading
<1> QED BY <1>2, <1>3, <1>4, <1>5, <1>7

LEMMA AskKeeps ==
    ASSUME IInv, TypeOK', NEW t \in Turns, Ask(t)
    PROVE  IInv'
<1>1. /\ TypeOK /\ BufferOK(t) /\ RegistryOK /\ ClientOK(t) /\ ReaderOK(t)
  BY DEF IInv
<1>2. /\ t \in Chats /\ at[t] = "off"
      /\ UNCHANGED <<state, stamped, lo, hi>> /\ UNCHANGED <<current, aged, doomed>>
      /\ UNCHANGED <<source, bell>> /\ UNCHANGED <<holder, then, ends>>
      /\ UNCHANGED <<cursor, batch, wire, pin, upto, shown, note>>
  BY DEF Ask, turnBuffer, buffers, registry, doorbell
<1>3. /\ at'[t] = "asked"
      /\ \/ cl'[t] = cl[t] /\ rd'[t] = rd[t]
         \/ cl'[t] = "primary" /\ rd'[t] = "mailbox"
      /\ \A d \in Turns \ {t} : at'[d] = at[d] /\ cl'[d] = cl[d] /\ rd'[d] = rd[d]
  <2>1. /\ at \in [Turns -> Points] /\ rd \in [Turns -> ReaderPoints]
        /\ cl \in [Turns -> ClientPoints]
    BY <1>1, Types DEF TurnTypes, ReaderTypes, SettledTypes
  <2>2. at' = [at EXCEPT ![t] = "asked"]
    BY DEF Ask
  <2>3. CASE t \in audience
    BY <2>1, <2>2, <2>3 DEF Ask
  <2>4. CASE t \notin audience
    <3>1. UNCHANGED <<cl, rd>>
      BY <2>4 DEF Ask
    <3> QED BY <2>1, <2>2, <3>1
  <2> QED BY <2>3, <2>4
<1>4. ~Begun(t) /\ ~Begun(t)'
  BY <1>2, <1>3 DEF Begun
<1>5. cl[t] = "off" /\ rd[t] = "off" /\ upto[t] = 0 /\ cursor[t] = 0
      /\ batch[t] = {} /\ wire[t] = {}
  BY <1>1, <1>2 DEF ClientOK, ReaderOK, Reading
<1>6. /\ state[t] = "none" /\ source[t] = None /\ note[t] # "finished"
      /\ pin[t] = t /\ current # t
  BY <1>2, <1>4, NotBegun
<1>7. BufferOK(t)'
  BY <1>1, <1>2, <1>3, <1>4, <1>6 DEF BufferOK
<1>8. ReaderOK(t)'
  BY <1>1, <1>2, <1>3, <1>5 DEF ReaderOK, Reading
<1>9. ClientOK(t)'
  <2>1. t \notin Watched
    BY <1>2 DEF Watched, Chats
  <2> QED BY <1>1, <1>2, <1>3, <1>5, <1>6, <2>1 DEF ClientOK
<1>10. BellOK(t)'
  BY <1>3, <1>5 DEF BellOK
<1>11. RegistryOK'
  <2>1. current # None => Begun(current)'
    <3>1. current # None => current \in Turns \ {t} /\ Begun(current)
      BY <1>1, <1>6, Types DEF RegistryTypes, RegistryOK
    <3> QED BY <1>2, <1>3, <3>1 DEF Begun
  <2> QED BY <1>1, <1>2, <2>1 DEF RegistryOK, HolderAttachable, Begun
<1> QED BY <1>2, <1>3, <1>4, <1>7, <1>8, <1>9, <1>10, <1>11, StartFrame

LEMMA BeginKeeps ==
    ASSUME IInv, TypeOK', NEW t \in Turns, BeginChat(t) \/ BeginWatched(t)
    PROVE  IInv'
<1>1. /\ TypeOK /\ BufferOK(t) /\ RegistryOK /\ ClientOK(t) /\ ReaderOK(t)
      /\ BellOK(t)
  BY DEF IInv
<1>2. /\ holder' = t /\ current' = t /\ aged' = FALSE /\ doomed' = doomed
      /\ state' = [state EXCEPT ![t] = "live"]
      /\ UNCHANGED <<then, ends, cursor, batch, wire>>
      /\ UNCHANGED <<cl, pin, upto, shown, note>>
      /\ ~Begun(t)
  BY DEF BeginChat, BeginWatched, Begin, BeginTurn, Begun, clientVars
<1>3. /\ stamped \in [Turns -> Nat] /\ hi \in [Turns -> Nat]
      /\ lo \in [Turns -> Nat \ {0}] /\ state \in [Turns -> {"none", "live"} \cup Ended]
      /\ at \in [Turns -> Points] /\ rd \in [Turns -> ReaderPoints]
      /\ source \in [Turns -> Turns \cup {None}]
      /\ bell \in [Turns -> {"none", "armed", "rung", "set"}]
  BY <1>1, Types DEF BufferTypes, TurnTypes, ReaderTypes, BellTypes
<1>4. /\ state[t] = "none" /\ current # t /\ doomed # t
      /\ source[t] # t
      /\ t \in Chats => /\ source[t] = None /\ upto[t] = 0
                        /\ note[t] # "finished" /\ rd[t] \in {"off", "mailbox"}
                        /\ pin[t] = t
  BY <1>2, NotBegun
<1>5. /\ state'[t] = "live" /\ at'[t] \in {"opening", "running"}
      /\ \A d \in Turns \ {t} : state'[d] = state[d] /\ at'[d] = at[d]
  BY <1>2, <1>3 DEF BeginChat, BeginWatched
<1>6. /\ hi[t] \in Nat /\ stamped[t] \in Nat /\ lo[t] \in Nat \ {0}
      /\ ends[t] \subseteq 1 .. stamped[t] /\ hi[t] <= stamped[t] /\ lo[t] <= hi[t] + 1
  BY <1>1, <1>3 DEF BufferOK
<1>7. /\ \/ stamped'[t] = stamped[t] /\ hi'[t] = hi[t] /\ lo'[t] = lo[t]
         \/ /\ stamped'[t] = stamped[t] + 1 /\ hi'[t] = hi[t] + 1
            /\ lo'[t] \in lo[t] .. hi[t] + 2
      /\ \A d \in Turns \ {t} : /\ stamped'[d] = stamped[d] /\ hi'[d] = hi[d]
                                /\ lo'[d] = lo[d]
  <2>1. CASE BeginChat(t)
    <3>1. Stamp(t) /\ Store(t)
      BY <2>1 DEF BeginChat
    <3>2. /\ hi' = [hi EXCEPT ![t] = hi[t] + 1]
          /\ \E keep \in lo[t] .. hi[t] + 2 : lo' = [lo EXCEPT ![t] = keep]
      BY <1>1, <3>1, StoreTypes
    <3>3. stamped' = [stamped EXCEPT ![t] = stamped[t] + 1]
      BY <3>1 DEF Stamp
    <3> QED BY <1>3, <3>2, <3>3
  <2>2. CASE BeginWatched(t)
    BY <2>2 DEF BeginWatched
  <2> QED BY <2>1, <2>2
<1>8. BufferOK(t)'
  <2>1. Begun(t)' /\ at'[t] \notin {"stamped", "ending"}
    BY <1>5 DEF Begun
  <2>2. hi'[t] <= stamped'[t] /\ lo'[t] <= hi'[t] + 1 /\ ends'[t] \subseteq 1 .. stamped'[t]
    BY <1>2, <1>6, <1>7
  <2> QED BY <2>1, <2>2 DEF BufferOK
<1>9. RegistryOK'
  <2>1. Begun(t)'
    BY <1>5 DEF Begun
  <2>2. doomed # None => doomed \in Turns \ {t} /\ state[doomed] \in Ended
    BY <1>1, <1>4, Types DEF RegistryTypes, RegistryOK
  <2> QED BY <1>2, <1>5, <2>1, <2>2 DEF RegistryOK, HolderAttachable
<1>10. t \notin Watched \/ t \notin Chats
  BY DEF Watched, Chats
<1>11. CASE rd' = rd /\ UNCHANGED doorbell
  <2>1. source' = source /\ bell' = bell
    BY <1>11 DEF doorbell
  <2>2. PICK s : s = source[t]
    OBVIOUS
  <2>3. s # None => /\ s \in Turns \ {t} /\ hi'[s] = hi[s] /\ lo'[s] = lo[s]
                    /\ stamped'[s] = stamped[s] /\ hi[s] \in Nat /\ stamped[s] \in Nat
                    /\ at'[s] = at[s] /\ state'[s] = state[s]
    BY <1>3, <1>4, <1>5, <1>7, <2>2
  <2>4. s # None => /\ hi[s] <= hi'[s] /\ stamped[s] <= stamped'[s]
                    /\ ends[s] \subseteq ends'[s]
                    /\ Begun(s) => Begun(s)'
    BY <1>2, <2>3 DEF Begun
  <2>5. ReaderOK(t)' /\ ClientOK(t)'
    BY <1>1, <1>2, <1>5, <1>11, <2>1, <2>2, <2>4, Bystander
  <2>6. BellOK(t)'
    <3>1. CASE s # None
      BY <1>1, <1>2, <1>11, <2>1, <2>2, <2>3, <3>1, BellUntouched DEF Pending
    <3>2. CASE s = None
      <4>1. rd[t] \in {"off", "mailbox"}
        BY <1>1, <2>2, <3>2 DEF ReaderOK, Reading
      <4> QED BY <1>11, <4>1 DEF BellOK
    <3> QED BY <3>1, <3>2
  <2>7. \A d \in Turns \ {t} :
              /\ rd'[d] = rd[d] /\ source'[d] = source[d] /\ bell'[d] = bell[d]
    BY <1>11, <2>1
  <2> QED BY <1>2, <1>5, <1>7, <1>8, <1>9, <2>5, <2>6, <2>7, StartFrame
<1>12. CASE /\ t \in Chats /\ rd[t] = "mailbox"
            /\ rd' = [rd EXCEPT ![t] = "listen"] /\ Subscribe(t, t)
  <2>1. /\ rd'[t] = "listen" /\ source'[t] = t /\ bell'[t] = "none"
        /\ \A d \in Turns \ {t} :
              /\ rd'[d] = rd[d] /\ source'[d] = source[d] /\ bell'[d] = bell[d]
    BY <1>3, <1>12 DEF Subscribe
  <2>2. /\ cl[t] = "primary" /\ cursor[t] = 0 /\ upto[t] = 0 /\ wire[t] = {}
        /\ batch[t] = {} /\ t # None /\ pin[t] = t
    BY <1>1, <1>4, <1>12, TurnBufferAssumption
       DEF ReaderOK, Reading, TurnBufferAssumption
  <2>3. {} \ {0} = 0 + 1 .. 0 /\ 0 <= hi'[t]
    BY <1>6, <1>7
  <2>4. ReaderOK(t)'
    BY <1>2, <2>1, <2>2, <2>3 DEF ReaderOK, Reading
  <2>5. ClientOK(t)'
    BY <1>1, <1>2, <1>4, <1>5, <1>10, <1>12, <2>1, <2>2 DEF ClientOK, Begun
  <2>6. BellOK(t)'
    BY <2>1 DEF BellOK
  <2> QED BY <1>2, <1>5, <1>7, <1>8, <1>9, <2>1, <2>4, <2>5, <2>6, StartFrame
<1> QED BY <1>11, <1>12 DEF BeginChat, BeginWatched

-------------------------------------------------------------------------------
(* The registry and the process.                                            *)
LEMMA StillFrame ==
    ASSUME IInv, TypeOK',
           UNCHANGED <<state, stamped, lo, hi>>, UNCHANGED <<source, bell>>,
           UNCHANGED <<holder, at, then, ends>>, UNCHANGED <<rd, cursor, batch, wire>>,
           UNCHANGED <<cl, pin, upto, shown, note>>,
           RegistryOK'
    PROVE  IInv'
<1>1. ASSUME NEW c \in Turns
      PROVE  BufferOK(c)' /\ ReaderOK(c)' /\ ClientOK(c)' /\ BellOK(c)'
  <2>1. BufferOK(c) /\ ReaderOK(c) /\ ClientOK(c) /\ BellOK(c)
    BY DEF IInv
  <2>2. BufferOK(c)'
    BY <2>1 DEF BufferOK, Begun
  <2>3. ReaderOK(c)'
    BY <2>1 DEF ReaderOK, Reading
  <2>4. ClientOK(c)'
    BY <2>1 DEF ClientOK, Begun
  <2>5. BellOK(c)'
    BY <2>1 DEF BellOK, Pending, Unread, EntriesAfter
  <2> QED BY <2>2, <2>3, <2>4, <2>5
<1> QED BY <1>1 DEF IInv

LEMMA RegistryKeeps ==
    ASSUME IInv, TypeOK', Retention \/ Sweep \/ Delete
    PROVE  IInv'
<1>1. /\ UNCHANGED <<state, stamped, lo, hi>> /\ UNCHANGED <<source, bell>>
      /\ UNCHANGED <<holder, at, then, ends>> /\ UNCHANGED <<rd, cursor, batch, wire>>
      /\ UNCHANGED <<cl, pin, upto, shown, note>>
  BY DEF Retention, Sweep, Delete, Age, Look, Discard, Drop, DropThread, buffers,
         doorbell, turnVars, readerVars, clientVars
<1>2. RegistryOK
  BY DEF IInv
<1>3. RegistryOK'
  <2>1. CASE Retention
    BY <1>1, <1>2, <2>1 DEF Retention, Age, RegistryOK, HolderAttachable, Begun
  <2>2. CASE Look
    BY <1>1, <2>2, RegistryLooked
  <2>3. CASE Discard
    BY <1>1, <1>2, <2>3
       DEF Discard, Drop, RegistryOK, HolderAttachable, Begun, Ended
  <2>4. CASE Delete
    BY <1>1, <1>2, <2>4 DEF Delete, DropThread, Drop, RegistryOK, HolderAttachable
  <2> QED BY <2>1, <2>2, <2>3, <2>4 DEF Sweep
<1> QED BY <1>1, <1>3, StillFrame

LEMMA RestartKeeps ==
    ASSUME IInv, TypeOK', Restart
    PROVE  IInv'
<1>1. /\ UNCHANGED <<state, stamped, lo, hi, source, then, ends, pin, upto, shown>>
      /\ holder' = None /\ current' = None /\ aged' = FALSE /\ doomed' = None
  BY DEF Restart, buffers
<1>2. ASSUME NEW c \in Turns
      PROVE  /\ \/ at'[c] = at[c] /\ at[c] \in {"off", "over"}
                \/ at'[c] = "dead" /\ at[c] \notin {"off", "over"}
             /\ rd'[c] = "off" /\ bell'[c] = "none" /\ cursor'[c] = 0
             /\ batch'[c] = {} /\ wire'[c] = {} /\ note'[c] = "none"
             /\ cl'[c] = IF Online(c) THEN AfterCut(c) ELSE cl[c]
  <2>1. at'[c] = IF at[c] \in {"off", "over"} THEN at[c] ELSE "dead"
    BY DEF Restart
  <2>2. /\ rd'[c] = "off" /\ bell'[c] = "none" /\ cursor'[c] = 0
        /\ batch'[c] = {} /\ wire'[c] = {} /\ note'[c] = "none"
    BY DEF Restart
  <2>3. cl'[c] = IF Online(c) THEN AfterCut(c) ELSE cl[c]
    BY DEF Restart
  <2> QED BY <2>1, <2>2, <2>3
<1>3. ASSUME NEW s
      PROVE  Begun(s) /\ s \in Turns => Begun(s)'
  BY <1>2 DEF Begun
<1>4. ASSUME NEW c \in Turns
      PROVE  BufferOK(c)' /\ ReaderOK(c)' /\ ClientOK(c)' /\ BellOK(c)'
  <2>1. TypeOK /\ BufferOK(c) /\ ReaderOK(c) /\ ClientOK(c)
    BY DEF IInv
  <2>2. BufferOK(c)'
    BY <1>1, <1>2, <1>3, <2>1 DEF BufferOK
  <2>3. ReaderOK(c)'
    BY <1>2 DEF ReaderOK, Reading
  <2>4. ClientOK(c)'
    <3>1. source[c] # None => Begun(source[c])'
      <4>1. source[c] # None => source[c] \in Turns /\ Begun(source[c])
        BY <2>1, Types DEF BellTypes, ClientOK
      <4>2. PICK s : s = source[c]
        OBVIOUS
      <4> QED BY <1>1, <1>3, <4>1, <4>2
    <3>2. c \in Watched => cl[c] # "primary"
      BY <2>1 DEF ClientOK, Watched, Chats
    <3>3. Online(c) => /\ AfterCut(c) \notin {"off", "primary"}
                       /\ c \in Watched => AfterCut(c) \notin {"completed", "recovered"}
      BY <3>2, WhereNext DEF Online
    <3>4. /\ cl'[c] = "off" => cl[c] = "off"
          /\ cl[c] = "off" => cl'[c] = "off"
          /\ cl'[c] # "primary"
          /\ c \in Watched => cl'[c] \notin {"completed", "recovered"}
      BY <1>2, <2>1, <3>3 DEF Online, ClientOK
    <3> QED BY <1>1, <1>2, <2>1, <3>1, <3>4 DEF ClientOK
  <2>5. BellOK(c)'
    BY <1>2 DEF BellOK
  <2> QED BY <2>2, <2>3, <2>4, <2>5
<1>5. RegistryOK'
  BY <1>1 DEF RegistryOK, HolderAttachable
<1> QED BY <1>4, <1>5 DEF IInv

-------------------------------------------------------------------------------
(* Every step keeps the invariant.                                          *)
LEMMA NextInv ==
    ASSUME IInv, [Next]_vars
    PROVE  IInv'
<1>1. CASE UNCHANGED vars
  <2>1. /\ UNCHANGED buffers /\ UNCHANGED registry /\ UNCHANGED doorbell
        /\ UNCHANGED turnVars /\ UNCHANGED readerVars /\ UNCHANGED clientVars
        /\ UNCHANGED otherVars
    BY <1>1 DEF vars, turnBuffer
  <2>2. TypeOK'
    <3>1. TypeOK
      BY DEF IInv
    <3> QED BY <2>1, <3>1, TypesUnmoved, TypesAfter DEF clientVars
  <2>3. /\ UNCHANGED <<state, stamped, lo, hi>> /\ UNCHANGED <<source, bell>>
        /\ UNCHANGED <<holder, at, then, ends>>
        /\ UNCHANGED <<rd, cursor, batch, wire>>
        /\ UNCHANGED <<cl, pin, upto, shown, note>>
    BY <2>1 DEF buffers, doorbell, turnVars, readerVars, clientVars
  <2>4. RegistryOK'
    BY <2>1, <2>3, RegistryLooked
  <2> QED BY <2>2, <2>3, <2>4, StillFrame
<1>2. ASSUME NEW t \in Turns, Ask(t)
      PROVE  IInv'
  BY <1>2, AskKeeps, OtherTypesKept DEF IInv
<1>3. ASSUME NEW t \in Turns, TurnStep(t)
      PROVE  IInv'
  <2>1. TypeOK'
    BY <1>3, TurnTypesKept DEF IInv, BufferOK
  <2>2. CASE BeginChat(t) \/ BeginWatched(t)
    BY <2>1, <2>2, BeginKeeps
  <2>3. CASE TurnStarted(t) \/ Chunk(t) \/ ErrorChunk(t) \/ Done(t) \/ Fail(t)
    BY <2>1, <2>3, WriteKeeps DEF TurnStarted, Chunk, ErrorChunk, Done, Fail
  <2>4. CASE Release(t) \/ Abort(t) \/ Append(t) \/ Pulse(t) \/ FinishTurn(t)
    BY <2>1, <2>4, WorkerKeeps
  <2> QED BY <1>3, <2>2, <2>3, <2>4 DEF TurnStep
<1>4. ASSUME NEW c \in Turns, ReaderStep(c) \/ Poll(c)
      PROVE  IInv'
  BY <1>4, ReaderTypesKept, ReaderKeeps DEF IInv
<1>5. ASSUME NEW c \in Turns, ClientStep(c) \/ Cut(c) \/ StatusFails(c) \/ IdleOut(c)
      PROVE  IInv'
  BY <1>5, ClientTypesKept, ClientKeeps DEF IInv
<1>6. CASE Retention \/ Sweep \/ Delete
  BY <1>6, OtherTypesKept, RegistryKeeps DEF IInv
<1>7. CASE Restart
  BY <1>7, OtherTypesKept, RestartKeeps DEF IInv
<1> QED BY <1>1, <1>2, <1>3, <1>4, <1>5, <1>6, <1>7 DEF Next

(* So it always holds.                                                      *)
LEMMA Invariant == Spec => []IInv
BY InitInv, NextInv, PTL DEF Spec

-------------------------------------------------------------------------------
(***************************************************************************)
(* What the invariant gives.                                               *)
(***************************************************************************)
(* Types are kept by every operation of the buffer, its readers and their  *)
(* clients (turn_stream_buffer.py, sse_consumer.py).                       *)
THEOREM TypeCorrect == Spec => []TypeOK
<1>1. IInv => TypeOK
  BY DEF IInv
<1> QED BY <1>1, Invariant, PTL

(* A reader that waits has nothing to read, or is about to be woken: the   *)
(* capture of the event before the look at the buffer (loop_pulse.py)      *)
(* leaves no gap, wherever a worker's append is interrupted.               *)
THEOREM Woken == Spec => []NoWakeLost
<1>1. IInv => NoWakeLost
  <2> SUFFICES ASSUME IInv, NEW c \in Turns, rd[c] = "wait", bell[c] = "armed",
                      at[source[c]] \notin {"stored", "finished"}
               PROVE  Unread(c) = {} /\ state[source[c]] = "live"
    BY DEF NoWakeLost
  <2>1. ReaderOK(c) /\ BellOK(c)
    BY DEF IInv
  <2>2. Unread(c) \subseteq batch[c] /\ state[source[c]] = "live"
    BY <2>1 DEF BellOK, Pending
  <2>3. batch[c] = {}
    BY <2>1 DEF ReaderOK
  <2> QED BY <2>2, <2>3
<1> QED BY <1>1, Invariant, PTL

(* The live turn that has the thread is the one the registry names,        *)
(* whatever expired buffers are being discarded (_discard).                *)
THEOREM Joinable == Spec => []HolderAttachable
<1>1. IInv => HolderAttachable
  BY DEF IInv, RegistryOK
<1> QED BY <1>1, Invariant, PTL

(* A client that falls back leaves no completion stashed: the way out of    *)
(* an attach hands it on.                                                   *)
LEMMA SettleTells ==
    ASSUME TypeOK, FallbackTells, NEW c \in Turns, NEW where, NEW k,
           Settle(c, where, k)
    PROVE  FallbackTells'
<1>1. /\ cl \in [Turns -> ClientPoints]
      /\ completion \in [Turns -> {"none", "held", "given"}]
  BY Types DEF SettledTypes
<1>2. /\ cl'[c] = where
      /\ completion'[c] = IF where = "fallback" /\ completion[c] = "held"
                          THEN "given" ELSE completion[c]
      /\ \A d \in Turns \ {c} : cl'[d] = cl[d] /\ completion'[d] = completion[d]
  BY <1>1 DEF Settle
<1> QED BY <1>2 DEF FallbackTells, Watched

LEMMA NextTells ==
    ASSUME IInv, FallbackTells, [Next]_vars
    PROVE  FallbackTells'
<1>1. /\ TypeOK
      /\ cl \in [Turns -> ClientPoints]
      /\ completion \in [Turns -> {"none", "held", "given"}]
  BY Types DEF IInv, SettledTypes
<1>2. ASSUME UNCHANGED <<cl, completion>> PROVE FallbackTells'
  BY <1>2 DEF FallbackTells
<1>3. ASSUME NEW c \in Turns, ClientStep(c) \/ Cut(c) \/ StatusFails(c) \/ IdleOut(c)
      PROVE  FallbackTells'
  <2>1. CASE TakeAttach(c) \/ StatusFails(c)
    BY <1>2, <2>1 DEF TakeAttach, StatusFails
  <2>2. CASE Take(c)
    <3>1. Settle(c, "delivered", 0) \/ UNCHANGED <<cl, completion>>
      BY <2>2 DEF Take
    <3> QED BY <1>1, <1>2, <3>1, SettleTells
  <2>3. CASE StreamEnds(c) \/ Cut(c) \/ IdleOut(c)
    <3>1. PICK where, k : Settle(c, where, k)
      BY <2>3, Zenon DEF StreamEnds, Cut, IdleOut
    <3> QED BY <1>1, <3>1, SettleTells
  <2>4. CASE AskStatus(c)
    <3>1. PICK where, k : Settle(c, where, k)
      BY <2>4, Zenon DEF AskStatus
    <3> QED BY <1>1, <3>1, SettleTells
  <2>5. CASE Reattach(c)
    <3>1. PICK where, k : Settle(c, where, k)
      BY <2>5, Zenon DEF Reattach
    <3> QED BY <1>1, <3>1, SettleTells
  <2>6. CASE Announce(c)
    <3>1. cl' = [cl EXCEPT ![c] = "attaching"] /\ completion' = completion
      BY <2>6 DEF Announce
    <3> QED BY <1>1, <3>1 DEF FallbackTells, Watched
  <2>7. CASE Complete(c)
    <3>1. /\ completion' = [completion EXCEPT ![c] =
                              IF cl[c] = "fallback" THEN "given" ELSE "held"]
          /\ cl' = cl
      BY <2>7 DEF Complete
    <3> QED BY <1>1, <3>1 DEF FallbackTells, Watched
  <2> QED BY <1>3, <2>1, <2>2, <2>3, <2>4, <2>5, <2>6, <2>7 DEF ClientStep
<1>4. ASSUME NEW t \in Turns, Ask(t)
      PROVE  FallbackTells'
  <2>1. cl' = cl \/ cl' = [cl EXCEPT ![t] = "primary"]
    BY <1>4 DEF Ask
  <2>2. completion' = completion
    BY <1>4 DEF Ask
  <2> QED BY <1>1, <2>1, <2>2 DEF FallbackTells, Watched
<1>5. CASE Restart
  <2>1. ASSUME NEW c \in Turns
        PROVE  /\ cl'[c] = IF Online(c) THEN AfterCut(c) ELSE cl[c]
               /\ completion'[c] =
                    IF Online(c) /\ AfterCut(c) = "fallback" /\ completion[c] = "held"
                    THEN "given" ELSE completion[c]
    BY <1>5 DEF Restart
  <2> QED BY <2>1 DEF FallbackTells, Watched
<1>6. ASSUME UNCHANGED clientVars PROVE FallbackTells'
  BY <1>2, <1>6 DEF clientVars
<1>7. ASSUME NEW t \in Turns, TurnStep(t) PROVE UNCHANGED clientVars
  BY <1>7 DEF TurnStep, BeginChat, BeginWatched, Begin, TurnStarted, Chunk,
              ErrorChunk, Done, Fail, Write, Release, Abort, Append, Pulse,
              FinishTurn, TurnPart
<1>8. ASSUME NEW c \in Turns, ReaderStep(c) \/ Poll(c) PROVE UNCHANGED clientVars
  BY <1>8 DEF ReaderStep, Poll, StartLook, Fetch, LookForGap, Give, LookAtState,
              Drain, Wake, RunCallback, ReaderPart
<1>9. CASE Retention \/ Sweep \/ Delete
  BY <1>6, <1>9 DEF Retention, Sweep, Delete
<1>10. CASE UNCHANGED vars
  BY <1>6, <1>10 DEF vars
<1> QED BY <1>3, <1>4, <1>5, <1>6, <1>7, <1>8, <1>9, <1>10 DEF Next

(* What a bot kept from the firehose is not forgotten when its attach gives *)
(* up, is cut off or loses the server (_enter_fallback).                    *)
THEOREM FallbackTold == Spec => []FallbackTells
<1>1. Init => FallbackTells
  BY DEF Init, FallbackTells, Watched
<1> QED BY <1>1, NextTells, Invariant, PTL DEF Spec

(***************************************************************************)
(* The buffer, its readers and the clients implement TurnFeed.             *)
(***************************************************************************)
Mapped == [c \in Turns |-> IF upto[c] = 0 THEN None ELSE source[c]]
Verdicts == [c \in Turns |-> VerdictOf(c)]

(* In the beginning nobody was shown anything.                              *)
LEMMA FeedInit == Init => Feed!Init
<1> SUFFICES ASSUME Init PROVE Feed!Init
  OBVIOUS
<1>1. stamped = [t \in Turns |-> 0]
  BY DEF Init, TurnBufferInit
<1>2. /\ ends = [t \in Turns |-> {}]
      /\ upto = [c \in Turns |-> 0] /\ shown = [c \in Turns |-> 0]
      /\ cl = [c \in Turns |-> "off"]
  BY DEF Init
<1>3. Mapped = [c \in Turns |-> None]
  BY <1>2 DEF Mapped
<1>4. Verdicts = [c \in Turns |-> "open"]
  BY <1>2 DEF Verdicts, VerdictOf, Outcomes
<1> QED BY <1>1, <1>2, <1>3, <1>4 DEF Feed!Init, Mapped, Verdicts

(* A step in which a turn sends nothing and no client is shown anything can *)
(* only tell clients.                                                       *)
LEMMA TellOrStutter ==
    ASSUME TypeOK', UNCHANGED <<stamped, ends, upto, shown>>,
           \A c \in Turns : upto[c] > 0 => source'[c] = source[c],
           \A c \in Turns : upto[c] \in Nat,
           \A c \in Turns :
              \/ VerdictOf(c)' = VerdictOf(c)
              \/ /\ VerdictOf(c) = "open"
                 /\ \/ VerdictOf(c)' = "partial"
                    \/ /\ VerdictOf(c)' = "whole"
                       /\ upto[c] > 0 /\ source[c] # None
                       /\ \E n \in ends[source[c]] : n <= upto[c]
    PROVE  Feed!Next
<1>1. Mapped' = Mapped
  BY DEF Mapped
<1>2. \A c \in Turns : Verdicts[c] = VerdictOf(c) /\ Verdicts'[c] = VerdictOf(c)'
  BY DEF Verdicts
<1>3. Verdicts' \in [Turns -> {"open", "whole", "partial"}]
  BY DEF Verdicts, VerdictOf
<1>4. \A c \in Turns : upto[c] > 0 => Mapped[c] = source[c]
  BY DEF Mapped
<1>5. ASSUME NEW c \in Turns
      PROVE  Feed!Told(c)
  <2>1. CASE VerdictOf(c)' = VerdictOf(c)
    BY <2>1 DEF Feed!Told
  <2>2. CASE VerdictOf(c) = "open" /\ VerdictOf(c)' = "partial"
    BY <2>2 DEF Feed!Told
  <2>3. CASE /\ VerdictOf(c) = "open" /\ VerdictOf(c)' = "whole"
             /\ upto[c] > 0 /\ source[c] # None
             /\ \E n \in ends[source[c]] : n <= upto[c]
    <3>1. Feed!EndSeen(c)
      BY <1>4, <2>3 DEF Feed!EndSeen, Mapped
    <3> QED BY <2>3, <3>1 DEF Feed!Told
  <2> QED BY <2>1, <2>2, <2>3
<1> QED BY <1>1, <1>3, <1>5 DEF Feed!Next, Feed!Tell, Mapped, Verdicts

(* A turn sends an event.                                                   *)
LEMMA SendIsMake ==
    ASSUME TypeOK, NEW t \in Turns,
           stamped' = [stamped EXCEPT ![t] = stamped[t] + 1],
           ends' \in {ends, [ends EXCEPT ![t] = ends[t] \cup {stamped[t] + 1}]},
           UNCHANGED <<cl, upto, shown>>,
           \A c \in Turns : upto[c] # 0 => source'[c] = source[c]
    PROVE  Feed!Next
<1>1. Mapped' = Mapped
  BY DEF Mapped
<1>2. Verdicts' = Verdicts
  BY DEF Verdicts, VerdictOf
<1> QED BY <1>1, <1>2 DEF Feed!Next, Feed!Make, Mapped, Verdicts

LEMMA QuietStep ==
    ASSUME UNCHANGED <<stamped, ends, cl, upto, shown>>,
           \A c \in Turns : upto[c] # 0 => source'[c] = source[c]
    PROVE  UNCHANGED Feed!vars
<1>1. Mapped' = Mapped
  BY DEF Mapped
<1>2. Verdicts' = Verdicts
  BY DEF Verdicts, VerdictOf
<1> QED BY <1>1, <1>2 DEF Feed!vars, Mapped, Verdicts

(* A client takes an event.                                                 *)
LEMMA TakeIsShow ==
    ASSUME IInv, NEW c \in Turns, Take(c)
    PROVE  Feed!Next
<1>1. TypeOK /\ ClientOK(c) /\ ReaderOK(c)
  BY DEF IInv
<1>2. /\ cl[c] \in {"primary", "attached"}
      /\ source[c] \in Turns /\ cursor[c] \in Nat /\ upto[c] \in Nat
      /\ upto[c] + 1 <= cursor[c] /\ cursor[c] <= hi[source[c]]
      /\ hi[source[c]] \in Nat /\ Least(wire[c]) = upto[c] + 1
  BY <1>1, NextTaken DEF Take
<1>3. /\ UNCHANGED <<stamped, ends>> /\ source' = source
  BY DEF Take, ClientPart, buffers, turnVars, Hangup, doorbell
<1>4. PICK t \in Turns : t = source[c]
  BY <1>2
<1>5. upto[c] < stamped[t]
  <2>1. hi[t] <= stamped[t]
    BY DEF IInv, BufferOK
  <2>2. stamped[t] \in Nat
    BY <1>1, Types DEF BufferTypes
  <2> QED BY <1>2, <1>4, <2>1, <2>2
<1>6. /\ upto \in [Turns -> Nat] /\ shown \in [Turns -> Nat]
      /\ cl \in [Turns -> ClientPoints]
  BY <1>1, Types DEF SeenTypes, SettledTypes
<1>7. /\ upto' = [upto EXCEPT ![c] = upto[c] + 1]
      /\ shown' = [shown EXCEPT ![c] = shown[c] + 1]
  <2> DEFINE n == Least(wire[c])
  <2>1. /\ upto' = [upto EXCEPT ![c] =
                       IF c \in Watched \/ n > upto[c] THEN n ELSE upto[c]]
        /\ shown' = [shown EXCEPT ![c] = shown[c] + 1]
    BY DEF Take
  <2>2. n > upto[c]
    BY <1>2
  <2> QED BY <1>2, <2>1, <2>2
<1>8. Mapped[c] \in {None, t}
  BY <1>4 DEF Mapped
<1>9. Mapped' = [Mapped EXCEPT ![c] = t]
  <2>1. ASSUME NEW d \in Turns
        PROVE  Mapped'[d] = IF d = c THEN t ELSE Mapped[d]
    BY <1>2, <1>3, <1>4, <1>6, <1>7 DEF Mapped
  <2>2. Mapped' = [d \in Turns |-> Mapped'[d]] /\ Mapped = [d \in Turns |-> Mapped[d]]
    BY DEF Mapped
  <2> QED BY <2>1, <2>2
<1>10. Verdicts[c] = "open"
  BY <1>2 DEF Verdicts, VerdictOf, Outcomes
<1>11. Verdicts' \in {Verdicts, [Verdicts EXCEPT ![c] = "partial"]}
  <2>1. cl' = cl \/ cl' = [cl EXCEPT ![c] = "delivered"]
    BY DEF Take, Settle
  <2>2. CASE cl' = cl
    BY <2>2 DEF Verdicts, VerdictOf
  <2>3. CASE cl' = [cl EXCEPT ![c] = "delivered"]
    <3>1. ASSUME NEW d \in Turns
          PROVE  Verdicts'[d] = IF d = c THEN "partial" ELSE Verdicts[d]
      BY <1>6, <2>3 DEF Verdicts, VerdictOf, Outcomes
    <3>2. /\ Verdicts' = [d \in Turns |-> Verdicts'[d]]
          /\ Verdicts = [d \in Turns |-> Verdicts[d]]
      BY DEF Verdicts
    <3> QED BY <3>1, <3>2
  <2> QED BY <2>1, <2>2, <2>3
<1>12. Feed!Show(c, t)
  BY <1>3, <1>5, <1>7, <1>8, <1>9 DEF Feed!Show, Mapped
<1> QED BY <1>10, <1>11, <1>12 DEF Feed!Next, Verdicts

(* Being told that the reply is whole follows an end that was shown.        *)
LEMMA WholeIsEarned ==
    ASSUME IInv, NEW c \in Turns, Online(c),
           \/ AfterCut(c) \in {"completed", "recovered"}
           \/ AfterEnd(c) \in {"completed", "recovered"}
    PROVE  /\ upto[c] > 0 /\ source[c] # None
           /\ \E n \in ends[source[c]] : n <= upto[c]
<1>1. TypeOK /\ ClientOK(c) /\ ReaderOK(c) /\ BufferOK(c)
  BY DEF IInv
<1>2. (TerminalSeen(c) /\ c \in Chats) \/ note[c] = "finished"
  <2>1. c \in Watched \/ c \in Chats
    BY TurnBufferAssumption DEF Watched, Chats
  <2> QED BY <1>1, <2>1 DEF AfterCut, AfterEnd, AttachFails, Watched, Chats
<1>3. upto[c] \in Nat /\ source[c] \in Turns \cup {None}
  BY <1>1, Types DEF SeenTypes, BellTypes
<1>4. CASE note[c] = "finished"
  <2>1. source[c] # None /\ \E n \in ends[source[c]] : n <= upto[c]
    BY <1>1, <1>4 DEF ClientOK
  <2>2. ends[source[c]] \subseteq Nat \ {0}
    BY <1>1, <1>3, <2>1, Types DEF TurnTypes
  <2> QED BY <1>3, <2>1, <2>2
<1>5. CASE TerminalSeen(c) /\ c \in Chats
  <2>1. PICK n \in ends[c] : n <= upto[c]
    BY <1>5 DEF TerminalSeen
  <2>2. n \in Nat \ {0}
    BY <1>1, <2>1, Types DEF TurnTypes
  <2>3. upto[c] > 0
    BY <1>3, <2>1, <2>2
  <2>4. source[c] = c /\ source[c] # None
    BY <1>1, <1>5, <2>3 DEF ClientOK
  <2> QED BY <2>1, <2>3, <2>4
<1> QED BY <1>2, <1>4, <1>5

(* The verdicts, as the provers use them.                                   *)
LEMMA VerdictCases ==
    ASSUME NEW c \in Turns
    PROVE  /\ cl[c] \in {"completed", "recovered"} => VerdictOf(c) = "whole"
           /\ cl[c] \in {"lost", "raised", "delivered", "fallback"} =>
                 VerdictOf(c) = "partial"
           /\ cl[c] \notin Outcomes => VerdictOf(c) = "open"
BY DEF VerdictOf, Outcomes

LEMMA VerdictCasesThen ==
    ASSUME NEW c \in Turns
    PROVE  /\ cl'[c] \in {"completed", "recovered"} => VerdictOf(c)' = "whole"
           /\ cl'[c] \in {"lost", "raised", "delivered", "fallback"} =>
                 VerdictOf(c)' = "partial"
           /\ cl'[c] \notin Outcomes => VerdictOf(c)' = "open"
           /\ cl'[c] = cl[c] => VerdictOf(c)' = VerdictOf(c)
BY DEF VerdictOf, Outcomes

(* Clients that move on are told no more than they may be.                  *)
LEMMA MovesTell ==
    ASSUME IInv, TypeOK', UNCHANGED <<stamped, ends, upto, shown>>,
           \A c \in Turns : upto[c] # 0 => source'[c] = source[c],
           \A c \in Turns :
              \/ cl'[c] = cl[c]
              \/ /\ cl[c] \notin Outcomes
                 /\ \/ cl'[c] \notin Outcomes
                    \/ cl'[c] \in {"lost", "raised", "delivered", "fallback"}
                    \/ /\ cl'[c] \in {"completed", "recovered"}
                       /\ upto[c] > 0 /\ source[c] # None
                       /\ \E n \in ends[source[c]] : n <= upto[c]
    PROVE  Feed!Next
<1>1. \A c \in Turns : upto[c] \in Nat
  BY Types DEF IInv, SeenTypes
<1>2. \A c \in Turns : upto[c] > 0 => source'[c] = source[c]
  BY <1>1
<1>3. ASSUME NEW c \in Turns
      PROVE  \/ VerdictOf(c)' = VerdictOf(c)
             \/ /\ VerdictOf(c) = "open"
                /\ \/ VerdictOf(c)' = "partial"
                   \/ /\ VerdictOf(c)' = "whole"
                      /\ upto[c] > 0 /\ source[c] # None
                      /\ \E n \in ends[source[c]] : n <= upto[c]
  BY VerdictCases, VerdictCasesThen
<1> QED BY <1>1, <1>2, <1>3, TellOrStutter

(* Where a client may go from, and what it is then told.                    *)
LEMMA MoveIsFair ==
    ASSUME IInv, NEW c \in Turns, Online(c),
           NEW where \in {AfterCut(c), AfterEnd(c), AttachFails(c, FALSE), "lost"}
    PROVE  /\ cl[c] \notin Outcomes
           /\ \/ where \notin Outcomes
              \/ where \in {"lost", "raised", "delivered", "fallback"}
              \/ /\ where \in {"completed", "recovered"}
                 /\ upto[c] > 0 /\ source[c] # None
                 /\ \E n \in ends[source[c]] : n <= upto[c]
<1>1. cl[c] \notin Outcomes
  BY DEF Online, Outcomes
<1>2. where \in {AttachFails(c, FALSE), "lost"} =>
         where \notin {"completed", "recovered"}
  BY DEF AttachFails
<1>3. where \in Outcomes =>
         where \in {"lost", "raised", "delivered", "fallback", "completed", "recovered"}
  BY DEF Outcomes
<1>4. where \in {"completed", "recovered"} =>
         /\ upto[c] > 0 /\ source[c] # None
         /\ \E n \in ends[source[c]] : n <= upto[c]
  BY <1>2, WholeIsEarned
<1> QED BY <1>1, <1>3, <1>4

LEMMA ClientFeeds ==
    ASSUME IInv, TypeOK', NEW c \in Turns,
           ClientStep(c) \/ Cut(c) \/ StatusFails(c) \/ IdleOut(c)
    PROVE  [Feed!Next]_(Feed!vars)
<1>1. TypeOK /\ ClientOK(c)
  BY DEF IInv
<1>2. UNCHANGED <<stamped, ends>>
  BY DEF ClientStep, Cut, StatusFails, IdleOut, TakeAttach, Take, StreamEnds,
         AskStatus, Reattach, Announce, Complete, ClientPart, buffers, turnVars
<1>3. cl \in [Turns -> ClientPoints] /\ source \in [Turns -> Turns \cup {None}]
  BY <1>1, Types DEF SettledTypes, BellTypes
<1>4. CASE Take(c)
  BY <1>4, TakeIsShow
<1>5. CASE StreamEnds(c) \/ Cut(c) \/ IdleOut(c)
  <2>1. PICK where, k : Settle(c, where, k)
                        /\ where \in {AfterCut(c), AfterEnd(c),
                                      AttachFails(c, FALSE), "lost"}
    BY <1>5, Zenon DEF StreamEnds, Cut, IdleOut
  <2>2. UNCHANGED <<upto, shown>> /\ source' = source /\ Online(c)
    BY <1>5 DEF StreamEnds, Cut, IdleOut, Hangup, Online
  <2>3. cl'[c] = where /\ \A d \in Turns \ {c} : cl'[d] = cl[d]
    BY <1>3, <2>1 DEF Settle
  <2>4. /\ cl[c] \notin Outcomes
        /\ \/ where \notin Outcomes
           \/ where \in {"lost", "raised", "delivered", "fallback"}
           \/ /\ where \in {"completed", "recovered"}
              /\ upto[c] > 0 /\ source[c] # None
              /\ \E n \in ends[source[c]] : n <= upto[c]
    BY <2>1, <2>2, MoveIsFair
  <2> QED BY <1>2, <2>2, <2>3, <2>4, MovesTell
<1>6. CASE AskStatus(c)
  <2>1. /\ UNCHANGED <<upto, shown>> /\ source' = source /\ cl[c] = "backoff"
    BY <1>6 DEF AskStatus, doorbell
  <2> DEFINE found == IF Attachable = c THEN "attaching"
                      ELSE IF holder = None THEN "lost" ELSE "backoff"
  <2>2. cl' = [cl EXCEPT ![c] = "lost"] \/ cl' = [cl EXCEPT ![c] = found]
    BY <1>6 DEF AskStatus, Settle
  <2>3. /\ cl'[c] \in {"lost", "attaching", "backoff"}
        /\ \A d \in Turns \ {c} : cl'[d] = cl[d]
    BY <1>3, <2>2
  <2>4. cl[c] \notin Outcomes /\ (cl'[c] \notin Outcomes \/ cl'[c] = "lost")
    BY <2>1, <2>3 DEF Outcomes
  <2> QED BY <1>2, <2>1, <2>3, <2>4, MovesTell
<1>7. CASE Reattach(c)
  <2>1. UNCHANGED <<upto, shown>> /\ cl[c] = "attaching"
    BY <1>7 DEF Reattach
  <2>2. /\ \A d \in Turns : upto[d] # 0 => source'[d] = source[d]
        /\ \/ cl' = [cl EXCEPT ![c] = "attached"]
           \/ cl' = [cl EXCEPT ![c] = "lost"]
           \/ cl' = [cl EXCEPT ![c] = AttachFails(c, TRUE)]
    <3>1. CASE UNCHANGED doorbell
      BY <1>7, <3>1 DEF Reattach, Settle, doorbell
    <3>2. CASE ~UNCHANGED doorbell
      <4>1. PICK u : /\ u = Attachable /\ pin[c] \in {None, u} /\ Subscribe(c, u)
                     /\ cl' = [cl EXCEPT ![c] = "attached"]
        BY <1>7, <3>2 DEF Reattach, Settle
      <4>2. upto[c] # 0 => source[c] = u
        <5>1. upto[c] \in Nat
          BY <1>1, Types DEF SeenTypes
        <5> QED BY <1>1, <4>1, <5>1 DEF ClientOK
      <4>3. source' = [source EXCEPT ![c] = u]
        BY <4>1 DEF Subscribe
      <4>4. \A d \in Turns : upto[d] # 0 => source'[d] = source[d]
        BY <1>3, <4>2, <4>3
      <4> QED BY <4>1, <4>4
    <3> QED BY <3>1, <3>2
  <2>3. /\ cl'[c] \in {"attached", "lost", "fallback", "attaching", "delivered"}
        /\ \A d \in Turns \ {c} : cl'[d] = cl[d]
    BY <1>3, <2>2 DEF AttachFails
  <2>4. /\ cl[c] \notin Outcomes
        /\ \/ cl'[c] \notin Outcomes
           \/ cl'[c] \in {"lost", "raised", "delivered", "fallback"}
    BY <2>1, <2>3 DEF Outcomes
  <2> QED BY <1>2, <2>1, <2>2, <2>3, <2>4, MovesTell
<1>8. CASE Announce(c)
  <2>1. UNCHANGED <<upto, shown>> /\ source' = source /\ cl[c] = "off"
        /\ cl' = [cl EXCEPT ![c] = "attaching"]
    BY <1>8 DEF Announce, doorbell
  <2>2. cl[c] \notin Outcomes /\ cl'[c] \notin Outcomes
        /\ \A d \in Turns \ {c} : cl'[d] = cl[d]
    BY <1>3, <2>1 DEF Outcomes
  <2> QED BY <1>2, <2>1, <2>2, MovesTell
<1>9. CASE TakeAttach(c) \/ Complete(c) \/ StatusFails(c)
  <2>1. UNCHANGED <<cl, upto, shown>> /\ source' = source
    BY <1>9 DEF TakeAttach, Complete, StatusFails, doorbell
  <2> QED BY <1>2, <2>1, QuietStep
<1> QED BY <1>4, <1>5, <1>6, <1>7, <1>8, <1>9 DEF ClientStep

LEMMA TurnFeeds ==
    ASSUME IInv, NEW t \in Turns, TurnStep(t)
    PROVE  [Feed!Next]_(Feed!vars)
<1>1. TypeOK
  BY DEF IInv
<1>2. CASE BeginChat(t) \/ BeginWatched(t)
  <2>1. UNCHANGED <<ends, cl, upto, shown>> /\ ~Begun(t)
    BY <1>2 DEF BeginChat, BeginWatched, Begin, Begun, clientVars
  <2>2. \A c \in Turns : upto[c] # 0 => source'[c] = source[c]
    <3>1. CASE UNCHANGED doorbell
      BY <3>1 DEF doorbell
    <3>2. CASE ~UNCHANGED doorbell
      <4>1. t \in Chats /\ source' = [source EXCEPT ![t] = t]
        BY <1>2, <3>2 DEF BeginChat, BeginWatched, Subscribe
      <4>2. upto[t] = 0
        BY <2>1, <4>1, NotBegun
      <4>3. source \in [Turns -> Turns \cup {None}]
        BY <1>1, Types DEF BellTypes
      <4> QED BY <4>1, <4>2, <4>3
    <3> QED BY <3>1, <3>2
  <2>3. CASE BeginChat(t)
    <3>1. stamped' = [stamped EXCEPT ![t] = stamped[t] + 1]
      BY <2>3 DEF BeginChat, Stamp
    <3> QED BY <1>1, <2>1, <2>2, <3>1, SendIsMake
  <2>4. CASE BeginWatched(t)
    <3>1. stamped' = stamped
      BY <2>4 DEF BeginWatched
    <3> QED BY <2>1, <2>2, <3>1, QuietStep
  <2> QED BY <1>2, <2>3, <2>4
<1>3. ASSUME NEW last, NEW next, Write(t, last, next)
      PROVE  Feed!Next
  <2>1. /\ stamped' = [stamped EXCEPT ![t] = stamped[t] + 1]
        /\ ends' \in {ends, [ends EXCEPT ![t] = ends[t] \cup {stamped[t] + 1}]}
        /\ UNCHANGED <<cl, upto, shown>>
    BY <1>3 DEF Write, Stamp, TurnPart, clientVars
  <2>2. source' = source
    BY <1>3 DEF Write, Ring, doorbell
  <2> QED BY <1>1, <2>1, <2>2, SendIsMake
<1>4. CASE Release(t) \/ Abort(t) \/ Append(t) \/ Pulse(t) \/ FinishTurn(t)
  <2>1. UNCHANGED <<stamped, ends, cl, upto, shown>> /\ source' = source
    BY <1>4 DEF Release, Abort, Append, Pulse, FinishTurn, TurnPart, clientVars,
                buffers, doorbell, Ring
  <2> QED BY <2>1, QuietStep
<1> QED BY <1>2, <1>3, <1>4
        DEF TurnStep, TurnStarted, Chunk, ErrorChunk, Done, Fail

LEMMA RestartFeeds ==
    ASSUME IInv, TypeOK', Restart
    PROVE  Feed!Next
<1>1. UNCHANGED <<stamped, ends, upto, shown>> /\ source' = source
  BY DEF Restart, buffers
<1>2. ASSUME NEW c \in Turns
      PROVE  \/ cl'[c] = cl[c]
             \/ /\ cl[c] \notin Outcomes
                /\ \/ cl'[c] \notin Outcomes
                   \/ cl'[c] \in {"lost", "raised", "delivered", "fallback"}
                   \/ /\ cl'[c] \in {"completed", "recovered"}
                      /\ upto[c] > 0 /\ source[c] # None
                      /\ \E n \in ends[source[c]] : n <= upto[c]
  <2>1. cl'[c] = IF Online(c) THEN AfterCut(c) ELSE cl[c]
    BY DEF Restart
  <2>2. CASE Online(c)
    BY <2>1, <2>2, MoveIsFair
  <2>3. CASE ~Online(c)
    BY <2>1, <2>3
  <2> QED BY <2>2, <2>3
<1> QED BY <1>1, <1>2, MovesTell

LEMMA NextFeeds ==
    ASSUME IInv, IInv', [Next]_vars
    PROVE  [Feed!Next]_(Feed!vars)
<1>1. TypeOK'
  BY DEF IInv
<1>2. ASSUME UNCHANGED <<stamped, ends>>, UNCHANGED clientVars, source' = source
      PROVE  UNCHANGED Feed!vars
  BY <1>2, QuietStep DEF clientVars
<1>3. CASE UNCHANGED vars
  BY <1>2, <1>3 DEF vars, turnBuffer, buffers, doorbell, turnVars
<1>4. ASSUME NEW t \in Turns, Ask(t)
      PROVE  [Feed!Next]_(Feed!vars)
  <2>1. UNCHANGED <<stamped, ends, upto, shown>> /\ source' = source
    BY <1>4 DEF Ask, turnBuffer, buffers, doorbell
  <2>2. cl' = cl \/ cl' = [cl EXCEPT ![t] = "primary"]
    BY <1>4 DEF Ask
  <2>3. cl[t] = "off" /\ cl \in [Turns -> ClientPoints]
    BY <1>4, Types DEF IInv, ClientOK, SettledTypes, Ask
  <2>4. \A c \in Turns : cl'[c] = cl[c] \/ (cl[c] \notin Outcomes /\ cl'[c] \notin Outcomes)
    BY <2>2, <2>3 DEF Outcomes
  <2> QED BY <1>1, <2>1, <2>4, MovesTell
<1>5. ASSUME NEW c \in Turns, ReaderStep(c) \/ Poll(c)
      PROVE  UNCHANGED Feed!vars
  <2>1. ReaderPart /\ source' = source
    BY <1>5 DEF ReaderStep, Poll, StartLook, Fetch, LookForGap, Give, LookAtState,
                Drain, Wake, RunCallback, Listen, Callback, doorbell
  <2> QED BY <1>2, <2>1 DEF ReaderPart, buffers, turnVars
<1>6. CASE Retention \/ Sweep \/ Delete
  <2>1. UNCHANGED <<doorbell, turnVars, readerVars, clientVars, buffers>>
    BY <1>6 DEF Retention, Sweep, Delete, Age, Look, Discard, Drop, DropThread
  <2> QED BY <1>2, <2>1 DEF buffers, turnVars, doorbell
<1> QED BY <1>1, <1>3, <1>4, <1>5, <1>6, TurnFeeds, ClientFeeds, RestartFeeds
        DEF Next

(* TurnStream implements TurnFeed: whatever is evicted, cut, resumed,       *)
(* restarted, expired or deleted on the way, a client is shown the events   *)
(* of one turn, in order, once each, and is told that it is whole only      *)
(* after an end it was shown (stream_entries, sse_consumer.py).             *)
THEOREM Fed == Spec => FeedKept
<1>1. Init => Feed!Init
  BY FeedInit
<1>2. IInv /\ IInv' /\ [Next]_vars => [Feed!Next]_(Feed!vars)
  BY NextFeeds
<1> QED BY <1>1, <1>2, Invariant, PTL DEF Spec, FeedKept, Feed!Spec
===============================================================================
