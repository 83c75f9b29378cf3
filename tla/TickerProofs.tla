---------------------------- MODULE TickerProofs ----------------------------
(***************************************************************************)
(* What Ticker guarantees for every number of processes, TODOs and         *)
(* editors: its types, and, as long as the lock can be relied on, that one *)
(* run has a TODO, that held work waits, and that every marker has         *)
(* somebody to remove it.  Where one process writes the list: that a       *)
(* deletion, a pause and the armed occurrence of a series last.  Where     *)
(* only runs write it: that a series goes on and the index follows.        *)
(***************************************************************************)
EXTENDS Ticker, TLAPS

-----------------------------------------------------------------------------
(* The type invariant, one part for each group of variables.                *)

(* There is room for the file that a process may create.                    *)
LockFileInv == LockFileTypeOK /\ (path = 0 => made < MaxFiles)

(* A process that rebuilds the index has loaded the lists.                  *)
OwnInv ==
    /\ OwnTypeOK
    /\ \A p \in Procs : life[p] = "rebuilding" => snap[p] \in Lists

(* An edit that has begun has a TODO, and the item it has loaded.           *)
EditInv ==
    /\ EditTypeOK
    /\ \A e \in Editors :
          /\ editor[e].at # "idle" => editor[e].todo \in Todos /\ editor[e].op \in Ops
          /\ editor[e].at = "loaded" =>
                /\ editor[e].draft \in Lists
                /\ editor[e].draft[editor[e].todo] \in Items
                /\ editor[e].op = "schedule" => editor[e].slot \in Slots

TypeInv ==
    /\ LockFileInv
    /\ StoreTypeOK
    /\ OwnInv
    /\ HoldTypeOK
    /\ PollTypeOK
    /\ RunTypeOK
    /\ EditInv

-----------------------------------------------------------------------------
(* The operators on slots, items and lists.                                 *)

LEMMA Constants ==
    /\ MaxTime \in Nat
    /\ MaxTime + 1 \in Slots
    /\ \A s \in Slots : s \in Int
    /\ None \notin Slots
    /\ now \in 0..MaxTime => now \in Slots /\ now + 1 \in Slots
BY StoreAssumption DEF Slots, StoreAssumption

LEMMA CappedSlot == ASSUME NEW s PROVE Capped(s) \in Slots
BY Constants DEF Capped

LEMMA DoneAnchorSlot ==
    ASSUME now \in 0..MaxTime, NEW item \in Items
    PROVE  DoneAnchor(item) \in Slots \cup {None}
BY Constants DEF DoneAnchor, Items

LEMMA RescheduledItem ==
    ASSUME NEW item \in Items, NEW s \in Slots \cup {None}
    PROVE  Rescheduled(item, s) \in Items
BY DEF Rescheduled, Items

LEMMA CompletedItem ==
    ASSUME now \in 0..MaxTime, NEW t, NEW item \in Items
    PROVE  Completed(t, item) \in Items
<1> DEFINE next == Rescheduled(item, Capped(NextSlot(DoneAnchor(item))))
<1>1. next \in Items
  BY CappedSlot, RescheduledItem
<1>2. [next EXCEPT !.status = "pending", !.last = DoneAnchor(item)] \in Items
  <2> HIDE DEF next
  <2> QED BY <1>1, DoneAnchorSlot DEF Items, Statuses
<1>3. [item EXCEPT !.status = "done"] \in Items
  BY DEF Items, Statuses
<1> QED BY <1>2, <1>3 DEF Completed

LEMMA IndexSlot ==
    ASSUME NEW l \in Lists, NEW t \in Todos
    PROVE  IndexOf(l, t) \in Slots \cup {None}
<1>1. l[t] \in Items \cup {None}
  BY DEF Lists
<1> QED BY <1>1 DEF IndexOf, ActiveIn, Present, Items

LEMMA PresentItem ==
    ASSUME NEW l \in Lists, NEW t \in Todos, Present(l, t)
    PROVE  l[t] \in Items
BY DEF Lists, Present

(* Saving a list, or failing to, keeps the type of what is stored.          *)
LEMMA SavedList ==
    ASSUME StoreTypeOK, NEW h \in Homes, NEW l \in Lists, NEW t \in Todos,
           NEW item \in Items \cup {None}, SaveList(h, l, t, item)
    PROVE  list' \in Lists /\ listLock' \in [Homes -> BOOLEAN]
BY DEF StoreTypeOK, SaveList, Lists

LEMMA FailedSave ==
    ASSUME StoreTypeOK, NEW h \in Homes, SaveFails(h)
    PROVE  list' \in Lists /\ listLock' \in [Homes -> BOOLEAN]
BY DEF StoreTypeOK, SaveFails

LEMMA PutRowType ==
    ASSUME StoreTypeOK, NEW t \in Todos, NEW s \in Slots \cup {None}, PutRow(t, s)
    PROVE  row' \in [Todos -> Slots \cup {None}]
BY DEF StoreTypeOK, PutRow, SetRow

-----------------------------------------------------------------------------
(* What a step leaves alone keeps its type.                                 *)

LEMMA KeepsLockFile == LockFileInv /\ UNCHANGED lockFileVars => LockFileInv'
BY DEF LockFileInv, LockFileTypeOK, lockFileVars

LEMMA KeepsStore == StoreTypeOK /\ UNCHANGED storeVars => StoreTypeOK'
BY DEF StoreTypeOK, storeVars

LEMMA KeepsOwn == OwnInv /\ UNCHANGED ownVars => OwnInv'
BY DEF OwnInv, OwnTypeOK, ownVars

LEMMA KeepsHold == HoldTypeOK /\ UNCHANGED holdVars => HoldTypeOK'
BY DEF HoldTypeOK, holdVars

LEMMA KeepsPoll == PollTypeOK /\ UNCHANGED pollVars => PollTypeOK'
BY DEF PollTypeOK, pollVars

LEMMA KeepsRun == RunTypeOK /\ UNCHANGED runVars => RunTypeOK'
BY DEF RunTypeOK, runVars

LEMMA KeepsEdit == EditInv /\ UNCHANGED editVars => EditInv'
BY DEF EditInv, EditTypeOK, editVars

-----------------------------------------------------------------------------
(* The steps on the lock file, in types.                                    *)

LEMMA LockOnlyType ==
    ASSUME LockFileTypeOK, NEW h \in Holders, NEW f, LockOnly(h, f)
    PROVE  flock' \in [1..MaxFiles -> Holders \cup {Nobody}]
BY DEF LockFileTypeOK, LockOnly

LEMMA GetLockType ==
    ASSUME LockFileInv, NEW p \in Procs, GetLock(p)
    PROVE  LockFileInv'
<1>1. p \in Holders
  BY DEF Holders
<1>2. CASE path # 0 /\ LockOnly(p, path) /\ UNCHANGED <<made, path>>
  BY <1>1, <1>2, LockOnlyType DEF LockFileInv, LockFileTypeOK
<1>3. CASE path = 0 /\ made' = made + 1 /\ path' = made' /\ LockOnly(p, made')
  BY <1>1, <1>3, LockOnlyType, LockAssumption DEF LockFileInv, LockFileTypeOK, LockAssumption
<1> QED BY <1>2, <1>3 DEF GetLock

LEMMA DropLocksType ==
    ASSUME LockFileInv, NEW h, DropLocks(h)
    PROVE  LockFileInv'
BY DEF LockFileInv, LockFileTypeOK, DropLocks

LEMMA LockFileStepType ==
    ASSUME LockFileInv, LockFileStep
    PROVE  LockFileInv'
<1>1. ASSUME NEW h \in Probers, ProbeTakes(h) PROVE LockFileInv'
  BY <1>1, LockOnlyType DEF ProbeTakes, LockFileInv, LockFileTypeOK, Holders
<1>2. ASSUME NEW h \in Probers, ProbeDrops(h) PROVE LockFileInv'
  BY <1>2, DropLocksType DEF ProbeDrops
<1>3. CASE DeleteFile
  BY <1>3 DEF DeleteFile, LockFileInv, LockFileTypeOK
<1> QED BY <1>1, <1>2, <1>3 DEF LockFileStep

-----------------------------------------------------------------------------
(* Claim, recovery and poll, in types.                                      *)

LEMMA ClaimType ==
    ASSUME LockFileInv, OwnInv, NEW p \in Procs, Claim(p),
           UNCHANGED <<snap, alarm>>, starts' \in [Procs -> 0..MaxStarts]
    PROVE  LockFileInv' /\ OwnInv'
<1>1. LockFileInv'
  BY GetLockType, KeepsLockFile DEF Claim, Acquired, Unavailable, Contended
<1>2. life' = [life EXCEPT ![p] = "claimed"] \/ life' = [life EXCEPT ![p] = "standby"]
  BY DEF Claim, Enter
<1>3. stoodBy' \in [Procs -> BOOLEAN]
  BY DEF Claim, OwnInv, OwnTypeOK
<1> QED BY <1>1, <1>2, <1>3 DEF OwnInv, OwnTypeOK, Lives

LEMMA DecideMissedType ==
    ASSUME HoldTypeOK, NEW p \in Procs, NEW missed \in SUBSET Todos, DecideMissed(p, missed)
    PROVE  HoldTypeOK'
BY DEF HoldTypeOK, DecideMissed, AdoptHold, DetectHold, NoHold

LEMMA StartType == ASSUME TypeInv, NEW p \in Procs, Start(p) PROVE TypeInv'
<1>1. UNCHANGED <<storeVars, snap, alarm, holdVars, pollVars, runVars, editVars>> /\ Claim(p)
  BY DEF Start
<1>2. starts' \in [Procs -> 0..MaxStarts]
  BY TickerAssumption DEF Start, TypeInv, OwnInv, OwnTypeOK, TickerAssumption
<1> QED BY <1>1, <1>2, ClaimType, KeepsStore, KeepsHold, KeepsPoll, KeepsRun, KeepsEdit
        DEF TypeInv

LEMMA StandbyPollType == ASSUME TypeInv, NEW p \in Procs, StandbyPoll(p) PROVE TypeInv'
<1>1. /\ UNCHANGED <<storeVars, snap, alarm, starts, holdVars, pollVars, runVars, editVars>>
      /\ Claim(p)
  BY DEF StandbyPoll
<1>2. starts' \in [Procs -> 0..MaxStarts]
  BY <1>1 DEF TypeInv, OwnInv, OwnTypeOK
<1> QED BY <1>1, <1>2, ClaimType, KeepsStore, KeepsHold, KeepsPoll, KeepsRun, KeepsEdit
        DEF TypeInv

LEMMA RecoverMarkersType == ASSUME TypeInv, NEW p \in Procs, RecoverMarkers(p) PROVE TypeInv'
<1>1. StoreTypeOK'
  BY DEF RecoverMarkers, ClearMarkers, TypeInv, StoreTypeOK
<1>2. OwnInv'
  BY DEF RecoverMarkers, Enter, TypeInv, StoreTypeOK, OwnInv, OwnTypeOK, Lives
<1>3. UNCHANGED <<lockFileVars, holdVars, pollVars, runVars, editVars>>
  BY DEF RecoverMarkers
<1> QED BY <1>1, <1>2, <1>3, KeepsLockFile, KeepsHold, KeepsPoll, KeepsRun, KeepsEdit
        DEF TypeInv

LEMMA RecoverIndexType == ASSUME TypeInv, NEW p \in Procs, RecoverIndex(p) PROVE TypeInv'
<1>1. StoreTypeOK'
  <2>1. row' \in [Todos -> Slots \cup {None}]
    <3>1. snap[p] \in Lists
      BY DEF RecoverIndex, TypeInv, OwnInv
    <3> QED BY <3>1, IndexSlot DEF RecoverIndex, RebuildRows, TypeInv, StoreTypeOK
  <2> QED BY <2>1 DEF RecoverIndex, TypeInv, StoreTypeOK
<1>2. OwnInv'
  BY DEF RecoverIndex, Enter, TypeInv, OwnInv, OwnTypeOK, Lives
<1>3. HoldTypeOK'
  BY DecideMissedType DEF RecoverIndex, DueRows, TypeInv
<1>4. UNCHANGED <<lockFileVars, pollVars, runVars, editVars>>
  BY DEF RecoverIndex
<1> QED BY <1>1, <1>2, <1>3, <1>4, KeepsLockFile, KeepsPoll, KeepsRun, KeepsEdit DEF TypeInv

LEMMA PollBeginType == ASSUME TypeInv, NEW p \in Procs, PollBegin(p) PROVE TypeInv'
<1>1. LockFileInv'
  BY GetLockType, KeepsLockFile DEF PollBegin, CheckLockFile, TypeInv
<1>2. OwnInv'
  BY DEF PollBegin, CheckLockFile, TypeInv, OwnInv, OwnTypeOK
<1>3. HoldTypeOK'
  BY DEF PollBegin, HonorRequest, NoHold, holdVars, TypeInv, HoldTypeOK
<1>4. PollTypeOK'
  BY DEF PollBegin, TypeInv, StoreTypeOK, PollTypeOK
<1>5. UNCHANGED <<storeVars, runVars, editVars>>
  BY DEF PollBegin
<1> QED BY <1>1, <1>2, <1>3, <1>4, <1>5, KeepsStore, KeepsRun, KeepsEdit DEF TypeInv

LEMMA PollSubmitType == ASSUME TypeInv, NEW p \in Procs, PollSubmit(p) PROVE TypeInv'
<1>1. marker' \subseteq marker /\ unreleased' \in [Procs -> SUBSET Todos]
  BY DEF PollSubmit, TypeInv, PollTypeOK
<1>2. StoreTypeOK'
  BY <1>1 DEF PollSubmit, TypeInv, StoreTypeOK
<1>3. PollTypeOK'
  BY <1>1 DEF PollSubmit, TypeInv, PollTypeOK, NoRows
<1>4. RunTypeOK'
  <2>1. \A t \in Todos : Submitted(p, t) \in Runs
    <3> TAKE t \in Todos
    <3>1. run[p][t] \in Runs /\ due[p][t] \in Slots \cup {None}
      BY DEF TypeInv, PollTypeOK, RunTypeOK
    <3>2. NoRun \in Runs
      BY DEF NoRun, Runs, Places
    <3>3. [NoRun EXCEPT !.at = "queued", !.slot = due[p][t]] \in Runs
      BY <3>1 DEF NoRun, Runs, Places
    <3> QED BY <3>1, <3>2, <3>3 DEF Submitted
  <2> QED BY <2>1 DEF PollSubmit, TypeInv, RunTypeOK
<1>5. UNCHANGED <<lockFileVars, ownVars, holdVars, editVars>>
  BY DEF PollSubmit
<1> QED BY <1>2, <1>3, <1>4, <1>5, KeepsLockFile, KeepsOwn, KeepsHold, KeepsEdit DEF TypeInv

LEMMA ReleaseType ==
    ASSUME TypeInv, RequestRelease \/ \E p \in Procs : ReleaseHeld(p)
    PROVE  TypeInv'
<1>1. UNCHANGED <<lockFileVars, storeVars, ownVars, pollVars, runVars, editVars>>
  BY DEF RequestRelease, ReleaseHeld
<1>2. HoldTypeOK'
  BY DEF RequestRelease, ReleaseHeld, NoHold, TypeInv, HoldTypeOK
<1> QED BY <1>1, <1>2, KeepsLockFile, KeepsStore, KeepsOwn, KeepsPoll, KeepsRun, KeepsEdit
        DEF TypeInv

-----------------------------------------------------------------------------
(* The steps of a run, in types.                                            *)

LEMMA RunChanged ==
    ASSUME RunTypeOK, NEW p \in Procs, NEW t \in Todos, NEW r \in Runs,
           run' = [run EXCEPT ![p][t] = r]
    PROVE  run' \in [Procs -> [Todos -> Runs]]
BY DEF RunTypeOK

LEMMA GotoType ==
    ASSUME RunTypeOK, NEW p \in Procs, NEW t \in Todos, NEW place \in Places,
           Goto(p, t, place)
    PROVE  run' \in [Procs -> [Todos -> Runs]]
<1> DEFINE r == [run[p][t] EXCEPT !.at = place]
<1>1. run' = [run EXCEPT ![p][t] = r]
  BY DEF Goto
<1>2. run[p][t] \in Runs
  BY DEF RunTypeOK
<1>3. r \in Runs
  BY <1>2 DEF Runs
<1> HIDE DEF r
<1> QED BY <1>1, <1>3, RunChanged

LEMMA LoadedList ==
    ASSUME RunTypeOK, NEW p \in Procs, NEW t \in Todos, NEW place, Loaded(p, t, place)
    PROVE  draft[p][t] \in Lists
BY DEF RunTypeOK, Loaded

LEMMA SavedItem ==
    ASSUME TypeInv, NEW p \in Procs, NEW t \in Todos, NEW item, draft[p][t] \in Lists,
           Present(draft[p][t], t) => item \in Items, SaveItem(p, t, item)
    PROVE  list' \in Lists /\ listLock' \in [Homes -> BOOLEAN]
<1> DEFINE saved == IF Present(draft[p][t], t) THEN item ELSE None
<1>1. saved \in Items \cup {None}
  OBVIOUS
<1>2. SaveList(p, draft[p][t], t, saved)
  BY DEF SaveItem
<1>3. p \in Homes
  BY TickerAssumption DEF TickerAssumption
<1> HIDE DEF saved
<1> QED BY <1>1, <1>2, <1>3, SavedList DEF TypeInv

(* The whole type invariant, from the parts that a run may change.          *)
LEMMA RunKeepsTypes ==
    ASSUME TypeInv, NEW p \in Procs, NEW t \in Todos,
           UNCHANGED <<lockFileVars, now, ownVars, holdVars, editVars>>,
           PollTypeOK',
           list' \in Lists, listLock' \in [Homes -> BOOLEAN],
           row' \in [Todos -> Slots \cup {None}], marker' \subseteq Todos,
           run' \in [Procs -> [Todos -> Runs]],
           draft' \in [Procs -> [Todos -> Lists \cup {None}]],
           retries' \in [Procs -> [Todos -> 0..(MaxRetries - 1)]],
           served' \subseteq Todos \X (Slots \cup {None})
    PROVE  TypeInv'
<1>1. StoreTypeOK' /\ RunTypeOK'
  BY DEF TypeInv, StoreTypeOK, RunTypeOK
<1> QED BY <1>1, KeepsLockFile, KeepsOwn, KeepsHold, KeepsEdit DEF TypeInv

(* The steps that change where the run is, and perhaps a marker or a row.   *)
LEMMA RunMovesType ==
    ASSUME TypeInv, NEW p \in Procs, NEW t \in Todos,
           \/ RunClaim(p, t) \/ RunChecks(p, t) \/ TurnEnds(p, t) \/ Decide(p, t)
           \/ RunSyncReads(p, t) \/ RunIndexes(p, t) \/ RunUnrows(p, t)
    PROVE  TypeInv'
<1> USE DEF Places, WritePlaces
<1>1. UNCHANGED <<lockFileVars, list, listLock, now, ownVars, holdVars, pollVars, draft,
                  retries, served, editVars>>
  BY DEF RunClaim, RunChecks, TurnEnds, Decide, RunSyncReads, RunIndexes, RunUnrows, storeVars
<1>2. marker' \subseteq Todos
  BY DEF RunClaim, RunChecks, TurnEnds, Decide, RunSyncReads, RunIndexes, RunUnrows,
         storeVars, TypeInv, StoreTypeOK
<1>3. run[p][t] \in Runs /\ IndexOf(list, t) \in Slots \cup {None}
  BY IndexSlot DEF TypeInv, RunTypeOK, StoreTypeOK
<1>4. row' \in [Todos -> Slots \cup {None}]
  <2>1. CASE RunClaim(p, t) \/ TurnEnds(p, t) \/ Decide(p, t) \/ RunSyncReads(p, t)
    BY <2>1 DEF RunClaim, TurnEnds, Decide, RunSyncReads, storeVars, TypeInv, StoreTypeOK
  <2>2. CASE RunChecks(p, t) \/ RunUnrows(p, t)
    BY <2>2, PutRowType DEF RunChecks, RunUnrows, TypeInv, StoreTypeOK
  <2>3. CASE RunIndexes(p, t)
    BY <1>3, <2>3, PutRowType DEF RunIndexes, TypeInv, Runs
  <2> QED BY <2>1, <2>2, <2>3
<1>5. run' \in [Procs -> [Todos -> Runs]]
  <2>1. CASE RunClaim(p, t)
    BY <2>1, GotoType DEF RunClaim, TypeInv
  <2>2. CASE RunChecks(p, t)
    BY <2>2, GotoType DEF RunChecks, TypeInv
  <2>3. CASE TurnEnds(p, t)
    <3>1. CASE run' = [run EXCEPT ![p][t].at = "settle", ![p][t].won = TRUE]
      <4> DEFINE r == [run[p][t] EXCEPT !.at = "settle", !.won = TRUE]
      <4>1. run' = [run EXCEPT ![p][t] = r]
        BY <3>1
      <4>2. r \in Runs
        BY <1>3 DEF Runs
      <4> HIDE DEF r
      <4> QED BY <4>1, <4>2, RunChanged DEF TypeInv
    <3> QED BY <2>3, <3>1, GotoType DEF TurnEnds, TypeInv
  <2>4. CASE Decide(p, t)
    <3>1. \E place \in Places : Goto(p, t, place)
      BY <2>4 DEF Decide
    <3> QED BY <3>1, GotoType DEF TypeInv
  <2>5. CASE RunSyncReads(p, t)
    <3> DEFINE r == [run[p][t] EXCEPT !.at = "index", !.seen = IndexOf(list, t)]
    <3>1. run' = [run EXCEPT ![p][t] = r]
      BY <2>5 DEF RunSyncReads
    <3>2. r \in Runs
      BY <1>3 DEF Runs
    <3> HIDE DEF r
    <3> QED BY <3>1, <3>2, RunChanged DEF TypeInv
  <2>6. CASE RunIndexes(p, t)
    BY <2>6, GotoType DEF RunIndexes, TypeInv
  <2>7. CASE RunUnrows(p, t)
    BY <2>7, GotoType DEF RunUnrows, TypeInv
  <2> QED BY <2>1, <2>2, <2>3, <2>4, <2>5, <2>6, <2>7
<1>6. /\ list' \in Lists /\ listLock' \in [Homes -> BOOLEAN] /\ PollTypeOK'
      /\ draft' \in [Procs -> [Todos -> Lists \cup {None}]]
      /\ retries' \in [Procs -> [Todos -> 0..(MaxRetries - 1)]]
      /\ served' \subseteq Todos \X (Slots \cup {None})
  BY <1>1, KeepsPoll DEF TypeInv, StoreTypeOK, RunTypeOK
<1> QED BY <1>1, <1>2, <1>4, <1>5, <1>6, RunKeepsTypes

(* The steps on the retry count, the marker's end, and the lock on the list.*)
LEMMA RunCountsType ==
    ASSUME TypeInv, NEW p \in Procs, NEW t \in Todos,
           RunLooksAtStreak(p, t) \/ RunFails(p, t) \/ RunReleases(p, t) \/ RunLoad(p, t)
    PROVE  TypeInv'
<1> USE DEF Places, WritePlaces
<1>1. UNCHANGED <<lockFileVars, list, row, now, ownVars, holdVars, served, editVars>>
  BY DEF RunLooksAtStreak, RunFails, RunReleases, RunLoad, storeVars
<1>2. marker' \subseteq Todos /\ listLock' \in [Homes -> BOOLEAN]
  BY DEF RunLooksAtStreak, RunFails, RunReleases, RunLoad, TakeListLock, storeVars,
         TypeInv, StoreTypeOK
<1>3. run' \in [Procs -> [Todos -> Runs]]
  <2>1. CASE RunLoad(p, t)
    BY <2>1 DEF RunLoad, TypeInv, RunTypeOK
  <2>2. CASE RunLooksAtStreak(p, t) \/ RunFails(p, t) \/ RunReleases(p, t)
    <3>1. \E place \in Places : Goto(p, t, place)
      BY <2>2 DEF RunLooksAtStreak, RunFails, RunReleases, AfterRetries
    <3> QED BY <3>1, GotoType DEF TypeInv
  <2> QED BY <2>1, <2>2
<1>4. draft' \in [Procs -> [Todos -> Lists \cup {None}]]
  <2>1. UNCHANGED draft \/ draft' = [draft EXCEPT ![p][t] = list]
    BY DEF RunLooksAtStreak, RunFails, RunReleases, RunLoad
  <2>2. /\ draft \in [Procs -> [Todos -> Lists \cup {None}]]
        /\ list \in Lists \cup {None}
    BY DEF TypeInv, RunTypeOK, StoreTypeOK
  <2>3. [draft[p] EXCEPT ![t] = list] \in [Todos -> Lists \cup {None}]
    BY <2>2
  <2>4. [draft EXCEPT ![p][t] = list] \in [Procs -> [Todos -> Lists \cup {None}]]
    BY <2>2, <2>3
  <2> QED BY <2>1, <2>2, <2>4
<1>5. retries' \in [Procs -> [Todos -> 0..(MaxRetries - 1)]]
  <2>1. CASE RunFails(p, t)
    <3>1. retries[p][t] \in 0..(MaxRetries - 1)
      BY DEF TypeInv, RunTypeOK
    <3>2. Retried(retries[p][t]) \in 0..(MaxRetries - 1)
      BY <3>1, TickerAssumption DEF Retried, TickerAssumption
    <3> QED BY <2>1, <3>2 DEF RunFails, TypeInv, RunTypeOK
  <2>2. CASE RunLooksAtStreak(p, t)
    <3>1. UNCHANGED retries \/ retries' = [retries EXCEPT ![p][t] = 0]
      BY <2>2 DEF RunLooksAtStreak
    <3>2. 0 \in 0..(MaxRetries - 1)
      BY TickerAssumption DEF TickerAssumption
    <3>3. retries \in [Procs -> [Todos -> 0..(MaxRetries - 1)]]
      BY DEF TypeInv, RunTypeOK
    <3>4. [retries[p] EXCEPT ![t] = 0] \in [Todos -> 0..(MaxRetries - 1)]
      BY <3>2, <3>3
    <3>5. [retries EXCEPT ![p][t] = 0] \in [Procs -> [Todos -> 0..(MaxRetries - 1)]]
      BY <3>3, <3>4
    <3> QED BY <3>1, <3>3, <3>5
  <2>3. CASE RunReleases(p, t) \/ RunLoad(p, t)
    BY <2>3 DEF RunReleases, RunLoad, TypeInv, RunTypeOK
  <2> QED BY <2>1, <2>2, <2>3
<1>6. PollTypeOK'
  BY DEF RunLooksAtStreak, RunFails, RunReleases, RunLoad, pollVars, TypeInv, PollTypeOK
<1>7. /\ list' \in Lists /\ row' \in [Todos -> Slots \cup {None}]
      /\ served' \subseteq Todos \X (Slots \cup {None})
  BY <1>1 DEF TypeInv, StoreTypeOK, RunTypeOK
<1> QED BY <1>1, <1>2, <1>3, <1>4, <1>5, <1>6, <1>7, RunKeepsTypes

(* The steps that save the list that the run has loaded, or fail to.        *)
LEMMA WriteTypes ==
    ASSUME TypeInv, NEW p \in Procs, NEW t \in Todos, NEW place, Loaded(p, t, place),
           AfterDraft(p, t),
           NEW item, Present(draft[p][t], t) => item \in Items,
           SaveItem(p, t, item) \/ SaveFails(p),
           row' \in [Todos -> Slots \cup {None}],
           run' \in [Procs -> [Todos -> Runs]],
           retries' \in [Procs -> [Todos -> 0..(MaxRetries - 1)]],
           served' \subseteq Todos \X (Slots \cup {None})
    PROVE  TypeInv'
<1>1. p \in Homes
  BY TickerAssumption DEF TickerAssumption
<1>2. list' \in Lists /\ listLock' \in [Homes -> BOOLEAN]
  <2>1. CASE SaveItem(p, t, item)
    BY <2>1, LoadedList, SavedItem DEF TypeInv
  <2>2. CASE SaveFails(p)
    BY <1>1, <2>2, FailedSave DEF TypeInv
  <2> QED BY <2>1, <2>2
<1>3. draft' \in [Procs -> [Todos -> Lists \cup {None}]]
  <2>1. draft \in [Procs -> [Todos -> Lists \cup {None}]]
    BY DEF TypeInv, RunTypeOK
  <2>2. [draft[p] EXCEPT ![t] = None] \in [Todos -> Lists \cup {None}]
    BY <2>1
  <2> QED BY <2>1, <2>2 DEF AfterDraft
<1>4. /\ UNCHANGED <<lockFileVars, now, ownVars, holdVars, editVars>>
      /\ PollTypeOK' /\ marker' \subseteq Todos
  BY KeepsPoll DEF AfterDraft, TypeInv, StoreTypeOK
<1> QED BY <1>2, <1>3, <1>4, RunKeepsTypes

LEMMA LoadedItem ==
    ASSUME TypeInv, NEW p \in Procs, NEW t \in Todos, NEW place, Loaded(p, t, place)
    PROVE  /\ draft[p][t] \in Lists
           /\ Present(draft[p][t], t) => draft[p][t][t] \in Items
BY LoadedList, PresentItem DEF TypeInv

(* What a run leaves alone when it has neither settled nor failed.          *)
LEMMA KeptByRun ==
    ASSUME TypeInv
    PROVE  /\ UNCHANGED row => row' \in [Todos -> Slots \cup {None}]
           /\ UNCHANGED retries => retries' \in [Procs -> [Todos -> 0..(MaxRetries - 1)]]
           /\ UNCHANGED served => served' \subseteq Todos \X (Slots \cup {None})
           /\ \A p \in Procs, t \in Todos : run[p][t] \in Runs
           /\ now \in Slots /\ now + 1 \in Slots
BY Constants DEF TypeInv, StoreTypeOK, RunTypeOK

LEMMA RunStartsType ==
    ASSUME TypeInv, NEW p \in Procs, NEW t \in Todos, RunStarts(p, t)
    PROVE  TypeInv'
<1> DEFINE item == [draft[p][t][t] EXCEPT !.status = "in_progress"]
<1>1. Present(draft[p][t], t) => item \in Items
  BY LoadedItem DEF RunStarts, Items, Statuses
<1>2. /\ Loaded(p, t, "start") /\ AfterDraft(p, t) /\ UNCHANGED <<row, retries, served>>
      /\ SaveItem(p, t, item) \/ SaveFails(p)
  BY DEF RunStarts
<1>3. run' \in [Procs -> [Todos -> Runs]]
  <2>1. \E place \in Places : Goto(p, t, place)
    BY DEF RunStarts, Places
  <2> QED BY <2>1, GotoType DEF TypeInv
<1> HIDE DEF item
<1> QED BY <1>1, <1>2, <1>3, KeptByRun, WriteTypes

LEMMA SettleFailsType ==
    ASSUME TypeInv, NEW p \in Procs, NEW t \in Todos, SettleFails(p, t)
    PROVE  run' \in [Procs -> [Todos -> Runs]]
<1> DEFINE r == [run[p][t] EXCEPT !.won = FALSE,
                                  !.at = IF run[p][t].won THEN "failed" ELSE "release"]
<1>1. run' = [run EXCEPT ![p][t] = r]
  BY DEF SettleFails
<1>2. r \in Runs
  <2> DEFINE place == IF run[p][t].won THEN "failed" ELSE "release"
  <2>1. run[p][t] \in Runs
    BY KeptByRun
  <2>2. place \in Places
    BY DEF Places
  <2> HIDE DEF place
  <2>3. [run[p][t] EXCEPT !.won = FALSE, !.at = place] \in Runs
    BY <2>1, <2>2 DEF Runs
  <2> QED BY <2>3 DEF place
<1> HIDE DEF r
<1> QED BY <1>1, <1>2, RunChanged DEF TypeInv

LEMMA RecordType ==
    ASSUME TypeInv, NEW p \in Procs, NEW t \in Todos, Record(p, t)
    PROVE  served' \subseteq Todos \X (Slots \cup {None})
<1>1. run[p][t].slot \in Slots \cup {None}
  BY KeptByRun DEF Runs
<1> QED BY <1>1 DEF Record, TypeInv, RunTypeOK

LEMMA RearmedItem ==
    ASSUME TypeInv, NEW p \in Procs, NEW t \in Todos, NEW item \in Items
    PROVE  Rearmed(p, t, item) \in Items /\ Honoured(p, t, item) \in Items
<1> DEFINE next == Rescheduled(item, Capped(NextSlot(run[p][t].slot)))
<1>1. run[p][t].slot \in Slots \cup {None}
  BY KeptByRun DEF Runs
<1>2. next \in Items
  BY CappedSlot, RescheduledItem
<1>3. [next EXCEPT !.status = "pending", !.last = run[p][t].slot] \in Items
  <2> HIDE DEF next
  <2> QED BY <1>1, <1>2 DEF Items, Statuses
<1>4. Honoured(p, t, item) \in Items
  BY <1>1 DEF Honoured, Items, Statuses
<1> QED BY <1>3, <1>4 DEF Rearmed

LEMMA RunSettlesType ==
    ASSUME TypeInv, NEW p \in Procs, NEW t \in Todos, RunSettles(p, t)
    PROVE  TypeInv'
<1>1. PICK place \in {"honor", "rearm"} :
         /\ Loaded(p, t, place)
         /\ \/ /\ SaveItem(p, t, IF place = "honor" THEN Honoured(p, t, draft[p][t][t])
                                                    ELSE Rearmed(p, t, draft[p][t][t]))
               /\ Record(p, t)
               /\ Goto(p, t, "sync")
            \/ SettleFails(p, t)
  BY DEF RunSettles
<1> DEFINE item == IF place = "honor" THEN Honoured(p, t, draft[p][t][t])
                                      ELSE Rearmed(p, t, draft[p][t][t])
<1>2. Present(draft[p][t], t) => item \in Items
  BY <1>1, LoadedItem, RearmedItem
<1>3. SaveItem(p, t, item) \/ SaveFails(p)
  BY <1>1 DEF SettleFails
<1>4. run' \in [Procs -> [Todos -> Runs]]
  BY <1>1, GotoType, SettleFailsType DEF Places, TypeInv
<1>5. served' \subseteq Todos \X (Slots \cup {None})
  BY <1>1, RecordType, KeptByRun DEF SettleFails
<1>6. AfterDraft(p, t) /\ UNCHANGED <<row, retries>>
  BY DEF RunSettles
<1> HIDE DEF item
<1> QED BY <1>1, <1>2, <1>3, <1>4, <1>5, <1>6, KeptByRun, WriteTypes

LEMMA RunClearsType ==
    ASSUME TypeInv, NEW p \in Procs, NEW t \in Todos, RunClears(p, t)
    PROVE  TypeInv'
<1> DEFINE item == [draft[p][t][t] EXCEPT !.slot = None, !.last = now]
<1>1. Present(draft[p][t], t) => item \in Items
  BY LoadedItem, KeptByRun DEF RunClears, Items
<1>2. /\ Loaded(p, t, "clear") /\ AfterDraft(p, t) /\ UNCHANGED retries
      /\ PutRow(t, None) \/ UNCHANGED row
      /\ \/ SaveItem(p, t, item) /\ Record(p, t) /\ \E place \in Places : Goto(p, t, place)
         \/ SettleFails(p, t)
  BY DEF RunClears, Places
<1>3. SaveItem(p, t, item) \/ SaveFails(p)
  BY <1>2 DEF SettleFails
<1>4. run' \in [Procs -> [Todos -> Runs]]
  BY <1>2, GotoType, SettleFailsType DEF TypeInv
<1>5. served' \subseteq Todos \X (Slots \cup {None})
  BY <1>2, RecordType, KeptByRun DEF SettleFails
<1>6. row' \in [Todos -> Slots \cup {None}]
  BY <1>2, PutRowType, KeptByRun DEF TypeInv
<1> HIDE DEF item
<1> QED BY <1>1, <1>2, <1>3, <1>4, <1>5, <1>6, KeptByRun, WriteTypes

LEMMA RunBacksOffType ==
    ASSUME TypeInv, NEW p \in Procs, NEW t \in Todos, RunBacksOff(p, t)
    PROVE  TypeInv'
<1> DEFINE item == Rescheduled(draft[p][t][t], now + 1)
<1>1. Present(draft[p][t], t) => item \in Items
  BY LoadedItem, KeptByRun, RescheduledItem DEF RunBacksOff
<1>2. /\ Loaded(p, t, "backoff") /\ AfterDraft(p, t) /\ UNCHANGED <<row, retries, served>>
      /\ SaveItem(p, t, item) \/ SaveFails(p)
  BY DEF RunBacksOff
<1>3. run' \in [Procs -> [Todos -> Runs]]
  <2>1. \E place \in Places : Goto(p, t, place)
    BY DEF RunBacksOff, Places
  <2> QED BY <2>1, GotoType DEF TypeInv
<1> HIDE DEF item
<1> QED BY <1>1, <1>2, <1>3, KeptByRun, WriteTypes

LEMMA RunResetsStreakType ==
    ASSUME TypeInv, NEW p \in Procs, NEW t \in Todos, RunResetsStreak(p, t)
    PROVE  TypeInv'
<1> DEFINE item == [draft[p][t][t] EXCEPT !.streak = 0, !.paused = FALSE]
<1>1. Present(draft[p][t], t) => item \in Items
  BY LoadedItem DEF RunResetsStreak, Items
<1>2. /\ Loaded(p, t, "reset") /\ AfterDraft(p, t) /\ UNCHANGED <<row, served>>
      /\ SaveItem(p, t, item) \/ SaveFails(p)
      /\ Goto(p, t, "release")
  BY DEF RunResetsStreak
<1>3. run' \in [Procs -> [Todos -> Runs]]
  BY <1>2, GotoType DEF TypeInv, Places
<1>4. retries' \in [Procs -> [Todos -> 0..(MaxRetries - 1)]]
  <2>1. retries' = [retries EXCEPT ![p][t] = 0]
    BY DEF RunResetsStreak
  <2>2. retries \in [Procs -> [Todos -> 0..(MaxRetries - 1)]] /\ 0 \in 0..(MaxRetries - 1)
    BY TickerAssumption DEF TypeInv, RunTypeOK, TickerAssumption
  <2>3. [retries[p] EXCEPT ![t] = 0] \in [Todos -> 0..(MaxRetries - 1)]
    BY <2>2
  <2> QED BY <2>1, <2>2, <2>3
<1> HIDE DEF item
<1> QED BY <1>1, <1>2, <1>3, <1>4, KeptByRun, WriteTypes

LEMMA FailedStreak == ASSUME NEW n \in Nat PROVE Failed(n) \in Nat
BY DEF Failed

LEMMA RunRecordsType ==
    ASSUME TypeInv, NEW p \in Procs, NEW t \in Todos, RunRecords(p, t)
    PROVE  TypeInv'
<1> DEFINE streak == IF Present(draft[p][t], t) THEN Failed(draft[p][t][t].streak) ELSE 0
           item   == [draft[p][t][t] EXCEPT !.streak = streak]
<1>1. Present(draft[p][t], t) => item \in Items
  BY LoadedItem, FailedStreak DEF RunRecords, Items
<1>2. /\ Loaded(p, t, "record") /\ AfterDraft(p, t) /\ UNCHANGED <<row, retries, served>>
      /\ SaveItem(p, t, item) \/ SaveFails(p)
  BY DEF RunRecords
<1>3. run' \in [Procs -> [Todos -> Runs]]
  <2>1. \E place \in Places : Goto(p, t, place)
    <3> HIDE DEF item, streak
    <3>1. \E s : Goto(p, t, IF PauseAfter > 0 /\ s >= PauseAfter THEN "pause" ELSE "settle")
                 \/ Goto(p, t, "settle")
      BY DEF RunRecords
    <3>2. "pause" \in Places /\ "settle" \in Places
      BY DEF Places, WritePlaces
    <3> QED BY <3>1, <3>2
  <2> QED BY <2>1, GotoType DEF TypeInv
<1> HIDE DEF item
<1> QED BY <1>1, <1>2, <1>3, KeptByRun, WriteTypes

LEMMA RunPausesType ==
    ASSUME TypeInv, NEW p \in Procs, NEW t \in Todos, RunPauses(p, t)
    PROVE  TypeInv'
<1> DEFINE item == [draft[p][t][t] EXCEPT !.slot = None, !.status = "pending",
                                          !.paused = TRUE]
<1>1. Present(draft[p][t], t) => item \in Items
  BY LoadedItem DEF RunPauses, Items, Statuses
<1>2. /\ Loaded(p, t, "pause") /\ AfterDraft(p, t) /\ UNCHANGED <<row, retries, served>>
      /\ SaveItem(p, t, item) \/ SaveFails(p)
  BY DEF RunPauses
<1>3. run' \in [Procs -> [Todos -> Runs]]
  <2>1. \E place \in Places : Goto(p, t, place)
    BY DEF RunPauses, Places
  <2> QED BY <2>1, GotoType DEF TypeInv
<1> HIDE DEF item
<1> QED BY <1>1, <1>2, <1>3, KeptByRun, WriteTypes

LEMMA RunGivesUpType ==
    ASSUME TypeInv, NEW p \in Procs, NEW t \in Todos, RunGivesUp(p, t)
    PROVE  TypeInv'
<1> DEFINE item == [draft[p][t][t] EXCEPT !.slot = None, !.status = "pending"]
<1>1. Present(draft[p][t], t) => item \in Items
  BY LoadedItem DEF RunGivesUp, Items, Statuses
<1>2. /\ Loaded(p, t, "dead") /\ AfterDraft(p, t) /\ UNCHANGED <<row, retries, served>>
      /\ SaveItem(p, t, item) \/ SaveFails(p)
      /\ Goto(p, t, "release")
  BY DEF RunGivesUp
<1>3. run' \in [Procs -> [Todos -> Runs]]
  BY <1>2, GotoType DEF TypeInv, Places
<1> HIDE DEF item
<1> QED BY <1>1, <1>2, <1>3, KeptByRun, WriteTypes

LEMMA RunStepType ==
    ASSUME TypeInv, NEW p \in Procs, NEW t \in Todos, RunStep(p, t)
    PROVE  TypeInv'
BY RunMovesType, RunCountsType, RunStartsType, RunSettlesType, RunClearsType,
   RunBacksOffType, RunResetsStreakType, RunRecordsType, RunPausesType, RunGivesUpType
   DEF RunStep

-----------------------------------------------------------------------------
(* Edits, in types.                                                         *)

LEMMA HomeIsHome == \A e \in Editors : Home[e] \in Homes
BY TickerAssumption DEF TickerAssumption

LEMMA EditLoadsType == ASSUME TypeInv, NEW e \in Editors, EditLoads(e) PROVE TypeInv'
<1>1. PICK t \in Todos, op \in OpsOf(e) : \E s \in SlotsOf(op) :
         /\ Present(list, t)
         /\ editor' = [editor EXCEPT ![e] = [at |-> "loaded", todo |-> t, op |-> op,
                                             slot |-> s, draft |-> list, seen |-> None]]
  BY DEF EditLoads
<1>2. PICK s \in SlotsOf(op) :
         /\ Present(list, t)
         /\ editor' = [editor EXCEPT ![e] = [at |-> "loaded", todo |-> t, op |-> op,
                                             slot |-> s, draft |-> list, seen |-> None]]
  BY <1>1
<1>3. /\ op \in Ops /\ s \in Slots \cup {None} /\ (op = "schedule" => s \in Slots)
      /\ list \in Lists /\ list[t] \in Items
  BY <1>2, PresentItem DEF OpsOf, SlotsOf, TypeInv, StoreTypeOK
<1>4. [at |-> "loaded", todo |-> t, op |-> op, slot |-> s, draft |-> list, seen |-> None]
         \in Edits
  BY <1>3 DEF Edits
<1>5. EditTypeOK'
  <2>1. edits' \in [Editors -> 0..MaxEdits]
    BY TickerAssumption DEF EditLoads, TypeInv, EditInv, EditTypeOK, TickerAssumption
  <2> QED BY <1>2, <1>4, <2>1 DEF TypeInv, EditInv, EditTypeOK
<1>6. EditInv'
  BY <1>2, <1>3, <1>5 DEF TypeInv, EditInv, EditTypeOK
<1>7. StoreTypeOK'
  BY DEF EditLoads, TakeListLock, TypeInv, StoreTypeOK
<1>8. UNCHANGED <<lockFileVars, ownVars, holdVars, pollVars, runVars>>
  BY DEF EditLoads
<1> QED BY <1>6, <1>7, <1>8, KeepsLockFile, KeepsOwn, KeepsHold, KeepsPoll, KeepsRun
        DEF TypeInv

LEMMA EditedItem ==
    ASSUME TypeInv, NEW e \in Editors, editor[e].at = "loaded"
    PROVE  /\ Edited(e) \in Items \cup {None}
           /\ editor[e].op # "delete" => Edited(e) \in Items
           /\ editor[e].todo \in Todos
           /\ editor[e].draft \in Lists
           /\ editor[e].draft[editor[e].todo] \in Items \cup {None}
<1> DEFINE item == editor[e].draft[editor[e].todo]
<1>1. /\ editor[e].todo \in Todos /\ editor[e].op \in Ops /\ editor[e].draft \in Lists
      /\ item \in Items /\ (editor[e].op = "schedule" => editor[e].slot \in Slots)
      /\ now \in 0..MaxTime
  BY DEF TypeInv, EditInv, StoreTypeOK
<1>2. [item EXCEPT !.slot = None] \in Items
  BY <1>1 DEF Items
<1>3. editor[e].op = "schedule" => Rescheduled(item, editor[e].slot) \in Items
  BY <1>1, RescheduledItem
<1>4. Completed(editor[e].todo, item) \in Items
  BY <1>1, CompletedItem
<1> QED BY <1>1, <1>2, <1>3, <1>4 DEF Edited, Ops

LEMMA RowInsideType ==
    ASSUME TypeInv, NEW e \in Editors, editor[e].at = "loaded"
    PROVE  RowInside(e) \in Slots \cup {None}
<1>1. editor[e].op # "delete" => Edited(e).slot \in Slots \cup {None}
  BY EditedItem DEF Items
<1>2. IndexOf(list, editor[e].todo) \in Slots \cup {None}
  BY EditedItem, IndexSlot DEF TypeInv, StoreTypeOK
<1>3. editor[e].op = "schedule" => editor[e].slot \in Slots
  BY DEF TypeInv, EditInv
<1> QED BY <1>1, <1>2, <1>3 DEF RowInside

(* The whole type invariant, from the parts that an edit may change.        *)
LEMMA EditKeepsTypes ==
    ASSUME TypeInv, NEW e \in Editors, AfterEdit,
           list' \in Lists, listLock' \in [Homes -> BOOLEAN],
           row' \in [Todos -> Slots \cup {None}],
           NEW next \in Edits, editor' = [editor EXCEPT ![e] = next],
           next.at # "loaded",
           next.at # "idle" => next.todo \in Todos /\ next.op \in Ops
    PROVE  TypeInv'
<1>1. StoreTypeOK'
  BY DEF AfterEdit, TypeInv, StoreTypeOK
<1>2. EditInv'
  BY DEF AfterEdit, TypeInv, EditInv, EditTypeOK
<1>3. UNCHANGED <<lockFileVars, ownVars, holdVars, pollVars, runVars>>
  BY DEF AfterEdit
<1> QED BY <1>1, <1>2, <1>3, KeepsLockFile, KeepsOwn, KeepsHold, KeepsPoll, KeepsRun
        DEF TypeInv

LEMMA NoEditType == NoEdit \in Edits /\ NoEdit.at = "idle"
BY DEF NoEdit, Edits

LEMMA EditSavesType ==
    ASSUME TypeInv, NEW e \in Editors, editor[e].at = "loaded",
           \/ EditSaves(e) \/ SaveFails(Home[e])
           \/ SaveList(Home[e], editor[e].draft, editor[e].todo,
                       editor[e].draft[editor[e].todo])
    PROVE  list' \in Lists /\ listLock' \in [Homes -> BOOLEAN]
<1>1. StoreTypeOK /\ Home[e] \in Homes
  BY HomeIsHome DEF TypeInv
<1>2. CASE EditSaves(e)
  BY <1>1, <1>2, EditedItem, SavedList DEF EditSaves
<1>3. CASE SaveFails(Home[e])
  BY <1>1, <1>3, FailedSave
<1>4. CASE SaveList(Home[e], editor[e].draft, editor[e].todo,
                    editor[e].draft[editor[e].todo])
  BY <1>1, <1>4, EditedItem, SavedList
<1> QED BY <1>2, <1>3, <1>4

LEMMA EditEndsType ==
    ASSUME TypeInv, NEW e \in Editors, AfterEdit, EditEnds(e),
           list' \in Lists, listLock' \in [Homes -> BOOLEAN],
           row' \in [Todos -> Slots \cup {None}]
    PROVE  TypeInv'
BY NoEditType, EditKeepsTypes DEF EditEnds

LEMMA EditGoesOnType == ASSUME TypeInv, NEW e \in Editors, EditGoesOn(e) PROVE TypeInv'
<1>1. /\ row \in [Todos -> Slots \cup {None}]
      /\ list \in Lists /\ listLock \in [Homes -> BOOLEAN]
      /\ editor[e] \in Edits
      /\ StoreTypeOK
      /\ editor[e].at # "idle" => editor[e].todo \in Todos /\ editor[e].op \in Ops
  BY DEF TypeInv, StoreTypeOK, EditInv, EditTypeOK
<1>2. CASE EditInside(e)
  <2>1. editor[e].at = "loaded"
    BY <1>2 DEF EditInside, Editing
  <2>2. row' \in [Todos -> Slots \cup {None}]
    BY <1>1, <1>2, <2>1, RowInsideType, PutRowType DEF EditInside
  <2> QED BY <1>2, <2>1, <2>2, EditSavesType, EditEndsType DEF EditInside
<1>3. CASE EditPatches(e)
  <2>1. editor[e].at = "loaded" /\ UNCHANGED row /\ AfterEdit
    BY <1>3 DEF EditPatches, Editing
  <2>2. CASE SaveFails(Home[e]) /\ EditEnds(e)
    BY <1>1, <2>1, <2>2, EditSavesType, EditEndsType
  <2>3. CASE EditSaves(e) /\ editor' = [editor EXCEPT ![e].at = "sync", ![e].draft = None]
    <3> DEFINE next == [editor[e] EXCEPT !.at = "sync", !.draft = None]
    <3>1. /\ next \in Edits /\ next.at = "sync"
          /\ next.todo = editor[e].todo /\ next.op = editor[e].op
      BY <1>1 DEF Edits
    <3>2. editor' = [editor EXCEPT ![e] = next]
      BY <2>3
    <3> HIDE DEF next
    <3> QED BY <1>1, <2>1, <2>3, <3>1, <3>2, EditSavesType, EditKeepsTypes
  <2> QED BY <1>3, <2>2, <2>3 DEF EditPatches
<1>4. CASE EditRefused(e)
  BY <1>1, <1>4, EditSavesType, EditEndsType DEF EditRefused, Editing
<1>5. CASE EditSyncReads(e)
  <2> DEFINE next == [editor[e] EXCEPT !.at = "index",
                                       !.seen = IndexOf(list, editor[e].todo)]
  <2>1. editor[e].at = "sync" /\ UNCHANGED <<list, listLock, row>> /\ AfterEdit
    BY <1>5 DEF EditSyncReads, Editing
  <2>2. IndexOf(list, editor[e].todo) \in Slots \cup {None}
    BY <1>1, <2>1, IndexSlot
  <2>3. /\ next \in Edits /\ next.at = "index"
        /\ next.todo = editor[e].todo /\ next.op = editor[e].op
    BY <1>1, <2>2 DEF Edits
  <2>4. editor' = [editor EXCEPT ![e] = next]
    BY <1>5 DEF EditSyncReads
  <2> HIDE DEF next
  <2> QED BY <1>1, <2>1, <2>3, <2>4, EditKeepsTypes
<1>6. CASE EditIndexes(e)
  <2>1. /\ editor[e].at = "index" /\ UNCHANGED <<list, listLock>> /\ AfterEdit
        /\ EditEnds(e) /\ PutRow(editor[e].todo, editor[e].seen)
    BY <1>6 DEF EditIndexes, Editing
  <2>2. editor[e].seen \in Slots \cup {None}
    BY <1>1 DEF Edits
  <2>3. row' \in [Todos -> Slots \cup {None}]
    BY <1>1, <2>1, <2>2, PutRowType
  <2> QED BY <1>1, <2>1, <2>3, EditEndsType
<1> QED BY <1>2, <1>3, <1>4, <1>5, <1>6 DEF EditGoesOn

-----------------------------------------------------------------------------
(* The end of a process, and the theorem on types.                          *)

LEMMA StopType == ASSUME TypeInv, NEW p \in Procs, Stop(p) PROVE TypeInv'
<1>1. OwnInv'
  BY DEF Stop, Enter, TypeInv, OwnInv, OwnTypeOK, Lives
<1>2. RunTypeOK'
  <2>1. Cancelled(p) \in [Todos -> Runs]
    BY DEF Cancelled, TypeInv, RunTypeOK, NoRun, Runs, Places
  <2> QED BY <2>1 DEF Stop, TypeInv, RunTypeOK
<1>3. UNCHANGED <<lockFileVars, storeVars, holdVars, pollVars, editVars>>
  BY DEF Stop, KeepsLock
<1> QED BY <1>1, <1>2, <1>3, KeepsLockFile, KeepsStore, KeepsHold, KeepsPoll, KeepsEdit
        DEF TypeInv

LEMMA CrashType == ASSUME TypeInv, NEW p \in Procs, Crash(p) PROVE TypeInv'
<1>1. LockFileInv'
  BY DropLocksType DEF Crash, TypeInv
<1>2. StoreTypeOK'
  BY DEF Crash, TypeInv, StoreTypeOK
<1>3. OwnInv'
  BY DEF Crash, Enter, TypeInv, OwnInv, OwnTypeOK, Lives
<1>4. HoldTypeOK' /\ PollTypeOK'
  BY DEF Crash, TypeInv, HoldTypeOK, PollTypeOK, NoRows
<1>5. RunTypeOK'
  <2>1. [t \in Todos |-> NoRun] \in [Todos -> Runs]
    BY DEF NoRun, Runs, Places
  <2>2. [t \in Todos |-> 0] \in [Todos -> 0..(MaxRetries - 1)]
    BY TickerAssumption DEF TickerAssumption
  <2>3. [t \in Todos |-> None] \in [Todos -> Lists \cup {None}]
    OBVIOUS
  <2> QED BY <2>1, <2>2, <2>3 DEF Crash, TypeInv, RunTypeOK
<1>6. EditInv'
  BY NoEditType DEF Crash, TypeInv, EditInv, EditTypeOK
<1> QED BY <1>1, <1>2, <1>3, <1>4, <1>5, <1>6 DEF TypeInv

LEMMA TimePassesType == ASSUME TypeInv, TimePasses PROVE TypeInv'
<1>1. StoreTypeOK'
  BY StoreAssumption DEF TimePasses, Tick, TypeInv, StoreTypeOK, StoreAssumption
<1>2. UNCHANGED <<lockFileVars, ownVars, holdVars, pollVars, runVars, editVars>>
  BY DEF TimePasses
<1> QED BY <1>1, <1>2, KeepsLockFile, KeepsOwn, KeepsHold, KeepsPoll, KeepsRun, KeepsEdit
        DEF TypeInv

LEMMA LockFileType == ASSUME TypeInv, LockFileStep PROVE TypeInv'
<1>1. UNCHANGED <<storeVars, ownVars, holdVars, pollVars, runVars, editVars>>
  BY DEF LockFileStep
<1> QED BY <1>1, LockFileStepType, KeepsStore, KeepsOwn, KeepsHold, KeepsPoll, KeepsRun,
           KeepsEdit DEF TypeInv

LEMMA TypeInit == ASSUME Init PROVE TypeInv
<1>1. LockFileInv
  BY LockAssumption DEF Init, LockFileInit, LockFileInv, LockFileTypeOK, LockAssumption
<1>2. StoreTypeOK
  <2>1. PICK s \in [Todos -> 0..1] : list = [t \in Todos |-> NewItem(s[t])] /\ row = s
    BY DEF Init, StoreInit
  <2>2. 0..1 \subseteq Slots
    BY StoreAssumption DEF Slots, StoreAssumption
  <2>3. \A t \in Todos : NewItem(s[t]) \in Items
    BY <2>2 DEF NewItem, Items, Statuses
  <2>4. list \in Lists
    BY <2>1, <2>3 DEF Lists
  <2>5. row \in [Todos -> Slots \cup {None}]
    BY <2>1, <2>2
  <2>6. now \in 0..MaxTime
    BY StoreAssumption DEF Init, StoreInit, StoreAssumption
  <2>7. listLock \in [Homes -> BOOLEAN] /\ marker \subseteq Todos
    BY DEF Init, StoreInit
  <2> QED BY <2>4, <2>5, <2>6, <2>7 DEF StoreTypeOK
<1>3. OwnInv
  BY TickerAssumption DEF Init, OwnInv, OwnTypeOK, Lives, TickerAssumption
<1>4. HoldTypeOK /\ PollTypeOK
  BY DEF Init, HoldTypeOK, PollTypeOK, NoRows
<1>5. RunTypeOK
  <2>1. NoRun \in Runs /\ 0 \in 0..(MaxRetries - 1)
    BY TickerAssumption DEF NoRun, Runs, Places, TickerAssumption
  <2> QED BY <2>1 DEF Init, RunTypeOK
<1>6. EditInv
  BY NoEditType, TickerAssumption DEF Init, EditInv, EditTypeOK, TickerAssumption
<1> QED BY <1>1, <1>2, <1>3, <1>4, <1>5, <1>6 DEF TypeInv

LEMMA TypeStep == ASSUME TypeInv, [Next]_vars PROVE TypeInv'
<1>1. ASSUME NEW p \in Procs,
             Start(p) \/ OwnerStep(p) \/ ReleaseHeld(p) \/ Stop(p) \/ Crash(p)
      PROVE  TypeInv'
  BY <1>1, StartType, StandbyPollType, RecoverMarkersType, RecoverIndexType,
     PollBeginType, PollSubmitType, ReleaseType, StopType, CrashType DEF OwnerStep
<1>2. CASE UNCHANGED vars
  BY <1>2, KeepsLockFile, KeepsStore, KeepsOwn, KeepsHold, KeepsPoll, KeepsRun, KeepsEdit
     DEF vars, TypeInv
<1> QED BY <1>1, <1>2, RunStepType, EditLoadsType, EditGoesOnType, ReleaseType,
           LockFileType, TimePassesType DEF Next

(* Every variable keeps its type, for any number of processes, TODOs and    *)
(* editors, and whatever may fail (ticker.py, todo_manager.py,              *)
(* todo_schedule_db.py, scheduler_lock.py).                                 *)
THEOREM TypeCorrect == Spec => []TypeOK
<1>1. Init => TypeInv
  BY TypeInit
<1>2. TypeInv /\ [Next]_vars => TypeInv'
  BY TypeStep
<1>3. TypeInv => TypeOK
  BY DEF TypeInv, TypeOK, LockFileInv, OwnInv, EditInv
<1> QED BY <1>1, <1>2, <1>3, PTL DEF Spec

-----------------------------------------------------------------------------
(* What keeps runs apart: the owner has the lock of the file of that name,  *)
(* only an owner that has recovered polls and runs, and it has let nothing  *)
(* that is held reach its pool.                                             *)

LockInv == \A p \in Owners : path # 0 /\ flock[path] = p

Working(p) == life[p] \in {"running", "stopped"}

IdleInv ==
    \A p \in Procs : ~Working(p) =>
        /\ ~polling[p]
        /\ unreleased[p] = {}
        /\ \A t \in Todos : run[p][t].at = "none" /\ due[p][t] = None

HoldInv ==
    \A p \in Procs : Working(p) =>
        /\ held[p] = pendingMissed
        /\ \A t \in pendingMissed : due[p][t] = None /\ run[p][t].at \in {"none", "done"}

Safe == TypeInv /\ LockInv /\ IdleInv /\ HoldInv

LEMMA OneOwner == ASSUME LockInv, NEW p \in Owners, NEW q \in Owners PROVE p = q
BY DEF LockInv

LEMMA WorkingOwns == \A p \in Procs : Working(p) => p \in Owners
BY DEF Working, Owners

LEMMA KeepsLockInv ==
    ASSUME LockInv, UNCHANGED lockFileVars, Owners' \subseteq Owners
    PROVE  LockInv'
BY DEF LockInv, lockFileVars

(* A process that gets the schedule gets the lock, which nobody had.        *)
LEMMA ClaimLocks ==
    ASSUME ~LockFaults, LockFileInv, OwnInv, LockInv, NEW p \in Procs, p \notin Owners,
           Claim(p)
    PROVE  LockInv'
<1>1. /\ path \in 0..made /\ made \in 0..MaxFiles /\ MaxFiles \in Nat
      /\ (path = 0 => made < MaxFiles) /\ Nobody \notin Procs
      /\ flock \in [1..MaxFiles -> Holders \cup {Nobody}]
  BY LockAssumption DEF LockFileInv, LockFileTypeOK, LockAssumption
<1>2. life \in [Procs -> Lives]
  BY DEF OwnInv, OwnTypeOK
<1>3. CASE Acquired(p) /\ Enter(p, "claimed")
  <2>1. Owners = {}
    <3> SUFFICES ASSUME NEW q \in Owners PROVE FALSE
      OBVIOUS
    <3>1. path # 0 /\ flock[path] = q /\ q \in Procs
      BY DEF LockInv, Owners
    <3> QED BY <1>1, <1>3, <3>1 DEF Acquired, GetLock
  <2>2. Owners' \subseteq {p}
    BY <1>2, <1>3, <2>1 DEF Enter, Owners
  <2>3. path' # 0 /\ flock'[path'] = p
    BY <1>1, <1>3 DEF Acquired, GetLock, LockOnly
  <2> QED BY <2>2, <2>3 DEF LockInv
<1>4. CASE Contended(p) /\ Enter(p, "standby")
  <2>1. Owners' \subseteq Owners
    BY <1>2, <1>4 DEF Enter, Owners
  <2> QED BY <1>4, <2>1, KeepsLockInv DEF Contended
<1> QED BY <1>3, <1>4 DEF Claim, Unavailable

(* The owner's look at the lock file finds it as it was.                    *)
LEMMA OwnerKeepsLock ==
    ASSUME LockFileInv, LockInv, NEW p \in Owners, CheckLockFile(p)
    PROVE  UNCHANGED <<lockFileVars, alarm>>
<1>1. path # 0 /\ flock[path] = p /\ path \in 1..MaxFiles
  BY LockAssumption DEF LockInv, LockFileInv, LockFileTypeOK, LockAssumption
<1>2. Holds(p) /\ ~Replaced(p)
  BY <1>1 DEF Holds, Replaced
<1> QED BY <1>2 DEF CheckLockFile

(* Those who only look at the lock take none away from its owner.           *)
LEMMA ProbesKeepLock ==
    ASSUME ~LockFaults, LockFileInv, LockInv, LockFileStep
    PROVE  LockInv'
<1>1. /\ path \in 0..made /\ made \in 0..MaxFiles /\ MaxFiles \in Nat
      /\ Nobody \notin Procs /\ Probers \cap Procs = {}
  BY LockAssumption DEF LockFileInv, LockFileTypeOK, LockAssumption
<1>2. Owners' = Owners
  BY DEF LockFileStep, ownVars, Owners
<1>3. PICK h \in Probers : ProbeTakes(h) \/ ProbeDrops(h)
  BY DEF LockFileStep, DeleteFile
<1>4. Owners \subseteq Procs
  BY DEF Owners
<1>5. CASE ProbeTakes(h)
  BY <1>1, <1>2, <1>4, <1>5 DEF ProbeTakes, LockInv
<1>6. CASE ProbeDrops(h)
  BY <1>1, <1>2, <1>4, <1>6 DEF ProbeDrops, DropLocks, LockInv
<1> QED BY <1>3, <1>5, <1>6

-----------------------------------------------------------------------------
(* What any step of a run does, and what it leaves alone.                   *)

Moved(p, t) ==
    /\ \A q \in Procs, u \in Todos : q # p \/ u # t => run'[q][u] = run[q][u]
    /\ run'[p][t].at \notin {"none", "queued"}

LEMMA GotoMoves ==
    ASSUME RunTypeOK, NEW p \in Procs, NEW t \in Todos, NEW place, Goto(p, t, place),
           place \notin {"none", "queued"}
    PROVE  Moved(p, t) /\ run'[p][t].at = place
<1>1. run \in [Procs -> [Todos -> Runs]] /\ run[p][t] \in Runs
  BY DEF RunTypeOK
<1>2. [run[p][t] EXCEPT !.at = place].at = place
  BY <1>1 DEF Runs
<1> QED BY <1>1, <1>2 DEF Goto, Moved

LEMMA RunFrame ==
    ASSUME TypeInv, NEW p \in Procs, NEW t \in Todos, RunStep(p, t)
    PROVE  /\ UNCHANGED <<lockFileVars, ownVars, holdVars, polling, due, editVars>>
           /\ Alive(p)
           /\ run[p][t].at \notin {"none", "done"}
<1> USE DEF At, Loaded, AfterDraft, pollVars, WritePlaces
<1>1. CASE RunClaim(p, t) \/ RunLoad(p, t) \/ RunChecks(p, t) \/ RunStarts(p, t)
  BY <1>1 DEF RunClaim, RunLoad, RunChecks, RunStarts
<1>2. CASE TurnEnds(p, t) \/ Decide(p, t) \/ RunSettles(p, t) \/ RunClears(p, t)
  BY <1>2 DEF TurnEnds, Decide, RunSettles, RunClears
<1>3. CASE RunBacksOff(p, t) \/ RunSyncReads(p, t) \/ RunIndexes(p, t)
  BY <1>3 DEF RunBacksOff, RunSyncReads, RunIndexes
<1>4. CASE RunLooksAtStreak(p, t) \/ RunResetsStreak(p, t) \/ RunFails(p, t)
           \/ RunRecords(p, t)
  BY <1>4 DEF RunLooksAtStreak, RunResetsStreak, RunFails, RunRecords
<1>5. CASE RunPauses(p, t) \/ RunUnrows(p, t) \/ RunGivesUp(p, t) \/ RunReleases(p, t)
  BY <1>5 DEF RunPauses, RunUnrows, RunGivesUp, RunReleases
<1> QED BY <1>1, <1>2, <1>3, <1>4, <1>5 DEF RunStep

(* Every step but the first, which may be refused, and the last.            *)
LEMMA RunOnItsWay ==
    ASSUME TypeInv, NEW p \in Procs, NEW t \in Todos, RunStep(p, t),
           ~RunClaim(p, t), ~RunReleases(p, t)
    PROVE  Moved(p, t) /\ run'[p][t].at # "done" /\ run[p][t].at # "queued"
           /\ UNCHANGED <<marker, unreleased>>
<1> DEFINE onItsWay == Moved(p, t) /\ run'[p][t].at # "done"
<1>1. RunTypeOK
  BY DEF TypeInv
<1>2. ASSUME NEW place, Goto(p, t, place), place \notin {"none", "queued", "done"}
      PROVE  onItsWay
  BY <1>1, <1>2, GotoMoves
<1>3. ASSUME NEW r, run' = [run EXCEPT ![p][t] = r], r.at \notin {"none", "queued", "done"}
      PROVE  onItsWay
  BY <1>1, <1>3 DEF Moved, RunTypeOK
<1>4. run[p][t] \in Runs
  BY <1>1 DEF RunTypeOK
<1>5. ASSUME SettleFails(p, t) PROVE onItsWay
  <2> DEFINE r == [run[p][t] EXCEPT !.won = FALSE,
                                    !.at = IF run[p][t].won THEN "failed" ELSE "release"]
  <2>1. r.at \notin {"none", "queued", "done"}
    BY <1>4 DEF Runs
  <2>2. run' = [run EXCEPT ![p][t] = r]
    BY <1>5 DEF SettleFails
  <2> HIDE DEF r, onItsWay
  <2> QED BY <1>3, <2>1, <2>2
<1>6. UNCHANGED <<marker, unreleased>> /\ run[p][t].at # "queued"
  <2> USE DEF At, Loaded, AfterDraft, pollVars, storeVars, WritePlaces
  <2>1. CASE RunLoad(p, t) \/ RunChecks(p, t) \/ RunStarts(p, t)
    BY <2>1 DEF RunLoad, RunChecks, RunStarts
  <2>2. CASE TurnEnds(p, t) \/ Decide(p, t) \/ RunSettles(p, t) \/ RunClears(p, t)
    BY <2>2 DEF TurnEnds, Decide, RunSettles, RunClears
  <2>3. CASE RunBacksOff(p, t) \/ RunSyncReads(p, t) \/ RunIndexes(p, t)
    BY <2>3 DEF RunBacksOff, RunSyncReads, RunIndexes
  <2>4. CASE RunLooksAtStreak(p, t) \/ RunResetsStreak(p, t) \/ RunFails(p, t)
             \/ RunRecords(p, t)
    BY <2>4 DEF RunLooksAtStreak, RunResetsStreak, RunFails, RunRecords
  <2>5. CASE RunPauses(p, t) \/ RunUnrows(p, t) \/ RunGivesUp(p, t)
    BY <2>5 DEF RunPauses, RunUnrows, RunGivesUp
  <2> QED BY <2>1, <2>2, <2>3, <2>4, <2>5 DEF RunStep
<1>7. onItsWay
  <2> HIDE DEF onItsWay
  <2>1. CASE RunLoad(p, t)
    BY <2>1, <1>1 DEF RunLoad, At, WritePlaces, Moved, onItsWay
  <2>2. CASE RunChecks(p, t) \/ RunStarts(p, t) \/ Decide(p, t) \/ RunBacksOff(p, t)
    BY <2>2, <1>2 DEF RunChecks, RunStarts, Decide, RunBacksOff
  <2>3. CASE TurnEnds(p, t)
    <3> DEFINE r == [run[p][t] EXCEPT !.at = "settle", !.won = TRUE]
    <3>1. r.at \notin {"none", "queued", "done"}
      BY <1>4 DEF Runs
    <3>2. run' = [run EXCEPT ![p][t] = r] \/ Goto(p, t, "limit") \/ Goto(p, t, "failed")
      BY <2>3 DEF TurnEnds
    <3> HIDE DEF r
    <3> QED BY <1>2, <1>3, <3>1, <3>2
  <2>4. CASE RunSettles(p, t) \/ RunClears(p, t)
    BY <2>4, <1>2, <1>5 DEF RunSettles, RunClears
  <2>5. CASE RunSyncReads(p, t)
    <3> DEFINE r == [run[p][t] EXCEPT !.at = "index", !.seen = IndexOf(list, t)]
    <3>1. r.at \notin {"none", "queued", "done"}
      BY <1>4 DEF Runs
    <3>2. run' = [run EXCEPT ![p][t] = r]
      BY <2>5 DEF RunSyncReads
    <3> HIDE DEF r
    <3> QED BY <1>3, <3>1, <3>2
  <2>6. CASE RunIndexes(p, t) \/ RunLooksAtStreak(p, t) \/ RunResetsStreak(p, t)
             \/ RunFails(p, t)
    BY <2>6, <1>2 DEF RunIndexes, RunLooksAtStreak, RunResetsStreak, RunFails, AfterRetries
  <2>7. CASE RunRecords(p, t)
    <3>1. Goto(p, t, "pause") \/ Goto(p, t, "settle")
      BY <2>7 DEF RunRecords
    <3> QED BY <1>2, <3>1
  <2>8. CASE RunPauses(p, t) \/ RunUnrows(p, t) \/ RunGivesUp(p, t)
    BY <2>8, <1>2 DEF RunPauses, RunUnrows, RunGivesUp
  <2> QED BY <2>1, <2>2, <2>3, <2>4, <2>5, <2>6, <2>7, <2>8 DEF RunStep
<1> QED BY <1>6, <1>7

LEMMA RunMoves ==
    ASSUME TypeInv, NEW p \in Procs, NEW t \in Todos, RunStep(p, t)
    PROVE  Moved(p, t)
<1>1. CASE RunClaim(p, t) \/ RunReleases(p, t)
  BY <1>1, GotoMoves DEF RunClaim, RunReleases, TypeInv
<1> QED BY <1>1, RunOnItsWay

-----------------------------------------------------------------------------
(* Every step keeps the owner's lock, and what is held out of the pool.     *)

SafeOwner == LockInv /\ IdleInv /\ HoldInv

LEMMA SafeInit == ASSUME Init PROVE SafeOwner
<1>1. Owners = {} /\ \A p \in Procs : ~Working(p)
  BY DEF Init, Owners, Working
<1> QED BY <1>1 DEF Init, SafeOwner, LockInv, IdleInv, HoldInv, NoRun, NoRows

LEMMA ClaimSafe ==
    ASSUME ~LockFaults, Safe, NEW p \in Procs, Start(p) \/ StandbyPoll(p)
    PROVE  SafeOwner'
<1>1. /\ Claim(p) /\ p \notin Owners /\ ~Working(p)
      /\ UNCHANGED <<holdVars, pollVars, runVars>>
  BY DEF Start, StandbyPoll, Owners, Working
<1>2. LockInv'
  BY <1>1, ClaimLocks DEF Safe, TypeInv
<1>3. \A q \in Procs : Working(q)' <=> Working(q)
  BY <1>1 DEF Claim, Enter, Working, Safe, TypeInv, OwnInv, OwnTypeOK
<1> QED BY <1>1, <1>2, <1>3 DEF SafeOwner, Safe, IdleInv, HoldInv, holdVars, pollVars, runVars

LEMMA RecoverMarkersSafe ==
    ASSUME Safe, NEW p \in Procs, RecoverMarkers(p)
    PROVE  SafeOwner'
<1>1. life[p] = "claimed" /\ life' = [life EXCEPT ![p] = "rebuilding"]
      /\ UNCHANGED <<lockFileVars, holdVars, pollVars, runVars>>
  BY DEF RecoverMarkers, Enter
<1>2. Owners' = Owners /\ \A q \in Procs : Working(q)' <=> Working(q)
  BY <1>1 DEF Owners, Working, Safe, TypeInv, OwnInv, OwnTypeOK
<1>3. LockInv'
  BY <1>1, <1>2, KeepsLockInv DEF Safe
<1> QED BY <1>1, <1>2, <1>3 DEF SafeOwner, Safe, IdleInv, HoldInv, holdVars, pollVars, runVars

LEMMA DecideMissedHolds ==
    ASSUME HoldTypeOK, NEW p \in Procs, NEW missed, DecideMissed(p, missed)
    PROVE  held'[p] = pendingMissed'
BY DEF HoldTypeOK, DecideMissed, AdoptHold, DetectHold, NoHold

LEMMA RecoverIndexSafe ==
    ASSUME Safe, NEW p \in Procs, RecoverIndex(p)
    PROVE  SafeOwner'
<1>1. life[p] = "rebuilding" /\ life' = [life EXCEPT ![p] = "running"]
      /\ UNCHANGED <<lockFileVars, pollVars, runVars>>
      /\ DecideMissed(p, DueRows(row'))
  BY DEF RecoverIndex, Enter
<1>2. Owners' = Owners /\ \A q \in Procs : Working(q)' <=> (Working(q) \/ q = p)
  BY <1>1 DEF Owners, Working, Safe, TypeInv, OwnInv, OwnTypeOK
<1>3. LockInv'
  BY <1>1, <1>2, KeepsLockInv DEF Safe
<1>4. \A q \in Procs : Working(q)' => q = p
  BY <1>1, <1>2, OneOwner, WorkingOwns DEF Safe, Owners
<1>5. held'[p] = pendingMissed'
  BY <1>1, DecideMissedHolds DEF Safe, TypeInv
<1>6. pendingMissed' \subseteq Todos
  BY RecoverIndexType DEF Safe, TypeInv, HoldTypeOK
<1>7. IdleInv'
  BY <1>1, <1>2 DEF Safe, IdleInv, pollVars, runVars
<1>8. HoldInv'
  BY <1>1, <1>4, <1>5, <1>6 DEF Safe, IdleInv, HoldInv, Working, pollVars, runVars
<1> QED BY <1>3, <1>7, <1>8 DEF SafeOwner

LEMMA PollBeginSafe ==
    ASSUME Safe, NEW p \in Procs, PollBegin(p)
    PROVE  SafeOwner'
<1>1. life[p] = "running" /\ UNCHANGED <<life, run, unreleased>>
  BY DEF PollBegin, runVars
<1>2. p \in Owners /\ Owners' = Owners /\ Working(p) /\ \A q \in Procs : Working(q)' <=> Working(q)
  BY <1>1 DEF Owners, Working
<1>3. LockInv'
  BY <1>2, KeepsLockInv, OwnerKeepsLock DEF Safe, TypeInv, PollBegin
<1>4. /\ polling' = [polling EXCEPT ![p] = TRUE]
      /\ due' = [due EXCEPT ![p] =
                    [t \in Todos |-> IF DueFor(t, held'[p]) THEN row[t] ELSE None]]
      /\ HonorRequest(p)
      /\ polling \in [Procs -> BOOLEAN]
      /\ due \in [Procs -> [Todos -> Slots \cup {None}]]
  BY DEF PollBegin, Safe, TypeInv, PollTypeOK
<1>5. IdleInv'
  BY <1>1, <1>2, <1>4 DEF Safe, IdleInv
<1>6. held'[p] = pendingMissed' /\ pendingMissed' \subseteq pendingMissed
  BY <1>2, <1>4 DEF HonorRequest, NoHold, holdVars, Safe, TypeInv, HoldTypeOK, HoldInv
<1>7. \A q \in Procs : Working(q) => q = p
  BY <1>2, OneOwner, WorkingOwns DEF Safe
<1>8. pendingMissed \subseteq Todos
  BY DEF Safe, TypeInv, HoldTypeOK
<1>9. \A t \in pendingMissed' : due'[p][t] = None
  BY <1>4, <1>6, <1>8 DEF DueFor
<1>10. HoldInv'
  BY <1>1, <1>2, <1>6, <1>7, <1>9 DEF Safe, HoldInv
<1> QED BY <1>3, <1>5, <1>10 DEF SafeOwner

LEMMA PollSubmitSafe ==
    ASSUME Safe, NEW p \in Procs, PollSubmit(p)
    PROVE  SafeOwner'
<1>1. UNCHANGED <<lockFileVars, ownVars, holdVars>> /\ polling[p]
  BY DEF PollSubmit
<1>2. Owners' = Owners /\ \A q \in Procs : Working(q)' <=> Working(q)
  BY <1>1 DEF ownVars, Owners, Working
<1>3. LockInv'
  BY <1>1, <1>2, KeepsLockInv DEF Safe
<1>4. Working(p)
  BY <1>1 DEF Safe, IdleInv
<1>5. \A q \in Procs : q # p =>
         /\ polling'[q] = polling[q] /\ due'[q] = due[q] /\ run'[q] = run[q]
         /\ unreleased'[q] = unreleased[q]
  BY DEF PollSubmit, Safe, TypeInv, PollTypeOK, RunTypeOK
<1>6. \A t \in Todos : due'[p][t] = None /\ run'[p][t] = Submitted(p, t)
  BY DEF PollSubmit, Safe, TypeInv, PollTypeOK, RunTypeOK, NoRows
<1>7. IdleInv'
  BY <1>2, <1>4, <1>5 DEF Safe, IdleInv
<1>8. \A t \in pendingMissed : run'[p][t].at \in {"none", "done"}
  <2> TAKE t \in pendingMissed
  <2>1. t \in Todos /\ due[p][t] = None /\ run[p][t].at \in {"none", "done"}
    BY <1>4 DEF Safe, HoldInv, TypeInv, HoldTypeOK
  <2>2. Submitted(p, t) = NoRun
    BY <2>1 DEF Submitted, Idle
  <2> QED BY <1>6, <2>1, <2>2 DEF NoRun
<1>9. pendingMissed \subseteq Todos
  BY DEF Safe, TypeInv, HoldTypeOK
<1>10. HoldInv'
  BY <1>1, <1>2, <1>5, <1>6, <1>8, <1>9 DEF Safe, HoldInv, holdVars
<1> QED BY <1>3, <1>7, <1>10 DEF SafeOwner

LEMMA ReleaseSafe ==
    ASSUME Safe, RequestRelease \/ \E p \in Procs : ReleaseHeld(p)
    PROVE  SafeOwner'
<1>1. UNCHANGED <<lockFileVars, ownVars, pollVars, runVars>>
  BY DEF RequestRelease, ReleaseHeld
<1>2. Owners' = Owners /\ \A q \in Procs : Working(q)' <=> Working(q)
  BY <1>1 DEF ownVars, Owners, Working
<1>3. LockInv' /\ IdleInv'
  BY <1>1, <1>2, KeepsLockInv DEF Safe, IdleInv, pollVars, runVars
<1>4. HoldInv'
  <2>1. CASE RequestRelease
    BY <1>1, <1>2, <2>1 DEF RequestRelease, Safe, HoldInv, pollVars, runVars
  <2>2. ASSUME NEW p \in Procs, ReleaseHeld(p) PROVE HoldInv'
    <3>1. \A q \in Procs : Working(q) => q = p
      BY <2>2, OneOwner, WorkingOwns DEF ReleaseHeld, Owners, Safe
    <3>2. held'[p] = {} /\ pendingMissed' = {}
      BY <2>2 DEF ReleaseHeld, NoHold, Safe, TypeInv, HoldTypeOK
    <3> QED BY <1>2, <3>1, <3>2 DEF HoldInv
  <2> QED BY <2>1, <2>2
<1> QED BY <1>3, <1>4 DEF SafeOwner

LEMMA RunSafe ==
    ASSUME Safe, NEW p \in Procs, NEW t \in Todos, RunStep(p, t)
    PROVE  SafeOwner'
<1>1. /\ UNCHANGED <<lockFileVars, ownVars, holdVars, polling, due>>
      /\ run[p][t].at \notin {"none", "done"} /\ Moved(p, t)
  BY RunFrame, RunMoves DEF Safe
<1>2. Owners' = Owners /\ \A q \in Procs : Working(q)' <=> Working(q)
  BY <1>1 DEF ownVars, Owners, Working
<1>3. LockInv'
  BY <1>1, <1>2, KeepsLockInv DEF Safe
<1>4. Working(p) /\ t \notin pendingMissed /\ pendingMissed \subseteq Todos
  BY <1>1 DEF Safe, IdleInv, HoldInv, TypeInv, HoldTypeOK
<1>5. \A q \in Procs : q # p => unreleased'[q] = unreleased[q]
  <2>1. CASE RunReleases(p, t)
    BY <2>1 DEF RunReleases, Safe, TypeInv, PollTypeOK
  <2>2. CASE RunClaim(p, t)
    BY <2>2 DEF RunClaim, pollVars
  <2> QED BY <2>1, <2>2, RunOnItsWay DEF Safe
<1>6. IdleInv'
  BY <1>1, <1>2, <1>4, <1>5 DEF Safe, IdleInv, Moved
<1>7. HoldInv'
  BY <1>1, <1>2, <1>4 DEF Safe, HoldInv, holdVars, Moved
<1> QED BY <1>3, <1>6, <1>7 DEF SafeOwner

LEMMA StopSafe ==
    ASSUME Safe, NEW p \in Procs, Stop(p)
    PROVE  SafeOwner'
<1>1. /\ life[p] = "running" /\ life' = [life EXCEPT ![p] = "stopped"]
      /\ UNCHANGED <<lockFileVars, holdVars, pollVars>>
      /\ run' = [run EXCEPT ![p] = Cancelled(p)]
  BY DEF Stop, KeepsLock, Enter
<1>2. Owners' = Owners /\ Working(p) /\ \A q \in Procs : Working(q)' <=> Working(q)
  BY <1>1 DEF Owners, Working, Safe, TypeInv, OwnInv, OwnTypeOK
<1>3. LockInv'
  BY <1>1, <1>2, KeepsLockInv DEF Safe
<1>4. \A q \in Procs : q # p => run'[q] = run[q]
  BY <1>1 DEF Safe, TypeInv, RunTypeOK
<1>5. IdleInv'
  BY <1>1, <1>2, <1>4 DEF Safe, IdleInv, pollVars
<1>6. \A t \in Todos : run'[p][t] = run[p][t] \/ run'[p][t].at = "none"
  BY <1>1 DEF Cancelled, NoRun, Safe, TypeInv, RunTypeOK
<1>7. pendingMissed \subseteq Todos
  BY DEF Safe, TypeInv, HoldTypeOK
<1>8. HoldInv'
  BY <1>1, <1>2, <1>4, <1>6, <1>7 DEF Safe, HoldInv, holdVars, pollVars
<1> QED BY <1>3, <1>5, <1>8 DEF SafeOwner

LEMMA CrashSafe ==
    ASSUME Safe, NEW p \in Procs, Crash(p)
    PROVE  SafeOwner'
<1> USE DEF Safe, TypeInv, OwnInv, OwnTypeOK, HoldTypeOK, PollTypeOK, RunTypeOK
<1>1. Owners' = Owners \ {p} /\ ~Working(p)'
      /\ \A q \in Procs : q # p => (Working(q)' <=> Working(q))
  BY DEF Crash, Enter, Owners, Working
<1>2. LockInv'
  <2> SUFFICES ASSUME NEW q \in Owners, q # p PROVE path' # 0 /\ flock'[path'] = q
    BY <1>1 DEF LockInv
  <2>1. path # 0 /\ flock[path] = q /\ path \in 1..MaxFiles
    BY LockAssumption DEF LockInv, LockFileInv, LockFileTypeOK, LockAssumption
  <2> QED BY <2>1 DEF Crash, DropLocks
<1>3. \A q \in Procs : q # p => /\ polling'[q] = polling[q] /\ due'[q] = due[q]
                                /\ run'[q] = run[q] /\ held'[q] = held[q]
                                /\ unreleased'[q] = unreleased[q]
  BY DEF Crash
<1>4. ~polling'[p] /\ unreleased'[p] = {}
      /\ \A t \in Todos : run'[p][t].at = "none" /\ due'[p][t] = None
  BY DEF Crash, NoRun, NoRows
<1>5. IdleInv'
  <2> HIDE DEF Safe, TypeInv, OwnInv, OwnTypeOK, HoldTypeOK, PollTypeOK, RunTypeOK
  <2> SUFFICES ASSUME NEW q \in Procs, ~Working(q)'
               PROVE  /\ ~polling'[q] /\ unreleased'[q] = {}
                      /\ \A t \in Todos : run'[q][t].at = "none" /\ due'[q][t] = None
    BY DEF IdleInv
  <2>1. CASE q = p
    BY <1>4, <2>1
  <2>2. CASE q # p
    <3>1. ~Working(q)
      BY <1>1, <2>2
    <3> QED BY <1>3, <2>2, <3>1 DEF Safe, IdleInv
  <2> QED BY <2>1, <2>2
<1>6. HoldInv'
  BY <1>1, <1>3 DEF HoldInv, Crash
<1> QED BY <1>2, <1>5, <1>6 DEF SafeOwner

(* The steps of others: edits, probes, time.                                *)
LEMMA OthersSafe ==
    ASSUME ~LockFaults, Safe,
           \/ \E e \in Editors : EditLoads(e) \/ EditGoesOn(e)
           \/ LockFileStep \/ TimePasses \/ UNCHANGED vars
    PROVE  SafeOwner'
<1>1. UNCHANGED <<ownVars, holdVars, pollVars, runVars>>
  BY DEF EditLoads, EditGoesOn, EditInside, EditPatches, EditRefused, EditSyncReads,
         EditIndexes, AfterEdit, LockFileStep, TimePasses, vars
<1>2. Owners' = Owners /\ \A q \in Procs : Working(q)' <=> Working(q)
  BY <1>1 DEF ownVars, Owners, Working
<1>3. LockInv'
  <2>1. CASE LockFileStep
    BY <2>1, ProbesKeepLock DEF Safe, TypeInv
  <2>2. CASE UNCHANGED lockFileVars
    BY <2>2, <1>2, KeepsLockInv DEF Safe
  <2>3. LockFileStep \/ UNCHANGED lockFileVars
    BY DEF EditLoads, EditGoesOn, EditInside, EditPatches, EditRefused, EditSyncReads,
           EditIndexes, AfterEdit, TimePasses, vars
  <2> QED BY <2>1, <2>2, <2>3
<1> QED BY <1>1, <1>2, <1>3 DEF SafeOwner, Safe, IdleInv, HoldInv, holdVars, pollVars, runVars

LEMMA SafeStep == ASSUME ~LockFaults, Safe, [Next]_vars PROVE Safe'
<1>1. ASSUME NEW p \in Procs,
             Start(p) \/ OwnerStep(p) \/ ReleaseHeld(p) \/ Stop(p) \/ Crash(p)
      PROVE  SafeOwner'
  BY <1>1, ClaimSafe, RecoverMarkersSafe, RecoverIndexSafe, PollBeginSafe, PollSubmitSafe,
     ReleaseSafe, StopSafe, CrashSafe DEF OwnerStep
<1>2. SafeOwner'
  BY <1>1, RunSafe, ReleaseSafe, OthersSafe DEF Next
<1>3. TypeInv'
  BY TypeStep DEF Safe
<1> QED BY <1>2, <1>3 DEF Safe, SafeOwner

LEMMA SafeAlways == ASSUME ~LockFaults PROVE Spec => []Safe
<1>1. Init => Safe
  BY TypeInit, SafeInit DEF Safe, SafeOwner
<1>2. Safe /\ [Next]_vars => Safe'
  BY SafeStep
<1> QED BY <1>1, <1>2, PTL DEF Spec

(* Where the lock can be relied on, a TODO is in the hands of one run, and  *)
(* no other process recovers meanwhile: ScheduleLock is held from the claim *)
(* until the process exits, past Ticker.stop().                             *)
THEOREM OneRun == ASSUME ~LockFaults PROVE Spec => []OneRunPerTodo
<1>1. Safe => OneRunPerTodo
  BY OneOwner, WorkingOwns DEF Safe, IdleInv, OneRunPerTodo, Claimed
<1> QED BY <1>1, SafeAlways, PTL

(* Where the lock can be relied on, held work waits, in whichever process   *)
(* has the schedule (_filter_held_missed, _recover_locked).                 *)
THEOREM Held == ASSUME ~LockFaults PROVE Spec => []HeldWaits
<1>1. Safe => HeldWaits
  BY DEF Safe, IdleInv, HoldInv, HeldWaits, Claimed, TypeInv, HoldTypeOK
<1> QED BY <1>1, SafeAlways, PTL

-----------------------------------------------------------------------------
(* The markers.                                                             *)

Kept(t) == \E p \in Procs : Claimed(p, t) \/ t \in unreleased[p]
Recovering == \A p \in Owners : life[p] = "claimed"

LEMMA MarkersByParts == MarkersAccounted <=> \A t \in marker : Kept(t) \/ Recovering
BY DEF MarkersAccounted, Kept, Recovering

(* A step that changes no run and no marker, of a process that has nothing  *)
(* to do with any or that stays alive.                                      *)
LEMMA MarkersUnmoved ==
    ASSUME MarkersAccounted, UNCHANGED <<marker, unreleased, run>>,
           Recovering => Recovering',
           \A p \in Procs : (\E t \in Todos : run[p][t].at # "none") => (Alive(p) => Alive(p)'),
           marker \subseteq Todos
    PROVE  MarkersAccounted'
<1>1. \A t \in Todos : Kept(t) => Kept(t)'
  BY DEF Kept, Claimed
<1> QED BY <1>1, MarkersByParts DEF MarkersAccounted, Kept, Recovering

LEMMA RunMarkers ==
    ASSUME Safe, MarkersAccounted, NEW p \in Procs, NEW t \in Todos, RunStep(p, t)
    PROVE  MarkersAccounted'
<1>1. /\ UNCHANGED ownVars /\ Alive(p) /\ Moved(p, t) /\ run[p][t].at \notin {"none", "done"}
  BY RunFrame, RunMoves DEF Safe
<1>2. Owners' = Owners /\ UNCHANGED life
  BY <1>1 DEF ownVars, Owners
<1>3. Recovering => Recovering'
  BY <1>2 DEF Recovering
<1>4. \A u \in Todos : u # t /\ Kept(u) => Kept(u)'
  <2>1. \A q \in Procs : unreleased[q] \subseteq unreleased'[q]
    <3>1. CASE RunReleases(p, t)
      BY <3>1 DEF RunReleases, Safe, TypeInv, PollTypeOK
    <3>2. CASE RunClaim(p, t)
      BY <3>2 DEF RunClaim, pollVars
    <3> QED BY <3>1, <3>2, RunOnItsWay DEF Safe
  <2> QED BY <1>1, <1>2, <2>1 DEF Kept, Claimed, Alive, Moved
<1>5. marker \subseteq Todos
  BY DEF Safe, TypeInv, StoreTypeOK
<1>6. marker' \subseteq marker \cup {t}
  BY RunOnItsWay DEF Safe, RunClaim, RunReleases
<1>7. t \in marker' => Kept(t)' \/ Recovering'
  <2>1. CASE RunClaim(p, t)
    <3>1. CASE Goto(p, t, "claimed")
      <4>1. run'[p][t].at = "claimed"
        BY <3>1, GotoMoves DEF Safe, TypeInv
      <4> QED BY <1>1, <1>2, <4>1 DEF Kept, Claimed, Alive
    <3>2. CASE Goto(p, t, "done") /\ UNCHANGED marker
      <4> SUFFICES ASSUME t \in marker, Kept(t) PROVE Kept(t)'
        BY <1>3, <3>2, MarkersByParts
      <4>1. PICK q \in Procs : Claimed(q, t) \/ t \in unreleased[q]
        BY DEF Kept
      <4>2. run[p][t].at = "queued" /\ UNCHANGED unreleased
        BY <2>1 DEF RunClaim, At, pollVars
      <4>3. CASE t \in unreleased[q]
        BY <4>2, <4>3 DEF Kept
      <4>4. CASE Claimed(q, t)
        <5>1. q # p
          BY <4>2, <4>4 DEF Claimed
        <5>2. run'[q][t] = run[q][t]
          BY <1>1, <5>1 DEF Moved
        <5>3. Claimed(q, t)'
          BY <1>2, <4>4, <5>2 DEF Claimed, Alive
        <5> QED BY <5>3 DEF Kept
      <4> QED BY <4>1, <4>3, <4>4
    <3> QED BY <2>1, <3>1, <3>2 DEF RunClaim
  <2>2. CASE RunReleases(p, t)
    <3>1. t \notin marker' \/ t \in unreleased'[p]
      BY <2>2 DEF RunReleases, Safe, TypeInv, PollTypeOK
    <3> QED BY <3>1 DEF Kept
  <2>3. CASE ~RunClaim(p, t) /\ ~RunReleases(p, t)
    <3>1. run'[p][t].at \notin {"none", "queued", "done"}
      BY <1>1, <2>3, RunOnItsWay DEF Safe, Moved
    <3> QED BY <1>1, <1>2, <3>1 DEF Kept, Claimed, Alive
  <2> QED BY <2>1, <2>2, <2>3
<1>8. ASSUME NEW u \in marker' PROVE Kept(u)' \/ Recovering'
  <2>1. CASE u = t
    BY <1>7, <1>8, <2>1
  <2>2. CASE u # t
    BY <1>3, <1>4, <1>5, <1>6, <1>8, <2>2, MarkersByParts
  <2> QED BY <2>1, <2>2
<1> QED BY <1>8 DEF MarkersAccounted, Kept, Recovering

LEMMA PollSubmitMarkers ==
    ASSUME Safe, MarkersAccounted, NEW p \in Procs, PollSubmit(p)
    PROVE  MarkersAccounted'
<1>1. UNCHANGED ownVars
  BY DEF PollSubmit
<1>2. (Recovering => Recovering') /\ UNCHANGED life
  BY <1>1 DEF ownVars, Recovering, Owners
<1>3. PICK freed \in SUBSET {t \in unreleased[p] : Idle(p, t)} :
         /\ marker' = marker \ freed
         /\ unreleased' = [unreleased EXCEPT ![p] = @ \ freed]
  BY DEF PollSubmit
<1>4. run' = [run EXCEPT ![p] = [t \in Todos |-> Submitted(p, t)]]
      /\ run \in [Procs -> [Todos -> Runs]] /\ unreleased \in [Procs -> SUBSET Todos]
      /\ marker \subseteq Todos
  BY DEF PollSubmit, Safe, TypeInv, RunTypeOK, PollTypeOK, StoreTypeOK
<1>5. ASSUME NEW q \in Procs, NEW t \in Todos, Claimed(q, t) PROVE Claimed(q, t)'
  <2>1. CASE q = p
    BY <1>2, <1>4, <1>5, <2>1 DEF Claimed, Alive, Submitted, Idle
  <2>2. CASE q # p
    BY <1>2, <1>4, <1>5, <2>2 DEF Claimed, Alive
  <2> QED BY <2>1, <2>2
<1>6. ASSUME NEW t \in marker' PROVE Kept(t)' \/ Recovering'
  <2>1. t \in marker /\ t \notin freed /\ t \in Todos
    BY <1>3, <1>4, <1>6
  <2>2. CASE Recovering
    BY <1>2, <2>2
  <2>3. CASE Kept(t)
    <3>1. PICK q \in Procs : Claimed(q, t) \/ t \in unreleased[q]
      BY <2>3 DEF Kept
    <3>2. Claimed(q, t)' \/ t \in unreleased'[q]
      BY <1>3, <1>4, <1>5, <2>1, <3>1
    <3> QED BY <3>2 DEF Kept
  <2> QED BY <2>1, <2>2, <2>3, MarkersByParts
<1> QED BY <1>6 DEF MarkersAccounted, Kept, Recovering

LEMMA ClaimMarkers ==
    ASSUME ~LockFaults, Safe, MarkersAccounted, NEW p \in Procs, Start(p) \/ StandbyPoll(p)
    PROVE  MarkersAccounted'
<1>1. /\ Claim(p) /\ p \notin Owners /\ UNCHANGED <<marker, unreleased, run>>
  BY DEF Start, StandbyPoll, Owners, storeVars, pollVars, runVars
<1>2. life' = [life EXCEPT ![p] = "claimed"] \/ life' = [life EXCEPT ![p] = "standby"]
  BY <1>1 DEF Claim, Enter
<1>3. life \in [Procs -> Lives] /\ marker \subseteq Todos
  BY DEF Safe, TypeInv, OwnInv, OwnTypeOK, StoreTypeOK
<1>4. Recovering => Recovering'
  BY <1>2, <1>3 DEF Recovering, Owners
<1>5. \A q \in Procs : Alive(q) => Alive(q)'
  BY <1>2, <1>3 DEF Alive
<1> QED BY <1>1, <1>3, <1>4, <1>5, MarkersUnmoved

LEMMA CrashMarkers ==
    ASSUME Safe, MarkersAccounted, NEW p \in Procs, Crash(p)
    PROVE  MarkersAccounted'
<1>1. /\ life' = [life EXCEPT ![p] = "down"] /\ life \in [Procs -> Lives]
      /\ UNCHANGED marker
  BY DEF Crash, Enter, Safe, TypeInv, OwnInv, OwnTypeOK
<1>2. Owners' = Owners \ {p}
  BY <1>1 DEF Owners
<1>3. CASE p \in Owners
  <2>1. Owners' = {}
    BY <1>2, <1>3, OneOwner DEF Safe
  <2> QED BY <2>1 DEF MarkersAccounted
<1>4. CASE p \notin Owners
  <2>1. \A t \in Todos : ~Claimed(p, t) /\ t \notin unreleased[p]
    BY <1>4, WorkingOwns DEF Safe, IdleInv, Claimed
  <2>2. \A q \in Procs : q # p => /\ run'[q] = run[q] /\ unreleased'[q] = unreleased[q]
                                  /\ life'[q] = life[q]
    BY <1>1 DEF Crash, Safe, TypeInv, RunTypeOK, PollTypeOK
  <2>3. \A t \in Todos : Kept(t) => Kept(t)'
    BY <2>1, <2>2 DEF Kept, Claimed, Alive
  <2>4. Recovering => Recovering'
    BY <1>1, <1>2, <2>2, <1>4 DEF Recovering, Owners
  <2>5. marker \subseteq Todos
    BY DEF Safe, TypeInv, StoreTypeOK
  <2> QED BY <1>1, <2>3, <2>4, <2>5, MarkersByParts DEF MarkersAccounted, Kept, Recovering
<1> QED BY <1>3, <1>4

LEMMA MarkersStep ==
    ASSUME ~LockFaults, "recover" \notin DbFaults, Safe, MarkersAccounted, [Next]_vars
    PROVE  MarkersAccounted'
<1> USE DEF Safe, TypeInv, OwnInv, OwnTypeOK, StoreTypeOK
<1>1. ASSUME NEW p \in Procs, RecoverMarkers(p) PROVE MarkersAccounted'
  BY <1>1 DEF RecoverMarkers, ClearMarkers, MarkersAccounted
<1>2. ASSUME NEW p \in Procs, RecoverIndex(p) PROVE MarkersAccounted'
  <2>1. /\ life[p] = "rebuilding" /\ life' = [life EXCEPT ![p] = "running"]
        /\ UNCHANGED <<marker, unreleased, run>>
    BY <1>2 DEF RecoverIndex, Enter, pollVars, runVars
  <2>2. ~Recovering
    BY <2>1 DEF Recovering, Owners
  <2> QED BY <2>1, <2>2, MarkersUnmoved DEF Alive
<1>3. ASSUME NEW p \in Procs, PollBegin(p) PROVE MarkersAccounted'
  BY <1>3, MarkersUnmoved DEF PollBegin, storeVars, runVars, Recovering, Owners, Alive
<1>4. ASSUME NEW p \in Procs, ReleaseHeld(p) PROVE MarkersAccounted'
  BY <1>4, MarkersUnmoved DEF ReleaseHeld, storeVars, pollVars, runVars, ownVars, Recovering,
                              Owners, Alive
<1>5. ASSUME NEW p \in Procs, Stop(p) PROVE MarkersAccounted'
  <2>1. /\ life[p] = "running" /\ life' = [life EXCEPT ![p] = "stopped"]
        /\ UNCHANGED <<marker, unreleased>> /\ run' = [run EXCEPT ![p] = Cancelled(p)]
        /\ run \in [Procs -> [Todos -> Runs]]
    BY <1>5 DEF Stop, Enter, storeVars, pollVars, RunTypeOK
  <2>2. ~Recovering
    BY <2>1 DEF Recovering, Owners
  <2>3. \A q \in Procs, t \in Todos : Claimed(q, t) => Claimed(q, t)'
    BY <2>1 DEF Claimed, Alive, Cancelled
  <2>4. \A t \in Todos : Kept(t) => Kept(t)'
    BY <2>1, <2>3 DEF Kept
  <2> QED BY <2>1, <2>2, <2>4, MarkersByParts DEF MarkersAccounted, Kept
<1>6. CASE \/ \E e \in Editors : EditLoads(e) \/ EditGoesOn(e)
           \/ RequestRelease \/ LockFileStep \/ TimePasses \/ UNCHANGED vars
  <2>1. UNCHANGED <<ownVars, marker, pollVars, runVars>>
    BY <1>6 DEF EditLoads, EditGoesOn, EditInside, EditPatches, EditRefused, EditSyncReads,
                EditIndexes, AfterEdit, RequestRelease, LockFileStep, TimePasses, Tick, vars,
                storeVars
  <2> QED BY <2>1, MarkersUnmoved DEF ownVars, pollVars, runVars, Recovering, Owners, Alive
<1>7. ASSUME NEW p \in Procs,
             Start(p) \/ OwnerStep(p) \/ ReleaseHeld(p) \/ Stop(p) \/ Crash(p)
      PROVE  MarkersAccounted'
  <2> HIDE DEF Safe
  <2> QED BY <1>1, <1>2, <1>3, <1>4, <1>5, <1>7, ClaimMarkers, PollSubmitMarkers, CrashMarkers
          DEF OwnerStep
<1> HIDE DEF Safe
<1> QED BY <1>6, <1>7, RunMarkers DEF Next

(* Where the lock can be relied on and recovery clears the markers of the   *)
(* last owner, every marker has a run or a poll that will remove it:        *)
(* _release_execution_marker, _retry_unreleased_markers and                 *)
(* clear_all_executions leave none behind.                                  *)
THEOREM Markers ==
    ASSUME ~LockFaults, "recover" \notin DbFaults
    PROVE  Spec => []MarkersAccounted
<1>1. Init => MarkersAccounted
  BY DEF Init, StoreInit, MarkersAccounted
<1>2. Safe /\ MarkersAccounted /\ [Next]_vars => MarkersAccounted'
  BY MarkersStep
<1> QED BY <1>1, <1>2, SafeAlways, PTL DEF Spec

-----------------------------------------------------------------------------
(* The list has one writer at a time where all that write it are in one     *)
(* process, whose lock keeps them apart, or where only the runs of the      *)
(* owner write it.                                                          *)

OneWriter ==
    \/ \E h : Homes = {h}
    \/ Editors = {} /\ ~LockFaults

(* What has been loaded in order to be saved is the list as it is.          *)
NoDraft ==
    /\ \A p \in Procs, t \in Todos : draft[p][t] = None
    /\ \A e \in Editors : editor[e].at # "loaded"

DraftOf(p, t) ==
    /\ run[p][t].at \in WritePlaces
    /\ listLock[p]
    /\ draft[p][t] = list
    /\ \A q \in Procs, u \in Todos : draft[q][u] # None => q = p /\ u = t
    /\ \A e \in Editors : editor[e].at # "loaded"

DraftBy(e) ==
    /\ listLock[Home[e]]
    /\ editor[e].draft = list
    /\ \A f \in Editors : editor[f].at = "loaded" => f = e

LoneDraft ==
    /\ \A p \in Procs, t \in Todos : draft[p][t] # None => DraftOf(p, t)
    /\ \A e \in Editors : editor[e].at = "loaded" => DraftBy(e)

WriterInv == TypeInv /\ (~LockFaults => Safe) /\ LoneDraft

(* The runs that are on their way belong to one process.                    *)
LEMMA OneRunner ==
    ASSUME OneWriter, WriterInv, NEW p \in Procs, NEW q \in Procs, NEW t \in Todos,
           NEW u \in Todos, run[p][t].at # "none", run[q][u].at # "none"
    PROVE  p = q
<1>1. CASE \E h : Homes = {h}
  BY <1>1, TickerAssumption DEF TickerAssumption
<1>2. CASE ~LockFaults
  <2>1. Working(p) /\ Working(q)
    BY <1>2 DEF WriterInv, Safe, IdleInv
  <2> QED BY <1>2, <2>1, OneOwner, WorkingOwns DEF WriterInv, Safe
<1> QED BY <1>1, <1>2 DEF OneWriter

LEMMA EditorsHome ==
    ASSUME OneWriter, NEW e \in Editors
    PROVE  \A h \in Homes : h = Home[e]
BY HomeIsHome DEF OneWriter

(* The steps of a run that save a draft, or fail to.                        *)
RunWrites(p, t) ==
    \/ RunStarts(p, t)
    \/ RunSettles(p, t)
    \/ RunClears(p, t)
    \/ RunBacksOff(p, t)
    \/ RunResetsStreak(p, t)
    \/ RunRecords(p, t)
    \/ RunPauses(p, t)
    \/ RunGivesUp(p, t)

(* The steps that do not touch the list.                                    *)
RunThinks(p, t) ==
    \/ RunClaim(p, t)
    \/ RunChecks(p, t)
    \/ TurnEnds(p, t)
    \/ Decide(p, t)
    \/ RunSyncReads(p, t)
    \/ RunIndexes(p, t)
    \/ RunLooksAtStreak(p, t)
    \/ RunFails(p, t)
    \/ RunUnrows(p, t)
    \/ RunReleases(p, t)

LEMMA RunStepKinds ==
    ASSUME NEW p \in Procs, NEW t \in Todos, RunStep(p, t)
    PROVE  RunLoad(p, t) \/ RunWrites(p, t) \/ RunThinks(p, t)
BY DEF RunStep, RunWrites, RunThinks

LEMMA WritesDraft ==
    ASSUME NEW p \in Procs, NEW t \in Todos, RunWrites(p, t)
    PROVE  draft[p][t] # None /\ AfterDraft(p, t)
BY DEF RunWrites, RunStarts, RunSettles, RunClears, RunBacksOff, RunResetsStreak,
       RunRecords, RunPauses, RunGivesUp, Loaded

LEMMA ThinksOnly ==
    ASSUME NEW p \in Procs, NEW t \in Todos, RunThinks(p, t)
    PROVE  /\ UNCHANGED <<list, listLock, draft, editVars>>
           /\ run[p][t].at \notin WritePlaces
<1> USE DEF At, WritePlaces, storeVars
<1>1. CASE RunClaim(p, t) \/ RunChecks(p, t) \/ TurnEnds(p, t) \/ Decide(p, t)
  BY <1>1 DEF RunClaim, RunChecks, TurnEnds, Decide
<1>2. CASE RunSyncReads(p, t) \/ RunIndexes(p, t) \/ RunLooksAtStreak(p, t)
  BY <1>2 DEF RunSyncReads, RunIndexes, RunLooksAtStreak
<1>3. CASE RunFails(p, t) \/ RunUnrows(p, t) \/ RunReleases(p, t)
  BY <1>3 DEF RunFails, RunUnrows, RunReleases
<1> QED BY <1>1, <1>2, <1>3 DEF RunThinks

(* A run loads the list while nobody else has.                              *)
LEMMA RunLoadsAlone ==
    ASSUME OneWriter, WriterInv, NEW p \in Procs, NEW t \in Todos, RunLoad(p, t)
    PROVE  NoDraft
<1>1. run[p][t].at # "none" /\ ~listLock[p]
  BY DEF RunLoad, At, WritePlaces, TakeListLock
<1>2. ASSUME NEW q \in Procs, NEW u \in Todos, draft[q][u] # None
      PROVE  FALSE
  <2>1. run[q][u].at # "none" /\ listLock[q]
    BY <1>2 DEF WriterInv, LoneDraft, DraftOf, WritePlaces
  <2> QED BY <1>1, <2>1, OneRunner
<1>3. ASSUME NEW e \in Editors, editor[e].at = "loaded"
      PROVE  FALSE
  <2>1. listLock[Home[e]]
    BY <1>3 DEF WriterInv, LoneDraft, DraftBy
  <2>2. p = Home[e]
    BY EditorsHome, TickerAssumption DEF TickerAssumption
  <2> QED BY <1>1, <2>1, <2>2
<1> QED BY <1>2, <1>3 DEF NoDraft

LEMMA RunLoadLone ==
    ASSUME OneWriter, WriterInv, NEW p \in Procs, NEW t \in Todos, RunLoad(p, t)
    PROVE  LoneDraft'
<1>1. NoDraft
  BY RunLoadsAlone
<1>2. /\ draft' = [draft EXCEPT ![p][t] = list]
      /\ listLock' = [listLock EXCEPT ![p] = TRUE]
      /\ UNCHANGED <<list, run, editor>>
      /\ run[p][t].at \in WritePlaces
  BY DEF RunLoad, At, TakeListLock, editVars
<1>3. listLock \in [Homes -> BOOLEAN] /\ p \in Homes
      /\ draft \in [Procs -> [Todos -> Lists \cup {None}]]
  BY TickerAssumption DEF WriterInv, TypeInv, StoreTypeOK, RunTypeOK, TickerAssumption
<1>4. draft'[p][t] = list /\ listLock'[p]
  BY <1>2, <1>3
<1>5. \A q \in Procs, u \in Todos : draft'[q][u] # None => q = p /\ u = t
  BY <1>1, <1>2, <1>3 DEF NoDraft
<1>6. \A e \in Editors : editor'[e].at # "loaded"
  BY <1>1, <1>2 DEF NoDraft
<1> QED BY <1>2, <1>4, <1>5, <1>6 DEF LoneDraft, DraftOf

(* A run that has written was the only one that had a draft.                *)
LEMMA RunWriteLone ==
    ASSUME WriterInv, NEW p \in Procs, NEW t \in Todos, RunWrites(p, t)
    PROVE  NoDraft'
<1>1. DraftOf(p, t) /\ AfterDraft(p, t)
  BY WritesDraft DEF WriterInv, LoneDraft
<1>2. draft' = [draft EXCEPT ![p][t] = None] /\ UNCHANGED editor
      /\ draft \in [Procs -> [Todos -> Lists \cup {None}]]
  BY <1>1 DEF AfterDraft, editVars, WriterInv, TypeInv, RunTypeOK
<1> QED BY <1>1, <1>2 DEF DraftOf, NoDraft

(* A step that changes no draft, and moves no run that has one.             *)
LEMMA DraftsKept ==
    ASSUME LoneDraft, UNCHANGED <<list, listLock, draft, editor>>,
           \A p \in Procs, t \in Todos :
               run[p][t].at \in WritePlaces => run'[p][t].at = run[p][t].at
    PROVE  LoneDraft'
BY DEF LoneDraft, DraftOf, DraftBy

LEMMA RunLone ==
    ASSUME OneWriter, WriterInv, NEW p \in Procs, NEW t \in Todos, RunStep(p, t)
    PROVE  LoneDraft'
<1>1. CASE RunThinks(p, t)
  <2>1. UNCHANGED <<list, listLock, draft, editor>> /\ run[p][t].at \notin WritePlaces
    BY <1>1, ThinksOnly DEF editVars
  <2>2. Moved(p, t)
    BY RunMoves DEF WriterInv
  <2> QED BY <2>1, <2>2, DraftsKept DEF WriterInv, Moved
<1>2. CASE RunWrites(p, t)
  <2>1. NoDraft'
    BY <1>2, RunWriteLone
  <2> QED BY <2>1 DEF NoDraft, LoneDraft
<1> QED BY <1>1, <1>2, RunLoadLone, RunStepKinds

(* An editor loads the list while nobody else has.                          *)
LEMMA EditLoadLone ==
    ASSUME OneWriter, WriterInv, NEW e \in Editors, EditLoads(e)
    PROVE  LoneDraft'
<1>1. /\ ~listLock[Home[e]]
      /\ listLock' = [listLock EXCEPT ![Home[e]] = TRUE]
      /\ UNCHANGED <<list, draft>>
  BY DEF EditLoads, TakeListLock, runVars
<1>2. PICK r : /\ editor' = [editor EXCEPT ![e] = r]
               /\ r.at = "loaded" /\ r.draft = list
  <2>1. PICK t, op, s :
           editor' = [editor EXCEPT ![e] = [at |-> "loaded", todo |-> t, op |-> op,
                                            slot |-> s, draft |-> list, seen |-> None]]
    BY DEF EditLoads
  <2> DEFINE new == [at |-> "loaded", todo |-> t, op |-> op, slot |-> s,
                     draft |-> list, seen |-> None]
  <2>2. new.at = "loaded" /\ new.draft = list
    OBVIOUS
  <2>3. editor' = [editor EXCEPT ![e] = new]
    BY <2>1
  <2> HIDE DEF new
  <2> QED BY <2>2, <2>3
<1>3. /\ editor \in [Editors -> Edits] /\ listLock \in [Homes -> BOOLEAN]
      /\ Home[e] \in Homes
  BY HomeIsHome DEF WriterInv, TypeInv, EditInv, EditTypeOK, StoreTypeOK
<1>4. NoDraft
  <2>1. \A h \in Homes : h = Home[e]
    BY EditorsHome
  <2>2. \A p \in Procs, t \in Todos : draft[p][t] # None => listLock[p] /\ p \in Homes
    BY TickerAssumption DEF WriterInv, LoneDraft, DraftOf, TickerAssumption
  <2>3. \A f \in Editors : editor[f].at = "loaded" => listLock[Home[f]]
    BY DEF WriterInv, LoneDraft, DraftBy
  <2> QED BY <1>1, <2>1, <2>2, <2>3, HomeIsHome DEF NoDraft
<1>5. editor'[e].at = "loaded" /\ editor'[e].draft = list'
  BY <1>1, <1>2, <1>3
<1>6. \A f \in Editors : editor'[f].at = "loaded" => f = e
  BY <1>2, <1>3, <1>4 DEF NoDraft
<1>7. listLock'[Home[e]] /\ \A p \in Procs, t \in Todos : draft'[p][t] = None
  BY <1>1, <1>3, <1>4 DEF NoDraft
<1> QED BY <1>5, <1>6, <1>7 DEF LoneDraft, DraftBy

(* What any step of an edit that has begun leaves alone.                    *)
LEMMA EditFrame ==
    ASSUME NEW e \in Editors, EditGoesOn(e)
    PROVE  AfterEdit
BY DEF EditGoesOn, EditInside, EditPatches, EditRefused, EditSyncReads, EditIndexes

(* An edit that is loaded saves its draft or fails to; any other step of it *)
(* leaves the list alone.                                                   *)
LEMMA EditSteps ==
    ASSUME WriterInv, NEW e \in Editors, EditGoesOn(e)
    PROVE  /\ \A f \in Editors : f # e => editor'[f] = editor[f]
           /\ editor'[e].at # "loaded"
           /\ \/ editor[e].at = "loaded"
              \/ UNCHANGED <<list, listLock>>
<1>1. editor \in [Editors -> Edits]
  BY DEF WriterInv, TypeInv, EditInv, EditTypeOK
<1>2. ASSUME EditEnds(e) PROVE editor' = [editor EXCEPT ![e] = NoEdit]
  BY <1>2 DEF EditEnds
<1>3. PICK r : editor' = [editor EXCEPT ![e] = r] /\ r.at # "loaded"
  <2>1. CASE EditInside(e) \/ EditRefused(e) \/ EditIndexes(e)
    <3>1. EditEnds(e)
      BY <2>1 DEF EditInside, EditRefused, EditIndexes
    <3>2. NoEdit.at # "loaded"
      BY DEF NoEdit
    <3> QED BY <1>2, <3>1, <3>2
  <2>2. CASE EditPatches(e)
    <3> DEFINE s == [editor[e] EXCEPT !.at = "sync", !.draft = None]
    <3>1. s.at = "sync"
      BY <1>1 DEF Edits
    <3>2. editor' = [editor EXCEPT ![e] = s] \/ EditEnds(e)
      BY <2>2 DEF EditPatches
    <3> HIDE DEF s
    <3> QED BY <1>2, <3>1, <3>2 DEF NoEdit
  <2>3. CASE EditSyncReads(e)
    <3> DEFINE s == [editor[e] EXCEPT !.at = "index", !.seen = IndexOf(list, editor[e].todo)]
    <3>1. s.at = "index"
      BY <1>1 DEF Edits
    <3>2. editor' = [editor EXCEPT ![e] = s]
      BY <2>3 DEF EditSyncReads
    <3> HIDE DEF s
    <3> QED BY <3>1, <3>2
  <2> QED BY <2>1, <2>2, <2>3 DEF EditGoesOn
<1>4. editor[e].at = "loaded" \/ UNCHANGED <<list, listLock>>
  BY DEF EditGoesOn, EditInside, EditPatches, EditRefused, EditSyncReads, EditIndexes,
         Editing
<1> QED BY <1>1, <1>3, <1>4

LEMMA EditLone ==
    ASSUME WriterInv, NEW e \in Editors, EditGoesOn(e)
    PROVE  LoneDraft'
<1>1. UNCHANGED runVars
  BY EditFrame DEF AfterEdit
<1>2. CASE editor[e].at = "loaded"
  <2>1. DraftBy(e)
    BY <1>2 DEF WriterInv, LoneDraft
  <2>2. \A p \in Procs, t \in Todos : draft'[p][t] = None
    BY <1>1, <1>2 DEF WriterInv, LoneDraft, DraftOf, runVars
  <2>3. \A f \in Editors : editor'[f].at # "loaded"
    BY <2>1, EditSteps DEF DraftBy
  <2> QED BY <2>2, <2>3 DEF LoneDraft
<1>3. CASE editor[e].at # "loaded"
  <2>1. UNCHANGED <<list, listLock, run, draft>>
    BY <1>1, <1>3, EditSteps DEF runVars
  <2>2. \A f \in Editors : /\ editor'[f].at = "loaded" => editor[f].at = "loaded" /\ f # e
                           /\ editor[f].at = "loaded" => editor'[f] = editor[f]
    BY <1>3, EditSteps
  <2> QED BY <2>1, <2>2, EditSteps DEF WriterInv, LoneDraft, DraftOf, DraftBy
<1> QED BY <1>2, <1>3

(* The reaping and the submitting of runs, and stop(), move none that has   *)
(* a draft.                                                                 *)
LEMMA PoolLone ==
    ASSUME WriterInv, NEW p \in Procs, PollSubmit(p) \/ Stop(p)
    PROVE  LoneDraft'
<1>1. UNCHANGED <<list, listLock, draft, editor>>
  BY DEF PollSubmit, Stop, storeVars, editVars
<1>2. run \in [Procs -> [Todos -> Runs]]
  BY DEF WriterInv, TypeInv, RunTypeOK
<1>3. \/ run' = [run EXCEPT ![p] = [t \in Todos |-> Submitted(p, t)]]
      \/ run' = [run EXCEPT ![p] = Cancelled(p)]
  BY DEF PollSubmit, Stop
<1>4. \A t \in Todos : run[p][t].at \in WritePlaces =>
         Submitted(p, t) = run[p][t] /\ Cancelled(p)[t] = run[p][t]
  BY DEF Submitted, Cancelled, Idle, WritePlaces
<1>5. \A q \in Procs, t \in Todos : run[q][t].at \in WritePlaces => run'[q][t] = run[q][t]
  BY <1>2, <1>3, <1>4
<1> QED BY <1>1, <1>5, DraftsKept DEF WriterInv

(* A crash takes the drafts of its process with it.                         *)
LEMMA CrashLone ==
    ASSUME WriterInv, NEW p \in Procs, Crash(p)
    PROVE  LoneDraft'
<1>1. /\ run \in [Procs -> [Todos -> Runs]] /\ listLock \in [Homes -> BOOLEAN]
      /\ draft \in [Procs -> [Todos -> Lists \cup {None}]]
  BY DEF WriterInv, TypeInv, RunTypeOK, StoreTypeOK
<1>2. /\ UNCHANGED list
      /\ run' = [run EXCEPT ![p] = [t \in Todos |-> NoRun]]
      /\ draft' = [draft EXCEPT ![p] = [t \in Todos |-> None]]
      /\ listLock' = [listLock EXCEPT ![p] = FALSE]
      /\ editor' = [e \in Editors |-> IF Home[e] = p THEN NoEdit ELSE editor[e]]
  BY DEF Crash
<1>3. \A q \in Procs, t \in Todos : draft'[q][t] # None =>
         q # p /\ draft'[q][t] = draft[q][t] /\ run'[q][t] = run[q][t]
  BY <1>1, <1>2
<1>4. \A e \in Editors : editor'[e].at = "loaded" =>
         Home[e] # p /\ editor'[e] = editor[e]
  BY <1>2 DEF NoEdit
<1>5. \A h \in Homes : h # p => listLock'[h] = listLock[h]
  BY <1>1, <1>2
<1>6. \A q \in Procs, t \in Todos : draft'[q][t] # None => DraftOf(q, t)'
  <2> SUFFICES ASSUME NEW q \in Procs, NEW t \in Todos, draft'[q][t] # None
               PROVE  DraftOf(q, t)'
    OBVIOUS
  <2>1. q # p /\ q \in Homes /\ draft'[q][t] = draft[q][t] /\ run'[q][t] = run[q][t]
    BY <1>3, TickerAssumption DEF TickerAssumption
  <2>2. DraftOf(q, t)
    BY <2>1 DEF WriterInv, LoneDraft
  <2>3. listLock'[q]
    BY <1>5, <2>1, <2>2 DEF DraftOf
  <2> QED BY <1>2, <1>3, <1>4, <2>1, <2>2, <2>3 DEF DraftOf
<1>7. \A e \in Editors : editor'[e].at = "loaded" => DraftBy(e)'
  BY <1>2, <1>4, <1>5, HomeIsHome DEF WriterInv, LoneDraft, DraftBy
<1> QED BY <1>6, <1>7 DEF LoneDraft

(* The other steps touch neither the list nor what is at work on it.        *)
Idles ==
    \/ \E p \in Procs : \/ Start(p) \/ StandbyPoll(p) \/ RecoverMarkers(p)
                        \/ RecoverIndex(p) \/ PollBegin(p) \/ ReleaseHeld(p)
    \/ RequestRelease \/ LockFileStep \/ TimePasses \/ UNCHANGED vars

LEMMA IdlesLeave ==
    ASSUME Idles
    PROVE  UNCHANGED <<list, listLock, run, draft, editor>>
<1> USE DEF storeVars, runVars, editVars
<1>1. CASE \E p \in Procs : Start(p) \/ StandbyPoll(p) \/ RecoverMarkers(p) \/ RecoverIndex(p)
  BY <1>1 DEF Start, StandbyPoll, RecoverMarkers, RecoverIndex
<1>2. CASE \E p \in Procs : PollBegin(p) \/ ReleaseHeld(p)
  BY <1>2 DEF PollBegin, ReleaseHeld
<1>3. CASE RequestRelease \/ LockFileStep \/ TimePasses \/ UNCHANGED vars
  BY <1>3 DEF RequestRelease, LockFileStep, TimePasses, Tick, vars
<1> QED BY <1>1, <1>2, <1>3 DEF Idles

LEMMA StepKinds ==
    ASSUME [Next]_vars
    PROVE  \/ \E p \in Procs, t \in Todos : RunStep(p, t)
           \/ \E e \in Editors : EditLoads(e) \/ EditGoesOn(e)
           \/ \E p \in Procs : PollSubmit(p) \/ Stop(p) \/ Crash(p)
           \/ Idles
BY DEF Next, OwnerStep, Idles

LEMMA WriterInit == ASSUME Init PROVE WriterInv
<1>1. NoDraft
  BY DEF Init, NoDraft, NoEdit
<1> QED BY <1>1, TypeInit, SafeInit DEF WriterInv, Safe, SafeOwner, NoDraft, LoneDraft

LEMMA WriterStep == ASSUME OneWriter, WriterInv, [Next]_vars PROVE WriterInv'
<1>1. TypeInv' /\ (~LockFaults => Safe')
  BY TypeStep, SafeStep DEF WriterInv
<1>2. LoneDraft'
  <2>1. CASE \E p \in Procs, t \in Todos : RunStep(p, t)
    BY <2>1, RunLone
  <2>2. CASE \E e \in Editors : EditLoads(e) \/ EditGoesOn(e)
    BY <2>2, EditLoadLone, EditLone
  <2>3. CASE \E p \in Procs : PollSubmit(p) \/ Stop(p) \/ Crash(p)
    BY <2>3, PoolLone, CrashLone
  <2>4. CASE Idles
    BY <2>4, IdlesLeave, DraftsKept DEF WriterInv
  <2> QED BY <2>1, <2>2, <2>3, <2>4, StepKinds
<1> QED BY <1>1, <1>2 DEF WriterInv

LEMMA WriterAlways == ASSUME OneWriter PROVE Spec => []WriterInv
<1>1. Init => WriterInv
  BY WriterInit
<1>2. WriterInv /\ [Next]_vars => WriterInv'
  BY WriterStep
<1> QED BY <1>1, <1>2, PTL DEF Spec

-----------------------------------------------------------------------------
(* What a run makes of its item.                                            *)

(* A run that moves keeps its slot, and what it has read until it reads.    *)
RunTo(p, t, places) ==
    /\ \A q \in Procs, u \in Todos : q # p \/ u # t => run'[q][u] = run[q][u]
    /\ run'[p][t].at \in places
    /\ run'[p][t].slot = run[p][t].slot

LEMMA GotoRun ==
    ASSUME WriterInv, NEW p \in Procs, NEW t \in Todos, NEW place, NEW places,
           Goto(p, t, place), place \in places
    PROVE  RunTo(p, t, places) /\ run'[p][t].seen = run[p][t].seen
<1> DEFINE r == [run[p][t] EXCEPT !.at = place]
<1>1. run \in [Procs -> [Todos -> Runs]] /\ run[p][t] \in Runs
  BY DEF WriterInv, TypeInv, RunTypeOK
<1>2. r.at = place /\ r.slot = run[p][t].slot /\ r.seen = run[p][t].seen
  BY <1>1 DEF Runs
<1>3. run' = [run EXCEPT ![p][t] = r]
  BY DEF Goto
<1> HIDE DEF r
<1> QED BY <1>1, <1>2, <1>3 DEF RunTo

LEMMA SettleFailsRun ==
    ASSUME WriterInv, NEW p \in Procs, NEW t \in Todos, SettleFails(p, t)
    PROVE  RunTo(p, t, {"failed", "release"}) /\ list' = list
<1> DEFINE place == IF run[p][t].won THEN "failed" ELSE "release"
           r     == [run[p][t] EXCEPT !.won = FALSE, !.at = place]
<1>1. run \in [Procs -> [Todos -> Runs]] /\ run[p][t] \in Runs
  BY DEF WriterInv, TypeInv, RunTypeOK
<1>2. place \in {"failed", "release"}
  OBVIOUS
<1>3. run' = [run EXCEPT ![p][t] = r] /\ list' = list
  BY DEF SettleFails, SaveFails
<1>4. r.at = place /\ r.slot = run[p][t].slot
  <2> HIDE DEF place
  <2> QED BY <1>1 DEF Runs
<1> HIDE DEF r, place
<1> QED BY <1>1, <1>2, <1>3, <1>4 DEF RunTo

(* Where a run goes when it has written, or failed to.                      *)
Written == {"running", "settle", "sync", "failed", "close", "pause", "unrow", "release"}

(* It leaves slot and pause alone.                                          *)
LeavesItem(p, t) ==
    /\ list'[t].slot = list[t].slot
    /\ list'[t].paused = list[t].paused
    /\ run'[p][t].at # "unrow"

(* It gives the item a new slot, which the index follows.                   *)
MovesItem(p, t) ==
    /\ run[p][t].at \in {"rearm", "backoff"}
    /\ list'[t].slot \in Slots
    /\ ~list'[t].paused
    /\ run'[p][t].at = "sync"

PausesItem(p, t) ==
    /\ run[p][t].at = "pause"
    /\ list'[t].slot = None
    /\ list'[t].paused
    /\ run'[p][t].at = "unrow"

ClearsItem(p, t) ==
    /\ run[p][t].at \in {"clear", "dead"}
    /\ list'[t].slot = None
    /\ list'[t].paused = list[t].paused

EndsEpisode(p, t) ==
    /\ run[p][t].at = "reset"
    /\ list'[t].slot = list[t].slot
    /\ ~list'[t].paused
    /\ run'[p][t].at = "release"

ItemEffect(p, t) ==
    /\ list'[t].status = "done" => list[t].status = "done"
    /\ \/ LeavesItem(p, t)
       \/ MovesItem(p, t)
       \/ PausesItem(p, t)
       \/ ClearsItem(p, t)
       \/ EndsEpisode(p, t)

ListEffect(p, t) ==
    /\ \A u \in Todos : u # t => list'[u] = list[u]
    /\ Present(list', t) <=> Present(list, t)
    /\ RunTo(p, t, Written)
    /\ Present(list, t) => ItemEffect(p, t)

(* A run that saves changes its own item of the list as it is.              *)
LEMMA SavesOwnItem ==
    ASSUME WriterInv, NEW p \in Procs, NEW t \in Todos, NEW item, draft[p][t] # None,
           SaveItem(p, t, item), Present(list, t) => item \in Items
    PROVE  /\ \A u \in Todos : u # t => list'[u] = list[u]
           /\ Present(list', t) <=> Present(list, t)
           /\ Present(list, t) => list'[t] = item
<1>1. draft[p][t] = list
  BY DEF WriterInv, LoneDraft, DraftOf
<1>2. list \in Lists
  BY DEF WriterInv, TypeInv, StoreTypeOK
<1>3. list' = [list EXCEPT ![t] = IF Present(list, t) THEN item ELSE None]
  BY <1>1 DEF SaveItem, SaveList
<1>4. None \notin Items
  BY NoneAssumption DEF NoneAssumption
<1> QED BY <1>2, <1>3, <1>4 DEF Lists, Present

LEMMA DraftItem ==
    ASSUME WriterInv, NEW p \in Procs, NEW t \in Todos, draft[p][t] # None
    PROVE  draft[p][t] = list /\ (Present(list, t) => list[t] \in Items)
BY PresentItem DEF WriterInv, TypeInv, StoreTypeOK, LoneDraft, DraftOf

LEMMA NothingSaved ==
    ASSUME NEW p \in Procs, NEW t \in Todos, list' = list, RunTo(p, t, Written \ {"unrow"})
    PROVE  ListEffect(p, t)
BY DEF ListEffect, RunTo, ItemEffect, LeavesItem, Written, Present

LEMMA RunStartsEffect ==
    ASSUME WriterInv, NEW p \in Procs, NEW t \in Todos, RunStarts(p, t)
    PROVE  ListEffect(p, t)
<1> DEFINE item == [list[t] EXCEPT !.status = "in_progress"]
<1>1. draft[p][t] # None /\ draft[p][t] = list /\ (Present(list, t) => list[t] \in Items)
  BY DraftItem DEF RunStarts, Loaded
<1>2. CASE SaveItem(p, t, item) /\ Goto(p, t, "running")
  <2>1. Present(list, t) =>
           /\ item \in Items /\ item.slot = list[t].slot /\ item.paused = list[t].paused
           /\ item.status # "done"
    BY <1>1 DEF Items, Statuses
  <2>2. RunTo(p, t, {"running"})
    BY <1>2, GotoRun
  <2> HIDE DEF item
  <2>3. Present(list, t) => LeavesItem(p, t) /\ list'[t].status # "done"
    BY <1>1, <1>2, <2>1, <2>2, SavesOwnItem DEF LeavesItem, RunTo
  <2> QED BY <1>1, <1>2, <2>1, <2>2, <2>3, SavesOwnItem DEF ListEffect, ItemEffect, RunTo, Written
<1>3. CASE SaveFails(p) /\ Goto(p, t, "release")
  BY <1>3, GotoRun, NothingSaved DEF SaveFails, Written
<1> QED BY <1>1, <1>2, <1>3 DEF RunStarts

LEMMA RunSettlesEffect ==
    ASSUME WriterInv, NEW p \in Procs, NEW t \in Todos, RunSettles(p, t)
    PROVE  ListEffect(p, t)
<1>1. draft[p][t] # None /\ draft[p][t] = list /\ (Present(list, t) => list[t] \in Items)
  BY DraftItem DEF RunSettles, Loaded
<1>2. CASE SettleFails(p, t)
  <2>1. RunTo(p, t, Written \ {"unrow"}) /\ list' = list
    BY <1>2, SettleFailsRun DEF RunTo, Written
  <2> QED BY <2>1, NothingSaved
<1>3. CASE /\ run[p][t].at = "honor"
           /\ SaveItem(p, t, Honoured(p, t, list[t]))
           /\ Goto(p, t, "sync")
  <2> DEFINE item == Honoured(p, t, list[t])
  <2>1. Present(list, t) => item \in Items
    BY <1>1, RearmedItem DEF WriterInv
  <2>2. Present(list, t) =>
           /\ item.slot = list[t].slot /\ item.paused = list[t].paused
           /\ item.status = "done" => list[t].status = "done"
    BY <1>1 DEF Honoured, Items, Statuses
  <2>3. RunTo(p, t, {"sync"})
    BY <1>3, GotoRun
  <2> HIDE DEF item
  <2>4. Present(list, t) => LeavesItem(p, t) /\ list'[t] = item
    BY <1>1, <1>3, <2>1, <2>2, <2>3, SavesOwnItem DEF item, LeavesItem, RunTo
  <2> QED BY <1>1, <1>3, <2>1, <2>2, <2>3, <2>4, SavesOwnItem
          DEF item, ListEffect, ItemEffect, RunTo, Written
<1>4. CASE /\ run[p][t].at = "rearm"
           /\ SaveItem(p, t, Rearmed(p, t, list[t]))
           /\ Goto(p, t, "sync")
  <2> DEFINE item == Rearmed(p, t, list[t])
             next == Rescheduled(list[t], Capped(NextSlot(run[p][t].slot)))
  <2>1. Present(list, t) => item \in Items
    BY <1>1, RearmedItem DEF WriterInv
  <2>2. Present(list, t) => next \in Items /\ next.slot \in Slots /\ ~next.paused
    BY <1>1, CappedSlot, RescheduledItem DEF Rescheduled, Items
  <2>3. Present(list, t) => item.slot \in Slots /\ ~item.paused /\ item.status = "pending"
    <3> HIDE DEF next
    <3>1. Present(list, t) => [next EXCEPT !.status = "pending", !.last = run[p][t].slot].slot
                              = next.slot
      BY <2>2 DEF Items
    <3>2. Present(list, t) => [next EXCEPT !.status = "pending", !.last = run[p][t].slot].paused
                              = next.paused
      BY <2>2 DEF Items
    <3>3. Present(list, t) => [next EXCEPT !.status = "pending", !.last = run[p][t].slot].status
                              = "pending"
      BY <2>2 DEF Items
    <3>4. item = [next EXCEPT !.status = "pending", !.last = run[p][t].slot]
      BY DEF Rearmed, next
    <3> QED BY <2>2, <3>1, <3>2, <3>3, <3>4
  <2>4. RunTo(p, t, {"sync"})
    BY <1>4, GotoRun
  <2> HIDE DEF item, next
  <2>5. Present(list, t) => MovesItem(p, t) /\ list'[t] = item
    BY <1>1, <1>4, <2>1, <2>3, <2>4, SavesOwnItem DEF item, MovesItem, RunTo
  <2> QED BY <1>1, <1>4, <2>1, <2>3, <2>4, <2>5, SavesOwnItem
          DEF item, ListEffect, ItemEffect, RunTo, Written
<1> QED BY <1>1, <1>2, <1>3, <1>4 DEF RunSettles, Loaded, At

LEMMA RunClearsEffect ==
    ASSUME WriterInv, NEW p \in Procs, NEW t \in Todos, RunClears(p, t)
    PROVE  ListEffect(p, t)
<1> DEFINE item == [list[t] EXCEPT !.slot = None, !.last = now]
<1>1. /\ draft[p][t] # None /\ draft[p][t] = list /\ (Present(list, t) => list[t] \in Items)
      /\ run[p][t].at = "clear"
  BY DraftItem DEF RunClears, Loaded, At
<1>2. CASE SaveItem(p, t, item) /\ (Goto(p, t, "close") \/ Goto(p, t, "release"))
  <2>1. Present(list, t) =>
           /\ item \in Items /\ item.slot = None /\ item.paused = list[t].paused
           /\ item.status = list[t].status
    BY <1>1, KeptByRun DEF Items, WriterInv
  <2>2. RunTo(p, t, {"close", "release"})
    BY <1>2, GotoRun
  <2> HIDE DEF item
  <2>3. Present(list, t) => ClearsItem(p, t) /\ list'[t] = item
    BY <1>1, <1>2, <2>1, SavesOwnItem DEF ClearsItem
  <2> QED BY <1>1, <1>2, <2>1, <2>2, <2>3, SavesOwnItem DEF ListEffect, ItemEffect, RunTo, Written
<1>3. CASE SettleFails(p, t)
  <2>1. RunTo(p, t, Written \ {"unrow"}) /\ list' = list
    BY <1>3, SettleFailsRun DEF RunTo, Written
  <2> QED BY <2>1, NothingSaved
<1> QED BY <1>1, <1>2, <1>3 DEF RunClears

LEMMA RunBacksOffEffect ==
    ASSUME WriterInv, NEW p \in Procs, NEW t \in Todos, RunBacksOff(p, t)
    PROVE  ListEffect(p, t)
<1> DEFINE item == Rescheduled(list[t], now + 1)
<1>1. /\ draft[p][t] # None /\ draft[p][t] = list /\ (Present(list, t) => list[t] \in Items)
      /\ run[p][t].at = "backoff"
  BY DraftItem DEF RunBacksOff, Loaded, At
<1>2. CASE SaveItem(p, t, item) /\ Goto(p, t, "sync")
  <2>1. now + 1 \in Slots
    BY KeptByRun DEF WriterInv
  <2>2. Present(list, t) => item \in Items
    BY <1>1, <2>1, RescheduledItem
  <2>3. Present(list, t) =>
           item.slot \in Slots /\ ~item.paused /\ item.status = list[t].status
    BY <1>1, <2>1 DEF Rescheduled, Items
  <2>4. RunTo(p, t, {"sync"})
    BY <1>2, GotoRun
  <2> HIDE DEF item
  <2>5. Present(list, t) => MovesItem(p, t) /\ list'[t] = item
    BY <1>1, <1>2, <2>2, <2>3, <2>4, SavesOwnItem DEF MovesItem, RunTo
  <2> QED BY <1>1, <1>2, <2>2, <2>3, <2>4, <2>5, SavesOwnItem
          DEF ListEffect, ItemEffect, RunTo, Written
<1>3. CASE SaveFails(p) /\ Goto(p, t, "failed")
  BY <1>3, GotoRun, NothingSaved DEF SaveFails, Written
<1> QED BY <1>1, <1>2, <1>3 DEF RunBacksOff

LEMMA RunResetsEffect ==
    ASSUME WriterInv, NEW p \in Procs, NEW t \in Todos, RunResetsStreak(p, t)
    PROVE  ListEffect(p, t)
<1> DEFINE item == [list[t] EXCEPT !.streak = 0, !.paused = FALSE]
<1>1. /\ draft[p][t] # None /\ draft[p][t] = list /\ (Present(list, t) => list[t] \in Items)
      /\ run[p][t].at = "reset" /\ Goto(p, t, "release")
  BY DraftItem DEF RunResetsStreak, Loaded, At
<1>2. RunTo(p, t, {"release"})
  BY <1>1, GotoRun
<1>3. CASE SaveItem(p, t, item)
  <2>1. Present(list, t) =>
           /\ item \in Items /\ item.slot = list[t].slot /\ item.status = list[t].status
           /\ ~item.paused
    BY <1>1 DEF Items
  <2> HIDE DEF item
  <2>2. Present(list, t) => EndsEpisode(p, t) /\ list'[t] = item
    BY <1>1, <1>2, <1>3, <2>1, SavesOwnItem DEF EndsEpisode, RunTo
  <2> QED BY <1>1, <1>2, <1>3, <2>1, <2>2, SavesOwnItem DEF ListEffect, ItemEffect, RunTo, Written
<1>4. CASE SaveFails(p)
  BY <1>2, <1>4, NothingSaved DEF SaveFails, RunTo, Written
<1> QED BY <1>1, <1>3, <1>4 DEF RunResetsStreak

LEMMA RunRecordsEffect ==
    ASSUME WriterInv, NEW p \in Procs, NEW t \in Todos, RunRecords(p, t)
    PROVE  ListEffect(p, t)
<1>1. /\ draft[p][t] # None /\ draft[p][t] = list /\ (Present(list, t) => list[t] \in Items)
  BY DraftItem DEF RunRecords, Loaded
<1> DEFINE streak == IF Present(list, t) THEN Failed(list[t].streak) ELSE 0
           item   == [list[t] EXCEPT !.streak = streak]
<1>2. CASE SaveItem(p, t, item) /\ (Goto(p, t, "pause") \/ Goto(p, t, "settle"))
  <2>1. Present(list, t) => streak \in Nat
    BY <1>1, FailedStreak DEF Items
  <2> HIDE DEF streak
  <2>2. Present(list, t) =>
           /\ item \in Items /\ item.slot = list[t].slot /\ item.paused = list[t].paused
           /\ item.status = list[t].status
    BY <1>1, <2>1 DEF Items
  <2>3. RunTo(p, t, {"pause", "settle"})
    BY <1>2, GotoRun
  <2> HIDE DEF item
  <2>4. Present(list, t) => LeavesItem(p, t) /\ list'[t] = item
    BY <1>1, <1>2, <2>2, <2>3, SavesOwnItem DEF LeavesItem, RunTo
  <2> QED BY <1>1, <1>2, <2>2, <2>3, <2>4, SavesOwnItem
          DEF ListEffect, ItemEffect, RunTo, Written
<1>3. CASE SaveFails(p) /\ Goto(p, t, "settle")
  BY <1>3, GotoRun, NothingSaved DEF SaveFails, Written
<1> QED BY <1>1, <1>2, <1>3 DEF RunRecords

LEMMA RunPausesEffect ==
    ASSUME WriterInv, NEW p \in Procs, NEW t \in Todos, RunPauses(p, t)
    PROVE  ListEffect(p, t)
<1> DEFINE item == [list[t] EXCEPT !.slot = None, !.status = "pending", !.paused = TRUE]
<1>1. /\ draft[p][t] # None /\ draft[p][t] = list /\ (Present(list, t) => list[t] \in Items)
      /\ run[p][t].at = "pause"
  BY DraftItem DEF RunPauses, Loaded, At
<1>2. CASE SaveItem(p, t, item) /\ Goto(p, t, "unrow")
  <2>1. Present(list, t) =>
           item \in Items /\ item.slot = None /\ item.paused /\ item.status = "pending"
    BY <1>1 DEF Items, Statuses
  <2>2. RunTo(p, t, {"unrow"})
    BY <1>2, GotoRun
  <2> HIDE DEF item
  <2>3. Present(list, t) => PausesItem(p, t) /\ list'[t] = item
    BY <1>1, <1>2, <2>1, <2>2, SavesOwnItem DEF PausesItem, RunTo
  <2> QED BY <1>1, <1>2, <2>1, <2>2, <2>3, SavesOwnItem DEF ListEffect, ItemEffect, RunTo, Written
<1>3. CASE SaveFails(p) /\ Goto(p, t, "release")
  BY <1>3, GotoRun, NothingSaved DEF SaveFails, Written
<1> QED BY <1>1, <1>2, <1>3 DEF RunPauses

LEMMA RunGivesUpEffect ==
    ASSUME WriterInv, NEW p \in Procs, NEW t \in Todos, RunGivesUp(p, t)
    PROVE  ListEffect(p, t)
<1> DEFINE item == [list[t] EXCEPT !.slot = None, !.status = "pending"]
<1>1. /\ draft[p][t] # None /\ draft[p][t] = list /\ (Present(list, t) => list[t] \in Items)
      /\ run[p][t].at = "dead" /\ Goto(p, t, "release")
  BY DraftItem DEF RunGivesUp, Loaded, At
<1>2. RunTo(p, t, {"release"})
  BY <1>1, GotoRun
<1>3. CASE SaveItem(p, t, item)
  <2>1. Present(list, t) =>
           /\ item \in Items /\ item.slot = None /\ item.paused = list[t].paused
           /\ item.status = "pending"
    BY <1>1 DEF Items, Statuses
  <2> HIDE DEF item
  <2>2. Present(list, t) => ClearsItem(p, t) /\ list'[t] = item
    BY <1>1, <1>3, <2>1, SavesOwnItem DEF ClearsItem
  <2> QED BY <1>1, <1>2, <1>3, <2>1, <2>2, SavesOwnItem DEF ListEffect, ItemEffect, RunTo, Written
<1>4. CASE SaveFails(p)
  BY <1>2, <1>4, NothingSaved DEF SaveFails, RunTo, Written
<1> QED BY <1>1, <1>3, <1>4 DEF RunGivesUp

LEMMA RunWritesEffect ==
    ASSUME WriterInv, NEW p \in Procs, NEW t \in Todos, RunWrites(p, t)
    PROVE  ListEffect(p, t)
BY RunStartsEffect, RunSettlesEffect, RunClearsEffect, RunBacksOffEffect, RunResetsEffect,
   RunRecordsEffect, RunPausesEffect, RunGivesUpEffect DEF RunWrites

LEMMA RunStepOfThinking ==
    ASSUME NEW p \in Procs, NEW t \in Todos, RunThinks(p, t)
    PROVE  RunStep(p, t)
BY DEF RunStep, RunThinks

(* What a run decides without writing the list.                             *)
Thought == Places \ {"none", "queued", "unrow"}

Thinking(p, t) ==
    /\ RunTo(p, t, Thought)
    /\ run'[p][t].at \in {"rearm", "backoff"} => ~Rewritten(p, t)
    /\ run'[p][t].at = "reset" => EpisodeToEnd(t)
    /\ run'[p][t].at \in {"clear", "giveup"} => ~(Present(list, t) /\ t \in Recurring)
    /\ run'[p][t].at = "dead" => run[p][t].at = "giveup"
    /\ run'[p][t].at = "index" => run'[p][t].seen = IndexOf(list, t)

LEMMA ThinksTo ==
    ASSUME WriterInv, NEW p \in Procs, NEW t \in Todos, RunThinks(p, t)
    PROVE  Thinking(p, t)
<1> USE DEF Thought, Places, WritePlaces
<1>1. ASSUME NEW place \in Thought, Goto(p, t, place),
             place \notin {"rearm", "backoff", "reset", "clear", "giveup", "dead", "index"}
      PROVE  Thinking(p, t)
  <2>1. RunTo(p, t, {place})
    BY <1>1, GotoRun
  <2>2. RunTo(p, t, Thought) /\ run'[p][t].at = place
    BY <1>1, <2>1 DEF RunTo
  <2> QED BY <1>1, <2>2 DEF Thinking
<1>2. CASE RunClaim(p, t) \/ RunChecks(p, t) \/ RunIndexes(p, t) \/ RunReleases(p, t)
  BY <1>1, <1>2 DEF RunClaim, RunChecks, RunIndexes, RunReleases
<1>3. CASE TurnEnds(p, t)
  <2> DEFINE r == [run[p][t] EXCEPT !.at = "settle", !.won = TRUE]
  <2>1. run \in [Procs -> [Todos -> Runs]] /\ run[p][t] \in Runs
    BY DEF WriterInv, TypeInv, RunTypeOK
  <2>2. r.at = "settle" /\ r.slot = run[p][t].slot
    BY <2>1 DEF Runs
  <2>3. run' = [run EXCEPT ![p][t] = r] \/ Goto(p, t, "limit") \/ Goto(p, t, "failed")
    BY <1>3 DEF TurnEnds
  <2> HIDE DEF r
  <2>4. CASE run' = [run EXCEPT ![p][t] = r]
    BY <2>1, <2>2, <2>4 DEF Thinking, RunTo
  <2> QED BY <1>1, <2>3, <2>4
<1>4. CASE Decide(p, t)
  <2>1. PICK place \in {"honor", "rearm", "clear", "sync", "backoff"} :
           /\ Goto(p, t, place)
           /\ place \in {"rearm", "backoff"} => ~Rewritten(p, t)
           /\ place = "clear" => ~(Present(list, t) /\ t \in Recurring)
    BY <1>4 DEF Decide
  <2>2. RunTo(p, t, {place}) /\ place \in Thought
    BY <2>1, GotoRun
  <2> QED BY <2>1, <2>2 DEF Thinking, RunTo
<1>5. CASE RunSyncReads(p, t)
  <2> DEFINE r == [run[p][t] EXCEPT !.at = "index", !.seen = IndexOf(list, t)]
  <2>1. run \in [Procs -> [Todos -> Runs]] /\ run[p][t] \in Runs
    BY DEF WriterInv, TypeInv, RunTypeOK
  <2>2. r.at = "index" /\ r.slot = run[p][t].slot /\ r.seen = IndexOf(list, t)
    BY <2>1 DEF Runs
  <2>3. run' = [run EXCEPT ![p][t] = r]
    BY <1>5 DEF RunSyncReads
  <2> HIDE DEF r
  <2> QED BY <2>1, <2>2, <2>3 DEF Thinking, RunTo
<1>6. CASE RunLooksAtStreak(p, t)
  <2>1. PICK place \in {"reset", "release"} :
           Goto(p, t, place) /\ (place = "reset" => EpisodeToEnd(t))
    BY <1>6 DEF RunLooksAtStreak
  <2>2. RunTo(p, t, {place}) /\ place \in Thought
    BY <2>1, GotoRun
  <2> QED BY <2>1, <2>2 DEF Thinking, RunTo
<1>7. CASE RunFails(p, t)
  <2>1. PICK place \in {"release", "record", "giveup"} :
           /\ Goto(p, t, place)
           /\ place = "giveup" => ~(Present(list, t) /\ t \in Recurring)
    BY <1>7 DEF RunFails, AfterRetries
  <2>2. RunTo(p, t, {place}) /\ place \in Thought
    BY <2>1, GotoRun
  <2> QED BY <2>1, <2>2 DEF Thinking, RunTo
<1>8. CASE RunUnrows(p, t)
  <2>1. PICK place \in {"release", "dead"} :
           Goto(p, t, place) /\ (place = "dead" => run[p][t].at = "giveup")
    BY <1>8 DEF RunUnrows, At
  <2>2. RunTo(p, t, {place}) /\ place \in Thought
    BY <2>1, GotoRun
  <2> QED BY <2>1, <2>2 DEF Thinking, RunTo
<1> QED BY <1>2, <1>3, <1>4, <1>5, <1>6, <1>7, <1>8 DEF RunThinks

-----------------------------------------------------------------------------
(* What an edit makes of its item.                                          *)

LEMMA EditSavesOwnItem ==
    ASSUME WriterInv, NEW e \in Editors, EditGoesOn(e)
    PROVE  \/ list' = list
           \/ /\ editor[e].at = "loaded" /\ editor[e].draft = list
              /\ editor[e].todo \in Todos /\ list[editor[e].todo] \in Items
              /\ list' = [list EXCEPT ![editor[e].todo] = Edited(e)]
<1>1. CASE editor[e].at = "loaded"
  <2>1. editor[e].draft = list
    BY <1>1 DEF WriterInv, LoneDraft, DraftBy
  <2>2. editor[e].todo \in Todos /\ list[editor[e].todo] \in Items /\ list \in Lists
    BY <1>1, <2>1 DEF WriterInv, TypeInv, EditInv, StoreTypeOK
  <2>3. CASE EditInside(e) \/ EditPatches(e)
    BY <1>1, <2>1, <2>2, <2>3 DEF EditInside, EditPatches, EditSaves, SaveList, SaveFails
  <2>4. CASE EditRefused(e)
    BY <2>1, <2>2, <2>4 DEF EditRefused, SaveList, Lists
  <2>5. CASE EditSyncReads(e) \/ EditIndexes(e)
    BY <2>5 DEF EditSyncReads, EditIndexes
  <2> QED BY <2>3, <2>4, <2>5 DEF EditGoesOn
<1>2. CASE editor[e].at # "loaded"
  BY <1>2, EditSteps
<1> QED BY <1>1, <1>2

(* No edit but a new schedule ends a pause, and none begins one.            *)
EditKeepsPause(old, new) ==
    /\ old.paused => new.paused /\ (old.slot = None => new.slot = None)
    /\ new.paused => old.paused

LEMMA EditedPause ==
    ASSUME WriterInv, NEW e \in Editors, editor[e].at = "loaded", editor[e].draft = list,
           editor[e].op # "delete"
    PROVE  \/ editor[e].op = "schedule" /\ ~Edited(e).paused
           \/ EditKeepsPause(list[editor[e].todo], Edited(e))
<1> DEFINE t    == editor[e].todo
           item == list[t]
           next == Rescheduled(item, Capped(NextSlot(DoneAnchor(item))))
<1>1. item \in Items /\ t \in Todos /\ editor[e].op \in Ops
  BY DEF WriterInv, TypeInv, EditInv
<1>2. CASE editor[e].op = "schedule"
  <2>1. Edited(e) = Rescheduled(item, editor[e].slot)
    BY <1>2 DEF Edited
  <2> HIDE DEF item
  <2>2. ~Rescheduled(item, editor[e].slot).paused
    BY <1>1 DEF Rescheduled, Items
  <2> QED BY <1>2, <2>1, <2>2
<1>3. CASE editor[e].op = "unschedule"
  <2>1. Edited(e) = [item EXCEPT !.slot = None]
    BY <1>3 DEF Edited
  <2> HIDE DEF item
  <2>2. EditKeepsPause(item, [item EXCEPT !.slot = None])
    BY <1>1 DEF EditKeepsPause, Items
  <2> QED BY <2>1, <2>2 DEF item
<1>4. CASE editor[e].op \in {"done", "complete"}
  <2>1. Edited(e) = Completed(t, item)
    BY <1>4 DEF Edited
  <2>2. CASE t \in Recurring /\ ~item.paused
    <3>1. next \in Items /\ ~next.paused
      BY <1>1, CappedSlot, RescheduledItem DEF Rescheduled, Items
    <3>2. Completed(t, item) = [next EXCEPT !.status = "pending", !.last = DoneAnchor(item)]
      BY <2>2 DEF Completed
    <3> HIDE DEF next, item
    <3>3. ~[next EXCEPT !.status = "pending", !.last = DoneAnchor(item)].paused
      BY <3>1 DEF Items
    <3> QED BY <2>1, <2>2, <3>2, <3>3 DEF EditKeepsPause, item
  <2>3. CASE ~(t \in Recurring /\ ~item.paused)
    <3>1. Completed(t, item) = [item EXCEPT !.status = "done"]
      BY <2>3 DEF Completed
    <3> HIDE DEF item
    <3>2. EditKeepsPause(item, [item EXCEPT !.status = "done"])
      BY <1>1 DEF EditKeepsPause, Items
    <3> QED BY <2>1, <3>1, <3>2 DEF item
  <2> QED BY <2>2, <2>3
<1> QED BY <1>1, <1>2, <1>3, <1>4 DEF Ops

-----------------------------------------------------------------------------
(* A TODO that was deleted.                                                 *)

LEMMA DeletedStep ==
    ASSUME WriterInv, [Next]_vars, NEW t \in Todos, ~Present(list, t)
    PROVE  ~Present(list', t)
<1>1. ASSUME NEW p \in Procs, NEW u \in Todos, RunStep(p, u) PROVE ~Present(list', t)
  <2>1. CASE RunWrites(p, u)
    BY <2>1, RunWritesEffect DEF ListEffect, Present
  <2> QED BY <1>1, <2>1, RunStepKinds, ThinksOnly DEF RunLoad, Present
<1>2. ASSUME NEW e \in Editors, EditGoesOn(e) PROVE ~Present(list', t)
  <2>1. CASE list' = list
    BY <2>1 DEF Present
  <2>2. CASE /\ list[editor[e].todo] \in Items
             /\ list' = [list EXCEPT ![editor[e].todo] = Edited(e)]
    <3>1. t # editor[e].todo
      BY <2>2, NoneAssumption DEF NoneAssumption, Present
    <3> QED BY <2>2, <3>1 DEF Present
  <2> QED BY <1>2, <2>1, <2>2, EditSavesOwnItem
<1>3. ASSUME NEW e \in Editors, EditLoads(e) PROVE list' = list
  BY <1>3 DEF EditLoads
<1>4. ASSUME NEW p \in Procs, PollSubmit(p) \/ Stop(p) \/ Crash(p) PROVE list' = list
  BY <1>4 DEF PollSubmit, Stop, Crash, storeVars
<1>5. Idles => list' = list
  BY IdlesLeave
<1> QED BY <1>1, <1>2, <1>3, <1>4, <1>5, StepKinds DEF Present

(* A TODO that was deleted does not come back, whatever else is being       *)
(* edited, run or retried, where one process alone writes the list: each    *)
(* atomic_update there saves the list it has loaded under the process's     *)
(* lock (todo_manager.py).                                                  *)
THEOREM Deleted == ASSUME OneWriter PROVE Spec => DeletedStaysDeleted
<1>1. WriterInv /\ [Next]_vars =>
         [\A t \in Todos : ~Present(list, t) => ~Present(list', t)]_vars
  BY DeletedStep
<1> QED BY <1>1, WriterAlways, PTL DEF Spec, DeletedStaysDeleted

-----------------------------------------------------------------------------
(* Pauses.                                                                  *)

(* What is paused has no slot, and no run is about to give it one or to end *)
(* its failure episode: a run that finds the slot gone, which was there     *)
(* when it was submitted, takes the item for rewritten.                     *)
PauseOnItem == \A t \in Todos : Present(list, t) /\ list[t].paused => list[t].slot = None
PauseOnRuns ==
    \A p \in Procs, t \in Todos :
        /\ InPause(list, t) => run[p][t].at \notin {"rearm", "backoff", "reset"}
        /\ run[p][t].at # "none" => run[p][t].slot \in Slots

PauseInv == WriterInv /\ PauseOnItem /\ PauseOnRuns

LEMMA PauseInit == ASSUME Init PROVE PauseOnItem /\ PauseOnRuns
BY DEF Init, StoreInit, NewItem, NoRun, PauseOnItem, PauseOnRuns

(* A step that leaves the list alone, and takes no run to a place where it  *)
(* would end a pause.                                                       *)
LEMMA PauseKept ==
    ASSUME PauseOnItem, PauseOnRuns, list' = list,
           \A p \in Procs, t \in Todos :
               run'[p][t] = run[p][t] \/ run'[p][t].at = "none"
    PROVE  PauseOnItem' /\ PauseOnRuns'
BY DEF PauseOnItem, PauseOnRuns, InPause, Present

LEMMA ThinkingPause ==
    ASSUME PauseInv, NEW p \in Procs, NEW t \in Todos, RunThinks(p, t)
    PROVE  PauseOnItem' /\ PauseOnRuns'
<1>1. Thinking(p, t) /\ list' = list
  BY ThinksTo, ThinksOnly DEF PauseInv
<1>2. run[p][t].at # "none" /\ run[p][t].slot \in Slots
  <2>1. run[p][t].at # "none"
    BY RunFrame, RunStepOfThinking DEF PauseInv, WriterInv
  <2> QED BY <2>1 DEF PauseInv, PauseOnRuns
<1>3. InPause(list, t) => Rewritten(p, t) /\ ~EpisodeToEnd(t)
  BY <1>2, Constants DEF InPause, Rewritten, EpisodeToEnd
<1>4. \A q \in Procs, u \in Todos : q # p \/ u # t => run'[q][u] = run[q][u]
  BY <1>1 DEF Thinking, RunTo
<1>5. /\ InPause(list, t) => run'[p][t].at \notin {"rearm", "backoff", "reset"}
      /\ run'[p][t].slot \in Slots
  BY <1>1, <1>2, <1>3 DEF Thinking, RunTo
<1> QED BY <1>1, <1>4, <1>5 DEF PauseInv, PauseOnItem, PauseOnRuns, InPause, Present

(* A write of a run: it begins a pause only at its end, and ends none.      *)
LEMMA WritePause ==
    ASSUME PauseInv, NEW p \in Procs, NEW t \in Todos, RunWrites(p, t)
    PROVE  /\ PauseOnItem'
           /\ InPause(list, t) => InPause(list', t)
           /\ InPause(list', t) => InPause(list, t) \/ run'[p][t].at = "unrow"
<1>1. ListEffect(p, t)
  BY RunWritesEffect DEF PauseInv
<1>2. InPause(list, t) => run[p][t].at \notin {"rearm", "backoff", "reset"}
  BY DEF PauseInv, PauseOnRuns
<1>3. Present(list, t) /\ list[t].paused => list[t].slot = None
  BY DEF PauseInv, PauseOnItem
<1>4. /\ Present(list', t) /\ list'[t].paused => list'[t].slot = None
      /\ InPause(list, t) => InPause(list', t)
      /\ InPause(list', t) => InPause(list, t) \/ run'[p][t].at = "unrow"
  <2>1. CASE ~Present(list, t)
    BY <1>1, <2>1 DEF ListEffect, InPause
  <2>2. CASE Present(list, t) /\ LeavesItem(p, t)
    BY <1>1, <1>3, <2>2 DEF ListEffect, LeavesItem, InPause
  <2>3. CASE Present(list, t) /\ MovesItem(p, t)
    BY <1>1, <1>2, <2>3 DEF ListEffect, MovesItem, InPause
  <2>4. CASE Present(list, t) /\ PausesItem(p, t)
    BY <1>1, <2>4 DEF ListEffect, PausesItem, InPause
  <2>5. CASE Present(list, t) /\ ClearsItem(p, t)
    BY <1>1, <1>3, <2>5 DEF ListEffect, ClearsItem, InPause
  <2>6. CASE Present(list, t) /\ EndsEpisode(p, t)
    BY <1>1, <1>2, <1>3, <2>6 DEF ListEffect, EndsEpisode, InPause
  <2> QED BY <1>1, <2>1, <2>2, <2>3, <2>4, <2>5, <2>6 DEF ListEffect, ItemEffect
<1>5. \A u \in Todos : u # t => list'[u] = list[u]
  BY <1>1 DEF ListEffect
<1> QED BY <1>4, <1>5 DEF PauseInv, PauseOnItem, Present

LEMMA WriteRunsPause ==
    ASSUME OneWriter, PauseInv, NEW p \in Procs, NEW t \in Todos, RunWrites(p, t)
    PROVE  PauseOnRuns'
<1>1. ListEffect(p, t)
  BY RunWritesEffect DEF PauseInv
<1>2. /\ \A u \in Todos : u # t => list'[u] = list[u]
      /\ \A q \in Procs, u \in Todos : q # p \/ u # t => run'[q][u] = run[q][u]
      /\ run'[p][t].at \in Written /\ run'[p][t].slot = run[p][t].slot
  BY <1>1 DEF ListEffect, RunTo
<1>3. run[p][t].at # "none"
  BY WritesDraft DEF PauseInv, WriterInv, LoneDraft, DraftOf, WritePlaces
<1>4. \A q \in Procs : q # p => run[q][t].at = "none"
  BY <1>3, OneRunner DEF PauseInv
<1>5. \A q \in Procs, u \in Todos : q # p \/ u # t =>
         /\ InPause(list', u) => run'[q][u].at \notin {"rearm", "backoff", "reset"}
         /\ run'[q][u].at # "none" => run'[q][u].slot \in Slots
  BY <1>2, <1>4 DEF PauseInv, PauseOnRuns, InPause, Present
<1>6. run'[p][t].at \notin {"rearm", "backoff", "reset"} /\ run'[p][t].slot \in Slots
  BY <1>2, <1>3 DEF PauseInv, PauseOnRuns, Written
<1> QED BY <1>5, <1>6 DEF PauseOnRuns

(* An edit that saves: only a new schedule ends a pause, and none begins    *)
(* one.                                                                     *)
LEMMA EditPause ==
    ASSUME PauseInv, NEW e \in Editors, EditGoesOn(e), NEW t \in Todos
    PROVE  /\ Present(list', t) /\ list'[t].paused => list'[t].slot = None
           /\ InPause(list', t) => InPause(list, t)
           /\ InPause(list, t) /\ Present(list', t) /\ ~InPause(list', t) =>
                 editor[e].op = "schedule" /\ editor[e].todo = t
<1>1. Present(list, t) /\ list[t].paused => list[t].slot = None
  BY DEF PauseInv, PauseOnItem
<1>2. CASE list' = list
  BY <1>1, <1>2 DEF InPause, Present
<1>3. CASE /\ editor[e].at = "loaded" /\ editor[e].draft = list
           /\ editor[e].todo \in Todos /\ list[editor[e].todo] \in Items
           /\ list' = [list EXCEPT ![editor[e].todo] = Edited(e)]
  <2>1. CASE t # editor[e].todo
    <3>1. list'[t] = list[t]
      BY <1>3, <2>1
    <3> QED BY <1>1, <3>1 DEF InPause, Present
  <2>2. CASE t = editor[e].todo /\ editor[e].op = "delete"
    <3>1. list'[t] = None
      BY <1>3, <2>2 DEF Edited, PauseInv, WriterInv, TypeInv, StoreTypeOK, Lists
    <3> QED BY <3>1 DEF InPause, Present
  <2>3. CASE t = editor[e].todo /\ editor[e].op # "delete"
    <3>1. list'[t] = Edited(e) /\ Present(list, t)
      BY <1>3, <2>3, NoneAssumption
         DEF NoneAssumption, Present, PauseInv, WriterInv, TypeInv, StoreTypeOK, Lists
    <3>2. CASE editor[e].op = "schedule" /\ ~Edited(e).paused
      BY <2>3, <3>1, <3>2 DEF InPause
    <3>3. CASE EditKeepsPause(list[t], Edited(e))
      BY <1>1, <2>3, <3>1, <3>3 DEF InPause, EditKeepsPause
    <3> QED BY <1>3, <2>3, <3>2, <3>3, EditedPause DEF PauseInv
  <2> QED BY <2>1, <2>2, <2>3
<1> QED BY <1>2, <1>3, EditSavesOwnItem DEF PauseInv

LEMMA EditRunsPause ==
    ASSUME PauseInv, NEW e \in Editors, EditGoesOn(e)
    PROVE  PauseOnItem' /\ PauseOnRuns'
<1>1. run' = run
  BY EditFrame DEF AfterEdit, runVars
<1>2. PauseOnItem'
  BY EditPause DEF PauseOnItem
<1>3. PauseOnRuns'
  BY <1>1, EditPause DEF PauseInv, PauseOnRuns
<1> QED BY <1>2, <1>3

(* What is submitted has the slot that was read as due.                     *)
LEMMA PoolPause ==
    ASSUME PauseInv, NEW p \in Procs, PollSubmit(p) \/ Stop(p) \/ Crash(p)
    PROVE  PauseOnItem' /\ PauseOnRuns'
<1>1. list' = list
  BY DEF PollSubmit, Stop, Crash, storeVars
<1>2. /\ run \in [Procs -> [Todos -> Runs]]
      /\ due \in [Procs -> [Todos -> Slots \cup {None}]]
  BY DEF PauseInv, WriterInv, TypeInv, RunTypeOK, PollTypeOK
<1>3. CASE Stop(p) \/ Crash(p)
  <2>1. CASE Crash(p)
    <3>1. run' = [run EXCEPT ![p] = [t \in Todos |-> NoRun]]
      BY <2>1 DEF Crash
    <3>2. \A q \in Procs, t \in Todos : run'[q][t] = run[q][t] \/ run'[q][t] = NoRun
      BY <1>2, <3>1
    <3> QED BY <1>1, <3>2, PauseKept DEF NoRun, PauseInv
  <2>2. CASE Stop(p)
    <3>1. \A q \in Procs, t \in Todos : run'[q][t] = run[q][t] \/ run'[q][t] = NoRun
      BY <1>2, <2>2 DEF Stop, Cancelled
    <3> QED BY <1>1, <3>1, PauseKept DEF NoRun, PauseInv
  <2> QED BY <1>3, <2>1, <2>2
<1>4. CASE PollSubmit(p)
  <2>1. run' = [run EXCEPT ![p] = [t \in Todos |-> Submitted(p, t)]]
    BY <1>4 DEF PollSubmit
  <2>2. ASSUME NEW t \in Todos
        PROVE  \/ Submitted(p, t) = run[p][t]
               \/ Submitted(p, t).at = "none"
               \/ Submitted(p, t).at = "queued" /\ Submitted(p, t).slot \in Slots
    <3>1. due[p][t] \in Slots \cup {None}
      BY <1>2
    <3>2. CASE Submitted(p, t) = [NoRun EXCEPT !.at = "queued", !.slot = due[p][t]]
               /\ due[p][t] # None
      BY <3>1, <3>2 DEF NoRun
    <3>3. CASE Submitted(p, t) \in {run[p][t], NoRun}
      BY <3>3 DEF NoRun
    <3> QED BY <3>2, <3>3 DEF Submitted
  <2>3. \A q \in Procs, t \in Todos :
           \/ run'[q][t] = run[q][t]
           \/ run'[q][t].at = "none"
           \/ run'[q][t].at = "queued" /\ run'[q][t].slot \in Slots
    BY <1>2, <2>1, <2>2
  <2> QED BY <1>1, <2>3 DEF PauseInv, PauseOnItem, PauseOnRuns, InPause, Present
<1> QED BY <1>3, <1>4

LEMMA PauseStep == ASSUME OneWriter, PauseInv, [Next]_vars PROVE PauseInv'
<1>1. WriterInv'
  BY WriterStep DEF PauseInv
<1>2. ASSUME NEW p \in Procs, NEW t \in Todos, RunStep(p, t)
      PROVE  PauseOnItem' /\ PauseOnRuns'
  <2>1. RunLoad(p, t) => UNCHANGED <<list, run>>
    BY DEF RunLoad
  <2> QED BY <1>2, <2>1, RunStepKinds, ThinkingPause, WritePause, WriteRunsPause, PauseKept
          DEF PauseInv
<1>3. ASSUME NEW e \in Editors, EditLoads(e) PROVE PauseOnItem' /\ PauseOnRuns'
  <2>1. UNCHANGED <<list, run>>
    BY <1>3 DEF EditLoads, runVars
  <2> QED BY <2>1, PauseKept DEF PauseInv
<1>4. Idles => PauseOnItem' /\ PauseOnRuns'
  BY IdlesLeave, PauseKept DEF PauseInv
<1>5. PauseOnItem' /\ PauseOnRuns'
  BY <1>2, <1>3, <1>4, EditRunsPause, PoolPause, StepKinds
<1> QED BY <1>1, <1>5 DEF PauseInv

LEMMA PauseAlways == ASSUME OneWriter PROVE Spec => []PauseInv
<1>1. Init => PauseInv
  BY WriterInit, PauseInit DEF PauseInv
<1>2. PauseInv /\ [Next]_vars => PauseInv'
  BY PauseStep
<1> QED BY <1>1, <1>2, PTL DEF Spec

(* Only an edit or a run changes the list.                                  *)
LEMMA ListWriters ==
    ASSUME WriterInv, [Next]_vars, list' # list
    PROVE  \/ \E p \in Procs, t \in Todos : RunWrites(p, t)
           \/ \E e \in Editors : EditGoesOn(e)
<1>1. ASSUME NEW p \in Procs, NEW t \in Todos, RunStep(p, t), ~RunWrites(p, t)
      PROVE  list' = list
  BY <1>1, RunStepKinds, ThinksOnly DEF RunLoad
<1>2. ASSUME NEW e \in Editors, EditLoads(e) PROVE list' = list
  BY <1>2 DEF EditLoads
<1>3. ASSUME NEW p \in Procs, PollSubmit(p) \/ Stop(p) \/ Crash(p) PROVE list' = list
  BY <1>3 DEF PollSubmit, Stop, Crash, storeVars
<1> QED BY <1>1, <1>2, <1>3, IdlesLeave, StepKinds

EndedBySchedule(t) ==
    InPause(list, t) /\ Present(list', t) /\ ~InPause(list', t) =>
        \E e \in Editors : editor[e].op = "schedule" /\ editor[e].todo = t

LEMMA PausedStep ==
    ASSUME PauseInv, [Next]_vars, NEW t \in Todos
    PROVE  EndedBySchedule(t)
<1>1. ASSUME NEW p \in Procs, NEW u \in Todos, RunWrites(p, u)
      PROVE  InPause(list, t) => InPause(list', t)
  <2>1. CASE u = t
    BY <1>1, <2>1, WritePause
  <2>2. CASE u # t
    <3>1. list'[t] = list[t]
      BY <1>1, <2>2, RunWritesEffect DEF PauseInv, ListEffect
    <3> QED BY <3>1 DEF InPause, Present
  <2> QED BY <2>1, <2>2
<1>2. ASSUME NEW e \in Editors, EditGoesOn(e) PROVE EndedBySchedule(t)
  BY <1>2, EditPause DEF EndedBySchedule
<1>3. CASE list' = list
  BY <1>3 DEF EndedBySchedule, InPause
<1> QED BY <1>1, <1>2, <1>3, ListWriters DEF PauseInv, EndedBySchedule

(* A pause ends by a new schedule and by nothing else: not by a run of the  *)
(* TODO that was on its way, not by its success, not by "done", where one   *)
(* process alone writes the list (_schedule_rewritten_mid_run,              *)
(* _reset_failure_streak, _advance_recurring_done).                         *)
THEOREM Paused == ASSUME OneWriter PROVE Spec => PausedStays
<1>1. PauseInv /\ [Next]_vars => [\A t \in Todos : EndedBySchedule(t)]_vars
  BY PausedStep
<1>2. Spec => [][\A t \in Todos : EndedBySchedule(t)]_vars
  BY <1>1, PauseAlways, PTL DEF Spec
<1> QED BY <1>2 DEF PausedStays, EndedBySchedule

-----------------------------------------------------------------------------
(* "Done" ahead of time.                                                    *)

DoneEarly(e, t) ==
    /\ EditGoesOn(e)
    /\ editor[e].at = "loaded"
    /\ editor[e].op \in {"done", "complete"}
    /\ editor[e].todo = t
    /\ ArmedAhead(list, t)
    /\ list[t].last # None /\ list[t].last <= now

StillArmed(t) == ArmedAhead(list', t) /\ list'[t].slot <= list[t].slot

(* From an occurrence that has come, the series goes on at the next moment  *)
(* of the clock.                                                            *)
LEMMA NextFromPast ==
    ASSUME now \in 0..MaxTime, NEW item \in Items, item.last # None, item.last <= now
    PROVE  Capped(NextSlot(DoneAnchor(item))) = now + 1
<1>1. item.last \in Slots \cup {None} /\ now + 1 \in Slots
  BY Constants DEF Items
<1>2. item.last \in Int /\ now \in Int /\ DoneAnchor(item) = item.last
  BY <1>1, Constants DEF DoneAnchor
<1>3. NextSlot(item.last) = now + 1
  BY <1>2 DEF NextSlot
<1> QED BY <1>1, <1>2, <1>3 DEF Capped

LEMMA DoneStep ==
    ASSUME PauseInv, NEW e \in Editors, NEW t \in Recurring, DoneEarly(e, t)
    PROVE  StillArmed(t)
<1>1. t \in Todos /\ now \in 0..MaxTime /\ list \in Lists
  BY StoreAssumption DEF StoreAssumption, PauseInv, WriterInv, TypeInv, StoreTypeOK
<1>2. Present(list, t) /\ list[t] \in Items /\ list[t].slot # None /\ list[t].slot > now
  BY <1>1, PresentItem DEF DoneEarly, ArmedAhead, ActiveIn
<1>3. list[t].slot \in Int
  BY <1>2, Constants DEF Items
<1>4. CASE list' = list
  BY <1>3, <1>4 DEF StillArmed, DoneEarly, ArmedAhead, ActiveIn, Present
<1>5. CASE editor[e].draft = list /\ list' = [list EXCEPT ![editor[e].todo] = Edited(e)]
  <2> DEFINE item == list[t]
             next == Rescheduled(item, now + 1)
  <2>1. ~item.paused
    BY <1>1, <1>2 DEF PauseInv, PauseOnItem
  <2>2. Capped(NextSlot(DoneAnchor(item))) = now + 1
    BY <1>1, <1>2, NextFromPast DEF DoneEarly
  <2>3. Edited(e) = [next EXCEPT !.status = "pending", !.last = DoneAnchor(item)]
    BY <1>5, <2>1, <2>2 DEF Edited, Completed, DoneEarly
  <2>4. next \in Items /\ next.slot = now + 1
    BY <1>1, <1>2, Constants, RescheduledItem DEF Rescheduled, Items
  <2> HIDE DEF next, item
  <2>5. Edited(e).slot = now + 1 /\ Edited(e).status = "pending" /\ Edited(e) \in Items
    <3>1. DoneAnchor(item) \in Slots \cup {None}
      BY <1>1, <1>2, DoneAnchorSlot DEF item
    <3> QED BY <2>3, <2>4, <3>1 DEF Items, Statuses
  <2>6. list'[t] = Edited(e)
    BY <1>1, <1>5 DEF DoneEarly, Lists
  <2>7. now + 1 # None /\ now + 1 > now /\ now + 1 <= list[t].slot
    BY <1>1, <1>2, <1>3, Constants
  <2> QED BY <2>5, <2>6, <2>7, NoneAssumption
          DEF NoneAssumption, StillArmed, ArmedAhead, ActiveIn, Present
<1> QED BY <1>4, <1>5, EditSavesOwnItem DEF PauseInv, DoneEarly

(* "Done" ahead of time never moves a series past its armed occurrence, if  *)
(* the one before it has come, where one process alone writes the list      *)
(* (resolve_done_recurrence_anchor).                                        *)
THEOREM DoneEarlyIsHarmless == ASSUME OneWriter PROVE Spec => DoneKeepsArmed
<1>1. PauseInv =>
         [\A e \in Editors, t \in Recurring : DoneEarly(e, t) => StillArmed(t)]_vars
  BY DoneStep
<1>2. Spec => [][\A e \in Editors, t \in Recurring : DoneEarly(e, t) => StillArmed(t)]_vars
  BY <1>1, PauseAlways, PTL DEF Spec
<1> QED BY <1>2 DEF DoneKeepsArmed, DoneEarly, StillArmed

-----------------------------------------------------------------------------
(* The series that nobody but its runs changes.                             *)

RunsOnly == Editors = {} /\ ~LockFaults

ActiveInv  == \A t \in Todos : ActiveIn(list, t)
ArmedInv   == \A t \in Recurring : list[t].slot = None => list[t].paused
GoingOnInv == \A p \in Procs, t \in Recurring :
                 run[p][t].at \notin {"clear", "giveup", "dead"}

SeriesInv == PauseInv /\ ActiveInv /\ ArmedInv /\ GoingOnInv

LEMMA SeriesInit == ASSUME Init PROVE ActiveInv /\ ArmedInv /\ GoingOnInv
<1>1. PICK s \in [Todos -> 0..1] : list = [t \in Todos |-> NewItem(s[t])]
  BY DEF Init, StoreInit
<1>2. \A t \in Todos : list[t] = NewItem(s[t]) /\ s[t] \in Slots
  BY <1>1, StoreAssumption DEF StoreAssumption, Slots
<1>3. \A n \in Slots : /\ NewItem(n) \in Items /\ NewItem(n).status = "pending"
                       /\ NewItem(n).slot = n
  BY DEF NewItem, Items, Statuses
<1>4. ActiveInv
  BY <1>2, <1>3, NoneAssumption DEF NoneAssumption, ActiveInv, ActiveIn, Present
<1>5. ArmedInv
  BY <1>2, <1>3, Constants, StoreAssumption DEF StoreAssumption, ArmedInv
<1>6. GoingOnInv
  BY StoreAssumption DEF StoreAssumption, Init, NoRun, GoingOnInv
<1> QED BY <1>4, <1>5, <1>6

(* A run keeps its item on the list and active, and a series armed or       *)
(* paused.                                                                  *)
LEMMA SeriesWrite ==
    ASSUME SeriesInv, NEW p \in Procs, NEW t \in Todos, RunWrites(p, t)
    PROVE  ActiveInv' /\ ArmedInv' /\ GoingOnInv'
<1>1. ListEffect(p, t)
  BY RunWritesEffect DEF SeriesInv, PauseInv
<1>2. Present(list, t) /\ list[t].status # "done"
  BY DEF SeriesInv, ActiveInv, ActiveIn
<1>3. ItemEffect(p, t) /\ Present(list', t) /\ \A u \in Todos : u # t => list'[u] = list[u]
  BY <1>1, <1>2 DEF ListEffect
<1>4. ActiveInv'
  <2>1. ActiveIn(list', t)
    BY <1>2, <1>3 DEF ItemEffect, ActiveIn
  <2> QED BY <1>3, <2>1 DEF SeriesInv, ActiveInv, ActiveIn, Present
<1>5. t \in Recurring => (list'[t].slot = None => list'[t].paused)
  <2> SUFFICES ASSUME t \in Recurring PROVE list'[t].slot = None => list'[t].paused
    OBVIOUS
  <2>1. list[t].slot = None => list[t].paused
    BY DEF SeriesInv, ArmedInv
  <2>2. CASE LeavesItem(p, t)
    BY <2>1, <2>2 DEF LeavesItem
  <2>3. CASE MovesItem(p, t)
    BY <2>3, Constants DEF MovesItem
  <2>4. CASE PausesItem(p, t)
    BY <2>4 DEF PausesItem
  <2>5. CASE EndsEpisode(p, t)
    <3>1. ~InPause(list, t)
      BY <2>5 DEF EndsEpisode, SeriesInv, PauseInv, PauseOnRuns
    <3> QED BY <1>2, <2>1, <2>5, <3>1 DEF EndsEpisode, InPause
  <2>6. ~ClearsItem(p, t)
    BY DEF ClearsItem, SeriesInv, GoingOnInv
  <2> QED BY <1>3, <2>2, <2>3, <2>4, <2>5, <2>6 DEF ItemEffect
<1>6. ArmedInv'
  BY <1>3, <1>5, StoreAssumption DEF StoreAssumption, SeriesInv, ArmedInv
<1>7. GoingOnInv'
  BY <1>1, StoreAssumption DEF StoreAssumption, ListEffect, RunTo, Written, SeriesInv, GoingOnInv
<1> QED BY <1>4, <1>6, <1>7

LEMMA SeriesThink ==
    ASSUME SeriesInv, NEW p \in Procs, NEW t \in Todos, RunThinks(p, t)
    PROVE  ActiveInv' /\ ArmedInv' /\ GoingOnInv'
<1>1. Thinking(p, t) /\ list' = list
  BY ThinksTo, ThinksOnly DEF SeriesInv, PauseInv
<1>2. Present(list, t)
  BY DEF SeriesInv, ActiveInv, ActiveIn
<1>3. t \in Recurring => run'[p][t].at \notin {"clear", "giveup", "dead"}
  BY <1>1, <1>2 DEF Thinking, SeriesInv, GoingOnInv
<1>4. GoingOnInv'
  BY <1>1, <1>3, StoreAssumption DEF StoreAssumption, Thinking, RunTo, SeriesInv, GoingOnInv
<1> QED BY <1>1, <1>4 DEF SeriesInv, ActiveInv, ArmedInv, ActiveIn, Present

(* A step that leaves the list alone, and moves a run only on to be         *)
(* submitted or out of the pool.                                            *)
LEMMA SeriesKept ==
    ASSUME SeriesInv, list' = list,
           \A p \in Procs, t \in Todos :
               run'[p][t] = run[p][t] \/ run'[p][t].at \in {"none", "queued"}
    PROVE  ActiveInv' /\ ArmedInv' /\ GoingOnInv'
BY StoreAssumption DEF StoreAssumption, SeriesInv, ActiveInv, ArmedInv, GoingOnInv, ActiveIn,
   Present

(* What the pool's poll, stop() and a crash make of the runs.               *)
LEMMA PoolRuns ==
    ASSUME TypeInv, NEW p \in Procs, PollSubmit(p) \/ Stop(p) \/ Crash(p)
    PROVE  /\ list' = list /\ row' = row
           /\ \A q \in Procs, t \in Todos :
                 \/ run'[q][t] = run[q][t]
                 \/ /\ q = p
                    /\ run'[q][t].at \in {"none", "queued"}
                    /\ run[q][t].at \in {"none", "queued", "done"} \/ Crash(p)
<1>1. run \in [Procs -> [Todos -> Runs]]
  BY DEF TypeInv, RunTypeOK
<1>2. list' = list /\ row' = row
  BY DEF PollSubmit, Stop, Crash, storeVars
<1>3. CASE PollSubmit(p)
  <2>1. run' = [run EXCEPT ![p] = [t \in Todos |-> Submitted(p, t)]]
    BY <1>3 DEF PollSubmit
  <2>2. ASSUME NEW t \in Todos
        PROVE  \/ Submitted(p, t) = run[p][t]
               \/ /\ Submitted(p, t).at \in {"none", "queued"}
                  /\ run[p][t].at \in {"none", "done"}
    <3>1. [NoRun EXCEPT !.at = "queued", !.slot = due[p][t]].at = "queued"
          /\ NoRun.at = "none"
      BY DEF NoRun
    <3> QED BY <3>1 DEF Submitted, Idle
  <2> QED BY <1>1, <1>2, <2>1, <2>2
<1>4. CASE Stop(p)
  BY <1>1, <1>2, <1>4 DEF Stop, Cancelled, NoRun
<1>5. CASE Crash(p)
  BY <1>1, <1>2, <1>5 DEF Crash, NoRun
<1> QED BY <1>3, <1>4, <1>5

LEMMA SeriesStep == ASSUME RunsOnly, SeriesInv, [Next]_vars PROVE SeriesInv'
<1>1. PauseInv'
  BY PauseStep DEF SeriesInv, RunsOnly, OneWriter
<1>2. ASSUME NEW p \in Procs, NEW t \in Todos, RunStep(p, t)
      PROVE  ActiveInv' /\ ArmedInv' /\ GoingOnInv'
  <2>1. RunLoad(p, t) => UNCHANGED <<list, run>>
    BY DEF RunLoad
  <2> QED BY <1>2, <2>1, RunStepKinds, SeriesWrite, SeriesThink, SeriesKept
<1>3. ASSUME NEW p \in Procs, PollSubmit(p) \/ Stop(p) \/ Crash(p)
      PROVE  ActiveInv' /\ ArmedInv' /\ GoingOnInv'
  <2>1. /\ list' = list
        /\ \A q \in Procs, t \in Todos :
              run'[q][t] = run[q][t] \/ run'[q][t].at \in {"none", "queued"}
    BY <1>3, PoolRuns DEF SeriesInv, PauseInv, WriterInv
  <2> QED BY <2>1, SeriesKept
<1>4. Idles => ActiveInv' /\ ArmedInv' /\ GoingOnInv'
  BY IdlesLeave, SeriesKept
<1>5. ActiveInv' /\ ArmedInv' /\ GoingOnInv'
  BY <1>2, <1>3, <1>4, StepKinds DEF RunsOnly
<1> QED BY <1>1, <1>5 DEF SeriesInv

LEMMA SeriesAlways == ASSUME RunsOnly PROVE Spec => []SeriesInv
<1>1. Init => SeriesInv
  BY WriterInit, PauseInit, SeriesInit DEF SeriesInv, PauseInv
<1>2. SeriesInv /\ [Next]_vars => SeriesInv'
  BY SeriesStep
<1> QED BY <1>1, <1>2, PTL DEF Spec

(* A series that nobody edits never ends in silence, whatever fails, is     *)
(* retried or crashes: it has a slot or says that it is paused              *)
(* (_handle_execution_failure, _pause_recurring_schedule).                  *)
THEOREM Series == ASSUME RunsOnly PROVE Spec => []SeriesGoesOn
<1>1. SeriesInv => SeriesGoesOn
  BY DEF SeriesInv, ArmedInv, SeriesGoesOn
<1> QED BY <1>1, SeriesAlways, PTL

-----------------------------------------------------------------------------
(* The series that users edit.                                              *)

(* A run that clears or gives up a series has found it deleted, and it      *)
(* stays so.                                                                *)
GoneInv ==
    \A p \in Procs, t \in Recurring :
        run[p][t].at \in {"clear", "giveup", "dead"} => ~Present(list, t)

EndsInv == PauseInv /\ GoneInv

LEMMA GoneStep == ASSUME EndsInv, [Next]_vars PROVE GoneInv'
<1> SUFFICES ASSUME NEW p \in Procs, NEW t \in Recurring,
                    run'[p][t].at \in {"clear", "giveup", "dead"}
             PROVE  ~Present(list', t)
  BY DEF GoneInv
<1>1. t \in Todos /\ WriterInv
  BY StoreAssumption DEF StoreAssumption, EndsInv, PauseInv
<1> SUFFICES ~Present(list, t)
  BY <1>1, DeletedStep
<1>2. ASSUME run'[p][t] = run[p][t] PROVE ~Present(list, t)
  BY <1>2 DEF EndsInv, GoneInv
<1>3. ASSUME NEW q \in Procs, NEW u \in Todos, RunStep(q, u) PROVE ~Present(list, t)
  <2>1. CASE RunWrites(q, u)
    <3>1. RunTo(q, u, Written)
      BY <1>1, <2>1, RunWritesEffect DEF ListEffect
    <3> QED BY <1>1, <1>2, <3>1 DEF RunTo, Written
  <2>2. CASE RunThinks(q, u)
    <3>1. Thinking(q, u)
      BY <1>1, <2>2, ThinksTo
    <3>2. CASE q = p /\ u = t
      BY <3>1, <3>2 DEF Thinking, EndsInv, GoneInv
    <3> QED BY <1>1, <1>2, <3>1, <3>2 DEF Thinking, RunTo
  <2> QED BY <1>2, <1>3, <2>1, <2>2, RunStepKinds DEF RunLoad
<1>4. ASSUME NEW e \in Editors, EditLoads(e) \/ EditGoesOn(e) PROVE ~Present(list, t)
  BY <1>2, <1>4, EditFrame DEF EditLoads, AfterEdit, runVars
<1>5. ASSUME NEW q \in Procs, PollSubmit(q) \/ Stop(q) \/ Crash(q) PROVE ~Present(list, t)
  <2>1. run'[p][t] = run[p][t] \/ run'[p][t].at \in {"none", "queued"}
    BY <1>1, <1>5, PoolRuns DEF WriterInv
  <2> QED BY <1>2, <2>1
<1>6. Idles => ~Present(list, t)
  BY <1>2, IdlesLeave
<1> QED BY <1>3, <1>4, <1>5, <1>6, StepKinds

LEMMA EndsAlways == ASSUME OneWriter PROVE Spec => []EndsInv
<1>1. Init => GoneInv
  BY StoreAssumption DEF StoreAssumption, Init, NoRun, GoneInv
<1>2. EndsInv /\ [Next]_vars => GoneInv'
  BY GoneStep
<1> QED BY <1>1, <1>2, PauseAlways, PTL DEF Spec, EndsInv

(* OnlyUsersUnschedule, of one step.                                        *)
LosesSlot(t) ==
    /\ Present(list, t) /\ list[t].slot # None
    /\ Present(list', t) /\ list'[t].slot = None

TakesSlot(e, t) ==
    /\ editor[e].at = "loaded"
    /\ editor[e].op = "unschedule"
    /\ editor[e].todo = t

UserOrPause(t) ==
    LosesSlot(t) => list'[t].paused \/ \E e \in Editors : TakesSlot(e, t)

LEMMA WriteKeepsSlot ==
    ASSUME EndsInv, NEW p \in Procs, NEW u \in Todos, RunWrites(p, u), NEW t \in Recurring
    PROVE  UserOrPause(t)
<1> SUFFICES ASSUME LosesSlot(t) PROVE list'[t].paused
  BY DEF UserOrPause
<1>1. ListEffect(p, u) /\ t \in Todos
  BY RunWritesEffect, StoreAssumption DEF StoreAssumption, EndsInv, PauseInv
<1>2. u = t /\ ItemEffect(p, t)
  BY <1>1 DEF ListEffect, LosesSlot
<1>3. ~ClearsItem(p, t)
  BY DEF ClearsItem, LosesSlot, EndsInv, GoneInv
<1>4. ~MovesItem(p, t)
  BY Constants DEF MovesItem, LosesSlot
<1> QED BY <1>2, <1>3, <1>4
        DEF ItemEffect, LeavesItem, PausesItem, EndsEpisode, LosesSlot

(* An edit that is no cancellation leaves a series its slot or gives it     *)
(* another.                                                                 *)
LEMMA EditedSlot ==
    ASSUME WriterInv, NEW e \in Editors, editor[e].at = "loaded", editor[e].draft = list,
           editor[e].op \notin {"delete", "unschedule"},
           list[editor[e].todo].slot # None
    PROVE  Edited(e).slot # None
<1> DEFINE t    == editor[e].todo
           item == list[t]
           next == Rescheduled(item, Capped(NextSlot(DoneAnchor(item))))
<1>1. item \in Items /\ t \in Todos /\ editor[e].op \in Ops
      /\ (editor[e].op = "schedule" => editor[e].slot \in Slots)
  BY DEF WriterInv, TypeInv, EditInv
<1>2. CASE editor[e].op = "schedule"
  <2>1. Edited(e) = Rescheduled(item, editor[e].slot)
    BY <1>2 DEF Edited
  <2> HIDE DEF item
  <2>2. Rescheduled(item, editor[e].slot).slot = editor[e].slot
    BY <1>1 DEF Rescheduled, Items
  <2> QED BY <1>1, <1>2, <2>1, <2>2, Constants
<1>3. CASE editor[e].op \in {"done", "complete"}
  <2>1. Edited(e) = Completed(t, item)
    BY <1>3 DEF Edited
  <2>2. CASE t \in Recurring /\ ~item.paused
    <3>1. next \in Items /\ next.slot \in Slots
      BY <1>1, CappedSlot, RescheduledItem DEF Rescheduled, Items
    <3>2. Completed(t, item) = [next EXCEPT !.status = "pending", !.last = DoneAnchor(item)]
      BY <2>2 DEF Completed
    <3> HIDE DEF next, item
    <3>3. [next EXCEPT !.status = "pending", !.last = DoneAnchor(item)].slot = next.slot
      BY <3>1 DEF Items
    <3> QED BY <2>1, <3>1, <3>2, <3>3, Constants
  <2>3. CASE ~(t \in Recurring /\ ~item.paused)
    <3>1. Completed(t, item) = [item EXCEPT !.status = "done"]
      BY <2>3 DEF Completed
    <3> HIDE DEF item
    <3>2. [item EXCEPT !.status = "done"].slot = item.slot
      BY <1>1 DEF Items
    <3> QED BY <2>1, <3>1, <3>2 DEF item
  <2> QED BY <2>2, <2>3
<1> QED BY <1>1, <1>2, <1>3 DEF Ops

LEMMA EditKeepsSlot ==
    ASSUME EndsInv, NEW e \in Editors, EditGoesOn(e), NEW t \in Recurring
    PROVE  UserOrPause(t)
<1> SUFFICES ASSUME LosesSlot(t) PROVE TakesSlot(e, t)
  BY DEF UserOrPause
<1>1. t \in Todos /\ WriterInv
  BY StoreAssumption DEF StoreAssumption, EndsInv, PauseInv
<1>2. list' # list
  BY DEF LosesSlot
<1>3. /\ editor[e].at = "loaded" /\ editor[e].draft = list
      /\ list' = [list EXCEPT ![editor[e].todo] = Edited(e)]
  BY <1>1, <1>2, EditSavesOwnItem
<1>4. editor[e].todo = t
  BY <1>1, <1>3 DEF LosesSlot
<1>5. list'[t] = Edited(e)
  BY <1>1, <1>3, <1>4 DEF WriterInv, TypeInv, StoreTypeOK, Lists
<1>6. editor[e].op # "delete"
  BY <1>4, <1>5 DEF Edited, LosesSlot, Present
<1> QED BY <1>1, <1>3, <1>4, <1>5, <1>6, EditedSlot DEF LosesSlot, TakesSlot

(* Where one process alone writes the list, users may edit a series at any  *)
(* moment of its runs: it still does not lose its slot unless one of them   *)
(* takes it away or it is paused.  (Decide and AfterRetries clear or give   *)
(* up only what they find deleted, which Deleted shows to be final.)        *)
THEOREM NoSilentEnd == ASSUME OneWriter PROVE Spec => OnlyUsersUnschedule
<1>1. EndsInv /\ [Next]_vars => [\A t \in Recurring : UserOrPause(t)]_vars
  <2> SUFFICES ASSUME EndsInv, [Next]_vars, NEW t \in Recurring PROVE UserOrPause(t)
    OBVIOUS
  <2>1. CASE list' = list
    BY <2>1 DEF UserOrPause, LosesSlot
  <2> QED BY <2>1, ListWriters, WriteKeepsSlot, EditKeepsSlot DEF EndsInv, PauseInv
<1>2. ASSUME \A t \in Recurring : UserOrPause(t)
      PROVE  \A t \in Recurring :
                /\ Present(list, t) /\ list[t].slot # None
                /\ Present(list', t) /\ list'[t].slot = None
                => \/ list'[t].paused
                   \/ \E e \in Editors : /\ editor[e].at = "loaded"
                                         /\ editor[e].op = "unschedule"
                                         /\ editor[e].todo = t
  BY <1>2 DEF UserOrPause, LosesSlot, TakesSlot
<1> QED BY <1>1, <1>2, EndsAlways, PTL DEF Spec, OnlyUsersUnschedule

-----------------------------------------------------------------------------
(* The index follows the list.                                              *)

RowsSaved == "row" \notin DbFaults /\ "recover" \notin DbFaults

(* A run that has changed the slot is on its way to the row.                *)
RowFollows(p, t) ==
    /\ run[p][t].at \notin {"sync", "index", "unrow"} => row[t] = IndexOf(list, t)
    /\ run[p][t].at = "index" => run[p][t].seen = IndexOf(list, t)
    /\ run[p][t].at = "unrow" => IndexOf(list, t) = None

Following ==
    \A p \in Procs :
        /\ life[p] = "rebuilding" => snap[p] = list
        /\ Working(p) => \A t \in Recurring : RowFollows(p, t)

IndexInv == SeriesInv /\ Following

(* The rows that a run writes.                                              *)
LEMMA ThinkRows ==
    ASSUME RowsSaved, SeriesInv, NEW p \in Procs, NEW t \in Todos, RunThinks(p, t)
    PROVE  /\ \A u \in Todos : u # t => row'[u] = row[u]
           /\ run[p][t].at = "sync" => run'[p][t].at = "index"
           /\ run[p][t].at = "index" => row'[t] = run[p][t].seen
           /\ run[p][t].at = "unrow" => row'[t] = None
           /\ run[p][t].at \notin {"index", "unrow", "giveup"} => row'[t] = row[t]
<1>1. row \in [Todos -> Slots \cup {None}] /\ run \in [Procs -> [Todos -> Runs]]
  BY DEF SeriesInv, PauseInv, WriterInv, TypeInv, StoreTypeOK, RunTypeOK
<1>2. CASE RunClaim(p, t) \/ TurnEnds(p, t) \/ Decide(p, t)
  BY <1>2 DEF RunClaim, TurnEnds, Decide, At, storeVars
<1>3. CASE RunChecks(p, t)
  <2>1. ActiveIn(list, t)
    BY DEF SeriesInv, ActiveInv
  <2> QED BY <1>3, <2>1 DEF RunChecks, At
<1>4. CASE RunSyncReads(p, t)
  <2> DEFINE r == [run[p][t] EXCEPT !.at = "index", !.seen = IndexOf(list, t)]
  <2>1. r.at = "index"
    BY <1>1 DEF Runs
  <2>2. run' = [run EXCEPT ![p][t] = r] /\ run[p][t].at = "sync" /\ row' = row
    BY <1>4 DEF RunSyncReads, At, storeVars
  <2> HIDE DEF r
  <2> QED BY <1>1, <2>1, <2>2
<1>5. CASE RunIndexes(p, t)
  <2>1. run[p][t].at = "index" /\ row' = [row EXCEPT ![t] = run[p][t].seen]
    BY <1>5 DEF RunIndexes, At, PutRow, SetRow, RowsSaved
  <2> QED BY <1>1, <2>1
<1>6. CASE RunUnrows(p, t)
  <2>1. run[p][t].at \in {"unrow", "giveup"} /\ row' = [row EXCEPT ![t] = None]
    BY <1>6 DEF RunUnrows, At, PutRow, SetRow, RowsSaved
  <2> QED BY <1>1, <2>1
<1>7. CASE RunLooksAtStreak(p, t) \/ RunFails(p, t) \/ RunReleases(p, t)
  BY <1>7 DEF RunLooksAtStreak, RunFails, RunReleases, At, storeVars
<1> QED BY <1>2, <1>3, <1>4, <1>5, <1>6, <1>7 DEF RunThinks

LEMMA WriteRows ==
    ASSUME SeriesInv, NEW p \in Procs, NEW t \in Todos, RunWrites(p, t)
    PROVE  \A u \in Recurring : row'[u] = row[u]
<1>1. row \in [Todos -> Slots \cup {None}]
  BY DEF SeriesInv, PauseInv, WriterInv, TypeInv, StoreTypeOK
<1>2. CASE RunClears(p, t)
  <2>1. run[p][t].at = "clear" /\ (UNCHANGED row \/ row' = [row EXCEPT ![t] = None])
    BY <1>2 DEF RunClears, Loaded, At, PutRow, SetRow
  <2>2. t \notin Recurring
    BY <2>1 DEF SeriesInv, GoingOnInv
  <2> QED BY <1>1, <2>1, <2>2, StoreAssumption DEF StoreAssumption
<1>3. CASE RunStarts(p, t) \/ RunSettles(p, t) \/ RunBacksOff(p, t) \/ RunResetsStreak(p, t)
  BY <1>3 DEF RunStarts, RunSettles, RunBacksOff, RunResetsStreak
<1>4. CASE RunRecords(p, t) \/ RunPauses(p, t) \/ RunGivesUp(p, t)
  BY <1>4 DEF RunRecords, RunPauses, RunGivesUp
<1> QED BY <1>2, <1>3, <1>4 DEF RunWrites

LEMMA ActiveIndex ==
    ASSUME NEW l, NEW t, ActiveIn(l, t)
    PROVE  IndexOf(l, t) = l[t].slot
BY DEF IndexOf

LEMMA ThinkFollows ==
    ASSUME RowsSaved, IndexInv, NEW p \in Procs, NEW t \in Todos, RunThinks(p, t), Working(p)
    PROVE  \A u \in Recurring : RowFollows(p, u)'
<1>1. Thinking(p, t) /\ list' = list
  BY ThinksTo, ThinksOnly DEF IndexInv, SeriesInv, PauseInv
<1> SUFFICES ASSUME NEW u \in Recurring PROVE RowFollows(p, u)'
  OBVIOUS
<1>2. u \in Todos /\ RowFollows(p, u)
  BY StoreAssumption DEF StoreAssumption, IndexInv, Following
<1>3. CASE u # t
  <2>1. run'[p][u] = run[p][u] /\ row'[u] = row[u]
    BY <1>1, <1>2, <1>3, ThinkRows DEF Thinking, RunTo, IndexInv
  <2> QED BY <1>1, <1>2, <2>1 DEF RowFollows, IndexOf, ActiveIn, Present
<1>4. CASE u = t
  <2>1. IndexOf(list', t) = IndexOf(list, t)
    BY <1>1
  <2>2. run[p][t].at # "giveup" /\ run'[p][t].at # "unrow"
    BY <1>1, <1>4 DEF Thinking, RunTo, Thought, IndexInv, SeriesInv, GoingOnInv
  <2>3. run'[p][t].at = "index" => run'[p][t].seen = IndexOf(list, t)
    BY <1>1 DEF Thinking
  <2>4. run'[p][t].at \notin {"sync", "index", "unrow"} => row'[t] = IndexOf(list, t)
    BY <1>2, <1>4, <2>2, ThinkRows DEF RowFollows, IndexInv
  <2> QED BY <1>4, <2>1, <2>2, <2>3, <2>4 DEF RowFollows
<1> QED BY <1>3, <1>4

LEMMA WriteFollows ==
    ASSUME IndexInv, NEW p \in Procs, NEW t \in Todos, RunWrites(p, t), Working(p)
    PROVE  \A u \in Recurring : RowFollows(p, u)'
<1>1. ListEffect(p, t) /\ ActiveInv'
  BY RunWritesEffect, SeriesWrite DEF IndexInv, SeriesInv, PauseInv
<1> SUFFICES ASSUME NEW u \in Recurring PROVE RowFollows(p, u)'
  OBVIOUS
<1>2. u \in Todos /\ RowFollows(p, u) /\ row'[u] = row[u]
  BY WriteRows, StoreAssumption DEF StoreAssumption, IndexInv, Following
<1>3. IndexOf(list, u) = list[u].slot /\ IndexOf(list', u) = list'[u].slot
  BY <1>1, <1>2, ActiveIndex DEF ActiveInv, IndexInv, SeriesInv
<1>4. CASE u # t
  <2>1. run'[p][u] = run[p][u] /\ list'[u] = list[u]
    BY <1>1, <1>2, <1>4 DEF ListEffect, RunTo
  <2> QED BY <1>2, <1>3, <2>1 DEF RowFollows
<1>5. CASE u = t
  <2>1. run[p][t].at \in WritePlaces /\ run'[p][t].at \in Written
    BY <1>1, WritesDraft
       DEF ListEffect, RunTo, IndexInv, SeriesInv, PauseInv, WriterInv, LoneDraft, DraftOf
  <2>2. row[t] = list[t].slot
    BY <1>2, <1>3, <1>5, <2>1 DEF RowFollows, WritePlaces
  <2>3. ItemEffect(p, t) /\ ~ClearsItem(p, t)
    BY <1>1, <1>2, <1>5
       DEF ListEffect, ClearsItem, IndexInv, SeriesInv, ActiveInv, ActiveIn, GoingOnInv
  <2>4. \/ list'[t].slot = list[t].slot /\ run'[p][t].at # "unrow"
        \/ run'[p][t].at = "sync"
        \/ run'[p][t].at = "unrow" /\ list'[t].slot = None
    BY <2>3 DEF ItemEffect, LeavesItem, MovesItem, PausesItem, EndsEpisode
  <2> QED BY <1>2, <1>3, <1>5, <2>1, <2>2, <2>4 DEF RowFollows, Written
<1> QED BY <1>4, <1>5

(* Only the owner has runs or a list that it rebuilds from.                 *)
LEMMA OnlyOwner ==
    ASSUME RunsOnly, SeriesInv, NEW p \in Owners, NEW q \in Procs, q # p
    PROVE  ~Working(q) /\ life[q] # "rebuilding"
<1>1. q \notin Owners
  BY OneOwner DEF RunsOnly, SeriesInv, PauseInv, WriterInv, Safe
<1> QED BY <1>1 DEF Owners, Working

LEMMA RunFollows ==
    ASSUME RunsOnly, RowsSaved, IndexInv, NEW p \in Procs, NEW t \in Todos, RunStep(p, t)
    PROVE  Following'
<1>1. run[p][t].at # "none" /\ UNCHANGED <<life, snap>>
  BY RunFrame DEF ownVars, IndexInv, SeriesInv, PauseInv, WriterInv
<1>2. Working(p) /\ p \in Owners
  BY <1>1, WorkingOwns DEF RunsOnly, IndexInv, SeriesInv, PauseInv, WriterInv, Safe, IdleInv
<1>3. \A u \in Recurring : RowFollows(p, u)'
  <2>1. CASE RunLoad(p, t)
    BY <1>2, <2>1 DEF RunLoad, IndexInv, Following, RowFollows, IndexOf, ActiveIn, Present
  <2> QED BY <1>2, <2>1, RunStepKinds, ThinkFollows, WriteFollows
<1>4. \A q \in Procs : q # p => ~Working(q)' /\ life'[q] # "rebuilding"
  BY <1>1, <1>2, OnlyOwner DEF IndexInv, Working
<1>5. life'[p] # "rebuilding"
  BY <1>1, <1>2 DEF Working
<1> QED BY <1>3, <1>4, <1>5 DEF Following

(* The rebuild reads the list while no run can change it.                   *)
LEMMA RebuildFollows ==
    ASSUME RunsOnly, RowsSaved, IndexInv, NEW p \in Procs, RecoverMarkers(p) \/ RecoverIndex(p)
    PROVE  Following'
<1>1. /\ life \in [Procs -> Lives]
      /\ snap \in [Procs -> Lists \cup {None}]
      /\ p \in Owners
  BY DEF IndexInv, SeriesInv, PauseInv, WriterInv, TypeInv, OwnInv, OwnTypeOK, RecoverMarkers,
         RecoverIndex, Owners
<1>2. \A q \in Procs : q # p => ~Working(q) /\ life[q] # "rebuilding"
  BY <1>1, OnlyOwner DEF IndexInv
<1>3. CASE RecoverMarkers(p)
  BY <1>1, <1>2, <1>3 DEF RecoverMarkers, Enter, Following, Working
<1>4. CASE RecoverIndex(p)
  <2>1. /\ life[p] = "rebuilding" /\ life' = [life EXCEPT ![p] = "running"]
        /\ list' = list /\ run' = run
        /\ row' = [t \in Todos |-> IndexOf(snap[p], t)]
    BY <1>4 DEF RecoverIndex, Enter, RebuildRows, RowsSaved, runVars
  <2>2. snap[p] = list /\ \A t \in Todos : run[p][t].at = "none"
    BY <2>1 DEF IndexInv, Following, RunsOnly, SeriesInv, PauseInv, WriterInv, Safe, IdleInv,
                Working
  <2>3. \A t \in Recurring : RowFollows(p, t)'
    BY <2>1, <2>2, StoreAssumption
       DEF StoreAssumption, RowFollows, IndexOf, ActiveIn, Present
  <2>4. \A q \in Procs : life'[q] # "rebuilding" /\ (Working(q)' => q = p)
    BY <1>1, <1>2, <2>1 DEF Working
  <2> QED BY <2>3, <2>4 DEF Following
<1> QED BY <1>3, <1>4

LEMMA PoolFollows ==
    ASSUME IndexInv, NEW p \in Procs, PollSubmit(p) \/ Stop(p) \/ Crash(p)
    PROVE  Following'
<1>1. /\ life \in [Procs -> Lives] /\ snap \in [Procs -> Lists \cup {None}]
  BY DEF IndexInv, SeriesInv, PauseInv, WriterInv, TypeInv, OwnInv, OwnTypeOK
<1>2. /\ \A q \in Procs : q # p => life'[q] = life[q] /\ snap'[q] = snap[q]
      /\ life'[p] = "rebuilding" => life[p] = "rebuilding" /\ snap'[p] = snap[p]
      /\ Working(p)' => Working(p) /\ ~Crash(p)
  BY <1>1 DEF PollSubmit, Stop, Crash, Enter, ownVars, Working
<1>3. ASSUME NEW q \in Procs, Working(q)', NEW t \in Recurring
      PROVE  RowFollows(q, t)'
  <2>1. t \in Todos /\ Working(q) /\ (q = p => ~Crash(p))
    BY <1>2, <1>3, StoreAssumption DEF StoreAssumption, Working
  <2>2. RowFollows(q, t)
    BY <2>1 DEF IndexInv, Following
  <2>3. /\ list' = list /\ row' = row
        /\ \/ run'[q][t] = run[q][t]
           \/ /\ run'[q][t].at \in {"none", "queued"}
              /\ run[q][t].at \in {"none", "queued", "done"}
    BY <2>1, PoolRuns DEF IndexInv, SeriesInv, PauseInv, WriterInv
  <2> QED BY <2>2, <2>3 DEF RowFollows, IndexOf, ActiveIn, Present
<1>4. \A q \in Procs : life'[q] = "rebuilding" => snap'[q] = list'
  <2>1. list' = list
    BY PoolRuns DEF IndexInv, SeriesInv, PauseInv, WriterInv
  <2> QED BY <1>2, <2>1 DEF IndexInv, Following
<1> QED BY <1>3, <1>4 DEF Following

(* A step that touches neither store, and neither rebuilds nor begins to    *)
(* work.                                                                    *)
LEMMA FollowKept ==
    ASSUME Following, UNCHANGED <<list, row, run, snap>>,
           \A p \in Procs : /\ life'[p] = "rebuilding" => life[p] = "rebuilding"
                            /\ Working(p)' => Working(p)
    PROVE  Following'
BY DEF Following, RowFollows, IndexOf, ActiveIn, Present

LEMMA OthersFollow ==
    ASSUME IndexInv,
           \/ \E p \in Procs : Start(p) \/ StandbyPoll(p) \/ PollBegin(p) \/ ReleaseHeld(p)
           \/ RequestRelease \/ LockFileStep \/ TimePasses \/ UNCHANGED vars
    PROVE  Following'
<1>1. life \in [Procs -> Lives]
  BY DEF IndexInv, SeriesInv, PauseInv, WriterInv, TypeInv, OwnInv, OwnTypeOK
<1>2. CASE \E p \in Procs : Start(p) \/ StandbyPoll(p)
  <2>1. PICK p \in Procs : Start(p) \/ StandbyPoll(p)
    BY <1>2
  <2>2. UNCHANGED <<list, row, run, snap>> /\ Claim(p)
    BY <2>1 DEF Start, StandbyPoll, storeVars, runVars
  <2>3. /\ \A q \in Procs : q # p => life'[q] = life[q]
        /\ life'[p] \in {"claimed", "standby"}
    BY <1>1, <2>2 DEF Claim, Enter
  <2> QED BY <2>2, <2>3, FollowKept DEF IndexInv, Working
<1>3. CASE \E p \in Procs : PollBegin(p) \/ ReleaseHeld(p)
  <2>1. UNCHANGED <<list, row, run, snap, life>>
    BY <1>3 DEF PollBegin, ReleaseHeld, storeVars, runVars, ownVars
  <2> QED BY <2>1, FollowKept DEF IndexInv, Working
<1>4. CASE RequestRelease \/ LockFileStep \/ TimePasses \/ UNCHANGED vars
  <2>1. UNCHANGED <<list, row, run, snap, life>>
    BY <1>4 DEF RequestRelease, LockFileStep, TimePasses, Tick, vars, storeVars, runVars, ownVars
  <2> QED BY <2>1, FollowKept DEF IndexInv, Working
<1> QED BY <1>2, <1>3, <1>4

LEMMA IndexStep == ASSUME RunsOnly, RowsSaved, IndexInv, [Next]_vars PROVE IndexInv'
<1>1. SeriesInv'
  BY SeriesStep DEF IndexInv
<1>2. Idles => Following'
  BY RebuildFollows, OthersFollow DEF Idles
<1>3. Following'
  BY <1>2, RunFollows, PoolFollows, StepKinds DEF RunsOnly
<1> QED BY <1>1, <1>3 DEF IndexInv

(* The index of a series that nobody edits is what the list says whenever   *)
(* no run is at work on it, across takeovers, crashes and saves that fail,  *)
(* as long as the statements on its rows do not fail                        *)
(* (rebuild_from_todos, sync_schedule_to_db).                               *)
THEOREM IndexFollows ==
    ASSUME RunsOnly, RowsSaved
    PROVE  Spec => []IndexAgrees
<1>1. Init => IndexInv
  <2> SUFFICES ASSUME Init PROVE IndexInv
    OBVIOUS
  <2>1. \A p \in Procs : life[p] = "down"
    BY DEF Init
  <2> QED BY <2>1, WriterInit, PauseInit, SeriesInit
          DEF IndexInv, SeriesInv, PauseInv, Following, Working
<1>2. IndexInv /\ [Next]_vars => IndexInv'
  BY IndexStep
<1>3. IndexInv => IndexAgrees
  BY DEF IndexInv, Following, RowFollows, Working, IndexAgrees, Claimed, Alive
<1> QED BY <1>1, <1>2, <1>3, PTL DEF Spec
=============================================================================
