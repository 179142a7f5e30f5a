---------------------------- MODULE CappedDelete ----------------------------
(* The trimming of capped collections (cappedDeleteAsNeeded) running beside   *)
(* the inserts of CappedVisibility: in the inserting unit of work for a plain *)
(* capped collection, in RocksRecordStoreThread for the oplog.  A collection  *)
(* is limited in bytes, and may be limited in documents.  The two counters    *)
(* are read, and changed, together; no property relates them.                 *)
EXTENDS CappedVisibility

CONSTANTS SizeOf,         \* the bytes of each record
          CappedMaxSize,  \* _cappedMaxSize
          MaxDocs,        \* the limit on documents of a collection that has one
          MaxDeletes,     \* what one trim deletes at most (20000 in the code)
          Background      \* RocksRecordStoreThread

(* insertRecord refuses a record larger than the collection. *)
ASSUME DeleteAssumption ==
  /\ CappedMaxSize \in Nat /\ SizeOf \in [1..MaxRecord -> 1..CappedMaxSize]
  /\ MaxDocs \in Nat \ {0} /\ MaxDeletes \in Nat /\ Background \notin Txns

VARIABLES
  cappedMaxDocs,  \* _cappedMaxDocs: -1, always so for the oplog, or MaxDocs
  numRecords,     \* _numRecords
  dataSize,       \* _dataSize
  counted,        \* units of work that have added their records to them
  trim,           \* where each unit of work is in cappedDeleteAsNeeded
  dead,           \* records deleted from the store
  hint,           \* _cappedOldestKeyHint
  deleter,        \* the holder of _cappedDeleterMutex and its locals
  lastTrim        \* newestOld: the record that was taken last; who took it

trimVars == <<trim, dead, hint, deleter, lastTrim>>
deleteVars == <<numRecords, dataSize, counted, trimVars>>

NoDeleter == [by |-> Background, pc |-> "none", sizeOver |-> 0, docsOver |-> 0,
              view |-> {}, removed |-> {}]

DeleteInit ==
  /\ Init
  /\ cappedMaxDocs \in IF isOplog THEN {-1} ELSE {-1, MaxDocs}
  /\ numRecords = 0 /\ dataSize = 0 /\ counted = {}
  /\ trim = [t \in Txns |-> "no"] /\ dead = {} /\ hint = 0
  /\ deleter = NoDeleter /\ lastTrim = [newestOld |-> 0, by |-> Background]

(* The bytes of a set of records, and their number. *)
Bytes(S) == {b \in S \X (1..CappedMaxSize) : b[2] <= SizeOf[b[1]]}
DataSize(S) == Cardinality(Bytes(S))

Live == (UNION {RecordsOf(t) : t \in {u \in Txns : logPos[u] # 0}}) \ dead

(* The records a caller has inserted itself: its unit's delta counters. *)
Own(t) == IF t = Background THEN {} ELSE RecordsOf(t)
-----------------------------------------------------------------------------
(* By how much the caller's own inserts take the collection over its limits. *)
SizeOver(own) ==
  IF dataSize + DataSize(own) > CappedMaxSize THEN dataSize + DataSize(own) - CappedMaxSize ELSE 0

DocsOver(own) ==
  IF cappedMaxDocs # -1 /\ numRecords + Cardinality(own) > cappedMaxDocs
    THEN numRecords + Cardinality(own) - cappedMaxDocs ELSE 0

CappedAndNeedDelete(own) == SizeOver(own) > 0 \/ DocsOver(own) > 0

(* cappedDeleteAsNeeded from insertRecord: nothing to do, or the mutex is      *)
(* wanted.  For the oplog the foreground at most waits a while for the mutex   *)
(* and lets go of it: it deletes nothing.                                      *)
TrimCheck(t) ==
  /\ txn[t] = "open" /\ inserted[t] = last[t] /\ trim[t] = "no"
  /\ trim' = [trim EXCEPT ![t] = IF isOplog \/ ~CappedAndNeedDelete(Own(t)) THEN "done" ELSE "wants"]
  /\ UNCHANGED <<cappedVars, numRecords, dataSize, counted, dead, hint, deleter, lastTrim>>

Locks(t) ==
  /\ trim' = [trim EXCEPT ![t] = "holds"]
  /\ deleter' = [NoDeleter EXCEPT !.by = t, !.pc = "locked"]
  /\ UNCHANGED <<cappedVars, numRecords, dataSize, counted, dead, hint, lastTrim>>

Goes(t, to) ==
  /\ trim' = [trim EXCEPT ![t] = to]
  /\ UNCHANGED <<cappedVars, numRecords, dataSize, counted, dead, hint, deleter, lastTrim>>

(* lock(), with a limit on documents, or a try_lock() that succeeds. *)
TrimLock(t) == trim[t] = "wants" /\ deleter.pc = "none" /\ Locks(t)

(* try_lock() fails: someone else is deleting. *)
TryLockFails(t) ==
  /\ trim[t] = "wants" /\ deleter.pc # "none" /\ cappedMaxDocs = -1
  /\ Goes(t, "busy")

CappedMaxSizeSlack ==
  IF CappedMaxSize \div 10 < 16 * 1024 * 1024 THEN CappedMaxSize \div 10 ELSE 16 * 1024 * 1024

(* Back-pressure: a unit waits if the collection is too far over its limit... *)
BackPressure(t) ==
  /\ trim[t] = "busy"
  /\ Goes(t, IF dataSize - CappedMaxSize < CappedMaxSizeSlack THEN "done" ELSE "waits")

(* ... and deletes after the wait only if it is significantly over still.  The *)
(* mutex may not come within 200 milliseconds.                                 *)
WaitLock(t) ==
  /\ trim[t] = "waits" /\ deleter.pc = "none"
  /\ IF dataSize - CappedMaxSize < 2 * CappedMaxSizeSlack THEN Goes(t, "done") ELSE Locks(t)

WaitTimeout(t) == trim[t] = "waits" /\ deleter.pc # "none" /\ Goes(t, "done")

(* RocksRecordStoreThread::_deleteExcessDocuments *)
BackgroundStart ==
  /\ isOplog /\ deleter.pc = "none"
  /\ deleter' = [NoDeleter EXCEPT !.pc = "locked"]
  /\ UNCHANGED <<cappedVars, numRecords, dataSize, counted, trim, dead, hint, lastTrim>>

(* cappedDeleteAsNeeded_inlock reads the counters... *)
ComputeExcess ==
  /\ deleter.pc = "locked"
  /\ deleter' = [deleter EXCEPT !.pc = "excess", !.sizeOver = SizeOver(Own(deleter.by)),
                                !.docsOver = DocsOver(Own(deleter.by))]
  /\ UNCHANGED <<cappedVars, numRecords, dataSize, counted, trim, dead, hint, lastTrim>>

(* ... and places an iterator, which takes a snapshot, at the hint. *)
SeekHint ==
  /\ deleter.pc = "excess"
  /\ deleter' = [deleter EXCEPT !.pc = "scan", !.view = {loc \in Live : loc >= hint}]
  /\ UNCHANGED <<cappedVars, numRecords, dataSize, counted, trim, dead, hint, lastTrim>>

JustInserted == IF deleter.by = Background THEN MaxRecord + 1 ELSE first[deleter.by]

(* Slip: records behind an uncommitted one are deleted too. *)
MutMayDelete(loc) == loc < JustInserted

MayDelete(loc) == ~IsCappedHidden(loc) /\ loc < JustInserted

(* Slip: a record is deleted although the excess has just been saved. *)
MutScanning ==
  /\ \/ DataSize(deleter.removed) <= deleter.sizeOver
     \/ Cardinality(deleter.removed) < deleter.docsOver
  /\ Cardinality(deleter.removed) < MaxDeletes /\ deleter.view # {}

(* sizeSaved and docsRemoved are those of the records removed so far. *)
Scanning ==
  /\ \/ DataSize(deleter.removed) < deleter.sizeOver
     \/ Cardinality(deleter.removed) < deleter.docsOver
  /\ Cardinality(deleter.removed) < MaxDeletes /\ deleter.view # {}

(* One turn of the loop: the record is deleted in the deleter's batch. *)
DeleteNext ==
  /\ deleter.pc = "scan" /\ Scanning /\ MayDelete(Least(deleter.view))
  /\ deleter' = [deleter EXCEPT !.removed = @ \cup {Least(deleter.view)},
                                !.view = @ \ {Least(deleter.view)}]
  /\ lastTrim' = [newestOld |-> Least(deleter.view), by |-> deleter.by]
  /\ UNCHANGED <<cappedVars, numRecords, dataSize, counted, trim, dead, hint>>

(* The loop ends, possibly at a document of a plain collection that another    *)
(* unit is updating (registerWrite).  The counters change before the batch is  *)
(* written.                                                                    *)
ScanEnd ==
  /\ deleter.pc = "scan"
  /\ ~(Scanning /\ MayDelete(Least(deleter.view)) /\ isOplog)
  /\ deleter' = [deleter EXCEPT !.pc = IF deleter.removed = {} THEN "hint" ELSE "counted"]
  /\ numRecords' = numRecords - Cardinality(deleter.removed)
  /\ dataSize' = dataSize - DataSize(deleter.removed)
  /\ UNCHANGED <<cappedVars, counted, trim, dead, hint, lastTrim>>

(* Slip: the counters are given back, the records are not deleted. *)
MutWriteDeletes ==
  /\ deleter.pc = "counted"
  /\ deleter' = [deleter EXCEPT !.pc = "hint"]
  /\ UNCHANGED <<cappedVars, numRecords, dataSize, counted, trim, dead, hint, lastTrim>>

WriteDeletes ==
  /\ deleter.pc = "counted"
  /\ dead' = dead \cup deleter.removed
  /\ deleter' = [deleter EXCEPT !.pc = "hint"]
  /\ UNCHANGED <<cappedVars, numRecords, dataSize, counted, trim, hint, lastTrim>>

Unlocks ==
  /\ trim' = [t \in Txns |-> IF t = deleter.by THEN "done" ELSE trim[t]]
  /\ deleter' = NoDeleter
  /\ UNCHANGED <<cappedVars, numRecords, dataSize, counted, dead, lastTrim>>

(* The iterator's record becomes the hint, if it is not hidden now. *)
SetHint ==
  /\ deleter.pc = "hint"
  /\ hint' = IF deleter.view # {} /\ ~IsCappedHidden(Least(deleter.view))
               THEN Least(deleter.view) ELSE hint
  /\ Unlocks

(* aboutToDeleteCapped, which takes the document out of the indexes of a plain *)
(* collection, meets a write conflict: the trim is given up.                   *)
TrimConflict ==
  /\ deleter.pc = "scan" /\ Scanning /\ MayDelete(Least(deleter.view)) /\ ~isOplog
  /\ hint' = hint
  /\ Unlocks
-----------------------------------------------------------------------------
(* RocksRecoveryUnit::_commit adds the unit's deltas to the counters... *)
Count(t) ==
  /\ trim[t] = "done" /\ t \notin counted /\ txn[t] = "open"
  /\ counted' = counted \cup {t}
  /\ numRecords' = numRecords + Cardinality(RecordsOf(t))
  /\ dataSize' = dataSize + DataSize(RecordsOf(t))
  /\ UNCHANGED <<cappedVars, trimVars>>

(* ... and then writes its batch. *)
WriteCounted(t) == t \in counted /\ Write(t) /\ UNCHANGED deleteVars

RollbackUncounted(t) ==
  /\ t \notin counted /\ trim[t] \in {"no", "done"} /\ Rollback(t)
  /\ UNCHANGED deleteVars

TrimStep(t) ==
  \/ TrimCheck(t) \/ TrimLock(t) \/ TryLockFails(t) \/ BackPressure(t)
  \/ WaitLock(t) \/ WaitTimeout(t)

UnitStep(t) ==
  \/ Insert(t) /\ UNCHANGED deleteVars
  \/ TrimStep(t) \/ Count(t) \/ WriteCounted(t)
  \/ Commit(t) /\ UNCHANGED deleteVars

DeleterStep ==
  \/ ComputeExcess \/ SeekHint \/ DeleteNext \/ ScanEnd \/ WriteDeletes \/ SetHint \/ TrimConflict

DeleteAnyStep ==
  \/ \E t \in Txns :
       \/ \E count \in 1..MaxBatch : Register(t, count) /\ UNCHANGED deleteVars
       \/ UnitStep(t) \/ RollbackUncounted(t)
  \/ BackgroundStart \/ DeleterStep
  \/ (JournalTake \/ JournalDone \/ FlushJournal) /\ UNCHANGED deleteVars

DeleteNextState == DeleteAnyStep /\ UNCHANGED <<isOplog, cappedMaxDocs>>

DeleteSpec == DeleteInit /\ [][DeleteNextState]_<<isOplog, cappedMaxDocs, cappedVars, deleteVars>>
-----------------------------------------------------------------------------
(* cappedDeleteAsNeeded never takes a record whose commit has not been seen by *)
(* the visibility manager, and never one of the unit that is inserting.        *)
DeletesOnlyVisible ==
  \A t \in Txns : txn[t] \in {"open", "written"} =>
    RecordsOf(t) \cap (dead \cup deleter.removed) = {}

(* When no one is inserting or deleting, the counters are the number and the   *)
(* size of the records.                                                        *)
CounterIsExact ==
  (\A t \in Txns : txn[t] # "open") /\ deleter.pc = "none" =>
    numRecords = Cardinality(Live) /\ dataSize = DataSize(Live)

(* The records that stay, with those that are being written. *)
Kept ==
  (Live \cup UNION {RecordsOf(t) : t \in {u \in counted : txn[u] = "open"}}) \ deleter.removed

ExceedsCap(S) ==
  \/ DataSize(S) > CappedMaxSize
  \/ cappedMaxDocs # -1 /\ Cardinality(S) > cappedMaxDocs

(* No trim takes a record that could have stayed, whatever other units and     *)
(* trims did since its excess was computed: with the record that was taken     *)
(* last, what stays and the insert that asked for the trim (which may have     *)
(* been rolled back since) go over the limit in bytes, or that in documents.   *)
KeepsUpToCap ==
  lastTrim.newestOld # 0 => ExceedsCap(Kept \cup Own(lastTrim.by) \cup {lastTrim.newestOld})

(* What cappedDeleteAsNeeded says of a limit on documents, "has to be exact":  *)
(* with no insert under way the limit is kept.  Inserts that run at the same   *)
(* time do not see each other's records, so it is not.                         *)
MaxDocsIsExact ==
  (\A t \in Txns : txn[t] \notin {"open", "written"}) /\ cappedMaxDocs # -1 =>
    Cardinality(Live) <= cappedMaxDocs

(* What rocks_record_store.h says of _cappedOldestKeyHint: no live record is   *)
(* earlier.  A record that is would never be deleted: deletions start there.   *)
NoLiveBelowHint == \A loc \in Live : loc >= hint
=============================================================================
