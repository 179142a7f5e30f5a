------------------------- MODULE RocksTransaction --------------------------
(* The optimistic transactions of the mongo-rocks storage engine:           *)
(* RocksTransactionEngine and RocksTransaction (rocks_transaction.cpp) with *)
(* the part of RocksRecoveryUnit that drives them (rocks_recovery_unit.cpp).*)
(* The engine's mutex makes each engine call one step; a call of RocksDB    *)
(* (Write, GetSnapshot) is a step of its own, so another thread runs        *)
(* between _db->Write and _transaction.commit, and between recordSnapshotId *)
(* and GetSnapshot.                                                         *)
EXTENDS Naturals, Sequences

CONSTANTS Units,      \* recovery units, each used by one thread at a time
          Keys,       \* keys of the store
          RecordKeys, \* the keys built from RecordIds handed out by _nextId
          MaxWrites,  \* bound on the number of _db->Write calls
          NoUnit      \* "no entry" in _uncommittedTransactionId

ASSUME ConstantsAssumption ==
  /\ Keys # {}
  /\ RecordKeys \subseteq Keys
  /\ MaxWrites \in Nat
  /\ NoUnit \notin Units

VARIABLES
  latestSnapshotId,  \* _latestSnapshotId
  keyInfo,           \* _keyInfo: key -> id of its last commit, 0 if untracked
  uncommitted,       \* _uncommittedTransactionId: key -> its writer, or NoUnit
  activeSnapshots,   \* _activeSnapshots, each entry named by the unit owning it
  snapshotId,        \* _snapshotId of each unit's transaction, or NoId
  writtenKeys,       \* _writtenKeys of each unit's transaction
  pc,                \* where each unit is between two locked sections
  snapshot,          \* _snapshot: the store as the unit reads it, or NoSnapshot
  writeBatch,        \* keys with a buffered write in _writeBatch
  db,                \* RocksDB: key -> sequence number of its last write, 0 if none
  dbSeq,             \* RocksDB's sequence number
  allocated          \* record keys handed out by _nextId

engineVars == <<latestSnapshotId, keyInfo, uncommitted, activeSnapshots,
                snapshotId, writtenKeys>>
unitVars == <<pc, snapshot, writeBatch>>
dbVars == <<db, dbSeq>>
vars == <<engineVars, unitVars, dbVars, allocated>>

(* Ids start at 1, so 0 is free to stand for numeric_limits<uint64_t>::max, *)
(* the id of a transaction without a snapshot: no commit is later than it.  *)
NoId == 0
NoSnapshot == <<>>

SnapshotInitialized(u) == snapshotId[u] # NoId

IsKeyCommittedAfterSnapshot(k, id) == id # NoId /\ keyInfo[k] > id

Init ==
  /\ latestSnapshotId = 1
  /\ keyInfo = [k \in Keys |-> 0]
  /\ uncommitted = [k \in Keys |-> NoUnit]
  /\ activeSnapshots = <<>>
  /\ snapshotId = [u \in Units |-> NoId]
  /\ writtenKeys = [u \in Units |-> {}]
  /\ pc = [u \in Units |-> "open"]
  /\ snapshot = [u \in Units |-> NoSnapshot]
  /\ writeBatch = [u \in Units |-> {}]
  /\ db = [k \in Keys |-> 0]
  /\ dbSeq = 0
  /\ allocated = {}
-----------------------------------------------------------------------------
(* Slip: the front entry is popped instead of the unit's own. *)
MutPopFront(s, u) == Tail(s)

(* _activeSnapshots.erase: the list without u's entry. *)
Without(s, u) ==
  LET p == CHOOSE i \in 1..Len(s) : s[i] = u
  IN  [i \in 1..(Len(s) - 1) |-> IF i < p THEN s[i] ELSE s[i + 1]]

(* Slip: the bound is one too high. *)
MutCleanUpOneTooMany(info, id) ==
  [k \in Keys |-> IF id = NoId \/ info[k] <= id + 1 THEN 0 ELSE info[k]]

(* _cleanUpKeysCommittedBeforeSnapshot_inlock.  The code pops the front of  *)
(* _keysSortedBySnapshot, the entries of _keyInfo in commit order, while    *)
(* its id is not above the bound; NoId is the code's uint64 maximum.        *)
CleanUpKeysCommittedBeforeSnapshot(info, id) ==
  [k \in Keys |-> IF id = NoId \/ info[k] <= id THEN 0 ELSE info[k]]

(* _cleanup_inlock and _cleanupSnapshot_inlock: drop u's snapshot entry, and *)
(* if it was the oldest, forget the keys no remaining snapshot can conflict  *)
(* on.  "info" is _keyInfo as the caller has left it.                        *)
Cleanup(u, info) ==
  IF SnapshotInitialized(u)
    THEN LET rest == Without(activeSnapshots, u)
             oldest == IF rest = <<>> THEN NoId ELSE snapshotId[rest[1]]
         IN  /\ activeSnapshots' = rest
             /\ snapshotId' = [snapshotId EXCEPT ![u] = NoId]
             /\ keyInfo' = IF activeSnapshots[1] = u
                             THEN CleanUpKeysCommittedBeforeSnapshot(info, oldest)
                             ELSE info
    ELSE keyInfo' = info /\ UNCHANGED <<activeSnapshots, snapshotId>>

(* Slip: abort() does not clear _writtenKeys. *)
MutAbortForgetsWrittenKeys(u) ==
  /\ uncommitted' = [k \in Keys |-> IF k \in writtenKeys[u] THEN NoUnit
                                                            ELSE uncommitted[k]]
  /\ Cleanup(u, keyInfo)
  /\ UNCHANGED <<writtenKeys, latestSnapshotId>>

(* RocksTransaction::abort *)
TransactionAbort(u) ==
  /\ uncommitted' = [k \in Keys |-> IF k \in writtenKeys[u] THEN NoUnit
                                                            ELSE uncommitted[k]]
  /\ Cleanup(u, keyInfo)
  /\ writtenKeys' = [writtenKeys EXCEPT ![u] = {}]
  /\ UNCHANGED latestSnapshotId

(* RocksRecoveryUnit::_releaseSnapshot: the transaction is aborted only when *)
(* the unit holds a snapshot.                                                *)
ReleaseSnapshot(u) ==
  /\ IF snapshot[u] # NoSnapshot THEN TransactionAbort(u) ELSE UNCHANGED engineVars
  /\ snapshot' = [snapshot EXCEPT ![u] = NoSnapshot]
-----------------------------------------------------------------------------
(* RocksRecoveryUnit::snapshot, first half: _transaction.recordSnapshotId.  A *)
(* unit without a snapshot has no id either (PhaseInv), so the _cleanup_inlock *)
(* that recordSnapshotId starts with has nothing to drop.                      *)
RecordSnapshotId(u) ==
  /\ pc[u] = "open" /\ snapshot[u] = NoSnapshot
  /\ activeSnapshots' = Append(activeSnapshots, u)
  /\ snapshotId' = [snapshotId EXCEPT ![u] = latestSnapshotId]
  /\ pc' = [pc EXCEPT ![u] = "recorded"]
  /\ UNCHANGED <<latestSnapshotId, keyInfo, uncommitted, writtenKeys, snapshot,
                 writeBatch, dbVars, allocated>>

(* RocksRecoveryUnit::snapshot, second half: _db->GetSnapshot. *)
GetSnapshot(u) ==
  /\ pc[u] = "recorded"
  /\ snapshot' = [snapshot EXCEPT ![u] = db]
  /\ pc' = [pc EXCEPT ![u] = "open"]
  /\ UNCHANGED <<engineVars, writeBatch, dbVars, allocated>>

(* A record's key is known from the unit's own insert or from a snapshot: the *)
(* one it holds, or one it released before; other keys are built from values. *)
KnownKey(u, k) ==
  k \in RecordKeys =>
    \/ k \in writeBatch[u]
    \/ snapshot[u] # NoSnapshot /\ snapshot[u][k] # 0
    \/ snapshot[u] = NoSnapshot /\ db[k] # 0

(* RocksTransaction::registerWrite and the Put or Delete its callers follow it *)
(* with; on false they throw WriteConflictException and the unit must abort.   *)
RegisterWrite(u, k) ==
  /\ pc[u] = "open" /\ KnownKey(u, k)
  /\ IF \/ IsKeyCommittedAfterSnapshot(k, snapshotId[u])
        \/ uncommitted[k] \notin {NoUnit, u}
       THEN /\ pc' = [pc EXCEPT ![u] = "conflict"]
            /\ UNCHANGED <<uncommitted, writtenKeys, writeBatch>>
       ELSE /\ writtenKeys' = [writtenKeys EXCEPT ![u] = @ \cup {k}]
            /\ uncommitted' = [uncommitted EXCEPT ![k] = u]
            /\ writeBatch' = [writeBatch EXCEPT ![u] = @ \cup {k}]
            /\ UNCHANGED pc
  /\ UNCHANGED <<latestSnapshotId, keyInfo, activeSnapshots, snapshotId, snapshot,
                 dbVars, allocated>>

(* RocksRecordStore::insertRecord: a new RecordId is put in the batch and not *)
(* registered with the transaction engine.                                    *)
InsertRecord(u, k) ==
  /\ pc[u] = "open"
  /\ k \in RecordKeys \ allocated
  /\ allocated' = allocated \cup {k}
  /\ writeBatch' = [writeBatch EXCEPT ![u] = @ \cup {k}]
  /\ UNCHANGED <<engineVars, pc, snapshot, dbVars>>

(* RocksRecoveryUnit::_commit, first half: _db->Write. *)
CommitWrite(u) ==
  /\ pc[u] = "open" /\ writeBatch[u] # {}
  /\ dbSeq < MaxWrites
  /\ dbSeq' = dbSeq + 1
  /\ db' = [k \in Keys |-> IF k \in writeBatch[u] THEN dbSeq' ELSE db[k]]
  /\ pc' = [pc EXCEPT ![u] = "written"]
  /\ UNCHANGED <<engineVars, snapshot, writeBatch, allocated>>

(* RocksRecoveryUnit::_commit, second half: _transaction.commit, which has   *)
(* nothing to do for a unit that registered no key, and clearing the batch.  *)
CommitTransaction(u) ==
  /\ pc[u] = "written"
  /\ IF writtenKeys[u] = {}
       THEN UNCHANGED engineVars
       ELSE /\ uncommitted' = [k \in Keys |-> IF k \in writtenKeys[u] THEN NoUnit
                                                                      ELSE uncommitted[k]]
            /\ Cleanup(u, [k \in Keys |-> IF k \in writtenKeys[u]
                                            THEN latestSnapshotId + 1 ELSE keyInfo[k]])
            /\ latestSnapshotId' = latestSnapshotId + 1
            /\ writtenKeys' = [writtenKeys EXCEPT ![u] = {}]
  /\ writeBatch' = [writeBatch EXCEPT ![u] = {}]
  /\ pc' = [pc EXCEPT ![u] = "committed"]
  /\ UNCHANGED <<snapshot, dbVars, allocated>>

(* RocksRecoveryUnit::commitUnitOfWork after _commit: _releaseSnapshot. *)
EndCommit(u) ==
  /\ pc[u] = "committed"
  /\ ReleaseSnapshot(u)
  /\ pc' = [pc EXCEPT ![u] = "open"]
  /\ UNCHANGED <<writeBatch, dbVars, allocated>>

(* Slip: the snapshot is released and the batch is not cleared. *)
MutAbortKeepsBatch(u) ==
  /\ pc[u] \in {"open", "conflict"}
  /\ ReleaseSnapshot(u)
  /\ pc' = [pc EXCEPT ![u] = "open"]
  /\ UNCHANGED <<writeBatch, dbVars, allocated>>

(* abortUnitOfWork, abandonSnapshot, and commitUnitOfWork with an empty batch: *)
(* the batch is dropped and the snapshot released.                             *)
Abort(u) ==
  /\ pc[u] \in {"open", "conflict"}
  /\ ReleaseSnapshot(u)
  /\ writeBatch' = [writeBatch EXCEPT ![u] = {}]
  /\ pc' = [pc EXCEPT ![u] = "open"]
  /\ UNCHANGED <<dbVars, allocated>>

(* ~RocksRecoveryUnit and ~RocksTransaction, which aborts the transaction even *)
(* without a snapshot; the next operation starts with a fresh unit.            *)
Destroy(u) ==
  /\ pc[u] \in {"open", "conflict"}
  /\ TransactionAbort(u)
  /\ snapshot' = [snapshot EXCEPT ![u] = NoSnapshot]
  /\ writeBatch' = [writeBatch EXCEPT ![u] = {}]
  /\ pc' = [pc EXCEPT ![u] = "open"]
  /\ UNCHANGED <<dbVars, allocated>>

Next ==
  \E u \in Units :
    \/ RecordSnapshotId(u)
    \/ GetSnapshot(u)
    \/ \E k \in Keys : RegisterWrite(u, k) \/ InsertRecord(u, k)
    \/ CommitWrite(u)
    \/ CommitTransaction(u)
    \/ EndCommit(u)
    \/ Abort(u)
    \/ Destroy(u)

Spec == Init /\ [][Next]_vars
-----------------------------------------------------------------------------
(* The type of every variable of the engine, the units and the store. *)
TypeOK ==
  /\ latestSnapshotId \in Nat \ {0}
  /\ keyInfo \in [Keys -> Nat]
  /\ uncommitted \in [Keys -> Units \cup {NoUnit}]
  /\ activeSnapshots \in Seq(Units)
  /\ snapshotId \in [Units -> Nat]
  /\ writtenKeys \in [Units -> SUBSET Keys]
  /\ pc \in [Units -> {"open", "recorded", "conflict", "written", "committed"}]
  /\ snapshot \in [Units -> [Keys -> Nat] \cup {NoSnapshot}]
  /\ writeBatch \in [Units -> SUBSET Keys]
  /\ db \in [Keys -> Nat]
  /\ dbSeq \in Nat
  /\ allocated \in SUBSET RecordKeys

(* A unit that is about to install its writes reads, for each key it writes,  *)
(* the value that is in the store: nobody's update is lost, whatever the      *)
(* order of recordSnapshotId, GetSnapshot, Write and commit of all units and  *)
(* whatever keys the engine has stopped tracking.                             *)
NoLostUpdate ==
  \A u \in Units :
    pc[u] = "open" /\ snapshot[u] # NoSnapshot =>
      \A k \in writeBatch[u] : snapshot[u][k] = db[k]

(* The two invariant() calls in RocksTransaction::commit never fire: when a   *)
(* unit reaches it, no key it wrote was committed by another unit after its   *)
(* snapshot, and it is still the registered writer of every one of them.      *)
CommitInvariants ==
  \A u \in Units :
    pc[u] = "written" =>
      \A k \in writtenKeys[u] :
        /\ ~IsKeyCommittedAfterSnapshot(k, snapshotId[u])
        /\ uncommitted[k] = u

(* "this list is sorted" (rocks_transaction.h): _activeSnapshots holds one     *)
(* entry for every unit with a snapshot id, oldest id first.  The front is     *)
(* what _cleanupSnapshot_inlock takes for the oldest snapshot alive.           *)
ActiveSnapshotsSorted ==
  /\ \A i, j \in 1..Len(activeSnapshots) :
       i < j => /\ activeSnapshots[i] # activeSnapshots[j]
                /\ snapshotId[activeSnapshots[i]] <= snapshotId[activeSnapshots[j]]
  /\ \A u \in Units :
       SnapshotInitialized(u) <=> \E i \in 1..Len(activeSnapshots) : activeSnapshots[i] = u
-----------------------------------------------------------------------------
(* The units' view of the store as SnapshotIsolation sees it: a unit is done   *)
(* with its view and its writes as soon as _db->Write has installed them.      *)
Installed(u) == pc[u] \in {"written", "committed"}

Abstract == INSTANCE SnapshotIsolation
  WITH store <- db,
       version <- dbSeq,
       view <- [u \in Units |-> IF Installed(u) THEN NoSnapshot ELSE snapshot[u]],
       writeSet <- [u \in Units |-> IF Installed(u) THEN {} ELSE writeBatch[u]]

(* Every behaviour of the engine is one of snapshot isolation with first       *)
(* committer wins, _db->Write being the commit.                                *)
ImplementsSnapshotIsolation == Abstract!Spec
=============================================================================
