-------------------------- MODULE CappedVisibility --------------------------
(* CappedVisibilityManager and the cursors of capped collections and of the   *)
(* oplog (db/modules/rocks/src/rocks_record_store.cpp).  Transactions are      *)
(* given increasing record ids and commit in any order; a forward cursor must  *)
(* not step over a record that may still appear, and a crash must not leave a  *)
(* visible record behind without the ones before it.  Each section under       *)
(* _uncommittedRecordIdsMutex is one step.  RocksDB is its log: writes take    *)
(* effect in log order and a crash loses any part of the log after the last    *)
(* sync.                                                                       *)
EXTENDS Integers, FiniteSets

CONSTANTS Txns,      \* units of work, each inserting one batch of records
          Readers,   \* forward cursors
          Waiters,   \* callers of waitForAllEarlierOplogWritesToBeVisible
          MaxBatch,  \* bound: records of one unit of work
          MaxRecord  \* bound: record ids

ASSUME CappedAssumption ==
  /\ MaxBatch \in Nat
  /\ MaxRecord \in Nat

VARIABLES
  isOplog,               \* _isOplog: the oplog, or another capped collection
  uncommittedRecords,    \* _uncommittedRecords; its front is its least element
  highestSeen,           \* _oplog_highestSeen
  opsWaitingForJournal,  \* _opsWaitingForJournal
  opsAboutToBeJournaled, \* the journal thread's local of that name
  journalThread,         \* where the journal thread is
  shuttingDown,          \* _shuttingDown
  txn,                   \* where each unit of work is
  first, last,           \* its record ids
  inserted,              \* the last of them it has put into its batch
  logPos, logEnd,        \* RocksDB: position of each unit's write, 0 if none
  durable, syncFrom,     \* RocksDB: what is synced, what the running sync covers
  reader,                \* each cursor: pc, _readUntilForOplog, snapshot, _lastLoc
  waiter,                \* each waiter: pc, waitingFor, units done at the call
  nextId                 \* the next record id

managerVars == <<uncommittedRecords, highestSeen, opsWaitingForJournal,
                 opsAboutToBeJournaled, journalThread, shuttingDown>>
txnVars == <<txn, first, last, inserted, nextId>>
logVars == <<logPos, logEnd, durable, syncFrom>>
cappedVars == <<managerVars, txnVars, logVars, reader, waiter>>

Least(S) == CHOOSE x \in S : \A y \in S : x <= y
Greatest(S) == CHOOSE x \in S : \A y \in S : x >= y

ClosedCursor == [pc |-> "closed", readTill |-> 0, snapshot |-> {}, lastLoc |-> 0]
NotWaiting == [pc |-> "idle", waitingFor |-> 0, done |-> {}]

Init ==
  /\ isOplog \in BOOLEAN
  /\ uncommittedRecords = {} /\ highestSeen = 0
  /\ opsWaitingForJournal = {} /\ opsAboutToBeJournaled = {}
  /\ journalThread = "awake" /\ shuttingDown = FALSE
  /\ txn = [t \in Txns |-> "idle"]
  /\ first = [t \in Txns |-> 0] /\ last = [t \in Txns |-> 0]
  /\ inserted = [t \in Txns |-> 0]
  /\ logPos = [t \in Txns |-> 0] /\ logEnd = 0 /\ durable = 0 /\ syncFrom = 0
  /\ reader = [r \in Readers |-> ClosedCursor]
  /\ waiter = [w \in Waiters |-> NotWaiting]
  /\ nextId = 1
-----------------------------------------------------------------------------
(* addUncommittedRecord for the oplog, whose ids are handed out in order under *)
(* newOpMutex and of which only the first of a batch is registered, and        *)
(* getNextAndAddUncommittedRecord for other capped collections.                *)
Register(t, count) ==
  /\ txn[t] = "idle" /\ ~shuttingDown
  /\ isOplog \/ count = 1
  /\ nextId + count - 1 <= MaxRecord
  /\ txn' = [txn EXCEPT ![t] = "open"]
  /\ first' = [first EXCEPT ![t] = nextId]
  /\ last' = [last EXCEPT ![t] = nextId + count - 1]
  /\ inserted' = [inserted EXCEPT ![t] = nextId - 1]
  /\ nextId' = nextId + count
  /\ uncommittedRecords' = uncommittedRecords \cup {nextId}
  /\ highestSeen' = nextId
  /\ UNCHANGED <<opsWaitingForJournal, opsAboutToBeJournaled, journalThread, shuttingDown,
                 logVars, reader, waiter>>

(* insertRecord: the next record of the batch, and updateHighestSeen. *)
Insert(t) ==
  /\ txn[t] = "open" /\ inserted[t] < last[t]
  /\ inserted' = [inserted EXCEPT ![t] = @ + 1]
  /\ highestSeen' = IF isOplog /\ inserted[t] + 1 > highestSeen
                      THEN inserted[t] + 1 ELSE highestSeen
  /\ UNCHANGED <<uncommittedRecords, opsWaitingForJournal, opsAboutToBeJournaled, journalThread,
                 shuttingDown, txn, first, last, nextId, logVars, reader, waiter>>

(* _db->Write of the unit's batch. *)
Write(t) ==
  /\ txn[t] = "open" /\ inserted[t] = last[t]
  /\ txn' = [txn EXCEPT ![t] = "written"]
  /\ logEnd' = logEnd + 1
  /\ logPos' = [logPos EXCEPT ![t] = logEnd + 1]
  /\ UNCHANGED <<managerVars, first, last, inserted, nextId, durable, syncFrom, reader, waiter>>

(* _opsBecameVisibleCV.notify_all() *)
NotifyVisible ==
  waiter' = [w \in Waiters |-> IF waiter[w].pc = "asleep"
                                 THEN [waiter[w] EXCEPT !.pc = "awake"] ELSE waiter[w]]

(* Slip: the record is made visible although its removal is deferred. *)
MutDeferErases(t) ==
  /\ opsWaitingForJournal' = opsWaitingForJournal \cup {first[t]}
  /\ journalThread' = IF opsWaitingForJournal = {} /\ journalThread = "asleep"
                        THEN "awake" ELSE journalThread
  /\ uncommittedRecords' = uncommittedRecords \ {first[t]}
  /\ UNCHANGED waiter

(* dealtWithCappedRecord, when removal waits until the record is durable. *)
Defer(t) ==
  /\ opsWaitingForJournal' = opsWaitingForJournal \cup {first[t]}
  /\ journalThread' = IF opsWaitingForJournal = {} /\ journalThread = "asleep"
                        THEN "awake" ELSE journalThread
  /\ UNCHANGED <<uncommittedRecords, waiter>>

(* Slip: the waiters are not notified. *)
MutMakeVisibleQuietly(t) ==
  /\ uncommittedRecords' = uncommittedRecords \ {first[t]}
  /\ UNCHANGED <<opsWaitingForJournal, journalThread, waiter>>

(* dealtWithCappedRecord, when the record becomes visible at once. *)
MakeVisible(t) ==
  /\ uncommittedRecords' = uncommittedRecords \ {first[t]}
  /\ NotifyVisible
  /\ UNCHANGED <<opsWaitingForJournal, journalThread>>

(* Slip: no record waits for the journal. *)
MutCommitVisible(t) ==
  /\ txn[t] = "written"
  /\ txn' = [txn EXCEPT ![t] = "done"]
  /\ MakeVisible(t)
  /\ UNCHANGED <<highestSeen, opsAboutToBeJournaled, shuttingDown, first, last, inserted,
                 nextId, logVars, reader>>

(* CappedInsertChange::commit: only the newest record of the oplog need not   *)
(* wait for the journal.                                                      *)
Commit(t) ==
  /\ txn[t] = "written"
  /\ txn' = [txn EXCEPT ![t] = "done"]
  /\ IF isOplog /\ first[t] # highestSeen THEN Defer(t) ELSE MakeVisible(t)
  /\ UNCHANGED <<highestSeen, opsAboutToBeJournaled, shuttingDown, first, last, inserted,
                 nextId, logVars, reader>>

(* CappedInsertChange::rollback *)
Rollback(t) ==
  /\ txn[t] = "open"
  /\ txn' = [txn EXCEPT ![t] = "aborted"]
  /\ MakeVisible(t)
  /\ UNCHANGED <<highestSeen, opsAboutToBeJournaled, shuttingDown, first, last, inserted,
                 nextId, logVars, reader>>
-----------------------------------------------------------------------------
(* oplogJournalThreadLoop up to waitUntilDurable: it stops, sleeps, or takes   *)
(* the waiting records.  The sync covers at least what is in the log now.      *)
JournalTake ==
  /\ isOplog /\ journalThread = "awake"
  /\ IF shuttingDown \/ opsWaitingForJournal = {}
       THEN /\ journalThread' = IF shuttingDown THEN "stopped" ELSE "asleep"
            /\ UNCHANGED <<opsWaitingForJournal, opsAboutToBeJournaled, syncFrom>>
       ELSE /\ journalThread' = "syncing"
            /\ opsAboutToBeJournaled' = opsWaitingForJournal
            /\ opsWaitingForJournal' = {}
            /\ syncFrom' = logEnd
  /\ UNCHANGED <<uncommittedRecords, highestSeen, shuttingDown, txnVars, logPos, logEnd,
                 durable, reader, waiter>>

(* The sync has returned: the records become visible. *)
JournalDone ==
  /\ journalThread = "syncing"
  /\ journalThread' = "awake"
  /\ durable' = IF syncFrom > durable THEN syncFrom ELSE durable
  /\ uncommittedRecords' = uncommittedRecords \ opsAboutToBeJournaled
  /\ opsAboutToBeJournaled' = {}
  /\ NotifyVisible
  /\ UNCHANGED <<highestSeen, opsWaitingForJournal, shuttingDown, txnVars, logPos, logEnd,
                 syncFrom, reader>>

(* RocksJournalFlusher: everything written is synced from time to time. *)
FlushJournal ==
  /\ durable' = logEnd
  /\ UNCHANGED <<managerVars, txnVars, logPos, logEnd, syncFrom, reader, waiter>>

(* joinOplogJournalThreadLoop, from the destructor: nobody uses the store. *)
JoinJournalThread ==
  /\ \A t \in Txns : txn[t] \notin {"open", "written"}
  /\ \A r \in Readers : reader[r].pc = "closed"
  /\ \A w \in Waiters : waiter[w].pc \in {"idle", "returned"}
  /\ shuttingDown' = TRUE
  /\ journalThread' = IF journalThread = "asleep" THEN "awake" ELSE journalThread
  /\ UNCHANGED <<uncommittedRecords, highestSeen, opsWaitingForJournal, opsAboutToBeJournaled,
                 txnVars, logVars, reader, waiter>>
-----------------------------------------------------------------------------
(* isCappedHidden *)
IsCappedHidden(loc) == uncommittedRecords # {} /\ Least(uncommittedRecords) <= loc

(* Slip: records still uncommitted are not considered. *)
MutStartHackIgnoresUncommitted == highestSeen

(* CappedVisibilityManager::oplogStartHack *)
OplogStartHack ==
  IF uncommittedRecords = {} THEN highestSeen ELSE Least(uncommittedRecords)

(* getCursor: the limit of an oplog cursor is read before its snapshot.  A     *)
(* tailing reader opens a new cursor where the last one ended.                 *)
OpenCursor(r) ==
  /\ reader[r].pc \in {"closed", "eof"} /\ ~shuttingDown
  /\ reader' = [reader EXCEPT ![r].pc = "opened",
                              ![r].readTill = IF isOplog THEN OplogStartHack ELSE 0]
  /\ UNCHANGED <<managerVars, txnVars, logVars, waiter>>

(* The constructor of Cursor, and restore() after a yield, take a snapshot. *)
TakeSnapshot(r) ==
  /\ reader[r].pc \in {"opened", "reading"}
  /\ reader' = [reader EXCEPT ![r].pc = "reading",
                              ![r].snapshot = {t \in Txns : logPos[t] # 0}]
  /\ UNCHANGED <<managerVars, txnVars, logVars, waiter>>

RecordsOf(t) == first[t]..last[t]
Ahead(r) == {loc \in UNION {RecordsOf(t) : t \in reader[r].snapshot} : loc > reader[r].lastLoc}

(* Cursor::curr on a forward cursor. *)
Visible(r, loc) ==
  IF isOplog
    THEN \/ loc < reader[r].readTill
         \/ loc = reader[r].readTill /\ ~IsCappedHidden(loc)
    ELSE ~IsCappedHidden(loc)

(* Cursor::next: the next record of the snapshot, or the end.  lastLoc is the  *)
(* last record that was returned.                                              *)
NextRecord(r) ==
  /\ reader[r].pc = "reading"
  /\ IF Ahead(r) # {} /\ Visible(r, Least(Ahead(r)))
       THEN reader' = [reader EXCEPT ![r].lastLoc = Least(Ahead(r))]
       ELSE reader' = [reader EXCEPT ![r].pc = "eof", ![r].snapshot = {}]
  /\ UNCHANGED <<managerVars, txnVars, logVars, waiter>>

CloseCursor(r) ==
  /\ reader[r].pc # "closed"
  /\ reader' = [reader EXCEPT ![r] = ClosedCursor]
  /\ UNCHANGED <<managerVars, txnVars, logVars, waiter>>
-----------------------------------------------------------------------------
(* Slip: records that are committed but wait for the journal are not waited for. *)
MutAllEarlierVisible(seen) ==
  \A loc \in uncommittedRecords \ (opsWaitingForJournal \cup opsAboutToBeJournaled) : loc > seen

(* The predicate of waitForAllEarlierOplogWritesToBeVisible. *)
AllEarlierVisible(seen) == uncommittedRecords = {} \/ Least(uncommittedRecords) > seen

StartWaiting(w) ==
  /\ isOplog /\ waiter[w].pc \in {"idle", "returned"} /\ ~shuttingDown
  /\ waiter' = [waiter EXCEPT ![w] =
                  [pc |-> IF AllEarlierVisible(highestSeen) THEN "returned" ELSE "asleep",
                   waitingFor |-> highestSeen,
                   done |-> {t \in Txns : txn[t] = "done"}]]
  /\ UNCHANGED <<managerVars, txnVars, logVars, reader>>

WakeUp(w) ==
  /\ waiter[w].pc = "awake"
  /\ waiter' = [waiter EXCEPT ![w].pc =
                  IF AllEarlierVisible(waiter[w].waitingFor) THEN "returned" ELSE "asleep"]
  /\ UNCHANGED <<managerVars, txnVars, logVars, reader>>
-----------------------------------------------------------------------------
(* The server stops, cleanly or not, keeping the first n writes of the log,    *)
(* and starts again: the constructor of RocksRecordStore finds the last record.*)
Restart(n) ==
  LET kept == {t \in Txns : logPos[t] # 0 /\ logPos[t] <= n}
      Keep(f) == [t \in Txns |-> IF t \in kept THEN f[t] ELSE 0]
  IN  /\ n \in durable..logEnd
      /\ logPos' = Keep(logPos) /\ logEnd' = n /\ durable' = n /\ syncFrom' = 0
      /\ first' = Keep(first) /\ last' = Keep(last) /\ inserted' = Keep(inserted)
      /\ txn' = [t \in Txns |-> IF t \in kept THEN "done"
                                  ELSE IF txn[t] = "idle" THEN "idle" ELSE "lost"]
      /\ highestSeen' = IF kept = {} THEN 0 ELSE Greatest({last[t] : t \in kept})
      /\ nextId' = highestSeen' + 1
      /\ uncommittedRecords' = {} /\ opsWaitingForJournal' = {} /\ opsAboutToBeJournaled' = {}
      /\ journalThread' = "awake" /\ shuttingDown' = FALSE
      /\ reader' = [r \in Readers |-> ClosedCursor]
      /\ waiter' = [w \in Waiters |-> NotWaiting]

TxnStep(t) == Insert(t) \/ Write(t) \/ Commit(t)

Step ==
  \/ \E t \in Txns : (\E count \in 1..MaxBatch : Register(t, count)) \/ TxnStep(t) \/ Rollback(t)
  \/ JournalTake \/ JournalDone \/ FlushJournal \/ JoinJournalThread
  \/ \E r \in Readers : OpenCursor(r) \/ TakeSnapshot(r) \/ NextRecord(r) \/ CloseCursor(r)
  \/ \E w \in Waiters : StartWaiting(w) \/ WakeUp(w)
  \/ \E n \in durable..logEnd : Restart(n)

Next == Step /\ UNCHANGED isOplog

Spec == Init /\ [][Next]_<<isOplog, cappedVars>>

(* Units of work come to an end, and the threads run. *)
LiveSpec ==
  /\ Spec
  /\ \A t \in Txns : WF_cappedVars(TxnStep(t))
  /\ WF_cappedVars(JournalTake) /\ WF_cappedVars(JournalDone)
  /\ \A w \in Waiters : WF_cappedVars(WakeUp(w))
-----------------------------------------------------------------------------
(* The type of every variable. *)
TypeOK ==
  /\ isOplog \in BOOLEAN
  /\ uncommittedRecords \subseteq Nat /\ highestSeen \in Nat
  /\ opsWaitingForJournal \subseteq Nat /\ opsAboutToBeJournaled \subseteq Nat
  /\ journalThread \in {"asleep", "awake", "syncing", "stopped"} /\ shuttingDown \in BOOLEAN
  /\ txn \in [Txns -> {"idle", "open", "written", "done", "aborted", "lost"}]
  /\ first \in [Txns -> Nat] /\ last \in [Txns -> Nat] /\ inserted \in [Txns -> Nat]
  /\ logPos \in [Txns -> Nat] /\ logEnd \in Nat /\ durable \in Nat /\ syncFrom \in Nat
  /\ reader \in [Readers -> [pc : {"closed", "opened", "reading", "eof"}, readTill : Nat,
                             snapshot : SUBSET Txns, lastLoc : Nat]]
  /\ waiter \in [Waiters -> [pc : {"idle", "asleep", "awake", "returned"}, waitingFor : Nat,
                             done : SUBSET Txns]]
  /\ nextId \in Nat

(* An oplog reader never steps over a record that is there, or may still       *)
(* appear, below the one it was given: it has a snapshot that holds every unit *)
(* of work with smaller ids, but for those that were rolled back.              *)
ReaderSeesNoHole ==
  isOplog => \A r \in Readers : reader[r].pc = "reading" =>
    \A t \in Txns : txn[t] \in {"open", "written", "done"} /\ first[t] <= reader[r].lastLoc =>
      t \in reader[r].snapshot

(* Whatever part of the log a crash loses, a record a reader could have seen   *)
(* does not survive without all those before it.                               *)
SurvivesInOrder ==
  isOplog => \A n \in durable..logEnd : \A t, u \in Txns :
    /\ logPos[t] # 0 /\ logPos[t] <= n /\ ~IsCappedHidden(first[t])
    /\ logPos[u] # 0 /\ first[u] < first[t]
    => logPos[u] <= n

(* The iterators handed to the journal thread are those of committed records   *)
(* still in the list, each in one place: none is erased twice.                 *)
ErasedOnce ==
  /\ opsWaitingForJournal \cup opsAboutToBeJournaled \subseteq uncommittedRecords
  /\ opsWaitingForJournal \cap opsAboutToBeJournaled = {}
  /\ \A t \in Txns : txn[t] \in {"open", "written"} =>
       /\ first[t] \in uncommittedRecords
       /\ first[t] \notin opsWaitingForJournal \cup opsAboutToBeJournaled

(* Once the wait is over, every unit of work that was done when it began is    *)
(* visible to a scan.                                                          *)
WaitedForIsVisible ==
  \A w \in Waiters : waiter[w].pc = "returned" =>
    \A t \in waiter[w].done : ~IsCappedHidden(last[t])

(* waitForAllEarlierOplogWritesToBeVisible returns: no wake-up is lost, between *)
(* committers, the journal thread and the waiter.                               *)
EveryWaitEnds == \A w \in Waiters : waiter[w].pc = "asleep" ~> waiter[w].pc # "asleep"
                                                              /\ waiter[w].pc # "awake"

(* What record_store.h asks of the forward cursors of any capped collection: a *)
(* document that is in the snapshot, but after one that is not yet committed   *)
(* there, is not returned.                                                     *)
NextReturnsNoInvisible ==
  \A r \in Readers : reader[r].pc = "reading" =>
    \A t \in Txns \ reader[r].snapshot :
      txn[t] \in {"open", "written", "done"} => reader[r].lastLoc < first[t]
=============================================================================
