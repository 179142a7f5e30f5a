----------------------------- MODULE RocksEngine ----------------------------
(* What mongo-rocks keeps in RocksDB about itself, across crashes: the prefix  *)
(* of every ident (a collection or an index), the prefixes whose data are to   *)
(* be deleted, and the number of records of a collection                       *)
(* (db/modules/rocks/src: rocks_engine.cpp, rocks_counter_manager.cpp, commits *)
(* of rocks_recovery_unit.cpp).  Idents are created and dropped outside units  *)
(* of work, by writes of their own; a compaction filter deletes what has a     *)
(* dropped prefix; the largest prefix in use is found again at a restart.      *)
(*                                                                             *)
(* RocksDB is the sequence of contents its log can bring back: a crash keeps   *)
(* any of them, from the last one synced on, and a compaction is durable at    *)
(* once, for data that are.                                                    *)
EXTENDS Integers, Sequences, FiniteSets

CONSTANTS Idents, Oplog,   \* Oplog: the ident of the oplog, or none of them
          Units,           \* units of work, each inserting one record
          kSyncEvery,      \* of RocksCounterManager
          MaxPrefix, MaxRestarts,  \* bounds
          MaxLog           \* bound: contents in the log, one more than unsynced writes

ASSUME EngineAssumption ==
  /\ kSyncEvery \in Nat \ {0} /\ MaxPrefix \in Nat \ {0} /\ MaxRestarts \in Nat /\ MaxLog \in Nat
  /\ IsFiniteSet(Units) /\ "key" \notin Units

Prefixes == 1..MaxPrefix
Greatest(S) == CHOOSE x \in S : \A y \in S : x >= y

VARIABLES
  log,              \* RocksDB: the contents a crash can leave, oldest first
  identMap,         \* _identMap: the prefix of each ident, 0 if it has none
  maxPrefix,        \* _maxPrefix
  droppedPrefixes,  \* _droppedPrefixes
  ddl,              \* where the creation or the drop of each ident is
  crashSafe,        \* RocksCounterManager::_crashSafe
  counters,         \* its _counters, NoCount where there is none
  syncCounter,      \* its _syncCounter
  syncing,          \* the counters sync() is about to write, none if not _syncing
  numRecords,       \* _numRecords of each record store
  unit,             \* each unit of work: where it is, its ident, its counter
  restarts,
  overlapped,       \* history: two units of work, or one and a sync of the
                    \* counters, were committing at the same time
  crashed           \* history: there was a crash

memory == <<identMap, maxPrefix, droppedPrefixes>>
counterVars == <<counters, syncCounter, syncing, numRecords>>
history == <<restarts, overlapped, crashed>>
vars == <<log, memory, ddl, crashSafe, counterVars, unit, history>>

NoCount == -1
NoCounters == [i \in Idents |-> NoCount]
NoUnit == [pc |-> "idle", ident |-> Oplog, value |-> 0, puts |-> NoCounters]

(* The contents of the database: metadata, dropped-prefix markers, the keys    *)
(* under each prefix with the ident that wrote them, stored counters.          *)
Empty == [meta |-> [i \in Idents |-> 0], marks |-> {}, data |-> [p \in Prefixes |-> {}],
          stored |-> [i \in Idents |-> 0]]

db == log[Len(log)]

Init ==
  /\ log = <<Empty>>
  /\ identMap = [i \in Idents |-> 0] /\ maxPrefix = 1 /\ droppedPrefixes = {}
  /\ ddl = [i \in Idents |-> "no"]
  /\ crashSafe \in BOOLEAN
  /\ counters = NoCounters /\ syncCounter = 0 /\ syncing = NoCounters
  /\ numRecords = [i \in Idents |-> 0]
  /\ unit = [u \in Units |-> NoUnit]
  /\ restarts = 0 /\ overlapped = FALSE /\ crashed = FALSE
-----------------------------------------------------------------------------
(* A write to the log, synced or not, and a sync of what is in it. *)
Write(content) == Len(log) < MaxLog /\ log' = Append(log, content)
WriteSynced(content) == log' = <<content>>

(* RocksJournalFlusher, waitUntilDurable, and the flush of a memtable. *)
SyncLog ==
  /\ Len(log) > 1
  /\ log' = <<db>>
  /\ UNCHANGED <<memory, ddl, crashSafe, counterVars, unit, history>>

(* The counters of a batch, among those stored. *)
Stored(content, puts) ==
  [content EXCEPT !.stored = [i \in Idents |-> IF puts[i] = NoCount THEN @[i] ELSE puts[i]]]
Added(content, p, key) == [content EXCEPT !.data[p] = @ \cup {key}]
-----------------------------------------------------------------------------
(* The oplog is created with every lock held. *)
MayCreate(i) ==
  /\ i = Oplog => \A j \in Idents : ddl[j] \in {"no", "gone"}
  /\ Oplog \in Idents => ddl[Oplog] \notin {"meta", "key", "tracker", "trackerKey"}

(* _createIdent, under _identMapMutex; it does nothing for an ident it has. *)
CreateIdent(i) ==
  /\ ddl[i] = "no" /\ identMap[i] = 0 /\ MayCreate(i)
  /\ maxPrefix + 1 < MaxPrefix
  /\ maxPrefix' = maxPrefix + 1
  /\ identMap' = [identMap EXCEPT ![i] = maxPrefix + 1]
  /\ ddl' = [ddl EXCEPT ![i] = "meta"]
  /\ UNCHANGED <<log, droppedPrefixes, crashSafe, counterVars, unit, history>>

(* It stores the metadata, and after that a key with the prefix. *)
PutMetadata(i) ==
  /\ ddl[i] = "meta"
  /\ Write([db EXCEPT !.meta[i] = identMap[i]])
  /\ ddl' = [ddl EXCEPT ![i] = "key"]
  /\ UNCHANGED <<memory, crashSafe, counterVars, unit, history>>

PutPrefixKey(i) ==
  /\ ddl[i] = "key"
  /\ Write(Added(db, identMap[i], <<i, "key">>))
  /\ ddl' = [ddl EXCEPT ![i] = IF i = Oplog THEN "tracker" ELSE "no"]
  /\ UNCHANGED <<memory, crashSafe, counterVars, unit, history>>

(* createRecordStore of the oplog takes a second prefix, and stores its key. *)
ReserveTracker(i) ==
  /\ ddl[i] = "tracker"
  /\ maxPrefix' = maxPrefix + 1
  /\ ddl' = [ddl EXCEPT ![i] = "trackerKey"]
  /\ UNCHANGED <<log, identMap, droppedPrefixes, crashSafe, counterVars, unit, history>>

PutTrackerKey(i) ==
  /\ ddl[i] = "trackerKey"
  /\ Write(Added(db, maxPrefix, <<i, "key">>))
  /\ ddl' = [ddl EXCEPT ![i] = "no"]
  /\ UNCHANGED <<memory, crashSafe, counterVars, unit, history>>

PrefixesOf(i) ==
  IF identMap[i] = 0 THEN {} ELSE {identMap[i]} \cup IF i = Oplog THEN {identMap[i] + 1} ELSE {}

(* Slip: the keys of the oplog's tracker are forgotten. *)
MutPrefixesToDrop(i) == {identMap[i]}

PrefixesToDrop(i) == PrefixesOf(i)

Unused(i) == \A u \in Units : unit[u].pc \in {"added", "loaded", "updated"} => unit[u].ident # i

(* Slip: the write is not synced. *)
MutDropIdent(i) ==
  /\ ddl[i] = "no" /\ identMap[i] # 0 /\ Unused(i)
  /\ Write([db EXCEPT !.meta[i] = 0, !.marks = @ \cup PrefixesToDrop(i)])
  /\ ddl' = [ddl EXCEPT ![i] = "drop"]
  /\ UNCHANGED <<memory, crashSafe, counterVars, unit, history>>

(* dropIdent, with the ident locked: metadata and markers in one synced write, *)
DropIdent(i) ==
  /\ ddl[i] = "no" /\ identMap[i] # 0 /\ Unused(i)
  /\ WriteSynced([db EXCEPT !.meta[i] = 0, !.marks = @ \cup PrefixesToDrop(i)])
  /\ ddl' = [ddl EXCEPT ![i] = "drop"]
  /\ UNCHANGED <<memory, crashSafe, counterVars, unit, history>>

(* then the compaction filter is told; the record store is gone. *)
DropFinish(i) ==
  /\ ddl[i] = "drop"
  /\ droppedPrefixes' = droppedPrefixes \cup PrefixesToDrop(i)
  /\ identMap' = [identMap EXCEPT ![i] = 0]
  /\ ddl' = [ddl EXCEPT ![i] = "gone"]
  /\ numRecords' = [numRecords EXCEPT ![i] = 0]
  /\ UNCHANGED <<log, maxPrefix, crashSafe, counters, syncCounter, syncing, unit, history>>

(* A compaction with PrefixDeletingCompactionFilter meets a durable key of a   *)
(* dropped prefix.                                                             *)
Compact(p, key) ==
  /\ p \in droppedPrefixes
  /\ log' = [k \in DOMAIN log |-> [log[k] EXCEPT !.data[p] = @ \ {key}]]
  /\ UNCHANGED <<memory, ddl, crashSafe, counterVars, unit, history>>
-----------------------------------------------------------------------------
Committing == \E u \in Units : unit[u].pc \in {"added", "loaded", "updated"}

(* RocksRecoveryUnit::_commit of a unit that inserted a record: the counter    *)
(* of the record store, which lives in memory, is increased and read...        *)
AddDelta(u, i) ==
  /\ unit[u].pc = "idle" /\ identMap[i] # 0 /\ ddl[i] = "no"
  /\ numRecords' = [numRecords EXCEPT ![i] = @ + 1]
  /\ unit' = [unit EXCEPT ![u] = [NoUnit EXCEPT !.pc = "added", !.ident = i]]
  /\ overlapped' = (overlapped \/ Committing \/ syncing # NoCounters)
  /\ UNCHANGED <<log, memory, ddl, crashSafe, counters, syncCounter, syncing, restarts, crashed>>

LoadValue(u) ==
  /\ unit[u].pc = "added"
  /\ unit' = [unit EXCEPT ![u].pc = "loaded", ![u].value = numRecords[unit[u].ident]]
  /\ UNCHANGED <<log, memory, ddl, crashSafe, counterVars, history>>

(* ... and RocksCounterManager::updateCounter puts it into the unit's batch,   *)
(* or remembers it and puts all it has into the batch from time to time.       *)
UpdateCounter(u) ==
  LET mine == [counters EXCEPT ![unit[u].ident] = unit[u].value]
      due == syncing = NoCounters /\ syncCounter + 1 >= kSyncEvery
      puts == IF crashSafe THEN [NoCounters EXCEPT ![unit[u].ident] = unit[u].value]
                           ELSE IF due THEN mine ELSE NoCounters
  IN  /\ unit[u].pc = "loaded"
      /\ unit' = [unit EXCEPT ![u].pc = "updated", ![u].puts = puts]
      /\ IF crashSafe
           THEN UNCHANGED <<counters, syncCounter>>
           ELSE /\ counters' = IF due THEN NoCounters ELSE mine
                /\ syncCounter' = IF due THEN 0 ELSE syncCounter + 1
      /\ UNCHANGED <<log, memory, ddl, crashSafe, syncing, numRecords, history>>

(* The batch is written. *)
WriteBatch(u) ==
  /\ unit[u].pc = "updated"
  /\ Write(Stored(Added(db, identMap[unit[u].ident], <<unit[u].ident, u>>), unit[u].puts))
  /\ unit' = [unit EXCEPT ![u] = [NoUnit EXCEPT !.pc = "done"]]
  /\ UNCHANGED <<memory, ddl, crashSafe, counterVars, history>>

(* RocksCounterManager::sync, from flushAllFiles: the counters leave memory... *)
SyncStart ==
  /\ syncing = NoCounters /\ counters # NoCounters
  /\ syncing' = counters /\ counters' = NoCounters /\ syncCounter' = 0
  /\ overlapped' = (overlapped \/ Committing)
  /\ UNCHANGED <<log, memory, ddl, crashSafe, numRecords, unit, restarts, crashed>>

(* ... before they are written. *)
SyncWrite ==
  /\ syncing # NoCounters
  /\ Write(Stored(db, syncing))
  /\ syncing' = NoCounters
  /\ UNCHANGED <<memory, ddl, crashSafe, counters, syncCounter, numRecords, unit, history>>
-----------------------------------------------------------------------------
(* Slip: only the metadata are looked at. *)
MutLargestPrefix(content) == Greatest({0} \cup {content.meta[i] : i \in Idents})

(* The largest prefix with a key in the database, or in its metadata. *)
LargestPrefix(content) ==
  Greatest({0} \cup {p \in Prefixes : content.data[p] # {}} \cup {content.meta[i] : i \in Idents})

(* The constructor of a record store, for every ident there is, loads its      *)
(* counter.                                                                    *)
LoadCounters(content) ==
  [i \in Idents |-> IF content.meta[i] = 0 THEN 0 ELSE content.stored[i]]

(* The constructor of RocksEngine: prefixes are found, markers whose data are  *)
(* gone are removed, the others go to the compaction filter.                   *)
Open(content) ==
  LET alive == {p \in content.marks : content.data[p] # {}}
  IN  /\ log' = IF alive = content.marks THEN <<content>>
                ELSE <<content, [content EXCEPT !.marks = alive]>>
      /\ identMap' = content.meta
      /\ maxPrefix' = LargestPrefix(content) + 1
      /\ droppedPrefixes' = alive
      /\ ddl' = [i \in Idents |-> IF content.meta[i] = 0 /\ ddl[i] \in {"drop", "gone"}
                                    THEN "gone" ELSE "no"]
      /\ numRecords' = LoadCounters(content)
      /\ counters' = NoCounters /\ syncCounter' = 0 /\ syncing' = NoCounters
      /\ restarts' = restarts + 1

(* A unit of work whose record is not in the database never happened. *)
Surviving(content) ==
  [u \in Units |-> IF \E p \in Prefixes : \E i \in Idents : <<i, u>> \in content.data[p]
                     THEN unit[u] ELSE NoUnit]

Crash ==
  /\ restarts < MaxRestarts
  /\ \E k \in DOMAIN log : Open(log[k]) /\ unit' = Surviving(log[k])
  /\ crashed' = TRUE
  /\ UNCHANGED <<crashSafe, overlapped>>

(* Slip: the counters in memory are not written. *)
MutCleanRestart ==
  /\ restarts < MaxRestarts
  /\ \A i \in Idents : ddl[i] \in {"no", "gone"}
  /\ ~Committing
  /\ syncing = NoCounters
  /\ Open(db)
  /\ UNCHANGED <<unit, crashSafe, overlapped, crashed>>

(* cleanShutdown, which syncs the counters, and a start. *)
CleanRestart ==
  /\ restarts < MaxRestarts
  /\ \A i \in Idents : ddl[i] \in {"no", "gone"}
  /\ ~Committing
  /\ syncing = NoCounters
  /\ Open(Stored(db, counters))
  /\ UNCHANGED <<unit, crashSafe, overlapped, crashed>>

Next ==
  \/ \E i \in Idents : \/ CreateIdent(i) \/ PutMetadata(i) \/ PutPrefixKey(i)
                       \/ ReserveTracker(i) \/ PutTrackerKey(i) \/ DropIdent(i) \/ DropFinish(i)
  \/ \E p \in Prefixes : \E key \in log[1].data[p] : Compact(p, key)
  \/ \E u \in Units : \/ \E i \in Idents : AddDelta(u, i)
                      \/ LoadValue(u) \/ UpdateCounter(u) \/ WriteBatch(u)
  \/ SyncLog \/ SyncStart \/ SyncWrite \/ Crash \/ CleanRestart

Spec == Init /\ [][Next]_vars
-----------------------------------------------------------------------------
Records(content, i) == {u \in Units : \E p \in Prefixes : <<i, u>> \in content.data[p]}

(* The type of every variable, and of the contents of the log. *)
Content ==
  [meta : [Idents -> 0..MaxPrefix], marks : SUBSET Prefixes,
   data : [Prefixes -> SUBSET (Idents \X (Units \cup {"key"}))], stored : [Idents -> Nat]]
Counts == [Idents -> Nat \cup {NoCount}]
UnitOfWork == [pc : {"idle", "added", "loaded", "updated", "done"},
               ident : Idents \cup {Oplog}, value : Nat, puts : Counts]

TypeOK ==
  /\ log \in Seq(Content) /\ log # <<>>
  /\ identMap \in [Idents -> 0..MaxPrefix]
  /\ maxPrefix \in 0..MaxPrefix + 1 /\ droppedPrefixes \subseteq Prefixes
  /\ ddl \in [Idents -> {"no", "meta", "key", "tracker", "trackerKey", "drop", "gone"}]
  /\ counters \in Counts /\ syncing \in Counts /\ syncCounter \in Nat
  /\ numRecords \in [Idents -> Nat]
  /\ unit \in [Units -> UnitOfWork]
  /\ crashSafe \in BOOLEAN /\ overlapped \in BOOLEAN /\ crashed \in BOOLEAN /\ restarts \in Nat

(* No ident shares its prefix, nor the oplog that of its key tracker, with     *)
(* another, and no key under it is a relic of another: _maxPrefix is found     *)
(* again, and prefixes are used again, only when nothing is left of them.      *)
PrefixesAreOwn ==
  \A i \in Idents : \A p \in PrefixesOf(i) :
    /\ \A j \in Idents \ {i} : p \notin PrefixesOf(j)
    /\ \A key \in db.data[p] : key[1] = i

(* The compaction filter is never given the prefix of an ident that a crash    *)
(* could bring back: dropIdent has its write on disk first.                    *)
FilterSparesLive ==
  \A k \in DOMAIN log : \A i \in Idents :
    log[k].meta[i] # 0 => log[k].meta[i] \notin droppedPrefixes \cup log[k].marks

(* Whatever a crash keeps, the data of an ident that is gone have a marker:    *)
(* they are deleted in the end, by this server or after its restart.           *)
DroppedIsMarked ==
  \A k \in DOMAIN log : \A p \in Prefixes : \A key \in log[k].data[p] :
    log[k].meta[key[1]] = 0 => p \in log[k].marks

(* The number of records: as long as no two updates of the counters overtake   *)
(* one another on their way to the log, it is right whenever nothing is being  *)
(* committed, after a crash too if counters are crash safe.                    *)
CountersAreRight ==
  ~Committing /\ ~overlapped /\ (crashSafe \/ ~crashed)
    => \A i \in Idents : identMap[i] # 0 => numRecords[i] = Cardinality(Records(db, i))
=============================================================================
