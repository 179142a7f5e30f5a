# A TLA+ verification project for fastmongodb

fastmongodb is a fork of MongoDB 3.4.2 that bundles the mongo-rocks storage
engine and adds a handful of optimisations of its own, of which the coalescing
of config server queries is the one with concurrent state.  This directory holds
TLA+ models of the parts of the server whose correctness depends on the order in
which threads, callbacks and crashes happen, TLC configurations that check them
on small instances, and proofs checked by TLAPS.

Source paths in this document are relative to `src/mongo/` of the repository;
those in `PROJECT.json` to the directory that holds the checkout.

## The system and its parts

| Part | Where | Modelled |
| --- | --- | --- |
| mongo-rocks transactions, recovery unit | `db/modules/rocks/src/rocks_transaction.cpp`, `rocks_recovery_unit.cpp` | `RocksTransaction`, `SnapshotIsolation`; proved |
| coalescing of config queries | `db/s/config/config_query_coalescer.cpp` | `ConfigQueryCoalescer`; proved |
| the find command on `config.chunks` | `db/commands/find_cmd.cpp` | `FindCmd`, which runs the coalescer; proved |
| capped visibility, oplog cursors, journal thread | `db/modules/rocks/src/rocks_record_store.cpp` | `CappedVisibility`; proved |
| trimming of capped collections | the same file, and `rocks_record_store_mongod.cpp` | `CappedDelete`, which runs beside `CappedVisibility`; proved |
| lock manager and lockers | `db/concurrency/lock_manager.cpp`, `lock_state.cpp` | `LockManager`; model-checked |
| prefixes, idents and counters of mongo-rocks | `rocks_engine.cpp`, `rocks_counter_manager.cpp`, commits of `rocks_recovery_unit.cpp` | `RocksEngine`; proved |
| elections and votes | `db/repl/topology_coordinator_impl.cpp`, `replication_coordinator_impl*.cpp`, `vote_requester.cpp` | `Elections`; proved |
| distributed locks | `s/catalog/replset_dist_lock_manager.cpp`, `dist_lock_catalog_impl.cpp` | `DistLock` over `LockExpiry`; proved |
| commit point, oplog application, rollback, initial sync | `db/repl/` | not modelled, see below |
| migrations, routing metadata | `db/s/`, `s/` | not modelled, see below |
| task executor, thread pool, connection pool, tickets | `executor/`, `util/concurrency/` | not modelled, see below |
| document integrity, field offset cache | `db/catalog/document_integrity.cpp`, `db/index/btree_key_generator.cpp` | not modelled: computation over bytes of one document |
| BSON size tables, short string comparison, shard key fast path | `bson/`, `s/shard_key_pattern.cpp` | not modelled: computation over bytes, no state |
| query planning and execution, aggregation, geo, text search | `db/query/`, `db/exec/`, `db/pipeline/` | not modelled: sequential computation over documents, which TLC cannot enumerate to any purpose |
| WiredTiger, MMAPv1; network, authentication; shell, tools | | not modelled |

The documents at the root of the repository also describe a rate limiter, a
circuit breaker, batched queries and a routing optimizer.  Their code is not in
the tree, so there is nothing to model.

## How the parts interact

A find on `config.chunks` that reaches a config server (`FindCmd`) reads through
the coalescer (`ConfigQueryCoalescer`) and the storage engine.  Every operation
takes locks from the lock manager (`LockManager`), and then works in a recovery
unit whose transaction (`RocksTransaction`) finds write conflicts.  Inserts into
capped collections and the oplog register with the visibility manager
(`CappedVisibility`), whose readers are tailing cursors and secondaries, and
trim the collection (`CappedDelete`).  A commit also updates the counters that
`RocksEngine` keeps beside the prefixes of collections and indexes; it runs
outside the engine mutex of `RocksTransaction`, so the two share no state and are
separate models.  Where one module runs another's steps it EXTENDS it and
conjoins its actions with its own.

`Elections` stands for the replica set as a whole.  The config servers are one:
their elections appear in `LockExpiry` as primaries with clocks of their own.
`DistLock` takes of `isLockExpired` only that it says so of a process in
`silent`, one that did not ping for the expiration time; that this is all it
ever does is `ExpiredOnlyIfSilent`, proved of `LockExpiry`.

## RocksTransaction and SnapshotIsolation

`RocksTransaction` models `RocksTransactionEngine` and `RocksTransaction` in full
and the part of `RocksRecoveryUnit` that drives them.

| State | Code |
| --- | --- |
| `latestSnapshotId`, `keyInfo`, `uncommitted`, `activeSnapshots` | `_latestSnapshotId`, `_keyInfo`, `_uncommittedTransactionId`, `_activeSnapshots` of the engine. `_keysSortedBySnapshot` is `_keyInfo` in commit order and is not kept apart |
| `snapshotId`, `writtenKeys` | the same members of each unit's `RocksTransaction` |
| `snapshot`, `writeBatch` | `_snapshot` and the keys in `_writeBatch` of each recovery unit |
| `db`, `dbSeq` | RocksDB: the sequence number of the last write of each key |
| `allocated` | RecordIds handed out by `_nextId` |
| `pc` | where a unit's thread is between two critical sections |

The engine mutex makes one step of each engine call.  `_db->Write` and
`_db->GetSnapshot` are outside that mutex and are steps of their own, so that
another unit can run between `recordSnapshotId` and `GetSnapshot`, and between
`Write` and `commit`.  RocksDB is assumed to apply a write batch atomically and
to return a snapshot of the current store.

An insert of a new record is not registered with the engine (the code says it
need not be).  The model includes that: the key of a record is drawn from
`RecordKeys`, each handed out once, and another unit can only write it once it
can have read it (`KnownKey`).

`SnapshotIsolation` is what the layers above rely on, stated without ids or
tables: a unit reads the store as of the time its view was taken, its writes
appear at once, and only if no key among them was written since.

Run `rocks_transaction` (3 units, one index key, one record key, 2 writes,
symmetry on units).  `NoLostUpdate`: a unit about to write still reads the
current value of each key in its batch.  `CommitInvariants`: the two
`invariant()` calls of `RocksTransaction::commit` never fire.
`ActiveSnapshotsSorted`: the list whose front is taken for the oldest snapshot
is sorted and complete.  `ImplementsSnapshotIsolation`: each step is a step of
`SnapshotIsolation` or leaves its variables alone.  Three units are the fewest
with a writer, a conflicting writer and a third snapshot that keeps, or fails to
keep, the conflict information alive.  No liveness is claimed: a unit may stay
idle for ever.

## ConfigQueryCoalescer

`tryCoalesce` and `shutdown`.  A request is one call on its own thread.  Every
section under `_mutex` is a step; `queryFunc`, and the reads of `_shutdown` at
both ends of the call, are outside it.  `groups` is `_groups`, `waiter` the
`WaiterState` a caller shares with the group, `generation` the one it remembers.
A query returns rows, returns an error or throws; an exception leaves the call
and leaves the group behind, as in the code.  The two timeouts are one action,
`WaitTimeout`, possible whenever a follower waits: no clock is modelled, so any
order of timeouts and answers is allowed.  Answers are named by the request that
computed them.  Statistics are left out.

Run `coalescer` (three requests on one namespace, versions 1 to 3, gap limit 1;
the requests are interchangeable, so only initial states with versions in order
are started from).  `WaiterTracked`: a follower that still waits is a waiter of
the live group it joined.  `NoDefaultAnswer`: success never comes with the empty
vector of the last line.  `AnswerFromOwnGroup`: a shared answer comes from a
successful query of the same namespace and generation, no further away than the
gap.  `OneLeader`.  `DeliveredIsFinal`: a `WaiterState` is never written again
once delivered, so its reader needs no mutex.  `FollowerServed`: without any
timeout, followers get out of their wait unless the leader threw.
`EveryCallReturns`: with timeouts every call returns.  Three requests are a
leader with two followers, one of which may leave, or a leader, a follower and a
request that is too far away or that finds the group full (the limit is 2, and
the code counts the leader).  With two to a group the second follower comes when
the first has left; the theorems cover any limit.

Fairness: every thread that can step does (weak fairness of each request's
steps; `queryFunc` is a local query that ends).  Timeouts are fair only inside
`EveryCallReturns`, where the code's `wait_for` guarantees it.

## FindCmd

`FindCmd::run` for `config.chunks`: the version taken out of the filter
(`RequestVersion`, which knows `$gt` only), the callback that scans and returns
rows, the reply, and the ordinary path taken when the coalescer returns an
error.  Rows are known by the filter they match, the optime they reflect and
whether the scan reached its end.  `ChunkWrite` is any committed write to
`config.chunks`.

Run `find_cmd` (two finds with any of two operators and three bounds, in one of
the two orders, since the finds are interchangeable; one write).
`StaleOnlyBehindScan`: a find gets rows older than the optime it has waited for
only if it joined a query that had read its rows and not handed them out when
the find arrived (`behind`, a history variable).  `RecognisedGapBounded`: among
finds with `$gt` the rows start at most `maxVersionGap` too late.
`EveryFindReplies`.  The run `find_cmd_collection` shows the finding below.

## CappedVisibility

`CappedVisibilityManager`, the forward cursors that ask it, and the journal
thread.  RocksDB is its log: a unit's write has a position, a sync covers the
log up to where it was when the sync began, and a restart keeps any prefix of
the log that contains the synced part.  `isOplog` is chosen at the start and
never changes, so a run covers both kinds of collection.  For the oplog a unit
inserts a batch of which only the first id is registered; ids are handed out in
order (`newOpMutex`).  A cursor reads its limit, then takes its snapshot, then
moves; the steps in between are where others run.

Run `oplog_visibility` (two units of up to two records, a reader, a waiter, any
number of restarts that the four record ids allow).  `ReaderSeesNoHole`: a
reader that was given an oplog entry had every earlier one in its snapshot.
`SurvivesInOrder`: a crash never keeps an entry that was visible and loses an
earlier one.  `ErasedOnce`: the journal thread's list iterators are still in the
list, each once.  `WaitedForIsVisible`, `EveryWaitEnds`: what
`waitForAllEarlierOplogWritesToBeVisible` promises.  Fairness: units of work
end, the journal thread and the flusher run, a waiter whose predicate holds
wakes.

## CappedDelete

`cappedDeleteAsNeeded` beside the inserts: in the inserting unit for a plain
capped collection, in the background thread for the oplog.  The excess, the
iterator's snapshot, each turn of the loop, the counters, the write and the hint
are separate steps.  A collection has a limit in bytes, `CappedMaxSize`, and a
plain one may have one in documents, which is chosen at the start; records have
sizes, `SizeOf`.  A unit gets to `_cappedDeleterMutex` in the three ways of the
code: it locks it if there is a limit in documents; otherwise it tries, and if
another unit is deleting it goes on, or waits and then deletes only if the
collection is far over its limit (`BackPressure`, `WaitLock`, `WaitTimeout`); and
for the oplog it never deletes.  A trim may end early at a document that another
unit updates, and may be given up in `aboutToDeleteCapped`.  `lastTrim` is
history: the record that was taken last, and on whose behalf.

Run `capped_delete` (three units of up to two records, of two, one, one and two
bytes, limits of two bytes and one document, at most two deletions in a trim).
`DeletesOnlyVisible`: what a trim takes is committed and seen to be.
`KeepsUpToCap`: no record is taken that could have stayed; put back the one taken
last, add the insert that asked for the trim, and one of the limits is exceeded,
whatever others have committed or trimmed since.  `CounterIsExact`: both counters
are right at rest.  With sizes of one and two a trim can overshoot in bytes, with
both limits either can be the one that decides, and with two deletions the bound
on a trim is met.

## LockManager

One resource with its `LockHead`, the partitions of intent locks, and the lockers.
Each section under the bucket mutex or a partition mutex is a step; `lock` in an
intent mode, `convert` and the cancellation of a request that timed out take
several, because they read state before they have the bucket mutex.  A migration
holds the bucket mutex while it takes one partition mutex after the other; the
steps of others on a partition commute to before or after it, so it belongs to
the step that asks for it.  `isGlobal` is rigid: the global resource gives
priority to S and X.  The mode masks are read off the counts.  `told` is the
locker's notification.

Run `lock_manager` (three lockers, two of them in one partition, recursion 2,
either kind of resource; symmetry on the two).  `MutualExclusion`,
`QueuesAgree` (every count and queue against the requests),
`PartitionedIsIntentOnly`, `NoneForgotten` (no request waits for nothing, and a
granted waiter has been told).  Three lockers are the fewest with a holder, an
upgrade or a waiter, and a request that comes between.  Run
`lock_manager_served`: whoever waits for X or for an upgrade is served, unless
two upgrades deadlock.  The fairness assumed is of the callers: a locker comes
again and again to a point where it holds nothing or waits to be granted.  It is
stated with `[]<>` on states, since a locker may do anything in between.  The
property is not stated of S and IX, which lockers that enter with IS and upgrade
can overtake for ever, nor of the global resource, where S and X requests that
keep coming may starve others by design.

`MaxWrap` bounds a counter: see the observations below.  Upgrades have no
timeout in the runs (`TimedConversions` is FALSE): no caller in the tree has one.
See the disagreements below for what happens with it.

## RocksEngine

What mongo-rocks stores about itself: the prefix of each ident, the markers of
dropped prefixes, the stored numbers of records.  `log` is RocksDB as the list of
contents a crash can leave, the first being what is synced; a synced write
leaves one.  Creating and dropping an ident are several steps each, and a crash
may come between any two; the oplog has a second prefix, of its key tracker,
which is taken and never stored as such.  A compaction deletes durable keys of
a dropped prefix one by one, each in every content of the log at once.  A commit adds to the
counter in memory, reads it, hands it to `RocksCounterManager` and writes its
batch, in four steps; `crashSafe` is chosen at the start.  A restart repeats the
constructor: it looks for the largest prefix among keys and metadata, and drops
the markers that have no data left.  Left out: a `Put` or `Write` that RocksDB
answers with an error, for which a create leaves `_identMap` changed and a drop
returns before it changes it, and a server without a journal, whose units of work
bypass RocksDB's log (`disableWAL`) while the engine's own writes do not.

Run `rocks_engine` (one collection and the oplog, two units of work, five
prefixes, two restarts, two unsynced writes at a time, `kSyncEvery` 2).  `PrefixesAreOwn`: no two idents share a
prefix and none finds relics of another under its own, although prefixes are
used again after a restart.  `FilterSparesLive`: the compaction filter is never
given a prefix that some crash would bring back to life.  `DroppedIsMarked`:
whatever a crash keeps, data without an ident have a marker.
`CountersAreRight`: the number of records is right at rest, after a crash too if
counters are crash safe, unless updates overlapped.  Two restarts are the fewest
in which a prefix is freed, reused and looked for again; with five prefixes the
idents can be made in either order.  Two unsynced writes are the fewest of which a
crash can keep one.  The bound on commits is the number of units.

## Elections

Protocol version 1: terms, dry run, vote, step-down, crash and restart.  Every
callback of the executor and every section of `replSetRequestVotes` under the
topology mutex is a step; the command is split where it waits for a step-down
and between the vote in memory (`lastVote`) and the vote on disk (`disk`).  A
request is in `reqs` from sending to answer; to lose it is never to deliver it,
and an answer may be lost or arrive after its election is over.  The freshness
of a candidate's oplog is an input: a voter may deny its vote for it whenever it
likes.  `cast`, `elected` and `early` are history.

Run `elections` (three members, two terms, two elections, a crash):
`WinnerHasMajority`, `AnsweredVotesAreStored`, `OldPrimaryStepsDown`, and
`OnePrimaryUnlessEarlyVote`: a term has one winner unless some member voted in a
term above its own, which the code does in one case (see the disagreements).
Two terms are the fewest with an old primary; the proofs cover any.  Fairness,
for `OldPrimaryStepsDown` only: a scheduled step-down is carried out, and
heartbeats, which are sent for ever, spread terms.

## DistLock and LockExpiry

`DistLock` is `lockWithSessionID`, `unlock` and the pinger's work on
`_unlockList`, over the documents of `config.locks`.  A call on the config
servers answers, or it fails and its write was applied, is lost or is applied
later (`late`), be it a `grabLock`, an `overtakeLock` or an unlock.  Clients of `lock()` have a session each; those in `Reusing` are
the migrations of a `MigrationManager`, which lock under one session.

Run `dist_lock` (a client of `lock()` and a `MigrationManager` with two
collections, one of them contended; two failing calls, one retry).
`HolderIsOwner`: whoever was told it has the lock is the owner on record until
it unlocks, was overtaken when silent, or is one of the two exceptions named
there.  `NothingLeftBehind`: after a failed call a lock still owned has an unlock
queued, unless a write that came late took it (`orphaned`).
`EventuallyReleased`: it is released, with the same exception.  Fairness: strong, of the
pinger's next unlock: the pinger runs as long as the process and the config
servers answer it again and again, though not every time.  Two faults are the
fewest in which an unlock that undoes a failed attempt fails as well.

`LockExpiry` is `isLockExpired`, called by several threads that share
`_pingHistory`, with true time, a clock per primary and answers that take up to
`MaxTrip`.  The reading of the timer and the section under `_mutex` are separate
steps, so that a thread may wait for the mutex with an old answer in hand.  A
session may get a lock again after it lost it.  Run `lock_expiry` (two threads, two sessions of one process, one
election): `ExpiredOnlyIfSilent`: a lock is never found expired whose owner
pinged, or first acquired it, within `Expiration - MaxTrip`; `SilentOwnerExpires`: a
call late enough that finds the entry unchanged says so.  The run reaches the
first moment at which a lock can expire (`MaxTime = Expiration`); the theorems
are about any time.

## What is proved

All proofs hold for any sets of units, keys, requests, namespaces and versions
and any limits; they assume `ConstantsAssumption`, `CoalescerAssumption`,
`FindAssumption`, `CappedAssumption`, `DeleteAssumption`, `EngineAssumption`,
`ElectionsAssumption`, `ClientAssumption` and `ExpiryAssumption`, the named
assumptions of the modules, and nothing else.

*RocksTransaction* (`RocksTransactionProofs`): type
correctness, `NoLostUpdate`, `CommitInvariants`, `ActiveSnapshotsSorted` and the
refinement of `SnapshotIsolation`.  None is inductive.  `IndInv` adds: how a
unit's phase fixes which of its variables are set (`PhaseInv`), that no id
exceeds `_latestSnapshotId` (`BoundInv`), that a registered key has exactly its
writer as owner (`OwnerInv`), that an unregistered batch key is a fresh record
no one else can know (`FreshInv`), that a key written since a snapshot was taken
is either tracked with a later id or still owned by the unit that wrote it
(`ConflictInv`), and that a registered key is unchanged since its writer's
snapshot (`RegisteredInv`, `UnchangedInv`).  `ConflictInv` is the heart: it is
what the order of `recordSnapshotId` before `GetSnapshot` and of `Write` before
`commit` maintains, and what `_cleanUpKeysCommittedBeforeSnapshot_inlock` must
not destroy.  The refinement follows step by step from the invariant.

*ConfigQueryCoalescer* (`CoalescerProofs`): type
correctness, `WaiterTracked`, `NoDefaultAnswer`, `AnswerFromOwnGroup`,
`OneLeader` and the action property `DeliveredIsFinal`.  The invariant says what
a group knows of its waiters (`GroupInv`: they joined its generation, nothing
was delivered to them, their versions are near the leader's), what the place of
a call says of its variables (`CallInv`), that leaders do not share a generation
(`UniqueInv`), that somebody runs the query of every group or it threw
(`LeaderInv`), and where answers come from (`AnswerInv`).  `GroupInv` includes
that the query of a live group is always marked as running, from which follows
that no follower is ever promoted to leader.

*FindCmd* (`FindCmdProofs`): the find command implements the coalescer's
specification, so the above holds of it; with `RowsInv`, `ServedInv` and `ReplyInv` on top,
`StaleOnlyBehindScan` and `RecognisedGapBounded`.  `ServedInv` is about every find that a query
may still serve, not only the ones it has served: what was read is as fresh as
that find asked for, or the find came later.

*CappedVisibility and CappedDelete* (`CappedProofs`): type correctness,
`ReaderSeesNoHole`, `SurvivesInOrder`, `ErasedOnce` and `WaitedForIsVisible` of
the first; of the second, that it implements the first, and
`DeletesOnlyVisible`, `CounterIsExact` and `KeepsUpToCap`.  For any units of
work, readers, waiters, batches, limits and restarts.  `CapInv` says that units
have ranges of ids apart from each other (`RangesInv`), that a unit that is not
done is in the list and not with the journal thread (`ListInv`), that what is
visible is durable or was written before everything after it (`DurableInv`), and,
of a reader that has its snapshot, that every unit it can have passed is in it
(`ReaderOK`).  `DurableInv` is where the start of a sync is remembered rather
than its end, and `ReaderOK` is where the limit is read before the snapshot is
taken.  `DelInv` follows the counters through a trim: they are the number and the
size of the live records and of the records about to be written, less what the
deleter has given back and not yet deleted (`CountInv`).  Number and size are
both additive over sets of records, which is all the argument needs of them.
While the deleter is at work the counters only grow, because only the holder of
`_cappedDeleterMutex` lowers them; so the excess it computed is at most what
there is (`CountInv` again), and what it leaves, with the record it took last and the
insert it works for, is over a limit (`TrimInv`).

*RocksEngine* (`RocksEngineProofs`): type correctness, `PrefixesAreOwn`,
`FilterSparesLive`, `DroppedIsMarked` and `CountersAreRight`, for any idents,
prefixes, units of work, restarts and lengths of the log.  The invariant speaks
about every content that a crash can leave, not only of the last: how far the
creation or the drop of an ident is fixes what its metadata, markers and keys may
be in each of them (`LogInv`), and more in the last one (`LastInv`).  The case
that needs it is the restart, where the largest prefix is looked for among what
was kept: a prefix can come back only if nothing is left under it.  The counters
have an invariant of their own (`CountInv`): as long as nothing overlapped, a
unit of work is alone with the counters from the addition until its batch is
written, and the value that will have been stored last, be it in `_counters`,
in a sync, in a batch or in the store, is the number of records.  It rests on the
units of work being finitely many.

*Elections* (`ElectionsProofs`): type correctness,
`OnePrimaryUnlessEarlyVote`, `WinnerHasMajority`, `AnsweredVotesAreStored`, for
any finite set of members and any number of elections and crashes.  The
invariant adds who may run an election or has to step down (`RoleInv`), that the
votes counted in a ballot whose term is still current were cast in that term
(`BallotInv`: the requests carry a term read later than the one the election is
for, and the answers do not say which), and `VoteInv`: without early votes no
stored vote is ahead of the one in memory nor that one of the term, and what a
member granted, be it cast, on its way to the disk or its own, is for one
candidate per term.  That two majorities meet is `FiniteSetTheorems`.

*DistLock* (`DistLockProofs`): type correctness, `HolderIsOwner` and
`NothingLeftBehind`, for any clients, locks, retries and failing calls.  The
invariant says that an unlock of a session of `lock()` is queued only when the
call is over (`QueuedInv`), that nobody else writes under its session
(`OwnDocInv`), that before it is told it has the lock it owns it only between a
failed write and its undoing, or by a write that came late (`AttemptInv`), that
what is overtaken was silent or the client's own (`SeenInv`), and what only a
failing call leads to (`FaultInv`).  `ClientAssumption` has it that clients that
share a session are migrations of different collections: a `MigrationManager`
asks for the lock of a collection only when it has no active migrations there
(`_scheduleWithDistLock_inlock` of `db/s/balancer/migration_manager.cpp`).
Without that, two clients of one session and one name would each be told they
have the lock.

*LockExpiry* (`LockExpiryProofs`): `ExpiredOnlyIfSilent`, `SilentOwnerExpires`
and type correctness.  The invariant dates everything by the clock of the primary
it is from: an entry of `_pingHistory` is at most half a round trip older than
the ping and the acquisition it is about, and not later than the moment it was
made (`EntryInv`); what a call read is in order and its server time lies between
its start and the present (`CallInv`).  An answer is then at most half a round
trip ahead, and the two halves are the `MaxTrip` of the statement.  The
assumption that `MaxTrip` is below `Expiration` is about a network round trip
against fifteen minutes.

Type correctness is a theorem where there are proofs, and is not repeated in the
runs.  `TypeOK` of `LockManager` documents the types of its variables; it holds as
an invariant of `MCLockManager`.

Only model-checked: the invariants of the lock manager, and all liveness
(`FollowerServed`, `EveryCallReturns`, `EveryFindReplies`, `EveryWaitEnds`,
`OldPrimaryStepsDown`, `EventuallyReleased`, `WaitersAreServed`): fairness and
`ENABLED` are beyond the prover.  The lock manager grants by walking its queues
from the front, each grant changing the counts that the next request is compared
with; the model does so by folding over the queue, and what a fold computes for
every queue needs induction over sequences, which the prover cannot do.

## Findings

The run `find_cmd_collection` is expected to be violated: the group key of a
coalesced query is the namespace `config.chunks`, not the collection the filter
names, so that a find can be answered with the chunks of another collection.

Further disagreements between code and comments met while modelling.  The first
five can be seen with a property that is defined in the modules but in no run,
given as the only INVARIANT of the configuration named, with the constants
changed as stated:

* `NextReturnsNoInvisible` (`MCCappedVisibility`, from `MCOplogVisibility.cfg`
  with three units, no waiter, `MaxBatch` 1, `MaxRecord` 3): on a plain capped
  collection a forward cursor can step over a record that commits after the
  cursor's snapshot and before the visibility test.
* `NoLiveBelowHint` (`MCCappedDelete`): for the same reason the hint of the oldest
  key can pass a live record, which later trims then do not find
  ("there is no live records earlier", `rocks_record_store.h:294`).
* `MaxDocsIsExact` (`MCCappedDelete`): "Max docs has to be exact"
  (`rocks_record_store.cpp:442`), but two inserts that run at the same time do not
  count each other's records, and a collection stays above its limit in documents
  until the next insert trims it.
* `UnlockedIsUnreferenced` (`MCLockManager` with `TimedConversions` TRUE): an
  upgrade that times out while it is being granted takes its request off the
  granted queue although the caller still references the lock.
* `OnePrimaryPerTerm` (`MCElections` with three starts, no crash): `updateTerm`
  leaves the term of a primary alone that has to step down
  (`topology_coordinator_impl.cpp:2417`), and the vote command goes on after the
  step-down as if it had been raised.  The member votes in a term above its own,
  may then grant a delayed request of a lower term, which overwrites its vote,
  and vote once more in the higher one: two members win that term.

The others are exceptions written into a property, or follow from reading:

* A find that joins a running query can get rows older than the optime it has
  waited for (`find_cmd.cpp:303`; the exception in `StaleOnlyBehindScan`).
* "We certainly do not own the lock, so we can retry"
  (`replset_dist_lock_manager.cpp:338`) is not so if the failed `grabLock` is
  still on its way (`orphaned`); and an unlock that undoes a failed attempt can
  arrive after a later attempt has succeeded and release it (`undone`).
* A `MigrationManager` locks under one session: an unlock queued after an error
  can undo a later acquisition, and the one queued after a failed takeover names
  the session only and may hit the lock of another collection
  (`HolderIsOwner` exempts it once a call has failed).
* "Be conservative" (`replset_dist_lock_manager.cpp:214`): half the round trip is
  taken off entry and answer alike, so that the elapsed time may come out too
  long by up to a round trip.  Hence the `MaxTrip` in `ExpiredOnlyIfSilent`.
* `checkStatus` asks for a document of the session whatever its state, so an
  unlocked one will do.
* Crash safe counters are said to be consistent even after power failure
  (`rocks_global_options.cpp:71`), and others under normal conditions; two
  overlapping commits can store their counts in the other order in either mode
  (`overlapped`).
* The promotion of a follower to leader (`config_query_coalescer.cpp:394`) is
  never taken: a group is created with its query in progress and nothing resets
  the flag.  After `queryFunc` throws, followers wait for the whole
  `maxTotalWaitTime` and then fail.  The header (line 88) says a follower tries
  to become leader when one wait times out.
* The version range of a group is not widened when a request joins, and a
  follower with a smaller version gets the rows of the leader's larger one
  (SHARDING_OPTIMIZATION_CHANGELOG.md lines 260 and 81 say otherwise).
* The routing refresh compares with `$gte`, which `requestVersion` does not
  recognise: such requests all have version 0.
* The callback of the find command returns the rows read so far as a success
  when its plan fails, where the ordinary path throws (`find_cmd.cpp:297`, `437`).
* `compatibleFirstCount` of a `LockHead` is decremented but was not incremented
  for a global lock upgraded from an intent mode; it wraps, and the cleanup
  asserts that it is zero.  No caller in the tree upgrades so.  The model allows
  the counter to go `MaxWrap` below zero, and the properties hold nevertheless.
## Bounds

Every bound is a constant: `MaxWrites` (committed writes), `MaxBatch`,
`MaxRecord` (record ids), `MaxDeletes` (deletions of one trim, 20000 in the code),
`MaxRecursive`, `MaxWrap`, `MaxTerm`, `MaxStarts`,
`MaxCrashes` (elections), `MaxCalls`, `MaxFaults` (distributed locks), `MaxTrip`,
`MaxTime`, `MaxElections` (lock expiry), `MaxPrefix`, `MaxRestarts`, `MaxLog`
(engine).
Generations of the coalescer are bounded by the number of requests, commits in
`RocksEngine` by the units of work.  TLC's deadlock check is on for the
coalescer, the find command, transactions, capped collections and the lock
manager, whose models can always take a step (a cursor is opened again, shutdown
is repeated, the cleanup runs); none was found stuck.  It is off in `elections`,
`dist_lock`, `lock_expiry` and `rocks_engine`, where elections, calls, time and
restarts are used up.

## Not modelled

* *Commit point, write concern, oplog application, rollback, initial sync*: their
  properties are about the contents of all members' oplogs.  Together with
  `Elections` that is beyond exhaustive checking, and without the oplogs a model
  would say nothing about what is committed.  `Elections` therefore takes the
  freshness of an oplog as an input.
* *Chunk migration, collection metadata, routing in mongos*: several thousand
  lines in three processes, safe only together with the range deleter, the cloner
  and the config servers' write concern.  What they use of the parts here is
  modelled: the distributed lock, and the coalesced refresh.
* *Named snapshots of mongo-rocks*: they matter with the commit point only.
  *Indexes*: encoding of keys, over the conflict detection of `RocksTransaction`.
* *Executor, thread pool, connection pool, tickets, two-phase unlocking*: the
  models here allow any order of callbacks, and any order in which a locker takes
  and drops locks, and so do not depend on them.
* Byte-level code, query planning and execution, other storage engines, network,
  authentication, shell and tools: no concurrent state, or none of this fork's.
