---------------------------- MODULE LockManager -----------------------------
(* One resource of the lock manager (db/concurrency/lock_manager.cpp) and    *)
(* the lockers that acquire, upgrade and release it (lock_state.cpp).  A     *)
(* step is a section under the bucket mutex or a partition mutex, or what a  *)
(* locker's own thread does between two of them.  Migration of partitioned   *)
(* requests takes one partition mutex after the other under the bucket       *)
(* mutex; the steps of other threads on a partition commute with it to       *)
(* before or after, so it is part of the step that asks for it.              *)
EXTENDS Integers, FiniteSets, SequencesExt

CONSTANTS Lockers,
          Partitions,
          PartitionOf,       \* Lockers -> Partitions: LockerId % _numPartitions
          MaxRecursive,      \* bound on recursiveCount
          Globals,           \* which kinds of resource: a set of values of isGlobal
          MaxWrap,           \* bound on how far compatibleFirstCount goes below zero
          TimedConversions   \* whether an upgrade may be asked for with a timeout

ASSUME LockerConstants ==
  /\ PartitionOf \in [Lockers -> Partitions]
  /\ Globals \subseteq BOOLEAN
  /\ MaxRecursive \in Nat \ {0} /\ MaxWrap \in Nat \ {0}
  /\ TimedConversions \in BOOLEAN

VARIABLES isGlobal,   \* whether the resource is of type RESOURCE_GLOBAL; never changes
          head,       \* the LockHead: queues, counts, and the partitions it references
          plh,        \* Partitions -> grantedList of the PartitionedLockHead
          request,    \* Lockers -> the LockRequest of the locker
          newMode,    \* Lockers -> the mode its call of convert() asks for
          pc          \* Lockers -> where the locker's thread is

vars == <<isGlobal, head, plh, request, newMode, pc>>

Modes == {"IS", "IX", "S", "X"}
IntentModes == {"IS", "IX"}
FullModes == {"S", "X"}

(* LockConflictsTable *)
ConflictsTable == [IS |-> {"X"}, IX |-> {"S", "X"}, S |-> {"IX", "X"}, X |-> Modes]

Conflicts(mode, existing) == ConflictsTable[mode] \cap existing # {}

(* isModeCovered: holding "mode" is as good as holding "other". *)
Covers(mode, other) == ConflictsTable[other] \subseteq ConflictsTable[mode]

(* compatibleFirst is the uint32_t compatibleFirstCount; a value below zero   *)
(* stands for the one 2^32 above it.                                          *)
EmptyHead ==
  [granted |-> <<>>, grantedCounts |-> [m \in Modes |-> 0],
   conflict |-> <<>>, conflictCounts |-> [m \in Modes |-> 0],
   conversions |-> 0, compatibleFirst |-> 0, partitions |-> <<>>]

(* initNew; "none" is a locker without an entry for the resource in its map. *)
(* "priority" is enqueueAtFront and compatibleFirst, which are set together; *)
(* "on" tells lock and partitionedLock; "told" is the locker's _notify.      *)
NoRequest ==
  [status |-> "none", mode |-> "NONE", convertMode |-> "NONE", recursive |-> 0,
   partitioned |-> FALSE, priority |-> FALSE, on |-> "nothing", told |-> FALSE]

Init ==
  /\ isGlobal \in Globals
  /\ head = EmptyHead
  /\ plh = [p \in Partitions |-> <<>>]
  /\ request = [l \in Lockers |-> NoRequest]
  /\ newMode = [l \in Lockers |-> "NONE"]
  /\ pc = [l \in Lockers |-> "run"]
-----------------------------------------------------------------------------
(* The masks are kept in lock-step with the counts, and so are read off them. *)
GrantedModes(h) == {m \in Modes : h.grantedCounts[m] > 0}
ConflictModes(h) == {m \in Modes : h.conflictCounts[m] > 0}

(* Slip: one mode too many is left out. *)
MutOtherGrantedModes(h, q) ==
  {m \in Modes :
     h.grantedCounts[m] > 1 + Cardinality({f \in {"mode", "convertMode"} : q[f] = m})}

(* The modes granted or being converted to on the granted queue, less those of *)
(* the one request q.                                                          *)
OtherGrantedModes(h, q) ==
  {m \in Modes :
     h.grantedCounts[m] > Cardinality({f \in {"mode", "convertMode"} : q[f] = m})}

(* Below, s is what the bucket mutex protects: the head s.h and the requests s.r. *)
Granted(s, l) ==
  LET q == s.r[l] IN
  [h |-> [s.h EXCEPT !.granted = Append(@, l),
                     !.grantedCounts[q.mode] = @ + 1,
                     !.compatibleFirst = IF q.priority THEN @ + 1 ELSE @],
   r |-> [s.r EXCEPT ![l].status = "granted", ![l].on = "head"]]

Queued(s, l) ==
  LET q == s.r[l] IN
  [h |-> [s.h EXCEPT !.conflict = IF q.priority THEN <<l>> \o @ ELSE Append(@, l),
                     !.conflictCounts[q.mode] = @ + 1],
   r |-> [s.r EXCEPT ![l].status = "waiting", ![l].on = "head"]]

(* Slip: requests that wait already are not looked at. *)
MutNewRequest(s, l) ==
  IF Conflicts(s.r[l].mode, GrantedModes(s.h)) THEN Queued(s, l) ELSE Granted(s, l)

(* LockHead::newRequest *)
NewRequest(s, l) ==
  IF \/ Conflicts(s.r[l].mode, GrantedModes(s.h))
     \/ /\ s.h.compatibleFirst = 0
        /\ Conflicts(s.r[l].mode, ConflictModes(s.h))
    THEN Queued(s, l)
    ELSE Granted(s, l)

(* LockHead::migratePartitionedLockHeads, from the last partition referenced. *)
Migrate(s) ==
  FoldLeft(NewRequest, [s EXCEPT !.h.partitions = <<>>],
           FoldLeft(LAMBDA moved, p : plh[p] \o moved, <<>>, s.h.partitions))

Current == [h |-> head, r |-> request]

EmptyPartitions == [p \in Partitions |-> <<>>]
-----------------------------------------------------------------------------
(* Slip: the mode held before is still counted. *)
MutGrantConversion(s, l) ==
  LET q == s.r[l] IN
  IF \/ s.h.conversions = 0 \/ q.status # "converting"
     \/ Conflicts(q.convertMode, OtherGrantedModes(s.h, q))
    THEN s
    ELSE [h |-> [s.h EXCEPT !.conversions = @ - 1],
          r |-> [s.r EXCEPT ![l] = [q EXCEPT !.status = "granted", !.mode = q.convertMode,
                                             !.convertMode = "NONE", !.told = TRUE]]]

(* _onLockModeChanged, one turn of the loop over the granted queue. *)
GrantConversion(s, l) ==
  LET q == s.r[l] IN
  IF \/ s.h.conversions = 0 \/ q.status # "converting"
     \/ Conflicts(q.convertMode, OtherGrantedModes(s.h, q))
    THEN s
    ELSE [h |-> [s.h EXCEPT !.conversions = @ - 1, !.grantedCounts[q.mode] = @ - 1],
          r |-> [s.r EXCEPT ![l] = [q EXCEPT !.status = "granted", !.mode = q.convertMode,
                                             !.convertMode = "NONE", !.told = TRUE]]]

(* One turn of the loop over the conflict queue.  a.newly is the code's      *)
(* newlyCompatibleFirst, a.stop that the loop has been left.                 *)
GrantWaiter(a, l) ==
  LET s == a.s
      q == s.r[l]
      unqueued == [s EXCEPT !.h.conflict = Remove(@, l),
                            !.h.conflictCounts[q.mode] = @ - 1,
                            !.r[l].told = TRUE]
  IN  IF a.stop THEN a
      ELSE IF Conflicts(q.mode, GrantedModes(s.h))
        THEN [a EXCEPT !.stop = s.h.conflict[1] = l /\ ~a.newly]
        ELSE [s |-> Granted(unqueued, l),
              newly |-> a.newly \/ (q.priority /\ s.h.compatibleFirst = 0),
              stop |-> q.mode = "X"]

(* LockManager::_onLockModeChanged *)
OnLockModeChanged(s, checkConflictQueue) ==
  LET c == FoldLeft(GrantConversion, s, s.h.granted)
  IN  IF checkConflictQueue
        THEN FoldLeft(GrantWaiter, [s |-> c, newly |-> FALSE, stop |-> FALSE],
                      c.h.conflict).s
        ELSE c
-----------------------------------------------------------------------------
(* LockerImpl::lockBegin sets these for the full modes of the global resource. *)
Priority(mode) == isGlobal /\ mode \in FullModes

(* LockerImpl::lockBegin for a resource the locker has no request for. *)
InitialRequest(mode) ==
  [NoRequest EXCEPT !.status = "new", !.mode = mode, !.recursive = 1,
                    !.partitioned = mode \in IntentModes, !.priority = Priority(mode)]

(* The end of LockManager::lock, with the bucket mutex: gather the partitions *)
(* and put the request q on the LockHead.                                     *)
Enqueue(l, q) ==
  LET s == NewRequest(Migrate([h |-> head, r |-> [request EXCEPT ![l] = q]]), l) IN
  /\ head' = s.h /\ request' = s.r
  /\ plh' = EmptyPartitions
  /\ pc' = [pc EXCEPT ![l] = IF s.r[l].status = "waiting" THEN "wait" ELSE "run"]
  /\ UNCHANGED <<isGlobal, newMode>>

(* The request joins the PartitionedLockHead of the locker's partition. *)
JoinPartition(l, q) ==
  /\ plh' = [plh EXCEPT ![PartitionOf[l]] = Append(@, l)]
  /\ request' = [request EXCEPT ![l] = [q EXCEPT !.status = "granted", !.on = "partition"]]
  /\ pc' = [pc EXCEPT ![l] = "run"]
  /\ UNCHANGED <<isGlobal, newMode>>

(* LockManager::lock in a full mode; what precedes the mutex is the thread's own. *)
LockFull(l, mode) ==
  /\ pc[l] = "run" /\ request[l].status = "none"
  /\ mode \in FullModes
  /\ Enqueue(l, InitialRequest(mode))

(* LockManager::lock in an intent mode, up to the bucket mutex: granted if    *)
(* the partition has a PartitionedLockHead, that is when the head references  *)
(* the partition.                                                             *)
LockIntent(l, mode) ==
  /\ pc[l] = "run" /\ request[l].status = "none"
  /\ mode \in IntentModes
  /\ IF PartitionOf[l] \in ToSet(head.partitions)
       THEN JoinPartition(l, InitialRequest(mode))
       ELSE /\ request' = [request EXCEPT ![l] = InitialRequest(mode)]
            /\ pc' = [pc EXCEPT ![l] = "lock"]
            /\ UNCHANGED <<isGlobal, plh, newMode>>
  /\ UNCHANGED head

(* Slip: a request that waits does not keep a partition from being started. *)
MutLockIntentHead(l) ==
  /\ pc[l] = "lock"
  /\ IF GrantedModes(head) \subseteq IntentModes
       THEN /\ head' = [head EXCEPT !.partitions = Append(Remove(@, PartitionOf[l]),
                                                          PartitionOf[l])]
            /\ JoinPartition(l, request[l])
       ELSE Enqueue(l, [request[l] EXCEPT !.partitioned = FALSE])

(* ... and with the bucket mutex: start a partition if there is no conflict. *)
LockIntentHead(l) ==
  /\ pc[l] = "lock"
  /\ IF GrantedModes(head) \subseteq IntentModes /\ ConflictModes(head) = {}
       THEN /\ head' = [head EXCEPT !.partitions = Append(Remove(@, PartitionOf[l]),
                                                          PartitionOf[l])]
            /\ JoinPartition(l, request[l])
       ELSE Enqueue(l, [request[l] EXCEPT !.partitioned = FALSE])

(* LockerImpl::lockBegin for a resource the locker holds, and                 *)
(* LockManager::convert up to the bucket mutex.  Callers only ask for a mode  *)
(* that covers the one they hold or is covered by it: convert() asserts it.   *)
Convert(l, mode) ==
  /\ pc[l] = "run" /\ request[l].status = "granted"
  /\ request[l].recursive < MaxRecursive
  /\ Covers(request[l].mode, mode) \/ Covers(mode, request[l].mode)
  /\ Priority(mode) => head.compatibleFirst > -MaxWrap
  /\ request' = [request EXCEPT ![l].recursive = @ + 1,
                                ![l].priority = @ \/ Priority(mode),
                                ![l].told = FALSE]
  /\ IF Covers(request[l].mode, mode)
       THEN UNCHANGED <<newMode, pc>>
       ELSE /\ newMode' = [newMode EXCEPT ![l] = mode]
            /\ pc' = [pc EXCEPT ![l] = "convert"]
  /\ UNCHANGED <<isGlobal, head, plh>>

(* LockManager::convert under the bucket mutex. *)
ConvertHead(l) ==
  LET s == Migrate(Current)
      q == s.r[l]
      mode == newMode[l]
      blocked == Conflicts(mode, OtherGrantedModes(s.h, q))
  IN  /\ pc[l] = "convert"
      /\ head' = IF blocked
                   THEN [s.h EXCEPT !.conversions = @ + 1, !.grantedCounts[mode] = @ + 1]
                   ELSE [s.h EXCEPT !.grantedCounts[mode] = @ + 1,
                                    !.grantedCounts[q.mode] = @ - 1]
      /\ request' = [s.r EXCEPT ![l] =
                       IF blocked THEN [q EXCEPT !.status = "converting",
                                                 !.convertMode = mode]
                                  ELSE [q EXCEPT !.mode = mode]]
      /\ plh' = EmptyPartitions
      /\ newMode' = [newMode EXCEPT ![l] = "NONE"]
      /\ pc' = [pc EXCEPT ![l] = IF blocked THEN "wait" ELSE "run"]
      /\ UNCHANGED isGlobal

(* LockerImpl::lockComplete: the notification arrived.  lockBegin clears it   *)
(* before it is looked at again.                                              *)
WakeUp(l) ==
  /\ pc[l] = "wait" /\ request[l].told
  /\ request' = [request EXCEPT ![l].told = FALSE]
  /\ pc' = [pc EXCEPT ![l] = "run"]
  /\ UNCHANGED <<isGlobal, head, plh, newMode>>

(* LockerImpl::lockComplete: the wait timed out; _unlockImpl follows. *)
TimeOut(l) ==
  /\ pc[l] = "wait" /\ ~request[l].told
  /\ request[l].status = "waiting" \/ TimedConversions
  /\ pc' = [pc EXCEPT ![l] = "cancel"]
  /\ UNCHANGED <<isGlobal, head, plh, request, newMode>>

(* What unlock() does to the queues under the bucket mutex, by the status found. *)
Release(s, l) ==
  LET q == s.r[l]
      removed == [s.h EXCEPT !.granted = Remove(@, l),
                             !.grantedCounts[q.mode] = @ - 1,
                             !.compatibleFirst = IF q.priority THEN @ - 1 ELSE @]
  IN  OnLockModeChanged([s EXCEPT !.h = removed], removed.grantedCounts[q.mode] = 0)

(* Slip: the rest of the queue is not looked at. *)
MutCancelWaiting(s, l) ==
  OnLockModeChanged([s EXCEPT !.h.conflict = Remove(@, l),
                              !.h.conflictCounts[s.r[l].mode] = @ - 1], FALSE)

CancelWaiting(s, l) ==
  OnLockModeChanged([s EXCEPT !.h.conflict = Remove(@, l),
                              !.h.conflictCounts[s.r[l].mode] = @ - 1], TRUE)

CancelConversion(s, l) ==
  OnLockModeChanged([s EXCEPT !.r[l].status = "granted",
                              !.r[l].convertMode = "NONE",
                              !.h.conversions = @ - 1,
                              !.h.grantedCounts[s.r[l].convertMode] = @ - 1], TRUE)

(* The section of unlock() under the bucket mutex, for a request whose        *)
(* recursiveCount is now "recursive"; the locker forgets it at zero.          *)
UnlockHead(l, recursive) ==
  LET t == [Current EXCEPT !.r[l].recursive = recursive]
      s == CASE t.r[l].status = "granted" -> Release(t, l)
             [] t.r[l].status = "waiting" -> CancelWaiting(t, l)
             [] t.r[l].status = "converting" -> CancelConversion(t, l)
  IN  /\ head' = s.h
      /\ request' = IF recursive = 0 THEN [s.r EXCEPT ![l] = NoRequest] ELSE s.r
      /\ pc' = [pc EXCEPT ![l] = "run"]
      /\ UNCHANGED <<isGlobal, plh, newMode>>

(* LockManager::unlock of a lock that is held.  Only its own thread changes a *)
(* granted request, or a migration moves it, so the reads before the mutex    *)
(* are part of the step.                                                      *)
Unlock(l) ==
  /\ pc[l] = "run" /\ request[l].status = "granted"
  /\ \/ /\ request[l].recursive > 1
        /\ request' = [request EXCEPT ![l].recursive = @ - 1]
        /\ UNCHANGED <<isGlobal, head, plh, newMode, pc>>
     \/ /\ request[l].recursive = 1 /\ request[l].on = "partition"
        /\ request' = [request EXCEPT ![l] = NoRequest]
        /\ plh' = [plh EXCEPT ![PartitionOf[l]] = Remove(@, l)]
        /\ UNCHANGED <<isGlobal, head, newMode, pc>>
     \/ /\ request[l].recursive = 1 /\ request[l].on = "head"
        /\ UnlockHead(l, 0)

(* LockManager::unlock of a request that timed out, up to the bucket mutex:   *)
(* the status is read with no mutex held, ...                                 *)
CancelBegin(l) ==
  /\ pc[l] = "cancel"
  /\ request' = [request EXCEPT ![l].recursive = @ - 1]
  /\ pc' = [pc EXCEPT ![l] = IF request[l].status = "granted" /\ request[l].recursive > 1
                               THEN "run" ELSE "unlock"]
  /\ UNCHANGED <<isGlobal, head, plh, newMode>>

(* ... and read again with it. *)
CancelEnd(l) ==
  /\ pc[l] = "unlock"
  /\ UnlockHead(l, request[l].recursive)

(* LockManager::downgrade, which is called for the global lock, X to S. *)
Downgrade(l) ==
  LET s == OnLockModeChanged([Current EXCEPT !.h.grantedCounts["S"] = @ + 1,
                                             !.h.grantedCounts["X"] = @ - 1,
                                             !.r[l].mode = "S"], TRUE)
  IN  /\ isGlobal
      /\ pc[l] = "run" /\ request[l].status = "granted"
      /\ request[l].mode = "X" /\ request[l].recursive = 1
      /\ head' = s.h /\ request' = s.r
      /\ UNCHANGED <<isGlobal, plh, newMode, pc>>

(* The invariant() calls on a LockHead that cleanupUnusedLocks deletes. *)
Unused(h) ==
  /\ h.granted = <<>> /\ h.conflict = <<>>
  /\ ConflictModes(h) = {} /\ h.conversions = 0 /\ h.compatibleFirst = 0

(* LockManager::_cleanupUnusedLocksInBucket, by the periodic cleaner.  The    *)
(* process ends if the head is not what invariant() asks for.                 *)
CleanupUnusedLocks ==
  LET s == Migrate(Current) IN
  /\ GrantedModes(s.h) = {} => Unused(s.h)
  /\ head' = IF GrantedModes(s.h) = {} THEN EmptyHead ELSE s.h
  /\ request' = s.r
  /\ plh' = EmptyPartitions
  /\ UNCHANGED <<isGlobal, newMode, pc>>

Step(l) ==
  \/ \E m \in Modes : LockFull(l, m) \/ LockIntent(l, m) \/ Convert(l, m)
  \/ LockIntentHead(l) \/ ConvertHead(l)
  \/ WakeUp(l) \/ TimeOut(l)
  \/ Unlock(l) \/ CancelBegin(l) \/ CancelEnd(l)
  \/ Downgrade(l)

Next == CleanupUnusedLocks \/ \E l \in Lockers : Step(l)

Spec == Init /\ [][Next]_vars

(* Every call of the lock manager ends or waits to be granted, and who holds  *)
(* the lock does not keep it for ever without waiting for an upgrade.         *)
LiveSpec ==
  /\ Spec
  /\ \A l \in Lockers :
       []<>(request[l].status = "none" \/ (pc[l] = "wait" /\ ~request[l].told))
-----------------------------------------------------------------------------
Request ==
  [status : {"none", "new", "granted", "waiting", "converting"},
   mode : Modes \cup {"NONE"}, convertMode : Modes \cup {"NONE"},
   recursive : 0..MaxRecursive, partitioned : BOOLEAN, priority : BOOLEAN,
   on : {"nothing", "partition", "head"}, told : BOOLEAN]

(* The type of every variable.  The counts of modes are never below zero:     *)
(* decGrantedModeCount and decConflictModeCount assert it.                    *)
TypeOK ==
  /\ isGlobal \in BOOLEAN
  /\ head.granted \in Seq(Lockers) /\ head.conflict \in Seq(Lockers)
  /\ head.grantedCounts \in [Modes -> Nat] /\ head.conflictCounts \in [Modes -> Nat]
  /\ head.conversions \in Nat /\ head.compatibleFirst \in Int
  /\ head.partitions \in Seq(Partitions)
  /\ plh \in [Partitions -> Seq(Lockers)]
  /\ request \in [Lockers -> Request]
  /\ newMode \in [Lockers -> Modes \cup {"NONE"}]
  /\ pc \in [Lockers -> {"run", "lock", "convert", "wait", "cancel", "unlock"}]

Holds(l) == request[l].status \in {"granted", "converting"}

(* No two lockers hold the resource in conflicting modes, whatever mixture of *)
(* partitions, migration, upgrades, cancelled requests and the periodic       *)
(* cleanup has led there.                                                     *)
MutualExclusion ==
  \A l, k \in Lockers :
    l # k /\ Holds(l) /\ Holds(k) => ~Conflicts(request[l].mode, {request[k].mode})

CountOf(f, mode, lockers) == Cardinality({l \in lockers : request[l][f] = mode})

(* "These counts should exactly match the aggregated modes" on the granted    *)
(* and the conflict list (lock_manager.cpp); each request is on one list, the *)
(* one that its status and its two lock pointers tell.                        *)
QueuesAgree ==
  LET granted == ToSet(head.granted)
      conflict == ToSet(head.conflict)
  IN  /\ \A m \in Modes :
           /\ head.grantedCounts[m] = CountOf("mode", m, granted) + CountOf("convertMode", m, granted)
           /\ head.conflictCounts[m] = CountOf("mode", m, conflict)
      /\ head.conversions = Cardinality({l \in Lockers : request[l].status = "converting"})
      /\ granted = {l \in Lockers : Holds(l) /\ request[l].on = "head"}
      /\ conflict = {l \in Lockers : request[l].status = "waiting"}
      /\ \A p \in Partitions :
           ToSet(plh[p]) = {l \in Lockers : PartitionOf[l] = p /\ request[l].on = "partition"}
      /\ \A q \in {head.granted, head.conflict} \cup {plh[p] : p \in Partitions} : IsInjective(q)

(* "Non-empty implies the lock has no conflicts and only has intent modes as  *)
(* grantedModes", of LockHead::partitions; and a partition with requests is   *)
(* one the LockHead references, or they would escape a migration.             *)
PartitionedIsIntentOnly ==
  /\ head.partitions # <<>> =>
       GrantedModes(head) \subseteq IntentModes /\ ConflictModes(head) = {}
  /\ \A p \in Partitions : plh[p] # <<>> => p \in ToSet(head.partitions)

(* Nobody is left waiting for nothing.  A conversion waits for another mode   *)
(* on the granted queue.  Of the conflict queue the front waits for a granted *)
(* mode, or on the global resource, where a request may join at the front,    *)
(* one of its members does.  A waiting thread whose request was granted has   *)
(* been notified.                                                             *)
NoneForgotten ==
  /\ \A l \in Lockers :
       /\ request[l].status = "converting" =>
            Conflicts(request[l].convertMode, OtherGrantedModes(head, request[l]))
       /\ pc[l] = "wait" => (request[l].told <=> request[l].status = "granted")
  /\ LET blocked == {i \in 1..Len(head.conflict) :
                       Conflicts(request[head.conflict[i]].mode, GrantedModes(head))}
     IN  head.conflict # <<>> => IF isGlobal THEN blocked # {} ELSE 1 \in blocked

Waiting(l) == request[l].status \in {"waiting", "converting"}

(* Two holders that upgrade, each against the other, wait for ever: the lock  *)
(* manager leaves that to its callers.                                        *)
UpgradeDeadlock ==
  \E l, k \in Lockers :
    /\ l # k /\ request[l].status = "converting" /\ request[k].status = "converting"
    /\ Conflicts(request[l].convertMode, {request[k].mode, request[k].convertMode} \ {"NONE"})
    /\ Conflicts(request[k].convertMode, {request[l].mode, request[l].convertMode} \ {"NONE"})

(* Who waits for X, which no other mode may overtake, or for an upgrade gets  *)
(* the lock or gives up, unless two upgrades deadlock.  (A request for S or   *)
(* IX can be overtaken for ever by lockers that come in with IS and upgrade.) *)
WaitersAreServed ==
  \A l \in Lockers :
    /\ Waiting(l) /\ ~isGlobal
    /\ request[l].mode = "X" \/ request[l].status = "converting"
    ~> ~Waiting(l) \/ UpgradeDeadlock
-----------------------------------------------------------------------------
(* "The fast path for decrementing multiple references did already ensure     *)
(* request->recursiveCount == 0" (LockManager::unlock): a request that        *)
(* unlock() finds granted and takes off the queue is not referenced any more. *)
UnlockedIsUnreferenced ==
  \A l \in Lockers :
    pc[l] = "unlock" /\ request[l].status = "granted" => request[l].recursive = 0
=============================================================================
