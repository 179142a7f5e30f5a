------------------------------ MODULE DistLock ------------------------------
(* Distributed locks: ReplSetDistLockManager over DistLockCatalogImpl.  A      *)
(* lock is a document of config.locks, its state and the session (`ts') of     *)
(* its owner.  A call on the config servers runs and answers, or it fails:     *)
(* then its write was applied, is lost or is applied later.  (An unlock whose   *)
(* session is done with the lock and that is applied later does what the one   *)
(* queued for it does, and is not kept apart.)                                 *)
(* What may still be owned after an error goes on the process's _unlockList,   *)
(* which its pinger thread works off.  isLockExpired is taken at what          *)
(* LockExpiry shows of it: it is true only of a process that was silent.       *)
(*                                                                             *)
(* A client is one user of the manager: a name, a session and a process.       *)
(* DistLockManager::lock makes a new session for every call; the clients in    *)
(* Reusing, the migrations of one MigrationManager, lock again and again and   *)
(* all under one session, one of them for each collection                      *)
(* (_activeMigrationsWithDistLock).                                            *)
EXTENDS Integers, Sequences

CONSTANTS Client, Name, Session, Process,
          NameOf, SessionOf,   \* of a client
          ProcessOf,           \* of a session
          Reusing,
          NoSession, AnyName,
          kMaxNumLockAcquireRetries,
          MaxCalls,            \* bound: calls of one reusing client
          MaxFaults            \* bound: calls on the config servers that fail

ASSUME ClientAssumption ==
  /\ NameOf \in [Client -> Name] /\ SessionOf \in [Client -> Session]
  /\ ProcessOf \in [Session -> Process]
  /\ \A c, d \in Client : c # d /\ SessionOf[c] = SessionOf[d] =>
       {c, d} \subseteq Reusing /\ NameOf[c] # NameOf[d]
  /\ NoSession \notin Session /\ AnyName \notin Name
  /\ kMaxNumLockAcquireRetries \in Nat /\ MaxCalls \in Nat /\ MaxFaults \in Nat

VARIABLES
  doc,          \* config.locks: per name, the state and the owner's session
  unlockList,   \* _unlockList of each process
  call,         \* each client: where it is and its locals
  late,         \* writes, of a client, still on their way after an error
  faults,       \* how many calls have failed
  silent,       \* processes that did not ping for the expiration time
  forced,       \* sessions whose lock was taken over
  orphaned,     \* sessions a late write locked for, with no unlock queued
  undone        \* sessions that lost the lock by a late unlock

ghosts == <<silent, forced, orphaned, undone>>
vars == <<doc, unlockList, call, late, faults, ghosts>>

Free == [state |-> "UNLOCKED", ts |-> NoSession]
NoCall == [pc |-> "idle", retries |-> 0, seen |-> NoSession, calls |-> 0]
Locked(c) == [state |-> "LOCKED", ts |-> SessionOf[c]]

Init ==
  /\ doc = [n \in Name |-> Free]
  /\ unlockList = [p \in Process |-> <<>>]
  /\ call = [c \in Client |-> NoCall]
  /\ late = {} /\ faults = 0
  /\ silent = {} /\ forced = {} /\ orphaned = {} /\ undone = {}
-----------------------------------------------------------------------------
(* The writes of DistLockCatalogImpl, one findAndModify each. *)

Grabbed(c) ==
  IF doc[NameOf[c]].state = "UNLOCKED" THEN [doc EXCEPT ![NameOf[c]] = Locked(c)] ELSE doc

(* Slip: whoever owns the lock by now is overtaken. *)
MutOvertakes(c, seen) == TRUE

(* overtakeLock finds the lock free, or still of the session that was seen. *)
Overtakes(c, seen) == doc[NameOf[c]].state = "UNLOCKED" \/ doc[NameOf[c]].ts = seen

(* The document is locked for c; its owner, if it was another, has lost it. *)
Overtaken(c) ==
  LET old == doc[NameOf[c]]
  IN  /\ doc' = [doc EXCEPT ![NameOf[c]] = Locked(c)]
      /\ forced' = IF old.state = "LOCKED" /\ old.ts # SessionOf[c]
                     THEN forced \cup {old.ts} ELSE forced

(* unlock by session and name, or by session alone, when it takes any one     *)
(* document of the session.  To find none counts as success.                  *)
Unlocked(ts, name) ==
  LET match == {n \in Name : doc[n].ts = ts /\ name \in {n, AnyName}}
  IN  IF match = {} THEN {doc} ELSE {[doc EXCEPT ![n].state = "UNLOCKED"] : n \in match}
-----------------------------------------------------------------------------
At(c, pc) == call[c].pc = pc
Go(c, pc) == call' = [call EXCEPT ![c] = [NoCall EXCEPT !.pc = pc, !.calls = call[c].calls]]

(* The call is over.  A session of lock() is not used again. *)
Leave(c) == Go(c, IF c \in Reusing THEN "idle" ELSE "done")

Fault == faults < MaxFaults /\ faults' = faults + 1

(* A write of c whose caller gave it up; an overtakeLock carries what c saw. *)
Pending(c, write) == [by |-> c, write |-> write, seen |-> call[c].seen]
Delayed(c, write) == late' = late \cup {Pending(c, write)}

(* Slip: the unlock is forgotten. *)
MutQueueUnlock(c, name) == UNCHANGED unlockList

QueueUnlock(c, name) ==
  unlockList' = [unlockList EXCEPT ![ProcessOf[SessionOf[c]]] =
                   Append(@, [ts |-> SessionOf[c], name |-> name])]

(* The MigrationManager holds its _mutex during the calls of its clients. *)
MayCall(c) == c \in Reusing => \A d \in Reusing : call[d].pc \in {"idle", "held"}

LockWithSessionID(c) ==
  /\ MayCall(c)
  /\ At(c, "idle") /\ call[c].calls < IF c \in Reusing THEN MaxCalls ELSE 1
  /\ call' = [call EXCEPT ![c] = [NoCall EXCEPT !.pc = "grab", !.calls = call[c].calls + 1]]
  /\ UNCHANGED <<doc, unlockList, late, faults, ghosts>>

(* grabLock answers: the lock is acquired, or LockStateChangeFailed. *)
GrabLock(c) ==
  /\ At(c, "grab")
  /\ doc' = Grabbed(c)
  /\ Go(c, IF doc[NameOf[c]].state = "UNLOCKED" THEN "held" ELSE "look")
  /\ UNCHANGED <<unlockList, late, faults, ghosts>>

(* grabLock fails.  A network error, if there were not too many, is followed   *)
(* by a synchronous unlock, everything else by a queued one.                   *)
GrabLockFails(c) ==
  /\ At(c, "grab") /\ Fault
  /\ \/ doc' \in {doc, Grabbed(c)} /\ late' = late
     \/ doc' = doc /\ Delayed(c, "grabLock")
  /\ \/ /\ call[c].retries < kMaxNumLockAcquireRetries
        /\ call' = [call EXCEPT ![c].pc = "undo", ![c].retries = @ + 1]
        /\ UNCHANGED unlockList
     \/ QueueUnlock(c, NameOf[c]) /\ Leave(c)
  /\ UNCHANGED ghosts

(* The unlock between two attempts, or before the call times out, which may    *)
(* take several tries and leave one behind; if they all fail, it is queued.    *)
UnlockBeforeRetry(c) ==
  LET unlocked == Unlocked(SessionOf[c], NameOf[c])
  IN  /\ At(c, "undo")
      /\ \/ /\ doc' \in unlocked
            /\ call' = [call EXCEPT ![c].pc = "grab"] \/ (c \notin Reusing /\ Leave(c))
            /\ \/ UNCHANGED <<faults, late>>
               \/ Fault /\ Delayed(c, "unlock")
            /\ UNCHANGED unlockList
         \/ /\ Fault /\ doc' \in unlocked \cup {doc} /\ QueueUnlock(c, NameOf[c]) /\ Leave(c)
            /\ UNCHANGED late
      /\ UNCHANGED ghosts

(* getLockByName finds the document that was in the way: none is ever removed. *)
GetLockByName(c) ==
  /\ At(c, "look")
  /\ \/ /\ call' = [call EXCEPT ![c].pc = "expire", ![c].seen = doc[NameOf[c]].ts]
        /\ UNCHANGED faults
     \/ Fault /\ Leave(c)
  /\ UNCHANGED <<doc, unlockList, late, ghosts>>

(* isLockExpired: the lock is overtaken if its owner was silent, or is the     *)
(* session of the call itself.                                                 *)
CheckExpired(c) ==
  /\ At(c, "expire")
  /\ \/ /\ \/ ProcessOf[call[c].seen] \in silent \/ call[c].seen = SessionOf[c]
        /\ call' = [call EXCEPT ![c].pc = "overtake"]
        /\ UNCHANGED faults
     \/ call[c].seen # SessionOf[c] /\ Go(c, "busy") /\ UNCHANGED faults
     \/ Fault /\ Leave(c)
  /\ UNCHANGED <<doc, unlockList, late, ghosts>>

(* overtakeLock; after an error, "the write might have actually been applied  *)
(* on the other side", or still be on its way: an unlock by session alone is  *)
(* queued.                                                                    *)
OvertakeLock(c) ==
  LET Taken == Overtakes(c, call[c].seen) /\ Overtaken(c)
  IN  /\ At(c, "overtake")
      /\ \/ Taken /\ Go(c, "held") /\ UNCHANGED <<unlockList, late, faults>>
         \/ /\ ~Overtakes(c, call[c].seen) /\ Go(c, "busy")
            /\ UNCHANGED <<doc, forced, unlockList, late, faults>>
         \/ /\ Fault /\ QueueUnlock(c, AnyName) /\ Leave(c)
            /\ \/ (Taken \/ UNCHANGED <<doc, forced>>) /\ UNCHANGED late
               \/ UNCHANGED <<doc, forced>> /\ Delayed(c, "overtakeLock")
      /\ UNCHANGED <<silent, orphaned, undone>>

(* The lock is busy: sleep and start over, or time out; the MigrationManager   *)
(* (kSingleLockAttemptTimeout) does not wait.                                  *)
RetryOrTimeOut(c) ==
  /\ At(c, "busy")
  /\ (c \notin Reusing /\ Go(c, "grab")) \/ Leave(c)
  /\ UNCHANGED <<doc, unlockList, late, faults, ghosts>>

(* unlock, of a ScopedDistLock by session alone, of the MigrationManager by    *)
(* session and name; one that fails is queued.                                 *)
Unlock(c) ==
  LET name == IF c \in Reusing THEN NameOf[c] ELSE AnyName
      unlocked == Unlocked(SessionOf[c], name)
  IN  /\ At(c, "held") /\ MayCall(c)
      /\ \/ doc' \in unlocked /\ UNCHANGED <<unlockList, faults>>
         \/ Fault /\ doc' \in unlocked \cup {doc} /\ QueueUnlock(c, name)
      /\ Leave(c)
      /\ UNCHANGED <<late, ghosts>>
-----------------------------------------------------------------------------
(* Slip: the batch is put back without being sent. *)
MutUnlockNext(p) ==
  /\ unlockList[p] # <<>>
  /\ unlockList' = [unlockList EXCEPT ![p] = Append(Tail(@), Head(@))]
  /\ UNCHANGED <<doc, call, late, faults, ghosts>>

(* doTask: the pinger takes the next unlock of its batch... *)
UnlockNext(p) ==
  /\ unlockList[p] # <<>>
  /\ doc' \in Unlocked(Head(unlockList[p]).ts, Head(unlockList[p]).name)
  /\ unlockList' = [unlockList EXCEPT ![p] = Tail(@)]
  /\ UNCHANGED <<call, late, faults, ghosts>>

(* ... and queues it again if it failed. *)
UnlockNextFails(p) ==
  /\ unlockList[p] # <<>>
  /\ doc' \in Unlocked(Head(unlockList[p]).ts, Head(unlockList[p]).name) \cup {doc}
  /\ unlockList' = [unlockList EXCEPT ![p] = Append(Tail(@), Head(@))]
  /\ UNCHANGED <<call, late, faults, ghosts>>

(* The pinger is going to release what c may own. *)
UnlockIsQueued(c) ==
  LET list == unlockList[ProcessOf[SessionOf[c]]]
  IN  \E i \in DOMAIN list : list[i].ts = SessionOf[c] /\ list[i].name \in {NameOf[c], AnyName}

(* A write its caller has given up reaches the config servers: w was c's. *)
Arrives(c, w, write) == w \in late /\ w.by = c /\ w.write = write /\ late' = late \ {w}

LockedLate(c) ==
  orphaned' = IF doc' = doc \/ UnlockIsQueued(c) THEN orphaned ELSE orphaned \cup {SessionOf[c]}

LateGrabLock(c) ==
  /\ \E w \in late : Arrives(c, w, "grabLock")
  /\ doc' = Grabbed(c) /\ LockedLate(c)
  /\ UNCHANGED <<unlockList, call, faults, silent, forced, undone>>

LateOvertakeLock(c) ==
  /\ \E w \in late : /\ Arrives(c, w, "overtakeLock")
                     /\ \/ Overtakes(c, w.seen) /\ Overtaken(c)
                        \/ ~Overtakes(c, w.seen) /\ UNCHANGED <<doc, forced>>
  /\ LockedLate(c)
  /\ UNCHANGED <<unlockList, call, faults, silent, undone>>

LateUnlock(c) ==
  /\ \E w \in late : Arrives(c, w, "unlock")
  /\ doc' \in Unlocked(SessionOf[c], NameOf[c])
  /\ undone' = IF doc' = doc THEN undone ELSE undone \cup {SessionOf[c]}
  /\ UNCHANGED <<unlockList, call, faults, silent, forced, orphaned>>

(* A process stops pinging: it is paused, cut off or gone. *)
FallSilent(p) ==
  /\ silent' = silent \cup {p}
  /\ UNCHANGED <<doc, unlockList, call, late, faults, forced, orphaned, undone>>

ClientStep(c) ==
  \/ LockWithSessionID(c) \/ GrabLock(c) \/ GrabLockFails(c) \/ UnlockBeforeRetry(c)
  \/ GetLockByName(c) \/ CheckExpired(c) \/ OvertakeLock(c) \/ RetryOrTimeOut(c) \/ Unlock(c)

Next ==
  \/ \E c \in Client : ClientStep(c) \/ LateGrabLock(c) \/ LateOvertakeLock(c) \/ LateUnlock(c)
  \/ \E p \in Process : UnlockNext(p) \/ UnlockNextFails(p) \/ FallSilent(p)

(* The pinger runs as long as its process, and the config servers answer it    *)
(* again and again.                                                            *)
Spec == Init /\ [][Next]_vars /\ \A p \in Process : SF_vars(UnlockNext(p))
-----------------------------------------------------------------------------
Owns(c) == doc[NameOf[c]] = Locked(c)

(* The type of every variable; a document is missing as long as nobody has     *)
(* locked it, and locked by someone after.                                     *)
TypeOK ==
  /\ doc \in [Name -> {Free} \cup [state : {"UNLOCKED", "LOCKED"}, ts : Session]]
  /\ unlockList \in [Process -> Seq([ts : Session, name : Name \cup {AnyName}])]
  /\ call \in [Client -> [pc : {"idle", "grab", "undo", "look", "expire", "overtake", "busy",
                                "held", "done"},
                          retries : 0..kMaxNumLockAcquireRetries,
                          seen : Session \cup {NoSession}, calls : Nat]]
  /\ late \subseteq [by : Client, write : {"grabLock", "overtakeLock", "unlock"},
                     seen : Session \cup {NoSession}]
  /\ faults \in 0..MaxFaults
  /\ silent \subseteq Process
  /\ forced \subseteq Session /\ orphaned \subseteq Session /\ undone \subseteq Session

(* Mutual exclusion: a caller of lock() that was told it has the lock is the   *)
(* owner on record until it unlocks, unless its lock was taken over, be it by  *)
(* an overtakeLock that came late; and that happens only to a process that     *)
(* fell silent.  No error, retry, queued unlock or late grabLock takes a lock  *)
(* from whoever holds it; only the unlock of an attempt that failed can, if it *)
(* arrives after a later attempt succeeded.                                    *)
(* The MigrationManager has this only until a call fails: the unlock queued    *)
(* then may undo a later lock of the same session.                             *)
HolderIsOwner ==
  \A c \in Client : At(c, "held") =>
    \/ Owns(c)
    \/ SessionOf[c] \in forced /\ ProcessOf[SessionOf[c]] \in silent
    \/ SessionOf[c] \in undone
    \/ c \in Reusing /\ faults > 0

(* lockWithSessionID leaves nothing behind when it fails, nor does unlock: a   *)
(* lock its session still owns after the call has an unlock on the list, but   *)
(* for a grabLock or an overtakeLock that came when none was queued, or after  *)
(* it was sent.  (The comment at the retry, "We certainly do not own the       *)
(* lock", and the unlock that is queued "to clean it up just in case" do not   *)
(* reach such a write.)                                                        *)
NothingLeftBehind ==
  \A c \in Client \ Reusing :
    At(c, "done") /\ Owns(c) /\ SessionOf[c] \notin orphaned => UnlockIsQueued(c)

(* The pinger eventually releases it: unlock "Will attempt to retry again      *)
(* later if the config server is not reachable" (dist_lock_manager.h).         *)
EventuallyReleased ==
  \A c \in Client \ Reusing :
    (At(c, "done") /\ Owns(c)) ~> (~Owns(c) \/ SessionOf[c] \in orphaned)
=============================================================================
