----------------------------- MODULE LockExpiry -----------------------------
(* When may a distributed lock be taken from its owner?                        *)
(* ReplSetDistLockManager::isLockExpired, called by several threads of one     *)
(* process that wait for one lock and share _pingHistory.  A call reads the    *)
(* lock's document, the ping of the owner's process and the clock of the       *)
(* config servers' primary, each with an answer that takes time, and compares  *)
(* them with what an earlier call has seen.  Meanwhile owners ping, release    *)
(* and acquire, and the config servers elect primaries whose clocks differ.    *)
(* A primary's own clock runs at the rate of true time.                        *)
EXTENDS Integers

CONSTANTS Threads,       \* threads of the waiting process
          Sessions,      \* sessions of the other processes
          Processes, ProcessOf,
          NoEntry,
          Expiration,    \* _lockExpiration, in ticks
          MaxTrip,       \* bound: the longest getServerInfo, retries included
          Skews,         \* clocks of later primaries, against the first one's
          MaxTime, MaxElections   \* bounds

ASSUME ExpiryAssumption ==
  /\ ProcessOf \in [Sessions -> Processes]
  /\ Expiration \in Nat /\ MaxTrip \in Nat /\ MaxTrip < Expiration
  /\ MaxTime \in Nat /\ MaxElections \in Nat /\ Skews \subseteq Int

VARIABLES
  owner,            \* config.locks: the session of the lock
  acquired,         \* when each session first got it, Never if it did not yet
  pinged,           \* config.lockpings: each process's last ping, 0 at first
  known,            \* _pingHistory's entry for the lock
  recordedAt,       \* the true time at which that entry was made
  call,             \* each thread: where it is and its locals
  now,              \* true time
  electionId,       \* the election of the config servers' primary
  skew              \* the clock of each primary, against true time

configVars == <<owner, acquired, pinged>>
clockVars == <<now, electionId, skew>>
vars == <<configVars, known, recordedAt, call, clockVars>>

Never == -1
Idle == [pc |-> "idle", lock |-> NoEntry, ping |-> 0,
         start |-> 0, serverTime |-> 0, electionId |-> 0, delay |-> 0]

Init ==
  /\ owner \in Sessions
  /\ acquired = [s \in Sessions |-> IF s = owner THEN 0 ELSE Never]
  /\ pinged = [p \in Processes |-> 0]
  /\ known = NoEntry /\ recordedAt = 0
  /\ call = [t \in Threads |-> Idle]
  /\ now = 0 /\ electionId = 0 /\ skew = [e \in 0..MaxElections |-> 0]
-----------------------------------------------------------------------------
(* getLockByName, from lockWithSessionID. *)
GetLockByName(t) ==
  /\ call[t].pc = "idle"
  /\ call' = [call EXCEPT ![t] = [Idle EXCEPT !.pc = "getPing", !.lock = owner]]
  /\ UNCHANGED <<configVars, known, recordedAt, clockVars>>

(* getPing of the owner's process, then the timer is started. *)
GetPing(t) ==
  /\ call[t].pc = "getPing"
  /\ call' = [call EXCEPT ![t].pc = "getServerInfo", ![t].start = now,
                          ![t].ping = pinged[ProcessOf[call[t].lock]]]
  /\ UNCHANGED <<configVars, known, recordedAt, clockVars>>

(* The primary answers getServerInfo with its clock and its election. *)
GetServerInfo(t) ==
  /\ call[t].pc = "getServerInfo"
  /\ call' = [call EXCEPT ![t].pc = "gotServerInfo", ![t].serverTime = now + skew[electionId],
                          ![t].electionId = electionId]
  /\ UNCHANGED <<configVars, known, recordedAt, clockVars>>

(* One of the reads fails: the lock is not expired, or the caller gives up. *)
ReadFails(t) ==
  /\ call[t].pc \in {"getPing", "getServerInfo"}
  /\ call' = [call EXCEPT ![t] = Idle]
  /\ UNCHANGED <<configVars, known, recordedAt, clockVars>>

(* The answer arrives and the timer is read, before _mutex is locked. *)
ReadTimer(t) ==
  /\ call[t].pc = "gotServerInfo"
  /\ call' = [call EXCEPT ![t].pc = "timed", ![t].delay = (now - call[t].start) \div 2]
  /\ UNCHANGED <<configVars, known, recordedAt, clockVars>>

(* The primary's clock when it answered, as the code estimates it. *)
ConfigServerLocalTime(t) == call[t].serverTime - call[t].delay

(* Slip: a change of primary goes unnoticed. *)
MutIsNews(t) == known.lastPing # call[t].ping \/ known.lockSessionId # call[t].lock

(* The entry is of another ping, another owner or another primary. *)
IsNews(t) ==
  \/ known.lastPing # call[t].ping
  \/ known.lockSessionId # call[t].lock
  \/ known.electionId # call[t].electionId

Remember(t, time) ==
  /\ known' = [lastPing |-> call[t].ping, lockSessionId |-> call[t].lock,
               electionId |-> call[t].electionId, configLocalTime |-> time]
  /\ recordedAt' = now

(* Slip: what was seen last replaces what was seen first. *)
MutKeep(t) ==
  known' = [known EXCEPT !.configLocalTime = ConfigServerLocalTime(t)] /\ UNCHANGED recordedAt

(* The entry stays as it is: time is counted from it. *)
Keep(t) == UNCHANGED <<known, recordedAt>>

(* isLockExpired, under _mutex. *)
IsLockExpired(t) ==
  LET elapsed == ConfigServerLocalTime(t) - known.configLocalTime
      Answer(expired) == call' = [call EXCEPT ![t] =
        IF expired THEN [@ EXCEPT !.pc = "expired", !.serverTime = 0, !.electionId = 0, !.delay = 0]
                   ELSE Idle]
  IN  /\ call[t].pc = "timed"
      /\ \/ known = NoEntry /\ Remember(t, call[t].serverTime) /\ Answer(FALSE)
         \/ /\ known # NoEntry /\ IsNews(t)
            /\ Remember(t, ConfigServerLocalTime(t)) /\ Answer(FALSE)
         \/ /\ known # NoEntry /\ ~IsNews(t)
            /\ Keep(t)
            /\ Answer(elapsed >= 0 /\ elapsed >= Expiration)
      /\ UNCHANGED <<configVars, clockVars>>

(* The caller may now take the lock over: DistLock says how. *)
Return(t) ==
  /\ call[t].pc = "expired"
  /\ call' = [call EXCEPT ![t] = Idle]
  /\ UNCHANGED <<configVars, known, recordedAt, clockVars>>
-----------------------------------------------------------------------------
(* The pinger of another process. *)
Ping(p) ==
  /\ pinged' = [pinged EXCEPT ![p] = now]
  /\ UNCHANGED <<owner, acquired, known, recordedAt, call, clockVars>>

(* The lock passes to a session; those of the MigrationManager get it again   *)
(* and again.                                                                 *)
ChangeOwner(s) ==
  /\ acquired' = [acquired EXCEPT ![s] = IF @ = Never THEN now ELSE @]
  /\ owner' = s
  /\ UNCHANGED <<pinged, known, recordedAt, call, clockVars>>

Tick ==
  /\ now < MaxTime
  /\ \A t \in Threads : call[t].pc \in {"getServerInfo", "gotServerInfo"}
                          => now < call[t].start + MaxTrip
  /\ now' = now + 1
  /\ UNCHANGED <<configVars, known, recordedAt, call, electionId, skew>>

Elect ==
  /\ electionId < MaxElections
  /\ electionId' = electionId + 1
  /\ \E k \in Skews : skew' = [skew EXCEPT ![electionId + 1] = k]
  /\ UNCHANGED <<configVars, known, recordedAt, call, now>>

Next ==
  \/ \E t \in Threads : \/ GetLockByName(t) \/ GetPing(t) \/ GetServerInfo(t) \/ ReadFails(t)
                        \/ ReadTimer(t) \/ IsLockExpired(t) \/ Return(t)
  \/ \E p \in Processes : Ping(p)
  \/ \E s \in Sessions : ChangeOwner(s)
  \/ Tick \/ Elect

Spec == Init /\ [][Next]_vars
-----------------------------------------------------------------------------
(* The type of every variable; an entry is never ahead of the clock it is from. *)
TypeOK ==
  /\ owner \in Sessions /\ acquired \in [Sessions -> 0..MaxTime \cup {Never}]
  /\ pinged \in [Processes -> 0..MaxTime]
  /\ known # NoEntry => /\ known.lastPing \in 0..MaxTime /\ known.lockSessionId \in Sessions
                        /\ known.electionId \in 0..MaxElections
                        /\ known.configLocalTime - skew[known.electionId] \in -MaxTrip..now
  /\ recordedAt \in 0..MaxTime /\ now \in 0..MaxTime
  /\ electionId \in 0..MaxElections /\ skew \in [0..MaxElections -> Int]

(* isLockExpired never says so of a process that pings at least every          *)
(* Expiration - MaxTrip ticks, nor of a session that first got the lock within *)
(* that time, whatever the clocks of the primaries and however the threads     *)
(* overlap.  The estimate may be ahead of the truth by one round trip, not by  *)
(* more.  (A session that is used again, as the MigrationManager's, has no     *)
(* such grace when it gets the lock again: the entry of its earlier turn is    *)
(* taken for one about this turn.)                                             *)
ExpiredOnlyIfSilent ==
  \A t \in Threads : call[t].pc = "expired" =>
    /\ call[t].start - call[t].ping >= Expiration - MaxTrip
    /\ call[t].start - acquired[call[t].lock] >= Expiration - MaxTrip

(* isLockExpired does find an owner that is gone: a call that starts           *)
(* Expiration, and half its round trip, after the entry was made, and finds it *)
(* unchanged, says that the lock expired, however long it waits for _mutex.    *)
SilentOwnerExpires ==
  [][\A t \in Threads :
       call[t].pc = "timed" /\ call'[t].pc = "idle" /\ recordedAt' = recordedAt =>
         call[t].start - recordedAt < Expiration + call[t].delay]_vars
=============================================================================
