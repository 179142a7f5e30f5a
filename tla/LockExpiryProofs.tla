-------------------------- MODULE LockExpiryProofs --------------------------
(***************************************************************************)
(* What isLockExpired promises, for any number of threads, sessions,       *)
(* processes and elections, any clocks, any expiration and any round trip  *)
(* shorter than it.  The argument: an entry of _pingHistory is dated, by   *)
(* the clock of the primary it is from, at most half a round trip before   *)
(* the ping and the first acquisition by the session it is about, and not  *)
(* after it was made;                                                      *)
(* an answer is dated at most half a round trip after the call started.    *)
(***************************************************************************)
EXTENDS LockExpiry, TLAPS

Answers == [pc : {"idle", "getPing", "getServerInfo", "gotServerInfo", "timed", "expired"},
            lock : Sessions \cup {NoEntry}, ping : Int, start : Int,
            serverTime : Int, electionId : 0..MaxElections, delay : Int]
Entries == [lastPing : 0..MaxTime, lockSessionId : Sessions,
            electionId : 0..MaxElections, configLocalTime : Int]

(* Clocks and documents; nothing is dated after the present. *)
ClockInv ==
  /\ now \in 0..MaxTime /\ electionId \in 0..MaxElections
  /\ skew \in [0..MaxElections -> Int]
  /\ owner \in Sessions /\ acquired[owner] # Never
  /\ acquired \in [Sessions -> Int] /\ \A s \in Sessions : acquired[s] \in Never..now
  /\ pinged \in [Processes -> Int] /\ \A p \in Processes : pinged[p] \in 0..now
  /\ recordedAt \in 0..now

(* A call knows a session that had the lock, and the order of its reads. *)
CallInv(c) ==
  /\ c \in Answers
  /\ c.pc # "idle" => c.lock \in Sessions /\ acquired[c.lock] # Never
  /\ c.pc \in {"getServerInfo", "gotServerInfo", "timed", "expired"} =>
       /\ 0 <= c.ping /\ c.ping <= c.start /\ acquired[c.lock] <= c.start /\ c.start <= now
  /\ c.pc \in {"getServerInfo", "gotServerInfo"} => now <= c.start + MaxTrip
  /\ c.pc \in {"gotServerInfo", "timed"} => /\ c.electionId <= electionId
                                           /\ c.start <= c.serverTime - skew[c.electionId]
                                           /\ c.serverTime - skew[c.electionId] <= now
  /\ c.pc = "timed" =>
       /\ 0 <= c.delay /\ 2 * c.delay <= MaxTrip
       /\ 2 * (c.serverTime - skew[c.electionId] - c.delay) <= 2 * c.start + MaxTrip + 1
  /\ c.pc = "expired" => /\ c.start - c.ping >= Expiration - MaxTrip
                         /\ c.start - acquired[c.lock] >= Expiration - MaxTrip

(* The date of an entry. *)
EntryInv ==
  known # NoEntry =>
    LET date == known.configLocalTime - skew[known.electionId]
    IN  /\ known \in Entries
        /\ known.electionId <= electionId
        /\ acquired[known.lockSessionId] # Never
        /\ 2 * date >= 2 * known.lastPing - MaxTrip
        /\ 2 * date >= 2 * acquired[known.lockSessionId] - MaxTrip
        /\ date <= recordedAt

IInv ==
  /\ ClockInv
  /\ call \in [Threads -> Answers] /\ \A t \in Threads : CallInv(call[t])
  /\ EntryInv
-----------------------------------------------------------------------------
(* The delay the code takes off is half of the round trip, rounded down. *)
LEMMA Half ==
    ASSUME NEW d \in Nat
    PROVE  /\ d \div 2 \in Nat
           /\ 2 * (d \div 2) <= d /\ d <= 2 * (d \div 2) + 1
OBVIOUS

(* The record of a call that found the lock expired. *)
LEMMA Expired ==
    ASSUME NEW a \in Answers,
           NEW c, c = [a EXCEPT !.pc = "expired", !.serverTime = 0, !.electionId = 0, !.delay = 0]
    PROVE  /\ c \in Answers /\ c.pc = "expired" /\ c.lock = a.lock
           /\ c.start = a.start /\ c.ping = a.ping
<1>1. 0 \in 0..MaxElections /\ 0 \in Int
  BY ExpiryAssumption
<1>2. ASSUME NEW x \in Int, NEW e \in 0..MaxElections,
             c = [a EXCEPT !.pc = "expired", !.serverTime = x, !.electionId = e, !.delay = x]
      PROVE  /\ c \in Answers /\ c.pc = "expired" /\ c.lock = a.lock
             /\ c.start = a.start /\ c.ping = a.ping
  BY <1>2 DEF Answers
<1> QED
  BY ONLY <1>1, <1>2,
     c = [a EXCEPT !.pc = "expired", !.serverTime = 0, !.electionId = 0, !.delay = 0]

(* The invariant holds at first. *)
LEMMA InitInv == Init => IInv
<1> SUFFICES ASSUME Init PROVE IInv
  OBVIOUS
<1>1. ClockInv
  BY ExpiryAssumption DEF Init, ClockInv, Never
<1>2. Idle \in Answers
  BY ExpiryAssumption DEF Idle, Answers
<1>3. \A t \in Threads : CallInv(call[t])
  BY Zenon, <1>2 DEF Init, CallInv, Idle
<1>4. call \in [Threads -> Answers]
  BY <1>2 DEF Init
<1> QED
  BY <1>1, <1>3, <1>4 DEF Init, IInv, EntryInv

(* Nobody but the caller, and nothing but time, disturbs a call. *)
LEMMA OneCall ==
    ASSUME IInv, UNCHANGED <<configVars, clockVars>>,
           NEW t \in Threads, NEW c, CallInv(c), call' = [call EXCEPT ![t] = c]
    PROVE  call' \in [Threads -> Answers] /\ \A u \in Threads : CallInv(call[u])'
<1>1. c \in Answers
  BY DEF CallInv
<1>2. call' \in [Threads -> Answers] /\ \A u \in Threads : call'[u] = IF u = t THEN c ELSE call[u]
  BY <1>1 DEF IInv
<1>3. \A u \in Threads : CallInv(call'[u])
  BY <1>2 DEF IInv
<1> QED
  BY <1>2, <1>3 DEF CallInv, configVars, clockVars

(* The reads of a call, and its end. *)
LEMMA ReadStep ==
    ASSUME IInv, NEW t \in Threads,
           \/ GetLockByName(t) \/ GetPing(t) \/ GetServerInfo(t) \/ ReadFails(t)
           \/ ReadTimer(t) \/ Return(t)
    PROVE  IInv'
<1>1. UNCHANGED <<configVars, known, recordedAt, clockVars>>
  BY DEF GetLockByName, GetPing, GetServerInfo, ReadFails, ReadTimer, Return
<1>2. ClockInv' /\ EntryInv'
  BY <1>1 DEF IInv, ClockInv, EntryInv, configVars, clockVars
<1>3. CallInv(call[t]) /\ call[t] \in Answers
  BY DEF IInv, CallInv
<1>4. Idle \in Answers /\ CallInv(Idle)
  BY ExpiryAssumption DEF Idle, Answers, CallInv
<1>5. ASSUME GetLockByName(t) PROVE IInv'
  <2> DEFINE c == [Idle EXCEPT !.pc = "getPing", !.lock = owner]
  <2>1. c \in Answers /\ c.pc = "getPing" /\ c.lock = owner
    BY Zenon, <1>4 DEF IInv, ClockInv, Answers, Idle
  <2>2. CallInv(c)
    BY <2>1 DEF IInv, ClockInv, CallInv
  <2>3. call' = [call EXCEPT ![t] = c]
    BY <1>5 DEF GetLockByName
  <2> HIDE DEF c
  <2> QED
    BY Zenon, <1>1, <1>2, <2>2, <2>3, OneCall DEF IInv
<1>6. ASSUME GetPing(t) PROVE IInv'
  <2> DEFINE c == [call[t] EXCEPT !.pc = "getServerInfo", !.start = now,
                                  !.ping = pinged[ProcessOf[call[t].lock]]]
  <2>1. /\ call[t].pc = "getPing" /\ call[t].lock \in Sessions
        /\ ProcessOf[call[t].lock] \in Processes
    BY <1>3, <1>6, ExpiryAssumption DEF GetPing, CallInv
  <2>2. pinged[ProcessOf[call[t].lock]] \in 0..now /\ now \in Int /\ MaxTrip \in Nat
    BY <2>1, ExpiryAssumption DEF IInv, ClockInv
  <2>3. /\ c \in Answers /\ c.pc = "getServerInfo" /\ c.lock = call[t].lock /\ c.start = now
        /\ c.ping = pinged[ProcessOf[call[t].lock]]
    <3>1. pinged[ProcessOf[call[t].lock]] \in Int
      BY <2>2
    <3>2. PICK a, x, y : a = call[t] /\ x = now /\ y = pinged[ProcessOf[call[t].lock]]
      OBVIOUS
    <3>3. a \in Answers /\ x \in Int /\ y \in Int
      BY <1>3, <2>2, <3>1, <3>2
    <3>4. LET d == [a EXCEPT !.pc = "getServerInfo", !.start = x, !.ping = y]
          IN  /\ d \in Answers /\ d.pc = "getServerInfo" /\ d.lock = a.lock
              /\ d.start = x /\ d.ping = y
      BY ONLY Zenon, <3>3 DEF Answers
    <3> QED
      BY ONLY <3>2, <3>4
  <2>4. acquired[c.lock] # Never /\ acquired[c.lock] \in Never..now
    BY <1>3, <2>1, <2>3 DEF CallInv, IInv, ClockInv
  <2>5. call' = [call EXCEPT ![t] = c]
    BY Zenon, <1>6 DEF GetPing
  <2> HIDE DEF c
  <2>6. CallInv(c)
    BY <2>1, <2>2, <2>3, <2>4 DEF CallInv, Never
  <2> QED
    BY Zenon, <1>1, <1>2, <2>5, <2>6, OneCall DEF IInv
<1>7. ASSUME GetServerInfo(t) PROVE IInv'
  <2> DEFINE c == [call[t] EXCEPT !.pc = "gotServerInfo", !.serverTime = now + skew[electionId],
                                  !.electionId = electionId]
  <2>1. call[t].pc = "getServerInfo"
    BY <1>7 DEF GetServerInfo
  <2>2. now \in Int /\ electionId \in 0..MaxElections /\ skew[electionId] \in Int
    BY ExpiryAssumption DEF IInv, ClockInv
  <2>3. /\ c \in Answers /\ c.pc = "gotServerInfo" /\ c.lock = call[t].lock
        /\ c.start = call[t].start /\ c.ping = call[t].ping
        /\ c.electionId = electionId /\ c.serverTime = now + skew[electionId]
    <3>1. now + skew[electionId] \in Int
      BY <2>2
    <3>2. PICK a, x, e : a = call[t] /\ x = now + skew[electionId] /\ e = electionId
      OBVIOUS
    <3>3. a \in Answers /\ x \in Int /\ e \in 0..MaxElections
      BY <1>3, <2>2, <3>1, <3>2
    <3>4. LET d == [a EXCEPT !.pc = "gotServerInfo", !.serverTime = x, !.electionId = e]
          IN  /\ d \in Answers /\ d.pc = "gotServerInfo" /\ d.lock = a.lock
              /\ d.start = a.start /\ d.ping = a.ping
              /\ d.electionId = e /\ d.serverTime = x
      BY ONLY Zenon, <3>3 DEF Answers
    <3> QED
      BY ONLY <3>2, <3>4
  <2>4. call' = [call EXCEPT ![t] = c]
    BY Zenon, <1>7 DEF GetServerInfo
  <2> HIDE DEF c
  <2>5. CallInv(c)
    BY <1>3, <2>1, <2>2, <2>3, ExpiryAssumption DEF CallInv
  <2> QED
    BY Zenon, <1>1, <1>2, <2>4, <2>5, OneCall DEF IInv
<1>9. ASSUME ReadTimer(t) PROVE IInv'
  <2> DEFINE d == (now - call[t].start) \div 2
             c == [call[t] EXCEPT !.pc = "timed", !.delay = d]
  <2>1. /\ call[t].pc = "gotServerInfo" /\ call[t].lock \in Sessions
        /\ acquired[call[t].lock] # Never /\ 0 <= call[t].ping /\ call[t].ping <= call[t].start
        /\ acquired[call[t].lock] <= call[t].start /\ call[t].start <= now
        /\ now <= call[t].start + MaxTrip /\ call[t].electionId <= electionId
        /\ call[t].start <= call[t].serverTime - skew[call[t].electionId]
        /\ call[t].serverTime - skew[call[t].electionId] <= now
    BY Zenon, <1>3, <1>9 DEF ReadTimer, CallInv
  <2>2. /\ now \in Int /\ MaxTrip \in Nat /\ call[t].start \in Int /\ call[t].serverTime \in Int
        /\ skew[call[t].electionId] \in Int
    BY <1>3, ExpiryAssumption DEF IInv, ClockInv, Answers
  <2>3. now - call[t].start \in Nat
    BY <2>1, <2>2
  <2>4. d \in Nat /\ 2 * d <= now - call[t].start /\ now - call[t].start <= 2 * d + 1
    BY <2>3, Half
  <2>5. call' = [call EXCEPT ![t] = c]
    BY Zenon, <1>9 DEF ReadTimer
  <2> HIDE DEF d
  <2>6. /\ c \in Answers /\ c.pc = "timed" /\ c.lock = call[t].lock /\ c.delay = d
        /\ c.start = call[t].start /\ c.ping = call[t].ping
        /\ c.electionId = call[t].electionId /\ c.serverTime = call[t].serverTime
    <3>1. PICK a, x : a = call[t] /\ x = d
      OBVIOUS
    <3>2. a \in Answers /\ x \in Int
      BY <1>3, <2>4, <3>1
    <3>3. LET e == [a EXCEPT !.pc = "timed", !.delay = x]
          IN  /\ e \in Answers /\ e.pc = "timed" /\ e.lock = a.lock /\ e.delay = x
              /\ e.start = a.start /\ e.ping = a.ping
              /\ e.electionId = a.electionId /\ e.serverTime = a.serverTime
      BY ONLY Zenon, <3>2 DEF Answers
    <3> QED
      BY ONLY <3>1, <3>3
  <2> HIDE DEF c
  <2>7. /\ 0 <= d /\ 2 * d <= MaxTrip
        /\ 2 * (call[t].serverTime - skew[call[t].electionId] - d) <= 2 * call[t].start + MaxTrip + 1
    BY <2>1, <2>2, <2>4
  <2>8. CallInv(c)
    BY Zenon, <2>1, <2>6, <2>7 DEF CallInv
  <2> QED
    BY Zenon, <1>1, <1>2, <2>5, <2>8, OneCall DEF IInv
<1>8. ASSUME ReadFails(t) \/ Return(t) PROVE IInv'
  <2>1. call' = [call EXCEPT ![t] = Idle]
    BY <1>8 DEF ReadFails, Return
  <2> QED
    BY Zenon, <1>1, <1>2, <1>4, <2>1, OneCall DEF IInv
<1> QED
  BY <1>5, <1>6, <1>7, <1>8, <1>9

-----------------------------------------------------------------------------
(* The estimate of the primary's clock, twice: by no more than a round trip   *)
(* and a bit ahead of the start of the call, nor more behind.                 *)
LEMMA Estimate ==
    ASSUME IInv, NEW t \in Threads, call[t].pc = "timed"
    PROVE  LET date == ConfigServerLocalTime(t) - skew[call[t].electionId]
           IN  /\ ConfigServerLocalTime(t) \in Int
               /\ 2 * date >= 2 * call[t].start - MaxTrip
               /\ 2 * date <= 2 * call[t].start + MaxTrip + 1
               /\ date >= call[t].start - call[t].delay
               /\ date <= now
<1>1. call[t] \in Answers /\ CallInv(call[t])
  BY DEF IInv
<1>2. now \in Int /\ skew[call[t].electionId] \in Int /\ MaxTrip \in Nat
  BY <1>1, ExpiryAssumption DEF IInv, ClockInv, Answers
<1>3. call[t].start \in Int /\ call[t].serverTime \in Int /\ call[t].delay \in Int
  BY <1>1 DEF Answers
<1>4. /\ call[t].start <= call[t].serverTime - skew[call[t].electionId]
      /\ call[t].serverTime - skew[call[t].electionId] <= now
      /\ 0 <= call[t].delay /\ 2 * call[t].delay <= MaxTrip
      /\ 2 * (call[t].serverTime - skew[call[t].electionId] - call[t].delay)
           <= 2 * call[t].start + MaxTrip + 1
  BY Zenon, <1>1 DEF CallInv
<1> QED
  BY <1>2, <1>3, <1>4 DEF ConfigServerLocalTime

(* The decision, and what it leaves in _pingHistory. *)
LEMMA ExpireStep ==
    ASSUME IInv, NEW t \in Threads, IsLockExpired(t)
    PROVE  IInv'
<1>1. UNCHANGED <<configVars, clockVars>> /\ call[t].pc = "timed"
  BY DEF IsLockExpired
<1>2. CallInv(call[t]) /\ call[t] \in Answers
  BY Zenon DEF IInv, CallInv
<1>3. Idle \in Answers /\ CallInv(Idle)
  BY ExpiryAssumption DEF Idle, Answers, CallInv
<1> DEFINE start == call[t].start
           date == ConfigServerLocalTime(t) - skew[call[t].electionId]
<1>4. /\ ConfigServerLocalTime(t) \in Int
      /\ 2 * date >= 2 * start - MaxTrip /\ 2 * date <= 2 * start + MaxTrip + 1
      /\ date <= now
  BY Zenon, <1>1, Estimate
<1>5. /\ call[t].lock \in Sessions /\ acquired[call[t].lock] # Never
      /\ 0 <= call[t].ping /\ call[t].ping <= start /\ acquired[call[t].lock] <= start
      /\ start <= now /\ call[t].electionId <= electionId
      /\ start <= call[t].serverTime - skew[call[t].electionId]
      /\ call[t].serverTime - skew[call[t].electionId] <= now
  BY Zenon, <1>1, <1>2 DEF CallInv
<1>6. /\ now \in 0..MaxTime /\ skew[call[t].electionId] \in Int /\ MaxTrip \in Nat
      /\ acquired[call[t].lock] \in Int /\ Expiration \in Nat
  BY Zenon, <1>2, <1>5, ExpiryAssumption DEF IInv, ClockInv, Answers
<1>7. start \in Int /\ call[t].ping \in Int /\ call[t].serverTime \in Int
      /\ call[t].electionId \in 0..MaxElections
  BY Zenon, <1>2 DEF Answers
<1>8. ASSUME NEW time \in Int, Remember(t, time),
             2 * (time - skew[call[t].electionId]) >= 2 * start - MaxTrip,
             time - skew[call[t].electionId] <= now
      PROVE  ClockInv' /\ EntryInv'
  <2>1. recordedAt' = now
    BY Zenon, <1>8 DEF Remember
  <2>2. ClockInv'
    BY <1>1, <1>6, <2>1 DEF IInv, ClockInv, configVars, clockVars
  <2>3. /\ known'.lastPing = call[t].ping /\ known'.lockSessionId = call[t].lock
        /\ known'.electionId = call[t].electionId /\ known'.configLocalTime = time
    BY Zenon, <1>8 DEF Remember
  <2>4. call[t].ping \in 0..MaxTime
    BY <1>5, <1>6, <1>7, ExpiryAssumption
  <2>5. known' \in Entries
    BY Zenon, <1>5, <1>7, <1>8, <2>4 DEF Remember, Entries
  <2>6. UNCHANGED <<acquired, skew, electionId>>
    BY Zenon, <1>1 DEF configVars, clockVars
  <2> QED
    BY <1>5, <1>6, <1>7, <1>8, <2>1, <2>2, <2>3, <2>5, <2>6 DEF EntryInv
<1>9. CASE known = NoEntry \/ IsNews(t)
  <2>1. call' = [call EXCEPT ![t] = Idle]
    BY <1>9 DEF IsLockExpired
  <2>2. \/ Remember(t, call[t].serverTime)
        \/ Remember(t, ConfigServerLocalTime(t))
    BY <1>9 DEF IsLockExpired
  <2>3. 2 * (call[t].serverTime - skew[call[t].electionId]) >= 2 * start - MaxTrip
    BY <1>5, <1>6, <1>7
  <2>4. ClockInv' /\ EntryInv'
    BY <1>4, <1>5, <1>7, <1>8, <2>2, <2>3
  <2> QED
    BY Zenon, <1>1, <1>3, <2>1, <2>4, OneCall DEF IInv
<1>10. CASE known # NoEntry /\ ~IsNews(t)
  <2>1. UNCHANGED <<known, recordedAt>>
    BY <1>10 DEF IsLockExpired, Keep
  <2>2. ClockInv' /\ EntryInv'
    BY <1>1, <2>1 DEF IInv, ClockInv, EntryInv, configVars, clockVars
  <2> DEFINE elapsed == ConfigServerLocalTime(t) - known.configLocalTime
             c == [call[t] EXCEPT !.pc = "expired", !.serverTime = 0, !.electionId = 0, !.delay = 0]
  <2>3. CASE elapsed >= 0 /\ elapsed >= Expiration
    <3>1. call' = [call EXCEPT ![t] = c]
      BY <1>10, <2>3 DEF IsLockExpired
    <3>2. c \in Answers /\ c.pc = "expired" /\ c.lock = call[t].lock /\ c.start = start
          /\ c.ping = call[t].ping
      BY Zenon, <1>2, Expired
    <3>3. /\ known.lastPing = call[t].ping /\ known.lockSessionId = call[t].lock
          /\ known.electionId = call[t].electionId
      BY <1>10 DEF IsNews
    <3>4. /\ known.configLocalTime \in Int
          /\ 2 * (known.configLocalTime - skew[call[t].electionId]) >= 2 * call[t].ping - MaxTrip
          /\ 2 * (known.configLocalTime - skew[call[t].electionId])
               >= 2 * acquired[call[t].lock] - MaxTrip
      BY <1>10, <3>3 DEF IInv, EntryInv, Entries
    <3>5. /\ start - call[t].ping >= Expiration - MaxTrip
          /\ start - acquired[call[t].lock] >= Expiration - MaxTrip
      BY <1>4, <1>6, <1>7, <2>3, <3>4
    <3> HIDE DEF c
    <3>6. CallInv(c)
      BY Zenon, <1>5, <3>2, <3>5 DEF CallInv
    <3> QED
      BY Zenon, <1>1, <2>2, <3>1, <3>6, OneCall DEF IInv
  <2>4. CASE ~(elapsed >= 0 /\ elapsed >= Expiration)
    <3>1. call' = [call EXCEPT ![t] = Idle]
      BY <1>10, <2>4 DEF IsLockExpired
    <3> QED
      BY Zenon, <1>1, <1>3, <2>2, <3>1, OneCall DEF IInv
  <2> QED
    BY <2>3, <2>4
<1> QED
  BY <1>9, <1>10

-----------------------------------------------------------------------------
(* Owners ping and change, time passes, primaries are elected. *)
LEMMA PingStep ==
    ASSUME IInv, NEW p \in Processes, Ping(p)
    PROVE  IInv'
<1>1. UNCHANGED <<owner, acquired, known, recordedAt, call, now, electionId, skew>>
  BY DEF Ping, clockVars
<1>2. pinged' \in [Processes -> Int] /\ \A q \in Processes : pinged'[q] \in 0..now
  BY DEF Ping, IInv, ClockInv
<1>3. ClockInv' /\ EntryInv'
  BY <1>1, <1>2 DEF IInv, ClockInv, EntryInv
<1>4. \A t \in Threads : CallInv(call[t])'
  BY <1>1 DEF IInv, CallInv
<1> QED
  BY <1>1, <1>3, <1>4 DEF IInv

LEMMA ChangeOwnerStep ==
    ASSUME IInv, NEW s \in Sessions, ChangeOwner(s)
    PROVE  IInv'
<1>1. UNCHANGED <<pinged, known, recordedAt, call, now, electionId, skew>> /\ owner' = s
  BY DEF ChangeOwner, clockVars
<1>2. /\ acquired' \in [Sessions -> Int]
      /\ \A r \in Sessions :
           acquired'[r] = IF r = s /\ acquired[r] = Never THEN now ELSE acquired[r]
  BY DEF ChangeOwner, IInv, ClockInv
<1>3. ClockInv'
  <2>1. now \in 0..MaxTime /\ MaxTime \in Nat
    BY ExpiryAssumption DEF IInv, ClockInv
  <2>2. acquired'[owner'] # Never /\ \A r \in Sessions : acquired'[r] \in Never..now'
    BY <1>1, <1>2, <2>1 DEF IInv, ClockInv, Never
  <2> QED
    BY <1>1, <1>2, <2>2 DEF IInv, ClockInv
<1>4. \A r \in Sessions : acquired[r] # Never => acquired'[r] = acquired[r]
  BY <1>2
<1>5. EntryInv'
  BY <1>1, <1>4 DEF IInv, EntryInv, Entries
<1>6. \A t \in Threads : CallInv(call[t])'
  BY <1>1, <1>4 DEF IInv, CallInv
<1> QED
  BY <1>1, <1>3, <1>5, <1>6 DEF IInv

LEMMA TickStep ==
    ASSUME IInv, Tick
    PROVE  IInv'
<1>1. /\ UNCHANGED <<owner, acquired, pinged, known, recordedAt, call, electionId, skew>>
      /\ now' = now + 1 /\ now < MaxTime
  BY Zenon DEF Tick, configVars
<1>2. now \in 0..MaxTime /\ MaxTime \in Nat
  BY Zenon, ExpiryAssumption DEF IInv, ClockInv
<1>3. ClockInv' /\ EntryInv'
  BY <1>1, <1>2 DEF IInv, ClockInv, EntryInv, Never
<1>4. ASSUME NEW t \in Threads PROVE CallInv(call[t])'
  <2>1. call[t].pc \in {"getServerInfo", "gotServerInfo"} => now < call[t].start + MaxTrip
    BY Zenon DEF Tick
  <2>2. CallInv(call[t]) /\ call[t].start \in Int /\ MaxTrip \in Nat
    BY Zenon, ExpiryAssumption DEF IInv, Answers
  <2>3. call[t].serverTime - skew[call[t].electionId] \in Int
    BY DEF IInv, ClockInv, Answers
  <2> QED
    BY <1>1, <1>2, <2>1, <2>2, <2>3 DEF CallInv
<1> QED
  BY Zenon, <1>1, <1>3, <1>4 DEF IInv

LEMMA ElectStep ==
    ASSUME IInv, Elect
    PROVE  IInv'
<1>1. UNCHANGED <<owner, acquired, pinged, known, recordedAt, call, now>> /\ electionId' = electionId + 1
  BY Zenon DEF Elect, configVars
<1>2. electionId \in 0..MaxElections /\ electionId + 1 \in 0..MaxElections
  BY ExpiryAssumption DEF Elect, IInv, ClockInv
<1>3. PICK k \in Skews : skew' = [skew EXCEPT ![electionId + 1] = k]
  BY Zenon DEF Elect
<1>4. skew' \in [0..MaxElections -> Int]
  BY Zenon, <1>3, ExpiryAssumption DEF IInv, ClockInv
<1>5. \A e \in 0..MaxElections : e <= electionId => skew'[e] = skew[e]
  BY <1>2, <1>3 DEF IInv, ClockInv
<1>6. ClockInv'
  BY Zenon, <1>1, <1>2, <1>4 DEF IInv, ClockInv
<1>7. EntryInv'
  BY <1>1, <1>2, <1>5 DEF IInv, EntryInv, Entries
<1>8. ASSUME NEW t \in Threads PROVE CallInv(call[t])'
  <2>1. CallInv(call[t]) /\ call[t].electionId \in 0..MaxElections
    BY Zenon DEF IInv, Answers
  <2>2. call[t].electionId <= electionId =>
          /\ call[t].electionId <= electionId' /\ skew'[call[t].electionId] = skew[call[t].electionId]
    BY <1>1, <1>2, <1>5, <2>1
  <2> QED
    BY Zenon, <1>1, <2>1, <2>2 DEF CallInv
<1> QED
  BY <1>1, <1>6, <1>7, <1>8 DEF IInv

(* The invariant is inductive. *)
LEMMA StepInv == IInv /\ [Next]_vars => IInv'
<1> SUFFICES ASSUME IInv, [Next]_vars PROVE IInv'
  BY Zenon
<1>1. CASE UNCHANGED vars
  BY <1>1 DEF vars, configVars, clockVars, IInv, ClockInv, CallInv, EntryInv
<1>2. CASE Next
  BY <1>2, ReadStep, ExpireStep, PingStep, ChangeOwnerStep, TickStep, ElectStep DEF Next
<1> QED
  BY <1>1, <1>2

(* The order and the dates of what isLockExpired reads and remembers, in       *)
(* every reachable state.                                                      *)
THEOREM Invariance == Spec => []IInv
BY InitInv, StepInv, PTL DEF Spec

(* An entry of _pingHistory is never ahead of the clock of the primary that   *)
(* it is from, and everything else has its type.                              *)
THEOREM TypeCorrect == Spec => []TypeOK
<1>1. IInv => TypeOK
  <2> SUFFICES ASSUME IInv PROVE TypeOK
    OBVIOUS
  <2>1. now \in 0..MaxTime /\ MaxTime \in Nat /\ MaxTrip \in Nat /\ recordedAt \in 0..now
    BY ExpiryAssumption DEF IInv, ClockInv
  <2>2. acquired \in [Sessions -> 0..MaxTime \cup {Never}] /\ pinged \in [Processes -> 0..MaxTime]
    BY <2>1 DEF IInv, ClockInv, Never
  <2>3. ASSUME known # NoEntry
        PROVE  /\ known \in Entries
               /\ known.configLocalTime - skew[known.electionId] \in -MaxTrip..now
    <3>1. /\ known \in Entries /\ known.lastPing \in 0..MaxTime
          /\ 2 * (known.configLocalTime - skew[known.electionId]) >= 2 * known.lastPing - MaxTrip
          /\ known.configLocalTime - skew[known.electionId] <= recordedAt
      BY <2>3 DEF IInv, EntryInv, Entries
    <3>2. known.configLocalTime \in Int /\ skew[known.electionId] \in Int
      BY <3>1 DEF IInv, ClockInv, Entries
    <3> QED
      BY <2>1, <3>1, <3>2
  <2> QED
    BY <2>1, <2>2, <2>3 DEF TypeOK, IInv, ClockInv, Entries
<1> QED
  BY <1>1, Invariance, PTL

(* isLockExpired is true only of an owner whose process was silent for the    *)
(* expiration less one round trip when it was asked, and whose session first  *)
(* got the lock at least that long ago.                                       *)
THEOREM OnlySilentExpire == Spec => []ExpiredOnlyIfSilent
<1>1. IInv => ExpiredOnlyIfSilent
  BY DEF IInv, CallInv, ExpiredOnlyIfSilent
<1> QED
  BY <1>1, Invariance, PTL

(* isLockExpired is true of an owner about which nothing new was seen for     *)
(* the expiration and half a round trip, however long the call waited for     *)
(* _mutex.                                                                    *)
THEOREM SilentExpire == Spec => SilentOwnerExpires
<1> DEFINE A == \A t \in Threads :
                  call[t].pc = "timed" /\ call'[t].pc = "idle" /\ recordedAt' = recordedAt =>
                    call[t].start - recordedAt < Expiration + call[t].delay
<1>1. IInv /\ [Next]_vars => [A]_vars
  <2> SUFFICES ASSUME IInv, Next, NEW t \in Threads,
                      call[t].pc = "timed", call'[t].pc = "idle", recordedAt' = recordedAt
               PROVE  call[t].start - recordedAt < Expiration + call[t].delay
    BY Zenon
  <2>1. IsLockExpired(t)
    <3>1. call'[t] # call[t]
      BY Zenon
    <3>2. ASSUME NEW u \in Threads, u # t,
                 \/ GetLockByName(u) \/ GetPing(u) \/ GetServerInfo(u) \/ ReadFails(u) \/ ReadTimer(u)
                 \/ IsLockExpired(u) \/ Return(u)
          PROVE  call'[t] = call[t]
      BY <3>2 DEF GetLockByName, GetPing, GetServerInfo, ReadFails, ReadTimer, IsLockExpired, Return, IInv
    <3>3. ~(GetLockByName(t) \/ GetPing(t) \/ GetServerInfo(t) \/ ReadFails(t)
            \/ ReadTimer(t) \/ Return(t))
      BY Zenon DEF GetLockByName, GetPing, GetServerInfo, ReadFails, ReadTimer, Return
    <3>4. Tick \/ Elect \/ (\E p \in Processes : Ping(p)) \/ (\E s \in Sessions : ChangeOwner(s))
            => call' = call
      BY Zenon DEF Tick, Elect, Ping, ChangeOwner
    <3> QED
      BY Zenon, <3>1, <3>2, <3>3, <3>4 DEF Next
  <2> DEFINE half == call[t].delay
             date == ConfigServerLocalTime(t) - skew[call[t].electionId]
  <2> SUFFICES call[t].start - recordedAt < Expiration + half
    BY Zenon
  <2>2. ConfigServerLocalTime(t) \in Int /\ date >= call[t].start - half
    BY Zenon, Estimate
  <2>3. /\ call[t] \in Answers /\ call[t].start <= now /\ now \in Int /\ recordedAt \in Int
        /\ Expiration \in Nat /\ 0 < Expiration
    BY ExpiryAssumption DEF IInv, CallInv, ClockInv
  <2>4. call[t].start \in Int /\ call[t].electionId \in 0..MaxElections
    BY Zenon, <2>3 DEF Answers
  <2>5. skew[call[t].electionId] \in Int
    BY Zenon, <2>4 DEF IInv, ClockInv
  <2>6. half \in Nat
    <3>1. call[t].delay \in Int /\ 0 <= call[t].delay
      BY Zenon, <2>3 DEF IInv, CallInv, Answers
    <3> QED
      BY <3>1
  <2> HIDE DEF half
  <2>7. CASE recordedAt' = now
    BY <2>3, <2>4, <2>6, <2>7
  <2>8. CASE known # NoEntry /\ ~IsNews(t)
    <3>1. ~(ConfigServerLocalTime(t) - known.configLocalTime >= 0
              /\ ConfigServerLocalTime(t) - known.configLocalTime >= Expiration)
      <4>1. call'[t] = IF /\ ConfigServerLocalTime(t) - known.configLocalTime >= 0
                          /\ ConfigServerLocalTime(t) - known.configLocalTime >= Expiration
                         THEN [call[t] EXCEPT !.pc = "expired", !.serverTime = 0, !.electionId = 0, !.delay = 0]
                         ELSE Idle
        BY Zenon, <2>1, <2>8 DEF IsLockExpired, IInv
      <4> QED
        BY Zenon, <2>3, <4>1, Expired
    <3>2. /\ known.configLocalTime \in Int
          /\ known.configLocalTime - skew[call[t].electionId] <= recordedAt
      BY <2>8 DEF IInv, EntryInv, Entries, IsNews
    <3> HIDE DEF date
    <3> QED
      BY <2>2, <2>3, <2>4, <2>5, <2>6, <3>1, <3>2 DEF date
  <2> QED
    BY <2>1, <2>7, <2>8 DEF IsLockExpired, Remember
<1> QED
  BY <1>1, Invariance, PTL DEF Spec, SilentOwnerExpires
=============================================================================
