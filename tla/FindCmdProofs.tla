--------------------------- MODULE FindCmdProofs ----------------------------
(* The find command runs the coalescer as it is specified, and so inherits    *)
(* what is proved of it; with that, what a find may and may not be given.     *)
EXTENDS FindCmd, CoalescerProofs

(* What the find command knows of its own reads. *)
RowsInv ==
  /\ version = [r \in Requests |-> RequestVersion(filter[r])]
  /\ lastWrite \in Nat
  /\ filter \in [Requests -> Filters]
  /\ needs \in [Requests -> Nat]
  /\ rows \in [Requests -> Rows \cup {Nothing}]
  /\ DOMAIN reply = Requests
  /\ \A r \in Requests :
       /\ needs[r] <= lastWrite
       /\ query[r] = "OK" => rows[r] \in Rows /\ rows[r].filter = filter[r] /\ rows[r].asOf >= needs[r]
       /\ outcome[r].result = r => query[r] = "OK"

(* What a find was sent: rows of the query the coalescer chose, or its own. *)
ReplyInv ==
  \A r \in Requests : Replied(r) =>
    /\ pc[r] = "done"
    /\ IF outcome[r].status = "OK"
         THEN outcome[r].result \in Requests /\ reply[r].rows = rows[outcome[r].result]
         ELSE reply[r].rows.filter = filter[r] /\ reply[r].rows.asOf >= needs[r]

(* l has rows that r was given or may still be given. *)
Serves(l, r) ==
  /\ query[l] = "OK" /\ pc[r] # "idle"
  /\ pc[l] = "leading" \/ waiter[r].result = l \/ outcome[r].result = l

(* They are as fresh as r asked for, or r came after they were read. *)
ServedInv ==
  /\ behind \in [Requests -> SUBSET Requests]
  /\ \A l, r \in Requests : Serves(l, r) => rows[l].asOf >= needs[r] \/ l \in behind[r]

FindInv == IndInv /\ RowsInv /\ ServedInv /\ ReplyInv

(* Every step of a find is a step of the coalescer, or none. *)
LEMMA FindStepIsStep ==
  ASSUME [FindNext]_findVars
  PROVE  [Next]_coalescerVars
  BY ZenonT(60) DEF FindNext, findVars, arrivalVars, Arrive, FindStep, QueryFunc, Coalesce, Expire, ReplyCoalesced,
         ReplyThrown, FallThrough, ChunkWrite, ShutdownCoalescer, Next, Step

(* FindCmd::run uses the coalescer only as tryCoalesce is specified. *)
THEOREM FindImplementsCoalescer == FindSpec => Spec
<1>1. FindInit => Init
  BY DEF FindInit
<1> QED
  BY <1>1, FindStepIsStep, PTL DEF FindSpec, Spec

(* What one call of tryCoalesce does leaves the other calls where they are. *)
LEMMA OtherCallsUntouched ==
  ASSUME TypeOK, NEW q \in Requests, Enter(q) \/ Step(q) \/ WaitTimeout(q),
         NEW r \in Requests, r # q
  PROVE  pc'[r] = pc[r] /\ outcome'[r] = outcome[r]
<1>1. \A status, result : Return(q, status, result) => pc'[r] = pc[r] /\ outcome'[r] = outcome[r]
  BY Zenon DEF Return, TypeOK
<1>2. \A state : ReturnWaiterState(q, state) => pc'[r] = pc[r] /\ outcome'[r] = outcome[r]
  BY Zenon, <1>1 DEF ReturnWaiterState
<1>3. ASSUME NEW to, pc' = pc \/ pc' = [pc EXCEPT ![q] = to], UNCHANGED outcome
      PROVE  pc'[r] = pc[r] /\ outcome'[r] = outcome[r]
  BY Zenon, <1>3 DEF TypeOK
<1>4. CASE Enter(q)
  BY Zenon, <1>1, <1>3, <1>4 DEF Enter
<1>5. CASE Lead(q) \/ GoAlone(q) \/ Join(q)
  BY Zenon, <1>3, <1>5 DEF Lead, GoAlone, Join
<1>6. CASE \E result \in QueryResults : RunQuery(q, result)
  BY Zenon, <1>1, <1>3, <1>6 DEF RunQuery
<1>7. CASE Distribute(q)
  BY Zenon, <1>1, <1>2, <1>3, <1>7 DEF Distribute
<1>8. CASE Wake(q) \/ ReturnFollower(q)
  BY Zenon, <1>1, <1>2, <1>3, <1>8 DEF Wake, ReturnFollower
<1>9. CASE WaitTimeout(q)
  BY Zenon, <1>1, <1>2, <1>3, <1>9 DEF WaitTimeout
<1> QED
  BY Zenon, <1>4, <1>5, <1>6, <1>7, <1>8, <1>9 DEF Step

(* A call of tryCoalesce that has returned does nothing more. *)
LEMMA CallsEndOnce ==
  ASSUME IndInv, [Next]_coalescerVars, NEW r \in Requests, pc[r] = "done"
  PROVE  pc'[r] = "done" /\ outcome'[r] = outcome[r]
<1> USE DEF IndInv
<1>1. CASE Shutdown \/ UNCHANGED coalescerVars
  BY ZenonT(60), <1>1 DEF Shutdown, coalescerVars, callVars
<1>2. ASSUME NEW q \in Requests, Enter(q) \/ Step(q) \/ WaitTimeout(q)
      PROVE  pc'[r] = "done" /\ outcome'[r] = outcome[r]
  <2>1. pc[q] # "done"
    BY Zenon, <1>2 DEF Enter, Step, WaitTimeout, Lead, GoAlone, Join, RunQuery, Distribute, Wake,
                ReturnFollower
  <2> QED
    BY Zenon, <1>2, <2>1, OtherCallsUntouched
<1> QED
  BY Zenon, <1>1, <1>2 DEF Next

(* The rows a query has read are not read again: queryFunc runs at most once. *)
LEMMA QueriesEndOnce ==
  ASSUME IndInv, [Next]_coalescerVars, NEW r \in Requests
  PROVE  /\ query[r] # "none" => query'[r] = query[r]
         /\ ns' = ns /\ version' = version
<1> USE DEF IndInv
<1>1. CASE Shutdown \/ UNCHANGED coalescerVars
  BY ZenonT(60), <1>1 DEF Shutdown, coalescerVars, callVars
<1>2. ASSUME NEW q \in Requests, NEW result \in QueryResults, RunQuery(q, result)
      PROVE  (query[r] # "none" => query'[r] = query[r]) /\ ns' = ns /\ version' = version
  BY Zenon, <1>2 DEF RunQuery, TypeOK
<1>3. ASSUME NEW q \in Requests,
             \/ Enter(q) \/ Lead(q) \/ GoAlone(q) \/ Join(q) \/ Distribute(q)
             \/ Wake(q) \/ ReturnFollower(q) \/ WaitTimeout(q)
      PROVE  query' = query /\ ns' = ns /\ version' = version
  BY Zenon, <1>3 DEF Enter, WaitTimeout, Lead, GoAlone, Join, Distribute, Wake, ReturnFollower
<1> QED
  BY Zenon, <1>1, <1>2, <1>3 DEF Next, Step

(* A call that returns rows of its own query has run it. *)
LEMMA OwnAnswerWasRead ==
  ASSUME IndInv, IndInv', [Next]_coalescerVars, NEW r \in Requests,
         outcome[r].result = r => query[r] = "OK", outcome'[r].result = r
  PROVE  query'[r] = "OK"
<1> USE CoalescerAssumption DEF IndInv
<1>1. query[r] = "OK" => query'[r] = "OK"
  BY Zenon, QueriesEndOnce
<1>2. CASE outcome'[r] = outcome[r]
  BY Zenon, <1>1, <1>2
<1>3. CASE outcome'[r] # outcome[r]
  <2>1. r # NoRequest
    BY Zenon
  <2>2. PICK q \in Requests : Enter(q) \/ Step(q) \/ WaitTimeout(q)
    BY ZenonT(60), <1>3 DEF Next, Shutdown, coalescerVars, callVars
  <2>3. q = r
    BY Zenon, <1>3, <2>2, OtherCallsUntouched
  <2>4. CASE Enter(r) \/ WaitTimeout(r)
    <3>1. outcome'[r].result = NoRequest
      BY <1>3, <2>4 DEF Enter, WaitTimeout, Return, TypeOK
    <3> QED
      BY Zenon, <2>1, <3>1
  <2>5. ASSUME NEW result \in QueryResults, RunQuery(r, result) PROVE query'[r] = "OK"
    <3>1. query'[r] = result
      BY <2>5 DEF RunQuery, TypeOK
    <3>2. result # "OK" => outcome'[r].result = NoRequest
      BY <1>3, <2>5 DEF RunQuery, Return, TypeOK
    <3> QED
      BY Zenon, <2>1, <3>1, <3>2
  <2>6. CASE Distribute(r) \/ ReturnFollower(r)
    <3>1. pc[r] # "promoted"
      BY Zenon DEF CallInv
    <3>2. outcome'[r].result \in {NoRequest, waiter'[r].result}
      BY <2>6, <3>1 DEF Distribute, ReturnFollower, ReturnWaiterState, Return, TypeOK
    <3>3. waiter'[r].result = r
      BY Zenon, <2>1, <3>2
    <3>4. Link(r, r)'
      BY Zenon, <2>1, <3>3 DEF AnswerInv
    <3> QED
      BY Zenon, <3>4 DEF Link
  <2> QED
    BY Zenon, <1>3, <2>2, <2>3, <2>4, <2>5, <2>6 DEF Step, Lead, GoAlone, Join, Wake
<1> QED
  BY Zenon, <1>2, <1>3

(* What a step may do to the command's own variables. *)
LEMMA RowsStep ==
  ASSUME FindInv, IndInv', [FindNext]_findVars
  PROVE  RowsInv'
<1> USE FindAssumption DEF FindInv
<1>1. [Next]_coalescerVars
  BY Zenon, FindStepIsStep
<1>2. filter' = filter /\ version' = version
  <2>1. filter' = filter
    BY ZenonT(60) DEF FindNext, findVars, arrivalVars, Arrive, FindStep, QueryFunc, Coalesce, Expire, ReplyCoalesced,
           ReplyThrown, FallThrough, ChunkWrite, ShutdownCoalescer
  <2>2. CASE Requests = {}
    BY <1>1, <2>1, <2>2 DEF IndInv, TypeOK
  <2>3. CASE Requests # {}
    BY Zenon, <1>1, <2>1, <2>3, QueriesEndOnce
  <2> QED
    BY Zenon, <2>2, <2>3
<1>3. lastWrite' \in Nat /\ lastWrite' >= lastWrite
  <2>1. lastWrite' = lastWrite \/ lastWrite' = lastWrite + 1
    BY ZenonT(60) DEF FindNext, findVars, arrivalVars, Arrive, FindStep, QueryFunc, Coalesce, Expire, ReplyCoalesced,
           ReplyThrown, FallThrough, ChunkWrite, ShutdownCoalescer
  <2> QED
    BY <2>1 DEF RowsInv
<1>4. DOMAIN reply' = Requests
  BY ZenonT(60) DEF FindNext, findVars, arrivalVars, Arrive, FindStep, QueryFunc, Coalesce, Expire, ReplyCoalesced,
         ReplyThrown, FallThrough, ChunkWrite, ShutdownCoalescer, RowsInv, Answer
<1>5. \A r \in Requests : outcome'[r].result = r => query'[r] = "OK"
  BY <1>1, OwnAnswerWasRead DEF RowsInv
<1> DEFINE Kept ==
      /\ needs' \in [Requests -> Nat] /\ rows' \in [Requests -> Rows \cup {Nothing}]
      /\ \A r \in Requests :
           /\ needs'[r] <= lastWrite'
           /\ query'[r] = "OK" =>
                rows'[r] \in Rows /\ rows'[r].filter = filter[r] /\ rows'[r].asOf >= needs'[r]
<1> HIDE DEF Kept
<1>6. Kept
  <2>1. ASSUME NEW q \in Requests, Arrive(q)
        PROVE  Kept
    <3>1. PICK seen \in 0..lastWrite : needs' = [needs EXCEPT ![q] = seen]
      BY ZenonT(60), <2>1 DEF arrivalVars, Arrive
    <3>2. query[q] = "none" /\ query' = query /\ rows' = rows /\ lastWrite' = lastWrite
      BY Zenon, <2>1 DEF arrivalVars, Arrive, Enter, IndInv, CallInv
    <3> QED
      BY <3>1, <3>2 DEF RowsInv, Kept
  <2>2. ASSUME NEW q \in Requests, QueryFunc(q)
        PROVE  Kept
    <3>1. PICK result \in QueryResults :
            /\ RunQuery(q, result)
            /\ IF result = "OK"
                 THEN \E whole \in BOOLEAN : rows' = [rows EXCEPT ![q] = Scan(q, whole)]
                 ELSE UNCHANGED rows
      BY Zenon, <2>2 DEF arrivalVars, QueryFunc
    <3>2. needs' = needs /\ lastWrite' = lastWrite
      BY Zenon, <2>2 DEF arrivalVars, QueryFunc
    <3>3. \A r \in Requests : query'[r] = IF r = q THEN result ELSE query[r]
      BY <3>1 DEF RunQuery, IndInv, TypeOK
    <3>4. CASE result = "OK"
      <4>1. PICK whole \in BOOLEAN : rows' = [rows EXCEPT ![q] = Scan(q, whole)]
        BY Zenon, <3>1, <3>4
      <4>2. /\ Scan(q, whole) \in Rows
            /\ Scan(q, whole).filter = filter[q] /\ Scan(q, whole).asOf = lastWrite
        BY Zenon DEF Scan, Rows, RowsInv
      <4>3. \A r \in Requests : rows'[r] = IF r = q THEN Scan(q, whole) ELSE rows[r]
        BY Zenon, <4>1 DEF RowsInv
      <4>4. rows' \in [Requests -> Rows \cup {Nothing}]
        BY Zenon, <4>1, <4>2 DEF RowsInv
      <4> QED
        BY <3>2, <3>3, <4>2, <4>3, <4>4 DEF RowsInv, Kept
    <3>5. CASE result # "OK"
      BY Zenon, <3>1, <3>2, <3>3, <3>5 DEF RowsInv, Kept
    <3> QED
      BY Zenon, <3>4, <3>5
  <2>3. ASSUME query' = query, needs' = needs, rows' = rows
        PROVE  Kept
    BY SMTT(60), <1>3, <2>3 DEF RowsInv, Kept
  <2>4. ASSUME NEW q \in Requests, Coalesce(q) \/ Expire(q)
        PROVE  query' = query /\ needs' = needs /\ rows' = rows
    BY Zenon, <2>4 DEF arrivalVars, Coalesce, Expire, WaitTimeout, Lead, GoAlone, Join, Distribute, Wake, ReturnFollower
  <2>5. ASSUME NEW q \in Requests, ReplyCoalesced(q) \/ ReplyThrown(q) \/ FallThrough(q)
        PROVE  query' = query /\ needs' = needs /\ rows' = rows
    BY Zenon, <2>5 DEF arrivalVars, ReplyCoalesced, ReplyThrown, FallThrough, coalescerVars, callVars
  <2>6. ASSUME ChunkWrite \/ ShutdownCoalescer \/ UNCHANGED findVars
        PROVE  query' = query /\ needs' = needs /\ rows' = rows
    BY ZenonT(60), <2>6 DEF arrivalVars, ChunkWrite, ShutdownCoalescer, Shutdown, findVars, coalescerVars, callVars
  <2> QED
    BY Zenon, <2>1, <2>2, <2>3, <2>4, <2>5, <2>6 DEF FindNext, FindStep
<1> QED
  BY Zenon, <1>2, <1>3, <1>4, <1>5, <1>6 DEF RowsInv, Kept

(* The rows of a query that is over stay as they are. *)
LEMMA RowsKept ==
  ASSUME FindInv, [FindNext]_findVars
  PROVE  \A r \in Requests : query[r] = "OK" => rows'[r] = rows[r]
<1> USE DEF FindInv
<1>1. ASSUME NEW q \in Requests, QueryFunc(q)
      PROVE  \A r \in Requests : query[r] = "OK" => rows'[r] = rows[r]
  <2>1. query[q] = "none" /\ (rows' = rows \/ \E w \in BOOLEAN : rows' = [rows EXCEPT ![q] = Scan(q, w)])
    BY Zenon, <1>1 DEF QueryFunc, RunQuery
  <2> QED
    BY Zenon, <2>1 DEF RowsInv
<1>2. (\A q \in Requests : ~QueryFunc(q)) => rows' = rows
  BY ZenonT(60) DEF FindNext, findVars, arrivalVars, Arrive, FindStep, Coalesce, Expire, ReplyCoalesced,
         ReplyThrown, FallThrough, ChunkWrite, ShutdownCoalescer
<1> QED
  BY Zenon, <1>1, <1>2

(* Rows come to a waiter only from a leader that has read them. *)
LEMMA DeliveredBy ==
  ASSUME IndInv, NEW q \in Requests, Distribute(q), NEW r \in Requests,
         waiter'[r].result # waiter[r].result, waiter'[r].result # NoRequest
  PROVE  waiter'[r].result = q /\ pc[q] = "leading" /\ query[q] = "OK"
<1>1. pc[q] = "leading"
  BY Zenon DEF Distribute, IndInv, CallInv
<1>2. waiter' = Delivered(q, groups[ns[q]].waiters)
  BY Zenon DEF Distribute
<1>3. waiter'[r].result = IF query[q] = "OK" THEN q ELSE NoRequest
  BY Zenon, <1>2 DEF Delivered
<1> QED
  BY Zenon, <1>1, <1>3

LEMMA NobodyElseServes ==
  ASSUME IndInv, [Next]_coalescerVars, NEW l \in Requests, NEW r \in Requests, l # r,
         query[l] = "OK", Serves(l, r)', pc[r] # "idle"
  PROVE  Serves(l, r)
<1> USE CoalescerAssumption DEF IndInv
<1>0. query[l] = "OK" /\ l # NoRequest /\ pc[l] \notin {"idle", "entered"}
  BY DEF CallInv
<1>1. CASE UNCHANGED coalescerVars
  BY Zenon, <1>1 DEF Serves, coalescerVars, callVars
<1>2. CASE Shutdown
  <2>1. pc' = pc /\ outcome' = outcome
    BY Zenon, <1>2 DEF Shutdown
  <2>2. waiter'[r].result = waiter[r].result
    BY <1>2 DEF Shutdown, TypeOK
  <2> QED
    BY Zenon, <2>1, <2>2 DEF Serves
<1>3. ASSUME NEW q \in Requests, Enter(q) \/ Step(q) \/ WaitTimeout(q)
      PROVE  Serves(l, r)
  <2>1. pc'[l] = "leading" => pc[l] = "leading"
    <3>1. CASE q # l
      BY Zenon, <1>3, <3>1, OtherCallsUntouched
    <3>2. CASE q = l
      <4> SUFFICES ASSUME pc'[l] = "leading", pc[l] # "leading"
                   PROVE  FALSE
        BY Zenon
      <4>1. \A to : pc' = [pc EXCEPT ![l] = to] => pc'[l] = to
        BY Zenon DEF TypeOK
      <4>2. \A status, result : Return(l, status, result) => pc'[l] = "done"
        BY Zenon, <4>1 DEF Return
      <4>3. ~(\E result \in QueryResults : RunQuery(l, result))
        BY Zenon, <1>0 DEF RunQuery
      <4>4. ~Enter(l) /\ ~Lead(l) /\ ~GoAlone(l) /\ ~Join(l)
        BY Zenon, <1>0 DEF Enter, Lead, GoAlone, Join
      <4>5. ~Distribute(l)
        BY Zenon, <4>2 DEF Distribute, ReturnWaiterState, CallInv
      <4>6. ~Wake(l) /\ ~ReturnFollower(l)
        BY Zenon, <4>1, <4>2 DEF Wake, ReturnFollower, ReturnWaiterState
      <4>7. ~WaitTimeout(l)
        BY Zenon, <4>1, <4>2 DEF WaitTimeout
      <4> QED
        BY Zenon, <1>3, <3>2, <4>3, <4>4, <4>5, <4>6, <4>7 DEF Step
    <3> QED
      BY Zenon, <3>1, <3>2
  <2>2. waiter'[r].result = l => waiter[r].result = l \/ pc[l] = "leading"
    <3>1. CASE Distribute(q)
      BY Zenon, <1>0, <3>1, DeliveredBy
    <3>2. CASE ~Distribute(q)
      <4>1. waiter' = waiter
        BY Zenon, <1>3, <3>2 DEF Enter, Step, WaitTimeout, Lead, GoAlone, Join, RunQuery, Wake, ReturnFollower
      <4> QED
        BY Zenon, <4>1
    <3> QED
      BY Zenon, <3>1, <3>2
  <2>3. outcome'[r].result = l => outcome[r].result = l \/ waiter'[r].result = l
    <3> SUFFICES ASSUME outcome'[r].result = l, outcome'[r] # outcome[r]
                 PROVE  waiter'[r].result = l
      BY Zenon
    <3>1. q = r
      BY Zenon, <1>3, OtherCallsUntouched
    <3>2. \A status, result : Return(r, status, result) => outcome'[r].result = result
      BY DEF Return, TypeOK
    <3>3. CASE Enter(r) \/ WaitTimeout(r) \/ \E result \in QueryResults : RunQuery(r, result)
      BY Zenon, <1>0, <3>2, <3>3 DEF Enter, WaitTimeout, RunQuery
    <3>4. CASE Distribute(r) \/ ReturnFollower(r)
      <4>1. pc[r] # "promoted"
        BY Zenon DEF CallInv
      <4>2. outcome'[r].result \in {NoRequest, waiter'[r].result}
        BY <3>2, <3>4, <4>1 DEF Distribute, ReturnFollower, ReturnWaiterState
      <4> QED
        BY Zenon, <1>0, <4>2
    <3> QED
      BY Zenon, <1>3, <3>1, <3>3, <3>4 DEF Step, Lead, GoAlone, Join, Wake
  <2> QED
    BY Zenon, <1>0, <2>1, <2>2, <2>3 DEF Serves
<1> QED
  BY Zenon, <1>1, <1>2, <1>3 DEF Next

(* What is read, asked for and delivered keeps that a find is given old rows   *)
(* only if it came after they were read.                                       *)
LEMMA ServedStep ==
  ASSUME FindInv, IndInv', RowsInv', [FindNext]_findVars
  PROVE  ServedInv'
<1> USE CoalescerAssumption DEF FindInv
<1>1. [Next]_coalescerVars
  BY Zenon, FindStepIsStep
<1>2. ASSUME NEW q \in Requests, Arrive(q) PROVE ServedInv'
  <2>1. /\ behind' = [behind EXCEPT ![q] = Undelivered] /\ rows' = rows
        /\ \E seen \in 0..lastWrite : needs' = [needs EXCEPT ![q] = seen]
        /\ pc[q] = "idle" /\ query' = query /\ waiter' = waiter
    BY Zenon, <1>2 DEF Arrive, Enter
  <2>2. Undelivered \subseteq Requests
    BY DEF Undelivered
  <2>3. /\ behind' \in [Requests -> SUBSET Requests]
        /\ behind'[q] = Undelivered
        /\ \A r \in Requests \ {q} : behind'[r] = behind[r] /\ needs'[r] = needs[r]
    BY <2>1, <2>2 DEF ServedInv, RowsInv
  <2>4. ASSUME NEW l \in Requests, NEW r \in Requests, Serves(l, r)'
        PROVE  rows'[l].asOf >= needs'[r] \/ l \in behind'[r]
    <3>1. CASE l = r
      BY Zenon, <2>4, <3>1 DEF Serves, RowsInv
    <3>2. CASE l # r /\ r # q
      <4>1. pc'[r] = pc[r]
        BY Zenon, <1>2, <3>2, OtherCallsUntouched DEF Arrive, IndInv
      <4>2. Serves(l, r)
        BY Zenon, <1>1, <2>1, <2>4, <3>2, <4>1, NobodyElseServes DEF Serves
      <4> QED
        BY Zenon, <2>1, <2>3, <3>2, <4>2 DEF ServedInv
    <3>3. CASE l # r /\ r = q
      <4>1. pc'[l] = pc[l] /\ l # q
        BY Zenon, <1>2, <3>3, OtherCallsUntouched DEF Arrive, IndInv
      <4>2. waiter[q] = Fresh /\ outcome[q].result = NoRequest
        BY Zenon, <2>1 DEF IndInv, CallInv
      <4>3. waiter'[q].result = NoRequest
        <5>1. Fresh.result = NoRequest
          BY DEF Fresh
        <5> QED
          BY Zenon, <2>1, <4>2, <5>1
      <4>4. outcome'[q].result = NoRequest
        BY <1>2, <4>2 DEF Arrive, Enter, Return, IndInv, TypeOK
      <4>5. pc[l] = "leading" /\ query[l] = "OK"
        BY Zenon, <2>1, <2>4, <3>3, <4>1, <4>3, <4>4 DEF Serves
      <4> QED
        BY Zenon, <2>3, <3>3, <4>5 DEF Undelivered
    <3> QED
      BY Zenon, <3>1, <3>2, <3>3
  <2> QED
    BY Zenon, <2>3, <2>4 DEF ServedInv
<1>3. ASSUME \A q \in Requests : ~Arrive(q) PROVE ServedInv'
  <2>1. behind' = behind /\ needs' = needs
    BY ZenonT(60), <1>3 DEF FindNext, findVars, arrivalVars, QueryFunc, FindStep, Coalesce, Expire,
           ReplyCoalesced, ReplyThrown, FallThrough, ChunkWrite, ShutdownCoalescer
  <2>2. ASSUME NEW r \in Requests, pc[r] = "idle"
        PROVE  pc'[r] = "idle"
    <3>1. ASSUME NEW q \in Requests, Step(q) \/ WaitTimeout(q)
          PROVE  pc'[r] = "idle"
      <4>1. pc[q] # "idle"
        BY Zenon, <3>1 DEF Step, WaitTimeout, Lead, GoAlone, Join, RunQuery, Distribute, Wake,
                    ReturnFollower
      <4> QED
        BY Zenon, <2>2, <3>1, <4>1, OtherCallsUntouched DEF IndInv
    <3>2. \/ \E q \in Requests : Step(q) \/ WaitTimeout(q)
          \/ Shutdown \/ UNCHANGED coalescerVars
      BY ZenonT(60), <1>3 DEF FindNext, findVars, FindStep, QueryFunc, Coalesce, Expire, ReplyCoalesced,
             ReplyThrown, FallThrough, ChunkWrite, ShutdownCoalescer, Step
    <3>3. Shutdown \/ UNCHANGED coalescerVars => pc' = pc
      BY Zenon DEF Shutdown, coalescerVars, callVars
    <3> QED
      BY Zenon, <2>2, <3>1, <3>2, <3>3
  <2>3. ASSUME NEW l \in Requests, NEW r \in Requests, Serves(l, r)'
        PROVE  rows'[l].asOf >= needs'[r] \/ l \in behind'[r]
    <3>1. CASE l = r
      BY Zenon, <2>3, <3>1 DEF Serves, RowsInv
    <3>2. CASE l # r /\ query[l] = "OK"
      <4>1. Serves(l, r)
        BY Zenon, <1>1, <2>2, <2>3, <3>2, NobodyElseServes DEF Serves
      <4>2. rows'[l] = rows[l]
        BY Zenon, <3>2, RowsKept
      <4> QED
        BY Zenon, <2>1, <4>1, <4>2 DEF ServedInv
    <3>3. CASE query[l] # "OK"
      <4>1. PICK q \in Requests : QueryFunc(q)
        <5>1. query' # query
          BY Zenon, <2>3, <3>3 DEF Serves
        <5>2. ASSUME NEW q \in Requests, Coalesce(q) \/ Expire(q)
              PROVE  query' = query
          BY Zenon, <5>2 DEF Coalesce, Expire, WaitTimeout, Lead, GoAlone, Join, Distribute, Wake,
                      ReturnFollower
        <5>3. ASSUME NEW q \in Requests, ReplyCoalesced(q) \/ ReplyThrown(q) \/ FallThrough(q)
              PROVE  query' = query
          BY Zenon, <5>3 DEF ReplyCoalesced, ReplyThrown, FallThrough, coalescerVars, callVars
        <5>4. ChunkWrite \/ ShutdownCoalescer \/ UNCHANGED findVars => query' = query
          BY ZenonT(60) DEF ChunkWrite, ShutdownCoalescer, Shutdown, findVars, coalescerVars, callVars
        <5> QED
          BY Zenon, <1>3, <5>1, <5>2, <5>3, <5>4 DEF FindNext, FindStep
      <4>2. PICK result \in QueryResults :
              /\ RunQuery(q, result)
              /\ IF result = "OK"
                   THEN \E whole \in BOOLEAN : rows' = [rows EXCEPT ![q] = Scan(q, whole)]
                   ELSE UNCHANGED rows
        BY Zenon, <4>1 DEF QueryFunc
      <4>3. query' = [query EXCEPT ![q] = result]
        BY Zenon, <4>2 DEF RunQuery
      <4>4. q = l /\ result = "OK"
        BY <2>3, <3>3, <4>3 DEF Serves, IndInv, TypeOK
      <4>5. PICK whole \in BOOLEAN : rows' = [rows EXCEPT ![l] = Scan(l, whole)]
        BY Zenon, <4>2, <4>4
      <4>6. rows'[l] = Scan(l, whole)
        BY Zenon, <4>5 DEF RowsInv
      <4>7. rows'[l].asOf = lastWrite
        BY <4>6 DEF Scan
      <4> QED
        BY Zenon, <2>1, <4>7 DEF RowsInv
    <3> QED
      BY Zenon, <3>1, <3>2, <3>3
  <2> QED
    BY Zenon, <2>1, <2>3 DEF ServedInv
<1> QED
  BY Zenon, <1>2, <1>3

(* A reply is built from rows that were read, and is not touched afterwards. *)
LEMMA ReplyStep ==
  ASSUME FindInv, IndInv', RowsInv', [FindNext]_findVars
  PROVE  ReplyInv'
<1> USE CoalescerAssumption DEF FindInv
<1>1. [Next]_coalescerVars
  BY Zenon, FindStepIsStep
<1>2. filter' = filter
  BY ZenonT(60) DEF FindNext, findVars, arrivalVars, Arrive, FindStep, QueryFunc, Coalesce, Expire, ReplyCoalesced,
         ReplyThrown, FallThrough, ChunkWrite, ShutdownCoalescer
<1>3. \A r \in Requests : outcome[r].status = "OK" =>
        outcome[r].result \in Requests /\ query[outcome[r].result] = "OK"
  <2> SUFFICES ASSUME NEW r \in Requests, outcome[r].status = "OK"
               PROVE  outcome[r].result \in Requests /\ query[outcome[r].result] = "OK"
    BY Zenon
  <2>1. outcome[r].result \in Answers
    BY Zenon DEF IndInv, TypeOK
  <2>2. outcome[r].result # NoRequest
    BY Zenon DEF IndInv, AnswerInv
  <2>3. CASE outcome[r].result = r
    BY <2>3 DEF RowsInv
  <2>4. CASE outcome[r].result # r
    BY Zenon, <2>2, <2>4, <2>1 DEF IndInv, AnswerInv, Link, Answers
  <2> QED
    BY Zenon, <2>3, <2>4
<1>4. \A r \in Requests : query[r] = "OK" => rows'[r] = rows[r]
  BY Zenon, RowsKept
<1>5. \A r \in Requests : pc[r] = "done" => needs'[r] = needs[r]
  <2>1. ASSUME NEW q \in Requests, Arrive(q)
        PROVE  \A r \in Requests : pc[r] = "done" => needs'[r] = needs[r]
    BY Zenon, <2>1 DEF Arrive, Enter, RowsInv
  <2>2. (\A q \in Requests : ~Arrive(q)) => needs' = needs
    BY ZenonT(60) DEF FindNext, findVars, arrivalVars, QueryFunc, FindStep, Coalesce, Expire, ReplyCoalesced,
           ReplyThrown, FallThrough, ChunkWrite, ShutdownCoalescer
  <2> QED
    BY Zenon, <2>1, <2>2
<1>6. \A r \in Requests : pc[r] = "done" => pc'[r] = "done" /\ outcome'[r] = outcome[r]
  BY Zenon, <1>1, CallsEndOnce
<1>7. ASSUME NEW r \in Requests, reply'[r] = reply[r]
      PROVE  Replied(r)' =>
               /\ pc'[r] = "done"
               /\ IF outcome'[r].status = "OK"
                    THEN outcome'[r].result \in Requests /\ reply'[r].rows = rows'[outcome'[r].result]
                    ELSE reply'[r].rows.filter = filter'[r] /\ reply'[r].rows.asOf >= needs'[r]
  BY <1>2, <1>3, <1>4, <1>5, <1>6, <1>7 DEF ReplyInv, Replied
<1>8. ASSUME NEW q \in Requests, NEW a, pc[q] = "done", Answer(q, a), UNCHANGED <<coalescerVars, filter, needs, rows>>,
             a.status = "OK" =>
               IF outcome[q].status = "OK"
                 THEN a.rows = rows[outcome[q].result]
                 ELSE a.rows.filter = filter[q] /\ a.rows.asOf >= needs[q]
      PROVE  ReplyInv'
  <2>1. \A r \in Requests : reply'[r] = IF r = q THEN a ELSE reply[r]
    BY Zenon, <1>8 DEF Answer, RowsInv
  <2>2. pc' = pc /\ outcome' = outcome /\ filter' = filter /\ needs' = needs /\ rows' = rows
    BY Zenon, <1>8 DEF coalescerVars, callVars
  <2>3. reply'[q] = a
    BY Zenon, <2>1
  <2>4. Replied(q)' =>
               /\ pc'[q] = "done"
               /\ IF outcome'[q].status = "OK"
                    THEN outcome'[q].result \in Requests /\ reply'[q].rows = rows'[outcome'[q].result]
                    ELSE reply'[q].rows.filter = filter'[q] /\ reply'[q].rows.asOf >= needs'[q]
    BY Zenon, <1>3, <1>8, <2>2, <2>3 DEF Replied
  <2> QED
    BY <1>7, <2>1, <2>4 DEF ReplyInv
<1>9. ASSUME NEW q \in Requests, ReplyCoalesced(q) PROVE ReplyInv'
  <2> DEFINE a == [status |-> "OK", rows |-> rows[outcome[q].result]]
  <2>1. /\ pc[q] = "done" /\ Answer(q, a) /\ UNCHANGED <<coalescerVars, filter, needs, rows>>
        /\ outcome[q].status = "OK" /\ a.rows = rows[outcome[q].result]
    BY Zenon, <1>9 DEF arrivalVars, ReplyCoalesced
  <2> HIDE DEF a
  <2> QED
    BY Zenon, <1>8, <2>1
<1>10. ASSUME NEW q \in Requests, ReplyThrown(q) PROVE ReplyInv'
  <2> DEFINE a == [status |-> "error"]
  <2>1. /\ pc[q] = "done" /\ Answer(q, a) /\ UNCHANGED <<coalescerVars, filter, needs, rows>>
        /\ a.status # "OK"
    BY Zenon, <1>10 DEF arrivalVars, ReplyThrown
  <2> HIDE DEF a
  <2> QED
    BY Zenon, <1>8, <2>1
<1>11. ASSUME NEW q \in Requests, FallThrough(q) PROVE ReplyInv'
  <2>1. /\ pc[q] = "done" /\ UNCHANGED <<coalescerVars, filter, needs, rows>>
        /\ outcome[q].status # "OK"
        /\ \/ Answer(q, [status |-> "OK", rows |-> Scan(q, TRUE)])
           \/ Answer(q, [status |-> "error"])
    BY Zenon, <1>11 DEF arrivalVars, FallThrough
  <2>2. CASE Answer(q, [status |-> "OK", rows |-> Scan(q, TRUE)])
    <3> DEFINE a == [status |-> "OK", rows |-> Scan(q, TRUE)]
    <3>1. a.rows = Scan(q, TRUE)
      BY Zenon
    <3>2. a.rows.filter = filter[q] /\ a.rows.asOf = lastWrite
      BY Zenon, <3>1 DEF Scan
    <3>3. lastWrite >= needs[q]
      BY Zenon DEF RowsInv
    <3>4. Answer(q, a)
      BY Zenon, <2>2
    <3> HIDE DEF a
    <3> QED
      BY Zenon, <1>8, <2>1, <3>2, <3>3, <3>4
  <2>3. CASE Answer(q, [status |-> "error"])
    <3> DEFINE a == [status |-> "error"]
    <3>1. a.status # "OK" /\ Answer(q, a)
      BY Zenon, <2>3
    <3> HIDE DEF a
    <3> QED
      BY Zenon, <1>8, <2>1, <3>1
  <2> QED
    BY Zenon, <2>1, <2>2, <2>3
<1>12. ASSUME reply' = reply PROVE ReplyInv'
  BY Zenon, <1>7, <1>12 DEF ReplyInv
<1> QED
  BY Zenon, <1>9, <1>10, <1>11, <1>12
  DEF FindNext, findVars, arrivalVars, FindStep, Arrive, QueryFunc, Coalesce, Expire, ChunkWrite, ShutdownCoalescer

(* Every reachable state of the find command satisfies the invariant. *)
THEOREM FindInvariance == FindSpec => []FindInv
<1>1. FindInit => FindInv
  <2> SUFFICES ASSUME FindInit PROVE FindInv
    BY Zenon
  <2>1. IndInv
    BY Zenon, InitEstablishes DEF FindInit
  <2>2. RowsInv
    BY SMTT(60), CoalescerAssumption DEF FindInit, Init, RowsInv
  <2>3. ReplyInv
    BY Zenon DEF FindInit, ReplyInv, Replied, Nothing
  <2>4. ServedInv
    BY Zenon DEF FindInit, Init, ServedInv, Serves
  <2> QED
    BY Zenon, <2>1, <2>2, <2>3, <2>4 DEF FindInv
<1>2. FindInv /\ [FindNext]_findVars => FindInv'
  <2> SUFFICES ASSUME FindInv, [FindNext]_findVars PROVE FindInv'
    BY Zenon
  <2>1. IndInv'
    <3>1. CASE Next
      BY Zenon, <3>1, NextPreserves DEF FindInv
    <3>2. CASE UNCHANGED coalescerVars
      BY Zenon, <3>2, StutterPreserves DEF FindInv
    <3> QED
      BY Zenon, <3>1, <3>2, FindStepIsStep
  <2> QED
    BY Zenon, <2>1, RowsStep, ServedStep, ReplyStep DEF FindInv
<1> QED
  BY <1>1, <1>2, PTL DEF FindSpec

(* A find is given rows older than the optime it asked for only if it joined a *)
(* query that had read its rows before the find arrived.                       *)
THEOREM StaleOnlyIfLate == FindSpec => []StaleOnlyBehindScan
<1>1. FindInv => StaleOnlyBehindScan
  <2> SUFFICES ASSUME FindInv, NEW r \in Requests, Replied(r), outcome[r].status = "OK"
               PROVE  reply[r].rows.asOf >= needs[r] \/ outcome[r].result \in behind[r]
    BY Zenon DEF FindInv, ReplyInv, StaleOnlyBehindScan
  <2> DEFINE l == outcome[r].result
  <2>1. pc[r] = "done" /\ l \in Requests /\ reply[r].rows = rows[l]
    BY Zenon DEF FindInv, ReplyInv
  <2>2. query[l] = "OK"
    BY Zenon, <2>1, CoalescerAssumption DEF FindInv, RowsInv, IndInv, AnswerInv, Link
  <2>3. Serves(l, r)
    BY <2>1, <2>2 DEF Serves
  <2> QED
    BY Zenon, <2>1, <2>3 DEF FindInv, ServedInv
<1> QED
  BY <1>1, FindInvariance, PTL

(* Between finds whose version find_cmd recognises, maxVersionGap bounds how   *)
(* much of the rows asked for a shared reply can lack.                         *)
THEOREM GapIsBounded == FindSpec => []RecognisedGapBounded
<1>1. FindInv => RecognisedGapBounded
  <2> SUFFICES ASSUME FindInv, NEW r \in Requests, Replied(r), filter[r].op = "$gt",
                      reply[r].rows.filter.op = "$gt"
               PROVE  reply[r].rows.filter.bound - filter[r].bound <= MaxVersionGap
    BY Zenon DEF RecognisedGapBounded
  <2> DEFINE l == outcome[r].result
  <2>1. filter[r].bound \in Nat
    BY ZenonT(60), FindAssumption DEF FindInv, RowsInv, Filters
  <2>2. CASE reply[r].rows.filter = filter[r]
    BY <2>1, <2>2, CoalescerAssumption
  <2>3. CASE outcome[r].status = "OK" /\ l # r
    <3>1. l \in Requests /\ reply[r].rows = rows[l]
      BY Zenon, <2>3 DEF FindInv, ReplyInv
    <3>2. Link(l, r)
      BY Zenon, <2>3, <3>1, CoalescerAssumption DEF FindInv, IndInv, AnswerInv
    <3>3. reply[r].rows.filter = filter[l]
      BY Zenon, <3>1, <3>2 DEF FindInv, RowsInv, Link
    <3>4. version[l] = filter[l].bound /\ version[r] = filter[r].bound
      BY Zenon, <3>1, <3>3 DEF FindInv, RowsInv, RequestVersion
    <3> QED
      BY Zenon, <3>2, <3>3, <3>4 DEF Link
  <2>4. outcome[r].status # "OK" \/ l = r => reply[r].rows.filter = filter[r]
    BY DEF FindInv, RowsInv, ReplyInv
  <2> QED
    BY Zenon, <2>2, <2>3, <2>4
<1> QED
  BY <1>1, FindInvariance, PTL
=============================================================================
