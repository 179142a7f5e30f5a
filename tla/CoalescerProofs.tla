-------------------------- MODULE CoalescerProofs ---------------------------
(* Proof that the coalescer forgets no waiter, delivers each answer once and  *)
(* to the right requests, for any number of requests, namespaces and versions.*)
EXTENDS ConfigQueryCoalescer, TLAPS

(* What a group knows of its waiters: they joined it, nothing was delivered to *)
(* them yet, and their versions are close to the leader's, the only version    *)
(* the group records.  Its query is marked as running for as long as it lives. *)
GroupInv ==
  \A n \in Namespaces :
    /\ groups[n].generation <= nextGeneration
    /\ Exists(n) => groups[n].queryInProgress
    /\ groups[n].minVersion = groups[n].maxVersion
    /\ \A r \in groups[n].waiters :
         /\ Exists(n) /\ ns[r] = n /\ generation[r] = groups[n].generation
         /\ ~waiter[r].done
         /\ version[r] - groups[n].minVersion <= MaxVersionGap
         /\ groups[n].minVersion - version[r] <= MaxVersionGap

(* What the place a call has reached says of its variables.  No call is ever *)
(* promoted.                                                                 *)
CallInv ==
  \A r \in Requests :
    /\ generation[r] <= nextGeneration
    /\ pc[r] # "promoted"
    /\ pc[r] \in {"idle", "entered"} =>
         /\ generation[r] = 0 /\ query[r] = "none" /\ waiter[r] = Fresh
         /\ outcome[r].result = NoRequest
    /\ pc[r] = "leading" =>
         /\ generation[r] # 0
         /\ ~shutdown => InGroup(r) /\ r \in groups[ns[r]].waiters
         /\ InGroup(r) => groups[ns[r]].minVersion = version[r]
    /\ pc[r] = "woken" /\ ~shutdown => waiter[r].done

(* Two leaders never share a generation. *)
UniqueInv ==
  \A l, m \in Requests :
    pc[l] = "leading" /\ pc[m] = "leading" /\ generation[l] = generation[m] => l = m

(* Somebody is running the query of each group, or it threw. *)
LeaderInv ==
  \A n \in Namespaces : Exists(n) /\ ~shutdown =>
    \E l \in Requests : /\ ns[l] = n /\ generation[l] = groups[n].generation
                        /\ pc[l] = "leading" \/ query[l] = "thrown"

(* r may be given the answer of l. *)
Link(l, r) ==
  /\ ns[l] = ns[r] /\ generation[l] = generation[r] /\ query[l] = "OK"
  /\ version[l] - version[r] <= MaxVersionGap
  /\ version[r] - version[l] <= MaxVersionGap

AnswerInv ==
  \A r \in Requests :
    /\ waiter[r].result # NoRequest => Link(waiter[r].result, r)
    /\ waiter[r].done /\ waiter[r].status = "OK" => waiter[r].result # NoRequest
    /\ outcome[r].result # NoRequest /\ outcome[r].result # r => Link(outcome[r].result, r)
    /\ outcome[r].status = "OK" => outcome[r].result # NoRequest

IndInv ==
  /\ TypeOK
  /\ GroupInv
  /\ CallInv
  /\ WaiterTracked
  /\ UniqueInv
  /\ LeaderInv
  /\ AnswerInv
-----------------------------------------------------------------------------
(* The empty coalescer. *)
LEMMA InitEstablishes == Init => IndInv
<1> SUFFICES ASSUME Init PROVE IndInv
  OBVIOUS
<1> USE CoalescerAssumption DEF Init, NoGroup, Fresh
<1>1. TypeOK
  BY ZenonT(60) DEF TypeOK, CoalescingGroup, Answers, Statuses, QueryResults
<1>2. GroupInv /\ LeaderInv
  BY DEF GroupInv, LeaderInv, Exists
<1>3. CallInv /\ WaiterTracked /\ UniqueInv
  BY DEF CallInv, WaiterTracked, UniqueInv
<1>4. AnswerInv
  BY DEF AnswerInv
<1> QED
  BY <1>1, <1>2, <1>3, <1>4 DEF IndInv

(* A step of a call that only moves its own pc and its own outcome, where the   *)
(* call leaves no live group without its leader and returns only what it may    *)
(* be given.                                                                    *)
LocalMove(r, to, out) ==
  /\ to \in {"entered", "alone", "woken", "done"}
  /\ pc' = [pc EXCEPT ![r] = to]
  /\ outcome' = [outcome EXCEPT ![r] = out]
  /\ out \in [status : Statuses \cup {"none"}, result : Answers]
  /\ out.status = "OK" => out.result # NoRequest
  /\ out.result # NoRequest => out.result = outcome[r].result \/ Link(out.result, r)
  /\ to = "entered" => pc[r] = "idle" /\ out.result = NoRequest
  /\ to = "woken" => waiter[r].done \/ shutdown
  /\ pc[r] = "leading" => shutdown
  /\ UNCHANGED <<ns, version, generation, query, waiter, groups, nextGeneration, shutdown>>

(* Such a move keeps the invariant. *)
LEMMA LocalStep ==
  ASSUME IndInv, NEW r \in Requests, NEW to, NEW out, LocalMove(r, to, out)
  PROVE  IndInv'
<1> USE DEF IndInv, LocalMove
<1>1. \A w \in Requests : /\ pc'[w] = IF w = r THEN to ELSE pc[w]
                          /\ outcome'[w] = IF w = r THEN out ELSE outcome[w]
  BY Zenon DEF TypeOK, CoalescingGroup
<1>2. TypeOK'
  BY Zenon DEF TypeOK, CoalescingGroup
<1>3. GroupInv'
  BY DEF GroupInv, Exists
<1>4. CallInv'
  BY <1>1 DEF CallInv, InGroup
<1>5. WaiterTracked'
  BY <1>1 DEF WaiterTracked, InGroup
<1>6. UniqueInv'
  BY <1>1 DEF UniqueInv
<1>7. LeaderInv'
  BY <1>1 DEF LeaderInv, Exists
<1>8. AnswerInv'
  BY <1>1 DEF AnswerInv, Link
<1> QED
  BY Zenon, <1>2, <1>3, <1>4, <1>5, <1>6, <1>7, <1>8

(* Opening a group: its generation is larger than any in use. *)
LEMMA LeadStep ==
  ASSUME IndInv, NEW r \in Requests, Lead(r)
  PROVE  IndInv'
<1> USE CoalescerAssumption DEF IndInv
<1> DEFINE new == nextGeneration + 1
<1>1. /\ pc[r] = "entered" /\ ~Exists(ns[r]) /\ nextGeneration' = new
      /\ generation' = [generation EXCEPT ![r] = new]
      /\ groups' = [groups EXCEPT ![ns[r]] = NewGroup(r)]
      /\ pc' = [pc EXCEPT ![r] = "leading"]
      /\ UNCHANGED <<ns, version, query, waiter, outcome, shutdown>>
  BY Zenon DEF Lead
<1>2. /\ new \in Nat \ {0} /\ nextGeneration \in Nat
      /\ \A w \in Requests : generation[w] \in Nat /\ generation[w] < new
      /\ \A n \in Namespaces : groups[n].generation \in Nat /\ groups[n].generation < new
  BY DEF TypeOK, CoalescingGroup, GroupInv, CallInv
<1>3. /\ \A w \in Requests : pc'[w] = IF w = r THEN "leading" ELSE pc[w]
      /\ \A w \in Requests : generation'[w] = IF w = r THEN new ELSE generation[w]
      /\ \A n \in Namespaces : groups'[n] = IF n = ns[r] THEN NewGroup(r) ELSE groups[n]
  BY <1>1 DEF TypeOK, CoalescingGroup
<1>4. /\ NewGroup(r).generation = new /\ NewGroup(r).waiters = {r}
      /\ NewGroup(r).minVersion = version[r] /\ NewGroup(r).maxVersion = version[r]
      /\ NewGroup(r).queryInProgress = TRUE /\ ns[r] \in Namespaces /\ version[r] \in Nat
  BY ZenonT(60) DEF NewGroup, TypeOK, CoalescingGroup
<1> HIDE DEF new
<1>5. TypeOK'
  BY ZenonT(60), <1>1, <1>2 DEF TypeOK, CoalescingGroup, NewGroup, new
<1>6. waiter[r] = Fresh /\ query[r] = "none" /\ generation[r] = 0 /\ ~waiter[r].done
  <2>1. waiter[r] = Fresh /\ query[r] = "none" /\ generation[r] = 0
    BY <1>1 DEF CallInv
  <2>2. Fresh.done = FALSE
    BY DEF Fresh
  <2> QED
    BY <2>1, <2>2
<1>7. GroupInv'
  <2> SUFFICES ASSUME NEW n \in Namespaces
               PROVE  /\ groups'[n].generation <= new
                      /\ groups'[n].generation # 0 => groups'[n].queryInProgress
                      /\ groups'[n].minVersion = groups'[n].maxVersion
                      /\ \A w \in groups'[n].waiters :
                           /\ groups'[n].generation # 0 /\ ns[w] = n
                           /\ generation'[w] = groups'[n].generation
                           /\ ~waiter[w].done
                           /\ version[w] - groups'[n].minVersion <= MaxVersionGap
                           /\ groups'[n].minVersion - version[w] <= MaxVersionGap
    BY <1>1 DEF GroupInv, Exists
  <2>1. CASE n = ns[r]
    <3>1. version[r] - version[r] <= MaxVersionGap
      BY <1>4
    <3> QED
      BY <1>2, <1>3, <1>4, <1>6, <2>1, <3>1
  <2>2. CASE n # ns[r]
    <3>1. groups'[n] = groups[n] /\ groups[n].generation <= new
      BY <1>2, <1>3, <2>2
    <3>2. \A w \in groups[n].waiters : w \in Requests /\ generation'[w] = generation[w]
      BY SMTT(60), <1>3, <2>2 DEF GroupInv, TypeOK, CoalescingGroup
    <3> QED
      BY <3>1, <3>2 DEF GroupInv, Exists
  <2> QED
    BY <2>1, <2>2
<1>8. \A w \in Requests \ {r} : ns[w] = ns[r] =>
        /\ pc[w] = "leading" => shutdown
        /\ pc[w] = "waiting" /\ ~waiter[w].done => shutdown
        /\ generation'[w] # groups'[ns[w]].generation
  BY <1>1, <1>2, <1>3, <1>4 DEF CallInv, WaiterTracked, GroupInv, Exists
<1>9. \A w \in Requests \ {r} : ns[w] # ns[r] =>
        groups'[ns[w]] = groups[ns[w]] /\ generation'[w] = generation[w]
  BY Zenon, <1>3 DEF TypeOK, CoalescingGroup
<1>10. CallInv'
  <2> SUFFICES ASSUME NEW w \in Requests
               PROVE  /\ generation'[w] <= new
                      /\ pc'[w] # "promoted"
                      /\ pc'[w] \in {"idle", "entered"} =>
                           /\ generation'[w] = 0 /\ query[w] = "none" /\ waiter[w] = Fresh
                           /\ outcome[w].result = NoRequest
                      /\ pc'[w] = "leading" =>
                           /\ generation'[w] # 0
                           /\ ~shutdown => InGroup(w)' /\ w \in groups'[ns[w]].waiters
                           /\ InGroup(w)' => groups'[ns[w]].minVersion = version[w]
                      /\ pc'[w] = "woken" /\ ~shutdown => waiter[w].done
    BY <1>1 DEF CallInv
  <2>1. CASE w = r
    BY SMTT(60), <1>1, <1>2, <1>3, <1>4, <2>1 DEF InGroup
  <2>2. CASE w # r /\ ns[w] = ns[r]
    <3>1. generation'[w] = generation[w] /\ pc'[w] = pc[w] /\ ~InGroup(w)' /\ generation[w] <= new
      BY SMTT(60), <1>1, <1>2, <1>3, <1>8, <2>2 DEF InGroup
    <3> QED
      BY Zenon, <1>8, <2>2, <3>1 DEF CallInv
  <2>3. CASE w # r /\ ns[w] # ns[r]
    <3>1. /\ generation'[w] = generation[w] /\ pc'[w] = pc[w] /\ generation[w] <= new
          /\ groups'[ns[w]] = groups[ns[w]]
      BY <1>2, <1>3, <1>9, <2>3
    <3> QED
      BY <1>1, <3>1 DEF CallInv, InGroup
  <2> QED
    BY Zenon, <2>1, <2>2, <2>3
<1>11. WaiterTracked'
  BY <1>1, <1>3, <1>8, <1>9 DEF WaiterTracked, InGroup
<1>12. UniqueInv'
  BY <1>2, <1>3 DEF UniqueInv
<1>13. LeaderInv'
  <2> SUFFICES ASSUME NEW n \in Namespaces, groups'[n].generation # 0, ~shutdown
               PROVE  \E l \in Requests : /\ ns[l] = n /\ generation'[l] = groups'[n].generation
                                          /\ pc'[l] = "leading" \/ query[l] = "thrown"
    BY <1>1 DEF LeaderInv, Exists
  <2>1. CASE n = ns[r]
    BY Zenon, <1>3, <1>4, <2>1
  <2>2. CASE n # ns[r]
    <3>1. PICK l \in Requests : /\ ns[l] = n /\ generation[l] = groups[n].generation
                                /\ pc[l] = "leading" \/ query[l] = "thrown"
      BY <1>3, <2>2 DEF LeaderInv, Exists
    <3>2. l # r
      BY Zenon, <1>4, <2>2, <3>1
    <3> QED
      BY Zenon, <1>3, <2>2, <3>1, <3>2
  <2> QED
    BY Zenon, <2>1, <2>2
<1>14. AnswerInv'
  <2>1. \A l, w \in Requests : l # r /\ w # r /\ Link(l, w) => Link(l, w)'
    BY <1>1, <1>3 DEF Link
  <2>2. \A l, w \in Requests : Link(l, w) => l # r
    BY Zenon, <1>6 DEF Link
  <2>3. waiter[r].result = NoRequest /\ outcome[r].result = NoRequest
    BY <1>1 DEF CallInv, Fresh
  <2> QED
    BY Zenon, <1>1, <2>1, <2>2, <2>3 DEF AnswerInv, TypeOK, CoalescingGroup, Answers
<1> QED
  BY <1>5, <1>7, <1>10, <1>11, <1>12, <1>13, <1>14

(* Joining a group: the gap check is against the one version the group has. *)
LEMMA JoinStep ==
  ASSUME IndInv, NEW r \in Requests, Join(r)
  PROVE  IndInv'
<1> USE CoalescerAssumption DEF IndInv
<1> DEFINE g == groups[ns[r]]
<1>1. /\ pc[r] = "entered" /\ Exists(ns[r]) /\ ~GapTooLarge(r)
      /\ groups' = [groups EXCEPT ![ns[r]].waiters = @ \cup {r}]
      /\ generation' = [generation EXCEPT ![r] = g.generation]
      /\ pc' = [pc EXCEPT ![r] = "waiting"]
      /\ UNCHANGED <<ns, version, query, waiter, outcome, nextGeneration, shutdown>>
  BY Zenon DEF Join
<1>2. /\ \A w \in Requests : pc'[w] = IF w = r THEN "waiting" ELSE pc[w]
      /\ \A w \in Requests : generation'[w] = IF w = r THEN g.generation ELSE generation[w]
      /\ ns[r] \in Namespaces
  BY <1>1 DEF TypeOK, CoalescingGroup
<1>3. \A n \in Namespaces :
        /\ groups'[n].generation = groups[n].generation
        /\ groups'[n].minVersion = groups[n].minVersion
        /\ groups'[n].maxVersion = groups[n].maxVersion
        /\ groups'[n].queryInProgress = groups[n].queryInProgress
        /\ groups'[n].waiters = IF n = ns[r] THEN groups[n].waiters \cup {r} ELSE groups[n].waiters
  BY ZenonT(60), <1>1 DEF TypeOK, CoalescingGroup
<1>4. /\ waiter[r] = Fresh /\ query[r] = "none" /\ generation[r] = 0 /\ ~waiter[r].done
      /\ waiter[r].result = NoRequest /\ outcome[r].result = NoRequest
  <2>1. /\ waiter[r] = Fresh /\ query[r] = "none" /\ generation[r] = 0
        /\ outcome[r].result = NoRequest
    BY <1>1 DEF CallInv
  <2>2. Fresh.done = FALSE /\ Fresh.result = NoRequest
    BY DEF Fresh
  <2> QED
    BY <2>1, <2>2
<1>5. g.generation # 0 /\ g.generation <= nextGeneration
  BY <1>1, <1>2 DEF Exists, GroupInv
<1>6. /\ version[r] - g.minVersion <= MaxVersionGap
      /\ g.minVersion - version[r] <= MaxVersionGap
  <2>1. g.minVersion \in Nat /\ g.maxVersion = g.minVersion /\ version[r] \in Nat
    BY ZenonT(60), <1>2 DEF TypeOK, CoalescingGroup, GroupInv
  <2>2. MaxVersion(g, version[r]) - MinVersion(g, version[r]) <= MaxVersionGap
    BY <1>1, <2>1 DEF GapTooLarge, MaxVersion, MinVersion
  <2> HIDE DEF g
  <2> QED
    BY <2>1, <2>2 DEF MaxVersion, MinVersion
<1>7. TypeOK'
  <2>1. g.waiters \cup {r} \in SUBSET Requests /\ g.generation \in Nat
    BY <1>2 DEF TypeOK, CoalescingGroup
  <2>2. groups' = [groups EXCEPT ![ns[r]] = [g EXCEPT !.waiters = g.waiters \cup {r}]]
    BY <1>1 DEF TypeOK, CoalescingGroup
  <2>3. ASSUME NEW h \in CoalescingGroup, NEW ws \in SUBSET Requests
        PROVE  [h EXCEPT !.waiters = ws] \in CoalescingGroup
    BY DEF CoalescingGroup
  <2>4. g \in CoalescingGroup /\ groups \in [Namespaces -> CoalescingGroup]
    BY <1>2 DEF TypeOK
  <2>5. [g EXCEPT !.waiters = g.waiters \cup {r}] \in CoalescingGroup
    BY Zenon, <2>1, <2>3, <2>4
  <2>6. groups' \in [Namespaces -> CoalescingGroup]
    BY <1>2, <2>2, <2>4, <2>5
  <2> QED
    BY <1>1, <2>1, <2>6 DEF TypeOK
<1>8. GroupInv'
  <2> SUFFICES ASSUME NEW n \in Namespaces
               PROVE  /\ groups[n].generation <= nextGeneration
                      /\ groups[n].generation # 0 => groups[n].queryInProgress
                      /\ groups[n].minVersion = groups[n].maxVersion
                      /\ \A w \in groups'[n].waiters :
                           /\ groups[n].generation # 0 /\ ns[w] = n
                           /\ generation'[w] = groups[n].generation
                           /\ ~waiter[w].done
                           /\ version[w] - groups[n].minVersion <= MaxVersionGap
                           /\ groups[n].minVersion - version[w] <= MaxVersionGap
    BY <1>1, <1>3 DEF GroupInv, Exists
  <2>1. /\ groups[n].generation <= nextGeneration
        /\ groups[n].generation # 0 => groups[n].queryInProgress
        /\ groups[n].minVersion = groups[n].maxVersion
    BY DEF GroupInv, Exists
  <2>2. ASSUME NEW w \in groups'[n].waiters, w # r
        PROVE  /\ groups[n].generation # 0 /\ ns[w] = n
               /\ generation'[w] = groups[n].generation
               /\ ~waiter[w].done
               /\ version[w] - groups[n].minVersion <= MaxVersionGap
               /\ groups[n].minVersion - version[w] <= MaxVersionGap
    <3>1. w \in groups[n].waiters /\ w \in Requests
      <4>1. groups'[n].waiters \subseteq groups[n].waiters \cup {r}
        BY ZenonT(60), <1>3
      <4>2. groups[n].waiters \subseteq Requests
        BY Zenon DEF TypeOK, CoalescingGroup
      <4> QED
        BY <2>2, <4>1, <4>2
    <3>2. generation'[w] = generation[w]
      BY Zenon, <1>2, <2>2, <3>1
    <3>3. /\ groups[n].generation # 0 /\ ns[w] = n /\ generation[w] = groups[n].generation
          /\ ~waiter[w].done
          /\ version[w] - groups[n].minVersion <= MaxVersionGap
          /\ groups[n].minVersion - version[w] <= MaxVersionGap
      BY Zenon, <3>1 DEF GroupInv, Exists
    <3> QED
      BY Zenon, <3>2, <3>3
  <2>3. r \in groups'[n].waiters => n = ns[r]
    BY <1>1, <1>3, <1>4 DEF GroupInv, Exists
  <2>4. r \in groups'[n].waiters =>
          /\ groups[n].generation # 0 /\ ns[r] = n
          /\ generation'[r] = groups[n].generation
          /\ ~waiter[r].done
          /\ version[r] - groups[n].minVersion <= MaxVersionGap
          /\ groups[n].minVersion - version[r] <= MaxVersionGap
    BY Zenon, <1>2, <1>4, <1>5, <1>6, <2>3
  <2> QED
    BY <2>1, <2>2, <2>4
<1>9. \A w \in Requests \ {r} : /\ pc'[w] = pc[w] /\ InGroup(w)' = InGroup(w)
                                /\ w \in groups'[ns[w]].waiters <=> w \in groups[ns[w]].waiters
  BY <1>1, <1>2, <1>3 DEF InGroup, TypeOK, CoalescingGroup
<1>10. InGroup(r)' /\ r \in groups'[ns[r]].waiters
  BY SMTT(60), <1>1, <1>2, <1>3 DEF InGroup
<1>11. CallInv'
  <2>1. \A w \in Requests \ {r} : groups'[ns[w]].minVersion = groups[ns[w]].minVersion
                                 /\ generation'[w] = generation[w]
    BY ZenonT(60), <1>2, <1>3 DEF TypeOK, CoalescingGroup
  <2> QED
    BY <1>1, <1>2, <1>5, <1>9, <2>1 DEF CallInv
<1>12. WaiterTracked'
  BY Zenon, <1>1, <1>9, <1>10 DEF WaiterTracked
<1>13. UniqueInv'
  BY Zenon, <1>2 DEF UniqueInv
<1>14. LeaderInv'
  <2> SUFFICES ASSUME NEW n \in Namespaces, groups[n].generation # 0, ~shutdown
               PROVE  \E l \in Requests : /\ ns[l] = n /\ generation'[l] = groups[n].generation
                                          /\ pc'[l] = "leading" \/ query[l] = "thrown"
    BY <1>1, <1>3 DEF LeaderInv, Exists
  <2>1. PICK l \in Requests : /\ ns[l] = n /\ generation[l] = groups[n].generation
                              /\ pc[l] = "leading" \/ query[l] = "thrown"
    BY Zenon DEF LeaderInv, Exists
  <2>2. l # r
    BY Zenon, <1>4, <2>1
  <2> QED
    BY Zenon, <1>2, <2>1, <2>2
<1>15. AnswerInv'
  <2>1. \A l, w \in Requests : l # r /\ w # r /\ Link(l, w) => Link(l, w)'
    BY <1>1, <1>2 DEF Link
  <2>2. \A l, w \in Requests : Link(l, w) => l # r
    BY Zenon, <1>4 DEF Link
  <2> QED
    BY <1>1, <1>4, <2>1, <2>2 DEF AnswerInv, TypeOK, CoalescingGroup, Answers
<1> QED
  BY Zenon, <1>7, <1>8, <1>11, <1>12, <1>13, <1>14, <1>15

(* The query runs outside the mutex; only its caller's variables change. *)
LEMMA RunQueryStep ==
  ASSUME IndInv, NEW r \in Requests, NEW result \in QueryResults, RunQuery(r, result)
  PROVE  IndInv'
<1> USE CoalescerAssumption DEF IndInv
<1> DEFINE to == IF result = "thrown" \/ pc[r] = "alone" THEN "done" ELSE pc[r]
<1>1. /\ pc[r] \in {"leading", "alone"} /\ query[r] = "none"
      /\ query' = [query EXCEPT ![r] = result]
      /\ pc' = [pc EXCEPT ![r] = to]
      /\ UNCHANGED <<ns, version, generation, waiter, groups, nextGeneration, shutdown>>
  BY DEF RunQuery, Return, CallInv, TypeOK, CoalescingGroup, sharedVars
<1>2. /\ outcome' \in [Requests -> [status : Statuses \cup {"none"}, result : Answers]]
      /\ \A w \in Requests \ {r} : outcome'[w] = outcome[w]
      /\ \/ outcome'[r] = outcome[r]
         \/ outcome'[r].result = NoRequest /\ outcome'[r].status # "OK"
         \/ outcome'[r].result = r
  <2>1. CASE outcome' = outcome
    BY Zenon, <2>1 DEF TypeOK
  <2>2. CASE \E s \in Statuses, a \in Answers :
               /\ outcome' = [outcome EXCEPT ![r] = [status |-> s, result |-> a]]
               /\ a = r \/ (a = NoRequest /\ s # "OK")
    <3>1. PICK s \in Statuses, a \in Answers :
               /\ outcome' = [outcome EXCEPT ![r] = [status |-> s, result |-> a]]
               /\ a = r \/ (a = NoRequest /\ s # "OK")
      BY ZenonT(60), <2>2
    <3> DEFINE returned == [status |-> s, result |-> a]
    <3>2. /\ returned \in [status : Statuses \cup {"none"}, result : Answers]
          /\ returned.status = s /\ returned.result = a
      BY Zenon
    <3> HIDE DEF returned
    <3>3. outcome' = [outcome EXCEPT ![r] = returned]
      BY Zenon, <3>1 DEF returned
    <3>4. outcome'[r] = returned /\ \A w \in Requests \ {r} : outcome'[w] = outcome[w]
      BY Zenon, <3>3 DEF TypeOK
    <3>5. outcome' \in [Requests -> [status : Statuses \cup {"none"}, result : Answers]]
      BY <3>2, <3>3 DEF TypeOK
    <3> QED
      BY Zenon, <3>1, <3>2, <3>4, <3>5
  <2>3. CASE result = "thrown"
    <3>1. outcome' = [outcome EXCEPT ![r] = [status |-> "thrown", result |-> NoRequest]]
      BY <2>3 DEF RunQuery, Return
    <3>2. "thrown" \in Statuses /\ NoRequest \in Answers
      BY DEF Statuses, Answers
    <3>3. NoRequest = r \/ (NoRequest = NoRequest /\ "thrown" # "OK")
      OBVIOUS
    <3> QED
      BY ZenonT(60), <2>2, <3>1, <3>2, <3>3
  <2>4. CASE result # "thrown" /\ pc[r] = "alone"
    <3> DEFINE a == IF result = "OK" THEN r ELSE NoRequest
    <3>1. outcome' = [outcome EXCEPT ![r] = [status |-> result, result |-> a]]
      BY Zenon, <2>4 DEF RunQuery, Return
    <3>2. result \in Statuses /\ a \in Answers /\ (a = r \/ (a = NoRequest /\ result # "OK"))
      <4>1. result \in Statuses
        BY <2>4 DEF Statuses, QueryResults
      <4>2. a = r \/ (a = NoRequest /\ result # "OK")
        BY Zenon
      <4> QED
        BY Zenon, <4>1, <4>2 DEF Answers
    <3> HIDE DEF a
    <3> QED
      BY ZenonT(60), <2>2, <3>1, <3>2
  <2>5. CASE result # "thrown" /\ pc[r] # "alone"
    BY Zenon, <2>1, <2>5 DEF RunQuery
  <2> QED
    BY Zenon, <2>3, <2>4, <2>5
<1>3. /\ \A w \in Requests : pc'[w] = IF w = r THEN to ELSE pc[w]
      /\ \A w \in Requests : query'[w] = IF w = r THEN result ELSE query[w]
  BY Zenon, <1>1 DEF TypeOK, CoalescingGroup
<1>4. to \in {"leading", "done"} /\ (to = "leading" => pc[r] = "leading")
  BY <1>1
<1>5. TypeOK'
  BY ZenonT(60), <1>1, <1>2, <1>4 DEF TypeOK, CoalescingGroup
<1>6. GroupInv'
  BY <1>1 DEF GroupInv, Exists
<1> HIDE DEF to
<1>e. /\ ns' = ns /\ version' = version /\ generation' = generation /\ waiter' = waiter
      /\ groups' = groups /\ nextGeneration' = nextGeneration /\ shutdown' = shutdown
  BY <1>1
<1>7. CallInv'
  <2> SUFFICES ASSUME NEW w \in Requests
               PROVE  (/\ generation[w] <= nextGeneration
                       /\ pc[w] # "promoted"
                       /\ pc[w] \in {"idle", "entered"} =>
                            /\ generation[w] = 0 /\ query[w] = "none" /\ waiter[w] = Fresh
                            /\ outcome[w].result = NoRequest
                       /\ pc[w] = "leading" =>
                            /\ generation[w] # 0
                            /\ ~shutdown => InGroup(w) /\ w \in groups[ns[w]].waiters
                            /\ InGroup(w) => groups[ns[w]].minVersion = version[w]
                       /\ pc[w] = "woken" /\ ~shutdown => waiter[w].done)'
    BY Zenon DEF CallInv
  <2>1. InGroup(w)' <=> InGroup(w)
    BY Zenon, <1>e DEF InGroup
  <2>2. CASE w = r
    <3>1. pc'[w] \in {"leading", "done"} /\ (pc'[w] = "leading" => pc[w] = "leading")
      BY <1>3, <1>4, <2>2
    <3>2. generation[w] <= nextGeneration
      BY Zenon DEF CallInv
    <3>3. pc'[w] = "leading" =>
            /\ generation[w] # 0
            /\ ~shutdown => InGroup(w) /\ w \in groups[ns[w]].waiters
            /\ InGroup(w) => groups[ns[w]].minVersion = version[w]
      BY Zenon, <3>1 DEF CallInv
    <3> QED
      BY <1>e, <2>1, <3>1, <3>2, <3>3
  <2>3. CASE w # r
    <3>1. pc'[w] = pc[w] /\ query'[w] = query[w] /\ outcome'[w] = outcome[w]
      BY Zenon, <1>2, <1>3, <2>3
    <3> QED
      BY Zenon, <1>e, <2>1, <3>1 DEF CallInv
  <2> QED
    BY Zenon, <2>2, <2>3
<1>8. WaiterTracked'
  BY <1>1, <1>3, <1>4 DEF WaiterTracked, InGroup
<1>9. UniqueInv'
  BY <1>1, <1>3, <1>4 DEF UniqueInv
<1>10. LeaderInv'
  <2>1. pc[r] = "leading" => pc'[r] = "leading" \/ query'[r] = "thrown"
    BY Zenon, <1>3 DEF to
  <2>2. \A l \in Requests : pc[l] = "leading" \/ query[l] = "thrown" =>
                              pc'[l] = "leading" \/ query'[l] = "thrown"
    BY Zenon, <1>1, <1>3, <2>1
  <2> QED
    BY <1>1, <2>2 DEF LeaderInv, Exists
<1>11. AnswerInv'
  <2>1. \A l, w \in Requests : Link(l, w) => l # r /\ Link(l, w)'
    BY <1>1, <1>3 DEF Link
  <2>2. waiter' = waiter
    BY <1>1
  <2> SUFFICES ASSUME NEW w \in Requests
               PROVE  (/\ waiter[w].result # NoRequest => Link(waiter[w].result, w)
                       /\ waiter[w].done /\ waiter[w].status = "OK" => waiter[w].result # NoRequest
                       /\ outcome[w].result # NoRequest /\ outcome[w].result # w =>
                            Link(outcome[w].result, w)
                       /\ outcome[w].status = "OK" => outcome[w].result # NoRequest)'
    BY Zenon DEF AnswerInv
  <2>3. PICK a \in Answers, o \in Answers : a = waiter[w].result /\ o = outcome[w].result
    BY Zenon DEF TypeOK
  <2>4. (a # NoRequest => Link(a, w)') /\ (o # NoRequest /\ o # w => Link(o, w)')
    BY Zenon, <2>1, <2>3 DEF AnswerInv, Answers
  <2>5. (/\ waiter[w].result # NoRequest => Link(waiter[w].result, w)
         /\ waiter[w].done /\ waiter[w].status = "OK" => waiter[w].result # NoRequest)'
    <3>1. waiter'[w].result = a /\ (waiter[w].done /\ waiter[w].status = "OK" => a # NoRequest)
      BY Zenon, <2>2, <2>3 DEF AnswerInv
    <3> QED
      BY Zenon, <2>2, <2>4, <3>1 DEF Link
  <2>6. CASE outcome'[w] = outcome[w]
    <3>1. outcome'[w].result = o /\ (outcome'[w].status = "OK" => o # NoRequest)
      BY Zenon, <2>3, <2>6 DEF AnswerInv
    <3> QED
      BY Zenon, <2>4, <2>5, <3>1 DEF Link
  <2>7. CASE w = r /\ outcome'[w] # outcome[w]
    BY <1>2, <2>5, <2>7
  <2> QED
    BY Zenon, <1>2, <2>6, <2>7
<1> QED
  BY Zenon, <1>5, <1>6, <1>7, <1>8, <1>9, <1>10, <1>11
-----------------------------------------------------------------------------

(* The leader's group is there, with the leader in it: the answer reaches all  *)
(* its waiters, none of which had one before.                                  *)
LEMMA DistributeStep ==
  ASSUME IndInv, NEW r \in Requests, Distribute(r), ~shutdown
  PROVE  IndInv' /\ \A w \in Requests : waiter[w].done => waiter'[w] = waiter[w]
<1> USE CoalescerAssumption DEF IndInv
<1> DEFINE g == groups[ns[r]]
           answer == [done |-> TRUE, status |-> query[r],
                      result |-> IF query[r] = "OK" THEN r ELSE NoRequest]
           out == [status |-> query[r], result |-> IF query[r] = "OK" THEN r ELSE NoRequest]
<1>1. pc[r] = "leading" /\ query[r] # "none" /\ InGroup(r) /\ r \in g.waiters
  BY Zenon DEF Distribute, CallInv
<1>2. /\ waiter' = Delivered(r, g.waiters)
      /\ groups' = [groups EXCEPT ![ns[r]] = NoGroup]
      /\ ReturnWaiterState(r, waiter'[r])
      /\ UNCHANGED <<ns, version, generation, query, nextGeneration, shutdown>>
  BY Zenon, <1>1 DEF Distribute
<1>3. \A w \in Requests : waiter'[w] = IF w \in g.waiters THEN answer ELSE waiter[w]
  BY <1>2 DEF Delivered
<1>4. /\ answer.done = TRUE /\ answer.status = query[r]
      /\ answer.result = IF query[r] = "OK" THEN r ELSE NoRequest
      /\ out.status = query[r] /\ out.result = IF query[r] = "OK" THEN r ELSE NoRequest
  OBVIOUS
<1>5. pc' = [pc EXCEPT ![r] = "done"] /\ outcome' = [outcome EXCEPT ![r] = out]
  <2>1. /\ waiter'[r].status = query[r]
        /\ waiter'[r].result = IF query[r] = "OK" THEN r ELSE NoRequest
    BY Zenon, <1>1, <1>3, <1>4
  <2>2. Return(r, query[r], IF query[r] = "OK" THEN r ELSE NoRequest)
    BY Zenon, <1>2, <2>1 DEF ReturnWaiterState
  <2> QED
    BY Zenon, <2>2 DEF Return
<1> HIDE DEF answer, out
<1>6. /\ \A w \in Requests : pc'[w] = IF w = r THEN "done" ELSE pc[w]
      /\ \A w \in Requests : outcome'[w] = IF w = r THEN out ELSE outcome[w]
      /\ \A n \in Namespaces : groups'[n] = IF n = ns[r] THEN NoGroup ELSE groups[n]
      /\ ns[r] \in Namespaces /\ g.waiters \subseteq Requests
  BY Zenon, <1>2, <1>5 DEF TypeOK, CoalescingGroup
<1>7. NoGroup \in CoalescingGroup /\ NoGroup.generation = 0 /\ NoGroup.waiters = {}
      /\ NoGroup.minVersion = NoGroup.maxVersion
  BY Zenon DEF NoGroup, CoalescingGroup
<1>8. TypeOK'
  <2>1. /\ answer \in [done : BOOLEAN, status : Statuses, result : Answers]
        /\ out \in [status : Statuses \cup {"none"}, result : Answers]
    BY Zenon, <1>1 DEF TypeOK, Statuses, Answers, QueryResults, answer, out
  <2>2. waiter' \in [Requests -> [done : BOOLEAN, status : Statuses, result : Answers]]
    <3>1. waiter' = [w \in Requests |-> IF w \in g.waiters THEN answer ELSE waiter[w]]
      BY Zenon, <1>2 DEF Delivered, answer
    <3> QED
      BY Zenon, <2>1, <3>1 DEF TypeOK
  <2>3. outcome' \in [Requests -> [status : Statuses \cup {"none"}, result : Answers]]
    BY Zenon, <1>5, <2>1 DEF TypeOK
  <2>4. groups' \in [Namespaces -> CoalescingGroup]
    BY Zenon, <1>2, <1>7 DEF TypeOK
  <2> QED
    BY Zenon, <1>2, <1>5, <2>2, <2>3, <2>4 DEF TypeOK
<1>9. \A w \in g.waiters : /\ ns[w] = ns[r] /\ generation[w] = generation[r] /\ ~waiter[w].done
                           /\ version[w] - version[r] <= MaxVersionGap
                           /\ version[r] - version[w] <= MaxVersionGap
  <2>1. g.minVersion = version[r] /\ g.generation = generation[r]
    BY Zenon, <1>1 DEF CallInv, InGroup
  <2> QED
    BY <1>6, <2>1 DEF GroupInv
<1>10. \A n \in Namespaces \ {ns[r]} : \A w \in groups[n].waiters : w \in Requests /\ w \notin g.waiters
  BY SMTT(60), <1>9 DEF GroupInv, TypeOK, CoalescingGroup
<1>11. GroupInv'
  <2>1. \A n \in Namespaces \ {ns[r]} :
          groups'[n] = groups[n] /\ \A w \in groups[n].waiters : waiter'[w] = waiter[w]
    BY Zenon, <1>3, <1>6, <1>10
  <2>2. nextGeneration \in Nat
    BY Zenon DEF TypeOK
  <2>3. groups'[ns[r]].generation = 0 /\ groups'[ns[r]].waiters = {}
        /\ groups'[ns[r]].minVersion = groups'[ns[r]].maxVersion
    BY Zenon, <1>6, <1>7
  <2>4. ns' = ns /\ version' = version /\ generation' = generation /\ nextGeneration' = nextGeneration
    BY <1>2
  <2> SUFFICES ASSUME NEW n \in Namespaces
               PROVE  (/\ groups[n].generation <= nextGeneration
                       /\ Exists(n) => groups[n].queryInProgress
                       /\ groups[n].minVersion = groups[n].maxVersion
                       /\ \A w \in groups[n].waiters :
                            /\ Exists(n) /\ ns[w] = n /\ generation[w] = groups[n].generation
                            /\ ~waiter[w].done
                            /\ version[w] - groups[n].minVersion <= MaxVersionGap
                            /\ groups[n].minVersion - version[w] <= MaxVersionGap)'
    BY Zenon DEF GroupInv
  <2>5. CASE n = ns[r]
    <3>1. groups'[ns[r]].generation <= nextGeneration'
      BY <2>2, <2>3, <2>4
    <3> QED
      BY Zenon, <2>3, <2>5, <3>1 DEF Exists
  <2>6. CASE n # ns[r]
    <3>1. groups'[n] = groups[n] /\ \A w \in groups[n].waiters : waiter'[w] = waiter[w]
      BY Zenon, <2>1, <2>6
    <3>2. /\ groups[n].generation <= nextGeneration
          /\ Exists(n) => groups[n].queryInProgress
          /\ groups[n].minVersion = groups[n].maxVersion
      BY Zenon DEF GroupInv
    <3>3. \A w \in groups[n].waiters :
            /\ Exists(n) /\ ns[w] = n /\ generation[w] = groups[n].generation
            /\ ~waiter[w].done
            /\ version[w] - groups[n].minVersion <= MaxVersionGap
            /\ groups[n].minVersion - version[w] <= MaxVersionGap
      BY Zenon DEF GroupInv
    <3>4. Exists(n)' <=> Exists(n)
      BY Zenon, <3>1 DEF Exists
    <3> QED
      BY Zenon, <2>4, <3>1, <3>2, <3>3, <3>4
  <2> QED
    BY Zenon, <2>5, <2>6
<1>12. \A w \in Requests \ {r} : pc[w] = "leading" => ns[w] # ns[r]
  <2> SUFFICES ASSUME NEW w \in Requests \ {r}, pc[w] = "leading", ns[w] = ns[r]
               PROVE  FALSE
    BY Zenon
  <2>1. generation[w] = g.generation /\ generation[r] = g.generation
    BY Zenon, <1>1 DEF CallInv, InGroup
  <2> QED
    BY Zenon, <1>1, <2>1 DEF UniqueInv
<1>13. CallInv'
  <2> SUFFICES ASSUME NEW w \in Requests
               PROVE  /\ generation'[w] <= nextGeneration'
                      /\ pc'[w] # "promoted"
                      /\ pc'[w] \in {"idle", "entered"} =>
                           /\ generation'[w] = 0 /\ query'[w] = "none" /\ waiter'[w] = Fresh
                           /\ outcome'[w].result = NoRequest
                      /\ pc'[w] = "leading" =>
                           /\ generation'[w] # 0
                           /\ InGroup(w)' /\ w \in groups'[ns'[w]].waiters
                           /\ groups'[ns'[w]].minVersion = version'[w]
                      /\ pc'[w] = "woken" => waiter'[w].done
    BY Zenon DEF CallInv
  <2>1. generation[w] <= nextGeneration /\ pc'[w] # "promoted"
    BY Zenon, <1>6 DEF CallInv
  <2>2. ASSUME pc'[w] \in {"idle", "entered"}
        PROVE  /\ generation[w] = 0 /\ query[w] = "none" /\ waiter'[w] = Fresh
               /\ outcome'[w].result = NoRequest
    <3>1. w # r /\ pc[w] \in {"idle", "entered"}
      BY Zenon, <1>6, <2>2
    <3>2. generation[w] = 0 /\ generation[r] # 0
      BY Zenon, <1>1, <3>1 DEF CallInv
    <3> QED
      BY <1>3, <1>6, <1>9, <3>1, <3>2 DEF CallInv
  <2>3. ASSUME pc'[w] = "leading"
        PROVE  /\ generation[w] # 0
               /\ groups'[ns[w]].generation = generation[w]
               /\ w \in groups'[ns[w]].waiters
               /\ groups'[ns[w]].minVersion = version[w]
    <3>1. w # r /\ pc[w] = "leading"
      BY Zenon, <1>6, <2>3
    <3>2. groups'[ns[w]] = groups[ns[w]]
      BY Zenon, <1>6, <1>12, <3>1 DEF TypeOK
    <3> QED
      BY Zenon, <3>1, <3>2 DEF CallInv, InGroup
  <2>4. ASSUME pc'[w] = "woken" PROVE waiter'[w].done
    <3>1. waiter[w].done
      BY Zenon, <1>6, <2>4 DEF CallInv
    <3> QED
      BY Zenon, <1>3, <1>4, <3>1
  <2> QED
    BY Zenon, <1>2, <2>1, <2>2, <2>3, <2>4 DEF InGroup
<1>14. WaiterTracked'
  <2> SUFFICES ASSUME NEW w \in Requests, pc'[w] = "waiting", ~waiter'[w].done
               PROVE  groups'[ns[w]].generation = generation[w] /\ w \in groups'[ns[w]].waiters
    BY Zenon, <1>2 DEF WaiterTracked, InGroup
  <2>1. w \notin g.waiters /\ ~waiter[w].done /\ pc[w] = "waiting"
    BY Zenon, <1>3, <1>4, <1>6
  <2>2. groups[ns[w]].generation = generation[w] /\ w \in groups[ns[w]].waiters
    BY Zenon, <2>1 DEF WaiterTracked, InGroup
  <2>3. groups'[ns[w]] = groups[ns[w]]
    BY Zenon, <1>6, <2>1, <2>2 DEF TypeOK
  <2> QED
    BY Zenon, <2>2, <2>3
<1>15. UniqueInv'
  BY <1>2, <1>6 DEF UniqueInv
<1>16. LeaderInv'
  <2>1. ns' = ns /\ generation' = generation /\ query' = query /\ shutdown' = shutdown
    BY <1>2
  <2> SUFFICES ASSUME NEW n \in Namespaces, Exists(n)', ~shutdown'
               PROVE  \E l \in Requests : /\ ns'[l] = n /\ generation'[l] = groups'[n].generation
                                          /\ pc'[l] = "leading" \/ query'[l] = "thrown"
    BY Zenon DEF LeaderInv
  <2>2. n # ns[r] /\ groups'[n] = groups[n] /\ Exists(n)
    BY Zenon, <1>6, <1>7 DEF Exists
  <2>3. PICK l \in Requests : /\ ns[l] = n /\ generation[l] = groups[n].generation
                              /\ pc[l] = "leading" \/ query[l] = "thrown"
    BY Zenon, <2>1, <2>2 DEF LeaderInv
  <2>4. l # r
    BY Zenon, <2>2, <2>3
  <2> QED
    BY Zenon, <1>6, <2>1, <2>2, <2>3, <2>4
<1>17. AnswerInv'
  <2>1. query[r] = "OK" => \A w \in g.waiters : Link(r, w)
    BY <1>9 DEF Link
  <2>2. r # NoRequest
    OBVIOUS
  <2>3. \A w \in Requests :
          /\ waiter'[w].result # NoRequest => Link(waiter'[w].result, w)
          /\ waiter'[w].done /\ waiter'[w].status = "OK" => waiter'[w].result # NoRequest
    <3> TAKE w \in Requests
    <3>1. CASE w \in g.waiters
      BY <1>3, <1>4, <2>1, <2>2, <3>1
    <3>2. CASE w \notin g.waiters
      <4>1. waiter'[w] = waiter[w]
        BY Zenon, <1>3, <3>2
      <4>2. /\ waiter[w].result # NoRequest => Link(waiter[w].result, w)
            /\ waiter[w].done /\ waiter[w].status = "OK" => waiter[w].result # NoRequest
        BY Zenon DEF AnswerInv
      <4> QED
        BY <4>1, <4>2
    <3> QED
      BY Zenon, <3>1, <3>2
  <2>4. \A w \in Requests :
          /\ outcome'[w].result # NoRequest /\ outcome'[w].result # w => Link(outcome'[w].result, w)
          /\ outcome'[w].status = "OK" => outcome'[w].result # NoRequest
    BY <1>4, <1>6, <2>2 DEF AnswerInv, TypeOK, Answers
  <2> QED
    BY ZenonT(60), <1>2, <2>3, <2>4 DEF AnswerInv, Link
<1>18. \A w \in Requests : waiter[w].done => waiter'[w] = waiter[w]
  BY Zenon, <1>3, <1>9
<1> QED
  BY Zenon, <1>8, <1>11, <1>13, <1>14, <1>15, <1>16, <1>17, <1>18

(* A follower gives up.  Its group is there and its query is marked as running,*)
(* so it is not promoted: it leaves the group and returns.                     *)
LEMMA WaitTimeoutStep ==
  ASSUME IndInv, NEW r \in Requests, WaitTimeout(r)
  PROVE  IndInv' /\ waiter' = waiter
<1> USE CoalescerAssumption DEF IndInv
<1> DEFINE g == groups[ns[r]]
           out == [status |-> "ExceededTimeLimit", result |-> NoRequest]
<1>1. /\ pc[r] = "waiting" /\ ~waiter[r].done /\ ~shutdown
      /\ UNCHANGED <<ns, version, generation, query, waiter, nextGeneration, shutdown>>
  BY Zenon DEF WaitTimeout
<1>2. ns[r] \in Namespaces /\ g \in CoalescingGroup /\ InGroup(r) /\ r \in g.waiters
  BY Zenon, <1>1 DEF WaiterTracked, TypeOK
<1>3. Exists(ns[r]) /\ g.queryInProgress
  BY Zenon, <1>2 DEF GroupInv
<1>4. /\ groups' = [groups EXCEPT ![ns[r]] = LeaveGroup(r, g)]
      /\ Return(r, "ExceededTimeLimit", NoRequest)
  BY Zenon, <1>2, <1>3 DEF WaitTimeout
<1>5. /\ LeaveGroup(r, g) \in CoalescingGroup
      /\ LeaveGroup(r, g).generation = g.generation
      /\ LeaveGroup(r, g).minVersion = g.minVersion
      /\ LeaveGroup(r, g).maxVersion = g.maxVersion
      /\ LeaveGroup(r, g).queryInProgress = g.queryInProgress
      /\ LeaveGroup(r, g).waiters = g.waiters \ {r}
  BY Zenon, <1>2 DEF LeaveGroup, CoalescingGroup
<1>6. \A n \in Namespaces :
        /\ groups'[n].generation = groups[n].generation
        /\ groups'[n].minVersion = groups[n].minVersion
        /\ groups'[n].maxVersion = groups[n].maxVersion
        /\ groups'[n].queryInProgress = groups[n].queryInProgress
        /\ groups'[n].waiters = IF n = ns[r] THEN groups[n].waiters \ {r} ELSE groups[n].waiters
  BY ZenonT(60), <1>4, <1>5 DEF TypeOK
<1>7. /\ \A w \in Requests : pc'[w] = IF w = r THEN "done" ELSE pc[w]
      /\ \A w \in Requests : outcome'[w] = IF w = r THEN out ELSE outcome[w]
      /\ out.status = "ExceededTimeLimit" /\ out.result = NoRequest
  BY Zenon, <1>4 DEF Return, TypeOK
<1>8. TypeOK'
  <2>1. groups' \in [Namespaces -> CoalescingGroup]
    BY Zenon, <1>2, <1>4, <1>5 DEF TypeOK
  <2>2. out \in [status : Statuses \cup {"none"}, result : Answers]
    BY Zenon DEF Statuses, Answers
  <2>3. outcome' \in [Requests -> [status : Statuses \cup {"none"}, result : Answers]]
    BY Zenon, <1>4, <2>2 DEF TypeOK, Return
  <2>4. pc' = [pc EXCEPT ![r] = "done"]
    BY Zenon, <1>4 DEF Return
  <2> QED
    BY Zenon, <1>1, <2>1, <2>3, <2>4 DEF TypeOK
<1> HIDE DEF out
<1>9. GroupInv'
  <2>1. \A n \in Namespaces : groups'[n].waiters \subseteq groups[n].waiters
    BY ZenonT(60), <1>6
  <2>2. \A n \in Namespaces : Exists(n)' <=> Exists(n)
    BY ZenonT(60), <1>6 DEF Exists
  <2>3. \A n \in Namespaces :
          /\ groups'[n].generation <= nextGeneration
          /\ Exists(n) => groups'[n].queryInProgress
          /\ groups'[n].minVersion = groups'[n].maxVersion
    BY ZenonT(60), <1>6 DEF GroupInv
  <2>4. \A n \in Namespaces : \A w \in groups'[n].waiters :
          /\ Exists(n) /\ ns[w] = n /\ generation[w] = groups'[n].generation
          /\ ~waiter[w].done
          /\ version[w] - groups'[n].minVersion <= MaxVersionGap
          /\ groups'[n].minVersion - version[w] <= MaxVersionGap
    <3> TAKE n \in Namespaces
    <3> TAKE w \in groups'[n].waiters
    <3>1. w \in groups[n].waiters
      BY <2>1
    <3>2. /\ Exists(n) /\ ns[w] = n /\ generation[w] = groups[n].generation
          /\ ~waiter[w].done
          /\ version[w] - groups[n].minVersion <= MaxVersionGap
          /\ groups[n].minVersion - version[w] <= MaxVersionGap
      BY <3>1 DEF GroupInv
    <3>3. /\ groups'[n].generation = groups[n].generation
          /\ groups'[n].minVersion = groups[n].minVersion
      BY ZenonT(60), <1>6
    <3> QED
      BY <3>2, <3>3
  <2>5. ns' = ns /\ version' = version /\ generation' = generation /\ waiter' = waiter
        /\ nextGeneration' = nextGeneration
    BY <1>1
  <2> QED
    BY Zenon, <2>2, <2>3, <2>4, <2>5 DEF GroupInv
<1>10. \A w \in Requests : ns[w] \in Namespaces
  BY DEF TypeOK
<1>11. \A w \in Requests \ {r} :
         /\ InGroup(w)' <=> InGroup(w)
         /\ w \in groups'[ns[w]].waiters <=> w \in groups[ns[w]].waiters
         /\ groups'[ns[w]].minVersion = groups[ns[w]].minVersion
  BY ZenonT(60), <1>1, <1>6, <1>10 DEF InGroup
<1>12. CallInv'
  <2>1. \A w \in Requests : generation[w] <= nextGeneration /\ pc'[w] # "promoted"
    BY Zenon, <1>7 DEF CallInv
  <2>2. \A w \in Requests : pc'[w] \in {"idle", "entered"} =>
          /\ generation[w] = 0 /\ query[w] = "none" /\ waiter[w] = Fresh
          /\ outcome'[w].result = NoRequest
    BY <1>7 DEF CallInv
  <2>3. \A w \in Requests : pc'[w] = "leading" =>
          /\ generation[w] # 0
          /\ ~shutdown => InGroup(w)' /\ w \in groups'[ns[w]].waiters
          /\ InGroup(w)' => groups'[ns[w]].minVersion = version[w]
    BY <1>7, <1>11 DEF CallInv
  <2>4. \A w \in Requests : pc'[w] = "woken" /\ ~shutdown => waiter[w].done
    BY Zenon, <1>7 DEF CallInv
  <2> QED
    BY Zenon, <1>1, <2>1, <2>2, <2>3, <2>4 DEF CallInv
<1>13. WaiterTracked'
  BY Zenon, <1>1, <1>7, <1>11 DEF WaiterTracked
<1>14. UniqueInv'
  BY <1>1, <1>7 DEF UniqueInv
<1>15. LeaderInv'
  <2> SUFFICES ASSUME NEW n \in Namespaces, groups'[n].generation # 0
               PROVE  \E l \in Requests : /\ ns[l] = n /\ generation[l] = groups'[n].generation
                                          /\ pc'[l] = "leading" \/ query[l] = "thrown"
    BY <1>1 DEF LeaderInv, Exists
  <2>1. groups'[n].generation = groups[n].generation
    BY ZenonT(60), <1>6
  <2>2. PICK l \in Requests : /\ ns[l] = n /\ generation[l] = groups[n].generation
                              /\ pc[l] = "leading" \/ query[l] = "thrown"
    BY Zenon, <1>1, <2>1 DEF LeaderInv, Exists
  <2> QED
    BY Zenon, <1>1, <1>7, <2>1, <2>2
<1>16. AnswerInv'
  <2>1. \A w \in Requests :
          /\ outcome'[w].result # NoRequest /\ outcome'[w].result # w => Link(outcome'[w].result, w)
          /\ outcome'[w].status = "OK" => outcome'[w].result # NoRequest
    BY <1>7 DEF AnswerInv
  <2> QED
    BY <1>1, <2>1 DEF AnswerInv, Link
<1> QED
  BY Zenon, <1>1, <1>8, <1>9, <1>12, <1>13, <1>14, <1>15, <1>16

(* shutdown() answers every waiter and empties the table. *)
LEMMA ShutdownStep ==
  ASSUME IndInv, Shutdown
  PROVE  IndInv' /\ \A w \in Requests : waiter[w].done => waiter'[w] = waiter[w]
<1> USE CoalescerAssumption DEF IndInv
<1>1. /\ shutdown' = TRUE
      /\ groups' = [n \in Namespaces |-> NoGroup]
      /\ UNCHANGED <<pc, ns, version, generation, query, outcome, nextGeneration>>
  BY ZenonT(60) DEF Shutdown
<1>2. \A w \in Requests :
        /\ w \notin groups[ns[w]].waiters => waiter'[w] = waiter[w]
        /\ waiter'[w].result = waiter[w].result
        /\ waiter'[w].status \in {waiter[w].status, "ShutdownInProgress"}
        /\ w \in groups[ns[w]].waiters => waiter'[w].status = "ShutdownInProgress"
  BY ZenonT(60) DEF Shutdown, TypeOK
<1>3. \A w \in Requests : w \in groups[ns[w]].waiters => ~waiter[w].done /\ generation[w] # 0
  BY DEF GroupInv, Exists, TypeOK
<1>4. NoGroup \in CoalescingGroup /\ NoGroup.generation = 0 /\ NoGroup.waiters = {}
      /\ NoGroup.minVersion = NoGroup.maxVersion
  BY DEF NoGroup, CoalescingGroup
<1>5. \A n \in Namespaces : groups'[n] = NoGroup
  BY <1>1
<1>6. TypeOK'
  <2>1. \A w \in Requests :
          [waiter[w] EXCEPT !.done = TRUE, !.status = "ShutdownInProgress"]
            \in [done : BOOLEAN, status : Statuses, result : Answers]
    <3> SUFFICES ASSUME NEW w \in Requests
                 PROVE  [waiter[w] EXCEPT !.done = TRUE, !.status = "ShutdownInProgress"]
                          \in [done : BOOLEAN, status : Statuses, result : Answers]
      BY Zenon
    <3>1. waiter[w] \in [done : BOOLEAN, status : Statuses, result : Answers]
      BY DEF TypeOK
    <3>2. "ShutdownInProgress" \in Statuses
      BY Zenon DEF Statuses
    <3> QED
      BY ZenonT(60), <3>1, <3>2
  <2>2. waiter' \in [Requests -> [done : BOOLEAN, status : Statuses, result : Answers]]
    BY Zenon, <2>1 DEF Shutdown, TypeOK
  <2> QED
    BY <1>1, <1>4, <2>2 DEF TypeOK
<1>7. GroupInv' /\ LeaderInv'
  <2>1. nextGeneration' = nextGeneration /\ nextGeneration \in Nat /\ 0 <= nextGeneration
    BY <1>1 DEF TypeOK
  <2>2. \A n \in Namespaces : groups'[n].generation = 0 /\ groups'[n].waiters = {}
                              /\ groups'[n].minVersion = groups'[n].maxVersion
    BY Zenon, <1>4, <1>5
  <2> QED
    BY Zenon, <2>1, <2>2 DEF GroupInv, LeaderInv, Exists
<1>8. CallInv'
  <2>1. \A w \in Requests : pc[w] \in {"idle", "entered"} => waiter'[w] = waiter[w]
    BY Zenon, <1>2, <1>3 DEF CallInv
  <2>2. \A w \in Requests : pc[w] = "leading" => ~InGroup(w)'
    BY Zenon, <1>1, <1>4, <1>5 DEF CallInv, InGroup, TypeOK
  <2> QED
    BY Zenon, <1>1, <2>1, <2>2 DEF CallInv
<1>9. WaiterTracked' /\ UniqueInv'
  BY Zenon, <1>1 DEF WaiterTracked, UniqueInv
<1>10. AnswerInv'
  <2>1. \A w \in Requests :
          /\ waiter'[w].result # NoRequest => Link(waiter'[w].result, w)
          /\ waiter'[w].done /\ waiter'[w].status = "OK" => waiter'[w].result # NoRequest
    BY <1>2 DEF AnswerInv
  <2>2. ns' = ns /\ version' = version /\ generation' = generation /\ query' = query
        /\ outcome' = outcome
    BY <1>1
  <2>3. \A l, w : Link(l, w)' <=> Link(l, w)
    BY Zenon, <2>2 DEF Link
  <2> QED
    BY Zenon, <2>1, <2>2, <2>3 DEF AnswerInv, Link
<1> QED
  BY Zenon, <1>2, <1>3, <1>6, <1>7, <1>8, <1>9, <1>10

(* Every step keeps the invariant and every answer already delivered. *)
LEMMA NextPreserves ==
  ASSUME IndInv, Next
  PROVE  IndInv' /\ \A w \in Requests : waiter[w].done => waiter'[w] = waiter[w]
<1> USE CoalescerAssumption
<1>1. CASE Shutdown
  BY Zenon, <1>1, ShutdownStep
<1>2. ASSUME NEW r \in Requests, Enter(r) \/ Step(r) \/ WaitTimeout(r)
      PROVE  IndInv' /\ \A w \in Requests : waiter[w].done => waiter'[w] = waiter[w]
  <2>1. CASE Enter(r)
    <3>1. UNCHANGED <<ns, version, generation, query, waiter, groups, nextGeneration, shutdown>>
          /\ pc[r] = "idle"
      BY Zenon, <2>1 DEF Enter, sharedVars
    <3>2. CASE shutdown
      <4> DEFINE out == [status |-> "ShutdownInProgress", result |-> NoRequest]
      <4>1. pc' = [pc EXCEPT ![r] = "done"] /\ outcome' = [outcome EXCEPT ![r] = out]
        BY Zenon, <2>1, <3>2 DEF Enter, Return
      <4>2. out \in [status : Statuses \cup {"none"}, result : Answers]
            /\ out.status # "OK" /\ out.result = NoRequest
        BY Zenon DEF Statuses, Answers
      <4> HIDE DEF out
      <4>3. LocalMove(r, "done", out)
        BY Zenon, <3>1, <3>2, <4>1, <4>2 DEF LocalMove
      <4>4. IndInv'
        BY Zenon, <4>3, LocalStep
      <4> QED
        BY Zenon, <3>1, <4>4
    <3>3. CASE ~shutdown
      <4>1. pc' = [pc EXCEPT ![r] = "entered"] /\ outcome' = [outcome EXCEPT ![r] = outcome[r]]
        BY Zenon, <2>1, <3>3 DEF Enter, IndInv, TypeOK
      <4>2. /\ outcome[r] \in [status : Statuses \cup {"none"}, result : Answers]
            /\ outcome[r].status = "OK" => outcome[r].result # NoRequest
            /\ outcome[r].result = NoRequest
        BY Zenon, <3>1 DEF IndInv, TypeOK, AnswerInv, CallInv
      <4>3. LocalMove(r, "entered", outcome[r])
        BY Zenon, <3>1, <4>1, <4>2 DEF LocalMove
      <4>4. IndInv'
        BY Zenon, <4>3, LocalStep
      <4> QED
        BY Zenon, <3>1, <4>4
    <3> QED
      BY Zenon, <3>2, <3>3
  <2>2. CASE GoAlone(r) \/ Wake(r)
    <3> DEFINE to == IF GoAlone(r) THEN "alone" ELSE "woken"
    <3>1. /\ UNCHANGED <<ns, version, generation, query, waiter, groups, nextGeneration, shutdown>>
          /\ pc[r] # "leading"
          /\ pc' = [pc EXCEPT ![r] = to] /\ to \in {"alone", "woken"}
          /\ to = "woken" => waiter[r].done \/ shutdown
          /\ outcome' = outcome
      BY Zenon, <2>2 DEF GoAlone, Wake, sharedVars
    <3>2. outcome' = [outcome EXCEPT ![r] = outcome[r]]
      BY Zenon, <3>1 DEF IndInv, TypeOK
    <3>3. /\ outcome[r] \in [status : Statuses \cup {"none"}, result : Answers]
          /\ outcome[r].status = "OK" => outcome[r].result # NoRequest
      BY DEF IndInv, TypeOK, AnswerInv
    <3> HIDE DEF to
    <3>4. LocalMove(r, to, outcome[r])
      BY ZenonT(60), <3>1, <3>2, <3>3 DEF LocalMove
    <3>5. IndInv'
      BY Zenon, <3>4, LocalStep
    <3> QED
      BY Zenon, <3>1, <3>5
  <2>3. CASE ReturnFollower(r)
    <3>1. /\ UNCHANGED <<ns, version, generation, query, waiter, groups, nextGeneration, shutdown>>
          /\ pc[r] = "woken"
      BY Zenon, <2>3 DEF ReturnFollower, sharedVars
    <3> DEFINE st == IF shutdown THEN "ShutdownInProgress" ELSE waiter[r].status
               res == IF ~shutdown /\ waiter[r].status = "OK" THEN waiter[r].result ELSE NoRequest
               out == [status |-> st, result |-> res]
    <3>2. pc' = [pc EXCEPT ![r] = "done"] /\ outcome' = [outcome EXCEPT ![r] = out]
      BY Zenon, <2>3 DEF ReturnFollower, ReturnWaiterState, Return
    <3>3. waiter[r].status \in Statuses /\ waiter[r].result \in Answers
      BY Zenon DEF IndInv, TypeOK
    <3>4. st \in Statuses /\ res \in Answers
      BY Zenon, <3>3 DEF Statuses, Answers
    <3>5. st = "OK" => res # NoRequest
      BY Zenon, <3>1 DEF IndInv, CallInv, AnswerInv
    <3>6. res # NoRequest => Link(res, r)
      BY Zenon DEF IndInv, AnswerInv
    <3> HIDE DEF st, res
    <3>7. /\ out \in [status : Statuses \cup {"none"}, result : Answers]
          /\ out.status = st /\ out.result = res
      BY Zenon, <3>4
    <3> HIDE DEF out
    <3>8. LocalMove(r, "done", out)
      BY Zenon, <3>1, <3>2, <3>5, <3>6, <3>7 DEF LocalMove
    <3>9. IndInv'
      BY Zenon, <3>8, LocalStep
    <3> QED
      BY Zenon, <3>1, <3>9
  <2>4. CASE Distribute(r) /\ shutdown
    <3> DEFINE out == [status |-> "ShutdownInProgress", result |-> NoRequest]
    <3>1. /\ UNCHANGED <<ns, version, generation, query, waiter, groups, nextGeneration, shutdown>>
          /\ pc' = [pc EXCEPT ![r] = "done"] /\ outcome' = [outcome EXCEPT ![r] = out]
      BY Zenon, <2>4 DEF Distribute, Return
    <3>2. out \in [status : Statuses \cup {"none"}, result : Answers]
          /\ out.status # "OK" /\ out.result = NoRequest
      BY Zenon DEF Statuses, Answers
    <3> HIDE DEF out
    <3>3. LocalMove(r, "done", out)
      BY Zenon, <2>4, <3>1, <3>2 DEF LocalMove
    <3>4. IndInv'
      BY Zenon, <3>3, LocalStep
    <3> QED
      BY Zenon, <3>1, <3>4
  <2>5. CASE Lead(r)
    <3>1. waiter' = waiter
      BY Zenon, <2>5 DEF Lead
    <3> QED
      BY Zenon, <2>5, <3>1, LeadStep
  <2>6. CASE Join(r)
    <3>1. waiter' = waiter
      BY Zenon, <2>6 DEF Join
    <3> QED
      BY Zenon, <2>6, <3>1, JoinStep
  <2>7. ASSUME NEW result \in QueryResults, RunQuery(r, result)
        PROVE  IndInv' /\ \A w \in Requests : waiter[w].done => waiter'[w] = waiter[w]
    <3>1. waiter' = waiter
      BY Zenon, <2>7 DEF RunQuery
    <3> QED
      BY Zenon, <2>7, <3>1, RunQueryStep
  <2>8. CASE WaitTimeout(r)
    BY Zenon, <2>8, WaitTimeoutStep
  <2>9. CASE Distribute(r) /\ ~shutdown
    BY Zenon, <2>9, DistributeStep
  <2> QED
    BY Zenon, <1>2, <2>1, <2>2, <2>3, <2>4, <2>5, <2>6, <2>7, <2>8, <2>9 DEF Step
<1> QED
  BY Zenon, <1>1, <1>2 DEF Next

(* The invariant is about the variables of the coalescer. *)
LEMMA StutterPreserves ==
  ASSUME IndInv, UNCHANGED coalescerVars
  PROVE  IndInv'
<1>1. /\ pc' = pc /\ ns' = ns /\ version' = version /\ generation' = generation
      /\ query' = query /\ waiter' = waiter /\ outcome' = outcome
      /\ groups' = groups /\ nextGeneration' = nextGeneration /\ shutdown' = shutdown
  BY Zenon DEF coalescerVars, callVars, sharedVars
<1>2. TypeOK'
  BY Zenon, <1>1 DEF IndInv, TypeOK
<1>3. GroupInv'
  BY <1>1 DEF IndInv, GroupInv, Exists
<1>4. CallInv'
  BY Zenon, <1>1 DEF IndInv, CallInv, InGroup
<1>5. WaiterTracked' /\ UniqueInv'
  BY Zenon, <1>1 DEF IndInv, WaiterTracked, InGroup, UniqueInv
<1>6. LeaderInv'
  BY Zenon, <1>1 DEF IndInv, LeaderInv, Exists
<1>7. AnswerInv'
  BY <1>1 DEF IndInv, AnswerInv, Link
<1> QED
  BY Zenon, <1>2, <1>3, <1>4, <1>5, <1>6, <1>7 DEF IndInv

(* The invariant holds of every state the coalescer reaches. *)
THEOREM CoalescerInvariance == Spec => []IndInv
<1>1. IndInv /\ [Next]_coalescerVars => IndInv'
  BY NextPreserves, StutterPreserves
<1> QED
  BY <1>1, InitEstablishes, PTL DEF Spec

(* Every variable of tryCoalesce and of the table of groups keeps its type. *)
THEOREM CoalescerTypeCorrect == Spec => []TypeOK
  BY CoalescerInvariance, PTL DEF IndInv

(* tryCoalesce forgets no waiter: until it has its answer, a follower is in the *)
(* waiters of the live group it joined.                                         *)
THEOREM NoWaiterForgotten == Spec => []WaiterTracked
  BY CoalescerInvariance, PTL DEF IndInv

(* The empty vector on the last line of tryCoalesce is never returned. *)
THEOREM NeverDefault == Spec => []NoDefaultAnswer
<1>1. IndInv => NoDefaultAnswer
  BY Zenon DEF IndInv, AnswerInv, NoDefaultAnswer
<1> QED
  BY <1>1, CoalescerInvariance, PTL

(* A shared answer is one of the follower's own group, close in version. *)
THEOREM SharedAnswerIsOwn == Spec => []AnswerFromOwnGroup
<1>1. IndInv => AnswerFromOwnGroup
  <2> SUFFICES ASSUME IndInv, NEW r \in Requests, outcome[r].result \in Requests \ {r}
               PROVE  Link(outcome[r].result, r)
    BY Zenon DEF AnswerFromOwnGroup, Link
  <2> QED
    BY Zenon, CoalescerAssumption DEF IndInv, AnswerInv
<1> QED
  BY <1>1, CoalescerInvariance, PTL

(* A live group has exactly one leader, or its leader's query threw. *)
THEOREM GroupHasOneLeader == Spec => []OneLeader
<1>1. IndInv => OneLeader
  <2> SUFFICES ASSUME IndInv, NEW n \in Namespaces, Exists(n), ~shutdown
               PROVE  /\ \A l, m \in Requests : Leads(l, n) /\ Leads(m, n) => l = m
                      /\ \/ \E l \in Requests : Leads(l, n)
                         \/ \E l \in Requests : /\ ns[l] = n /\ generation[l] = groups[n].generation
                                                /\ query[l] = "thrown"
    BY Zenon DEF OneLeader
  <2>1. \A l, m \in Requests : Leads(l, n) /\ Leads(m, n) => l = m
    <3>1. \A l \in Requests : Leads(l, n) => pc[l] = "leading" /\ generation[l] = groups[n].generation
      BY Zenon DEF Leads, IndInv, CallInv
    <3> QED
      BY Zenon, <3>1 DEF IndInv, UniqueInv
  <2>2. PICK l \in Requests : /\ ns[l] = n /\ generation[l] = groups[n].generation
                              /\ pc[l] = "leading" \/ query[l] = "thrown"
    BY DEF IndInv, LeaderInv
  <2> QED
    BY Zenon, <2>1, <2>2 DEF Leads
<1> QED
  BY <1>1, CoalescerInvariance, PTL

(* Once done, a WaiterState is never written again, so that reading it without *)
(* _mutex is safe.                                                             *)
THEOREM AnswersAreFinal == Spec => DeliveredIsFinal
<1>1. IndInv /\ [Next]_coalescerVars =>
        [\A r \in Requests : waiter[r].done => waiter'[r] = waiter[r]]_coalescerVars
  BY NextPreserves
<1> QED
  BY <1>1, CoalescerInvariance, PTL DEF Spec, DeliveredIsFinal
=============================================================================
