------------------------ MODULE ConfigQueryCoalescer ------------------------
(* ConfigQueryCoalescer::tryCoalesce (db/s/config/config_query_coalescer.cpp): *)
(* concurrent queries on one namespace share the answer of the first of them.  *)
(* A request is one call of tryCoalesce.  Each stretch of code that runs under *)
(* _mutex is one step; queryFunc runs, and _shutdown is read at both ends of   *)
(* the call, without the mutex.                                                *)
EXTENDS Integers, FiniteSets

CONSTANTS Requests,      \* calls of tryCoalesce, one thread each
          Namespaces,    \* the group keys
          Versions,      \* values of requestVersion
          MaxWaiters,    \* _config.maxWaitersPerGroup
          MaxVersionGap, \* _config.maxVersionGap
          NoRequest      \* "no result": the null SharedResult

ASSUME CoalescerAssumption ==
  /\ Versions \subseteq Nat
  /\ MaxWaiters \in Nat
  /\ MaxVersionGap \in Nat
  /\ NoRequest \notin Requests

VARIABLES
  pc,             \* where each request is between two locked sections
  ns,             \* the request's namespace
  version,        \* the request's requestVersion
  generation,     \* myGeneration or groupGeneration, 0 before there is one
  query,          \* how the request's own call of queryFunc ended
  waiter,         \* the request's WaiterState
  outcome,        \* what tryCoalesce returned
  groups,         \* _groups: namespace -> group, NoGroup if there is none
  nextGeneration, \* _nextGeneration
  shutdown        \* _shutdown

callVars == <<pc, ns, version, generation, query, waiter, outcome>>
sharedVars == <<groups, nextGeneration, shutdown>>
coalescerVars == <<callVars, sharedVars>>

(* Answers are named by the request whose queryFunc produced them. *)
Answers == Requests \cup {NoRequest}

(* The waiters are a set: every one of them gets the same answer. *)
CoalescingGroup ==
  [generation : Nat, minVersion : Nat, maxVersion : Nat,
   queryInProgress : BOOLEAN, queryCompleted : BOOLEAN, waiters : SUBSET Requests]

(* Generations start at 1. *)
NoGroup == [generation |-> 0, minVersion |-> 0, maxVersion |-> 0,
            queryInProgress |-> FALSE, queryCompleted |-> FALSE, waiters |-> {}]

Exists(n) == groups[n].generation # 0

Fresh == [done |-> FALSE, status |-> "OK", result |-> NoRequest]

Init ==
  /\ pc = [r \in Requests |-> "idle"]
  /\ ns \in [Requests -> Namespaces]
  /\ version \in [Requests -> Versions]
  /\ generation = [r \in Requests |-> 0]
  /\ query = [r \in Requests |-> "none"]
  /\ waiter = [r \in Requests |-> Fresh]
  /\ outcome = [r \in Requests |-> [status |-> "none", result |-> NoRequest]]
  /\ groups = [n \in Namespaces |-> NoGroup]
  /\ nextGeneration = 0
  /\ shutdown = FALSE
-----------------------------------------------------------------------------
Return(r, status, result) ==
  /\ pc' = [pc EXCEPT ![r] = "done"]
  /\ outcome' = [outcome EXCEPT ![r] = [status |-> status, result |-> result]]

(* What a WaiterState says: its status, then its result, then an empty vector. *)
ReturnWaiterState(r, state) ==
  Return(r, state.status, IF state.status = "OK" THEN state.result ELSE NoRequest)

(* The call up to _mutex: _shutdown is read without it. *)
Enter(r) ==
  /\ pc[r] = "idle"
  /\ IF shutdown
       THEN Return(r, "ShutdownInProgress", NoRequest)
       ELSE pc' = [pc EXCEPT ![r] = "entered"] /\ UNCHANGED outcome
  /\ UNCHANGED <<ns, version, generation, query, waiter, sharedVars>>

(* Slip: the query is not marked as running when the group is opened. *)
MutNewGroupIdle(r) ==
  [generation |-> nextGeneration + 1,
   minVersion |-> version[r], maxVersion |-> version[r],
   queryInProgress |-> FALSE, queryCompleted |-> FALSE, waiters |-> {r}]

NewGroup(r) ==
  [generation |-> nextGeneration + 1,
   minVersion |-> version[r], maxVersion |-> version[r],
   queryInProgress |-> TRUE, queryCompleted |-> FALSE, waiters |-> {r}]

(* Case 1: no group.  The request opens one, with itself as the first waiter, *)
(* and releases the mutex to run its query.                                   *)
Lead(r) ==
  /\ pc[r] = "entered" /\ ~Exists(ns[r])
  /\ nextGeneration' = nextGeneration + 1
  /\ generation' = [generation EXCEPT ![r] = nextGeneration + 1]
  /\ groups' = [groups EXCEPT ![ns[r]] = NewGroup(r)]
  /\ pc' = [pc EXCEPT ![r] = "leading"]
  /\ UNCHANGED <<ns, version, query, waiter, outcome, shutdown>>

MinVersion(g, v) == IF v < g.minVersion THEN v ELSE g.minVersion
MaxVersion(g, v) == IF v > g.maxVersion THEN v ELSE g.maxVersion

(* Slip: the gap may exceed the limit by one. *)
MutGapOffByOne(r) ==
  LET g == groups[ns[r]]
  IN  MaxVersion(g, version[r]) - MinVersion(g, version[r]) > MaxVersionGap + 1

GapTooLarge(r) ==
  LET g == groups[ns[r]]
  IN  MaxVersion(g, version[r]) - MinVersion(g, version[r]) > MaxVersionGap
GroupFull(r) == Cardinality(groups[ns[r]].waiters) >= MaxWaiters

(* Case 2, not to be merged: the request runs its query on its own. *)
GoAlone(r) ==
  /\ pc[r] = "entered" /\ Exists(ns[r])
  /\ GapTooLarge(r) \/ GroupFull(r)
  /\ pc' = [pc EXCEPT ![r] = "alone"]
  /\ UNCHANGED <<ns, version, generation, query, waiter, outcome, sharedVars>>

(* Slip: the request waits without having been added to the waiters. *)
MutJoinUnlisted(r) ==
  /\ pc[r] = "entered" /\ Exists(ns[r])
  /\ ~GapTooLarge(r) /\ ~GroupFull(r)
  /\ generation' = [generation EXCEPT ![r] = groups[ns[r]].generation]
  /\ pc' = [pc EXCEPT ![r] = "waiting"]
  /\ UNCHANGED <<ns, version, query, waiter, outcome, sharedVars>>

(* Case 2: the request becomes a waiter of the group and starts waiting. *)
Join(r) ==
  /\ pc[r] = "entered" /\ Exists(ns[r])
  /\ ~GapTooLarge(r) /\ ~GroupFull(r)
  /\ groups' = [groups EXCEPT ![ns[r]].waiters = @ \cup {r}]
  /\ generation' = [generation EXCEPT ![r] = groups[ns[r]].generation]
  /\ pc' = [pc EXCEPT ![r] = "waiting"]
  /\ UNCHANGED <<ns, version, query, waiter, outcome, nextGeneration, shutdown>>

(* queryFunc(): it returns rows or an error, or it throws.  An exception leaves *)
(* tryCoalesce, and the group as it is.                                         *)
RunQuery(r, result) ==
  /\ pc[r] \in {"leading", "promoted", "alone"} /\ query[r] = "none"
  /\ query' = [query EXCEPT ![r] = result]
  /\ IF result = "thrown"
       THEN Return(r, "thrown", NoRequest)
       ELSE IF pc[r] = "alone"
         THEN Return(r, result, IF result = "OK" THEN r ELSE NoRequest)
         ELSE UNCHANGED <<pc, outcome>>
  /\ UNCHANGED <<ns, version, generation, waiter, sharedVars>>

(* The generation check: the group the request belongs to is still there. *)
InGroup(r) == groups[ns[r]].generation = generation[r]

(* The WaiterStates once r's answer has been stored in those of a group. *)
Delivered(r, members) ==
  [w \in Requests |->
     IF w \in members
       THEN [done |-> TRUE, status |-> query[r],
             result |-> IF query[r] = "OK" THEN r ELSE NoRequest]
       ELSE waiter[w]]

(* The leader, or a follower promoted to leader, is back under the mutex: its *)
(* answer goes to every waiter of the group, and the group goes.  The leader  *)
(* returns what its own WaiterState says; a promoted follower returns its     *)
(* answer, which is empty once its rows have been moved to the waiters.       *)
Distribute(r) ==
  /\ pc[r] \in {"leading", "promoted"} /\ query[r] # "none"
  /\ IF shutdown
       THEN Return(r, "ShutdownInProgress", NoRequest) /\ UNCHANGED <<groups, waiter>>
       ELSE /\ IF InGroup(r)
                 THEN /\ waiter' = Delivered(r, groups[ns[r]].waiters)
                      /\ groups' = [groups EXCEPT ![ns[r]] = NoGroup]
                 ELSE UNCHANGED <<groups, waiter>>
            /\ IF pc[r] = "leading"
                 THEN ReturnWaiterState(r, waiter'[r])
                 ELSE Return(r, query[r], IF query[r] = "OK" /\ ~InGroup(r) THEN r ELSE NoRequest)
  /\ UNCHANGED <<ns, version, generation, query, nextGeneration, shutdown>>

(* Slip: the predicate of wait_for does not look at _shutdown. *)
MutWakeOnDoneOnly(r) ==
  /\ pc[r] = "waiting" /\ waiter[r].done
  /\ pc' = [pc EXCEPT ![r] = "woken"]
  /\ UNCHANGED <<ns, version, generation, query, waiter, outcome, sharedVars>>

(* Slip: the predicate of wait_for only looks at _shutdown. *)
MutWakeOnShutdownOnly(r) ==
  /\ pc[r] = "waiting" /\ shutdown
  /\ pc' = [pc EXCEPT ![r] = "woken"]
  /\ UNCHANGED <<ns, version, generation, query, waiter, outcome, sharedVars>>

(* The predicate of wait_for holds: the follower leaves the loop and the mutex. *)
Wake(r) ==
  /\ pc[r] = "waiting" /\ (waiter[r].done \/ shutdown)
  /\ pc' = [pc EXCEPT ![r] = "woken"]
  /\ UNCHANGED <<ns, version, generation, query, waiter, outcome, sharedVars>>

(* Slip: _shutdown is not read after the loop. *)
MutReturnUnchecked(r) ==
  /\ pc[r] = "woken"
  /\ ReturnWaiterState(r, waiter[r])
  /\ UNCHANGED <<ns, version, generation, query, waiter, sharedVars>>

(* After the loop: _shutdown is read again, without the mutex. *)
ReturnFollower(r) ==
  /\ pc[r] = "woken"
  /\ IF shutdown THEN Return(r, "ShutdownInProgress", NoRequest)
                 ELSE ReturnWaiterState(r, waiter[r])
  /\ UNCHANGED <<ns, version, generation, query, waiter, sharedVars>>

LeaveGroup(r, g) == [g EXCEPT !.waiters = @ \ {r}]

(* wait_for gave up.  After maxWaitTime a follower of a group whose query is   *)
(* neither running nor over takes the lead; otherwise it waits again, until    *)
(* maxTotalWaitTime, when it leaves the group and returns.                     *)
WaitTimeout(r) ==
  /\ pc[r] = "waiting" /\ ~waiter[r].done /\ ~shutdown
  /\ IF InGroup(r) /\ ~groups[ns[r]].queryInProgress /\ ~groups[ns[r]].queryCompleted
       THEN /\ groups' = [groups EXCEPT ![ns[r]] =
                            [LeaveGroup(r, @) EXCEPT !.queryInProgress = TRUE]]
            /\ pc' = [pc EXCEPT ![r] = "promoted"]
            /\ UNCHANGED outcome
       ELSE /\ groups' = IF InGroup(r)
                           THEN [groups EXCEPT ![ns[r]] = LeaveGroup(r, @)] ELSE groups
            /\ Return(r, "ExceededTimeLimit", NoRequest)
  /\ UNCHANGED <<ns, version, generation, query, waiter, nextGeneration, shutdown>>

(* Slip: shutdown() writes to every caller, not to the waiters of live groups. *)
MutShutdownWritesAll ==
  /\ shutdown' = TRUE
  /\ waiter' = [r \in Requests |->
                  [waiter[r] EXCEPT !.done = TRUE, !.status = "ShutdownInProgress"]]
  /\ groups' = [n \in Namespaces |-> NoGroup]
  /\ UNCHANGED <<pc, ns, version, generation, query, outcome, nextGeneration>>

(* shutdown(), which may be called again: the destructor does. *)
Shutdown ==
  /\ shutdown' = TRUE
  /\ waiter' = [r \in Requests |->
                  IF r \in groups[ns[r]].waiters
                    THEN [waiter[r] EXCEPT !.done = TRUE, !.status = "ShutdownInProgress"]
                    ELSE waiter[r]]
  /\ groups' = [n \in Namespaces |-> NoGroup]
  /\ UNCHANGED <<pc, ns, version, generation, query, outcome, nextGeneration>>

QueryResults == {"OK", "QueryError", "thrown"}

(* What request r's own thread does. *)
Step(r) ==
  \/ Lead(r)
  \/ GoAlone(r)
  \/ Join(r)
  \/ \E result \in QueryResults : RunQuery(r, result)
  \/ Distribute(r)
  \/ Wake(r)
  \/ ReturnFollower(r)

Next == (\E r \in Requests : Enter(r) \/ Step(r) \/ WaitTimeout(r)) \/ Shutdown

Spec == Init /\ [][Next]_coalescerVars

(* Threads run and queryFunc terminates; no clock is relied on. *)
LiveSpec == Spec /\ \A r \in Requests : WF_coalescerVars(Step(r))

(* And wait_for returns after its timeout. *)
WaitsTimeOut == \A r \in Requests : WF_coalescerVars(WaitTimeout(r))
-----------------------------------------------------------------------------
Statuses == {"OK", "QueryError", "thrown", "ShutdownInProgress", "ExceededTimeLimit"}

(* The type of every variable of the coalescer. *)
TypeOK ==
  /\ pc \in [Requests -> {"idle", "entered", "leading", "promoted", "alone",
                          "waiting", "woken", "done"}]
  /\ ns \in [Requests -> Namespaces]
  /\ version \in [Requests -> Versions]
  /\ generation \in [Requests -> Nat]
  /\ query \in [Requests -> QueryResults \cup {"none"}]
  /\ waiter \in [Requests -> [done : BOOLEAN, status : Statuses, result : Answers]]
  /\ outcome \in [Requests -> [status : Statuses \cup {"none"}, result : Answers]]
  /\ groups \in [Namespaces -> CoalescingGroup]
  /\ nextGeneration \in Nat
  /\ shutdown \in BOOLEAN

(* No follower is forgotten: one that still waits for an answer is a waiter of *)
(* the live group it joined, so whoever ends that group will reach it.         *)
WaiterTracked ==
  \A r \in Requests :
    pc[r] = "waiting" /\ ~waiter[r].done /\ ~shutdown =>
      InGroup(r) /\ r \in groups[ns[r]].waiters

(* tryCoalesce never succeeds with the empty vector of its last line, the one *)
(* it returns when a WaiterState has neither an error nor a result.           *)
NoDefaultAnswer ==
  \A r \in Requests : outcome[r].status = "OK" => outcome[r].result # NoRequest

(* An answer a request did not compute itself comes from a query on its own   *)
(* namespace, of the generation it joined, that succeeded, and whose version  *)
(* is at most maxVersionGap away from its own.                                *)
AnswerFromOwnGroup ==
  \A r \in Requests :
    LET l == outcome[r].result
    IN  l \in Requests \ {r} =>
          /\ ns[l] = ns[r] /\ generation[l] = generation[r] /\ query[l] = "OK"
          /\ version[l] - version[r] <= MaxVersionGap
          /\ version[r] - version[l] <= MaxVersionGap

(* At most one request runs the query of a group, and a group never outlives  *)
(* its query: unless the query threw or shutdown() was called, whoever leads  *)
(* the group is still on its way to distribute.                               *)
Leads(l, n) ==
  ns[l] = n /\ generation[l] = groups[n].generation /\ pc[l] \in {"leading", "promoted"}
OneLeader ==
  \A n \in Namespaces : Exists(n) /\ ~shutdown =>
    /\ \A l, m \in Requests : Leads(l, n) /\ Leads(m, n) => l = m
    /\ \/ \E l \in Requests : Leads(l, n)
       \/ \E l \in Requests : /\ ns[l] = n /\ generation[l] = groups[n].generation
                                /\ query[l] = "thrown"

(* A WaiterState that has been delivered is never written again.  The caller  *)
(* reads it after it has released the mutex.                                  *)
DeliveredIsFinal ==
  [][\A r \in Requests : waiter[r].done => waiter'[r] = waiter[r]]_coalescerVars

(* No wake-up is lost: without any timeout, a follower gets out of its wait,  *)
(* unless the leader of its group threw.                                      *)
FollowerServed ==
  \A r \in Requests :
    pc[r] = "waiting" ~> \/ pc[r] # "waiting"
                        \/ \E l \in Requests : /\ generation[l] = generation[r]
                                               /\ query[l] = "thrown"

(* With the timeout every call returns, even behind a leader that threw. *)
EveryCallReturns ==
  WaitsTimeOut => \A r \in Requests : pc[r] = "entered" ~> pc[r] = "done"
=============================================================================
