------------------------------ MODULE FindCmd -------------------------------
(* FindCmd::run (db/commands/find_cmd.cpp) on a config server, for finds on    *)
(* config.chunks: it reads a version out of the filter, hands its query to     *)
(* the coalescer as a callback, and replies with whatever rows come back; an   *)
(* error of the coalescer sends it down the ordinary path.                     *)
EXTENDS ConfigQueryCoalescer

CONSTANTS Collections, \* values of the filter's ns field
          Operators,   \* the comparison with lastmod in the filter
          Bounds,      \* the value lastmod is compared with
          MaxWrites    \* bound: writes to config.chunks

ASSUME FindAssumption ==
  /\ Operators \subseteq {"$gt", "$gte"}
  /\ Bounds \subseteq Nat
  /\ MaxWrites \in Nat

VARIABLES
  filter,    \* the filter of each find command
  needs,     \* the afterOpTime of each command's read concern
  behind,    \* the scans that were over, but not delivered, when it arrived
  rows,      \* what each command's own queryFunc read
  reply,     \* what the client was sent
  lastWrite  \* the optime of the newest committed write to config.chunks

arrivalVars == <<filter, needs, behind>>
findVars == <<coalescerVars, arrivalVars, rows, reply, lastWrite>>

Filters == [coll : Collections, op : Operators, bound : Bounds]

(* Rows are known by the filter they match, the optime they reflect, and       *)
(* whether the scan that read them reached its end.                            *)
Rows == [filter : Filters, asOf : Nat, whole : BOOLEAN]
Nothing == [status |-> "none"]

(* Slip: the operator is not looked at, and every request has version 0. *)
MutRequestVersionZero(f) == 0

(* requestVersion: only $gt is recognised. *)
RequestVersion(f) == IF f.op = "$gt" THEN f.bound ELSE 0

FindInit ==
  /\ filter \in [Requests -> Filters]
  /\ Init
  /\ version = [r \in Requests |-> RequestVersion(filter[r])]
  /\ needs = [r \in Requests |-> 0]
  /\ behind = [r \in Requests |-> {}]
  /\ rows = [r \in Requests |-> Nothing]
  /\ reply = [r \in Requests |-> Nothing]
  /\ lastWrite = 0
-----------------------------------------------------------------------------
(* Who has read its rows and is about to hand them to its group. *)
Undelivered == {l \in Requests : pc[l] \in {"leading", "promoted"} /\ query[l] = "OK"}

(* A command arrives, with an optime its sender has seen, and its read concern *)
(* has been waited for: run() calls tryCoalesce.                               *)
Arrive(r) ==
  /\ Enter(r)
  /\ \E seen \in 0..lastWrite : needs' = [needs EXCEPT ![r] = seen]
  /\ behind' = [behind EXCEPT ![r] = Undelivered]
  /\ UNCHANGED <<filter, rows, reply, lastWrite>>

(* Slip: the scan reads a snapshot left over from an earlier read. *)
MutScanOldSnapshot(r, whole) == [filter |-> filter[r], asOf |-> 0, whole |-> whole]

(* What a scan with r's own filter returns now. *)
Scan(r, whole) == [filter |-> filter[r], asOf |-> lastWrite, whole |-> whole]

(* queryFunc: the loop over getNext() ends on anything but ADVANCED, so that a *)
(* plan that was killed or failed half way still yields its rows as a success. *)
QueryFunc(r) ==
  /\ \E result \in QueryResults :
       /\ RunQuery(r, result)
       /\ IF result = "OK"
            THEN \E whole \in BOOLEAN : rows' = [rows EXCEPT ![r] = Scan(r, whole)]
            ELSE UNCHANGED rows
  /\ UNCHANGED <<arrivalVars, reply, lastWrite>>

(* The other steps of tryCoalesce. *)
Coalesce(r) ==
  /\ Lead(r) \/ GoAlone(r) \/ Join(r) \/ Distribute(r) \/ Wake(r) \/ ReturnFollower(r)
  /\ UNCHANGED <<arrivalVars, rows, reply, lastWrite>>

Expire(r) ==
  /\ WaitTimeout(r)
  /\ UNCHANGED <<arrivalVars, rows, reply, lastWrite>>

Answer(r, a) == reply' = [reply EXCEPT ![r] = a]

(* tryCoalesce has returned: its rows are the reply. *)
ReplyCoalesced(r) ==
  /\ pc[r] = "done" /\ reply[r] = Nothing /\ outcome[r].status = "OK"
  /\ Answer(r, [status |-> "OK", rows |-> rows[outcome[r].result]])
  /\ UNCHANGED <<coalescerVars, arrivalVars, rows, lastWrite>>

(* An exception of queryFunc leaves run(). *)
ReplyThrown(r) ==
  /\ pc[r] = "done" /\ reply[r] = Nothing /\ outcome[r].status = "thrown"
  /\ Answer(r, [status |-> "error"])
  /\ UNCHANGED <<coalescerVars, arrivalVars, rows, lastWrite>>

(* Slip: an error of the coalescer is left unanswered. *)
MutNoFallThrough(r) ==
  /\ pc[r] = "done" /\ reply[r] = Nothing /\ outcome[r].status = "QueryError"
  /\ \/ Answer(r, [status |-> "OK", rows |-> Scan(r, TRUE)])
     \/ Answer(r, [status |-> "error"])
  /\ UNCHANGED <<coalescerVars, arrivalVars, rows, lastWrite>>

(* Any other error: the ordinary find, which reports a failed plan. *)
FallThrough(r) ==
  /\ pc[r] = "done" /\ reply[r] = Nothing /\ outcome[r].status \notin {"OK", "thrown"}
  /\ \/ Answer(r, [status |-> "OK", rows |-> Scan(r, TRUE)])
     \/ Answer(r, [status |-> "error"])
  /\ UNCHANGED <<coalescerVars, arrivalVars, rows, lastWrite>>

(* A chunk is split, merged or moved: a write to config.chunks is committed. *)
ChunkWrite ==
  /\ lastWrite < MaxWrites
  /\ lastWrite' = lastWrite + 1
  /\ UNCHANGED <<coalescerVars, arrivalVars, rows, reply>>

ShutdownCoalescer == Shutdown /\ UNCHANGED <<arrivalVars, rows, reply, lastWrite>>

FindStep(r) ==
  QueryFunc(r) \/ Coalesce(r) \/ ReplyCoalesced(r) \/ ReplyThrown(r) \/ FallThrough(r)

FindNext ==
  \/ \E r \in Requests : Arrive(r) \/ FindStep(r) \/ Expire(r)
  \/ ChunkWrite
  \/ ShutdownCoalescer

FindSpec == FindInit /\ [][FindNext]_findVars

(* Threads run, queryFunc terminates, and wait_for returns after its timeout. *)
FairFindSpec ==
  FindSpec /\ \A r \in Requests : WF_findVars(FindStep(r)) /\ WF_findVars(Expire(r))
-----------------------------------------------------------------------------
Replied(r) == reply[r].status = "OK"

(* A reply, shared or not, reflects the optime its sender had seen when the    *)
(* command arrived, except for one case: the command joined a query that had   *)
(* read its rows already and had not handed them out yet.  A command that      *)
(* finds the group before the scan, that leads, goes alone or falls through    *)
(* never gets older rows.                                                      *)
StaleOnlyBehindScan ==
  \A r \in Requests : Replied(r) =>
    \/ reply[r].rows.asOf >= needs[r]
    \/ outcome[r].status = "OK" /\ outcome[r].result \in behind[r]

(* Among finds whose version is recognised, the rows of another find start at *)
(* most maxVersionGap after the rows asked for.                               *)
RecognisedGapBounded ==
  \A r \in Requests :
    Replied(r) /\ filter[r].op = "$gt" /\ reply[r].rows.filter.op = "$gt" =>
      reply[r].rows.filter.bound - filter[r].bound <= MaxVersionGap

(* Every find command is answered, whatever happened to the query it shared. *)
EveryFindReplies == \A r \in Requests : pc[r] = "entered" ~> reply[r] # Nothing
-----------------------------------------------------------------------------
(* What the documentation says. *)

(* "it can merge query requests for the same collection across several mongos" *)
ReplyOwnCollection ==
  \A r \in Requests : Replied(r) => reply[r].rows.filter.coll = filter[r].coll
=============================================================================
