----------------------- MODULE RocksTransactionProofs ----------------------
(* Proof that the engine loses no update and implements snapshot isolation,  *)
(* for any number of units, keys and writes.                                 *)
EXTENDS RocksTransaction, TLAPS

(* A unit still reading through its snapshot. *)
Reading(u) == pc[u] \in {"open", "conflict"}

(* How a unit's phase, its snapshot and its snapshot id go together. *)
PhaseInv ==
  \A u \in Units :
    /\ pc[u] \in {"open", "conflict", "written"} =>
         (SnapshotInitialized(u) <=> snapshot[u] # NoSnapshot)
    /\ pc[u] = "recorded" => SnapshotInitialized(u) /\ snapshot[u] = NoSnapshot
    /\ pc[u] = "committed" => /\ writtenKeys[u] = {} /\ writeBatch[u] = {}
                              /\ SnapshotInitialized(u) => snapshot[u] # NoSnapshot

(* Every id in use was handed out by a commit that is over, and no snapshot *)
(* sees a write that has not happened.                                      *)
BoundInv ==
  /\ \A u \in Units : snapshotId[u] <= latestSnapshotId
  /\ \A k \in Keys : keyInfo[k] <= latestSnapshotId
  /\ \A u \in Units, k \in Keys :
       snapshot[u] # NoSnapshot => snapshot[u][k] <= db[k]
  /\ \A k \in Keys : db[k] <= dbSeq

(* _uncommittedTransactionId is the inverse of the _writtenKeys sets. *)
OwnerInv ==
  \A u \in Units, k \in Keys : k \in writtenKeys[u] <=> uncommitted[k] = u

(* A record key is nobody's before it is allocated, and its inserter's alone *)
(* until the inserter's _db->Write.                                          *)
FreshInv ==
  /\ \A k \in RecordKeys \ allocated :
       db[k] = 0 /\ \A u \in Units : k \notin writeBatch[u] /\ k \notin writtenKeys[u]
  /\ \A u \in Units : \A k \in writeBatch[u] \ writtenKeys[u] :
       pc[u] # "written" =>
         /\ k \in RecordKeys /\ db[k] = 0
         /\ \A v \in Units \ {u} : k \notin writeBatch[v] /\ k \notin writtenKeys[v]

(* A key that changed since a unit's snapshot is one the unit cannot write: the *)
(* engine still tracks its commit, or its writer has not reached commit(), or   *)
(* it is a record the unit cannot know of.                                      *)
ConflictInv ==
  \A u \in Units, k \in Keys :
    Reading(u) /\ snapshot[u] # NoSnapshot /\ snapshot[u][k] # db[k] =>
      \/ keyInfo[k] > snapshotId[u]
      \/ uncommitted[k] \in Units /\ pc[uncommitted[k]] = "written"
      \/ k \in RecordKeys /\ snapshot[u][k] = 0 /\ k \notin writeBatch[u]

(* A key a unit has registered was not committed after its snapshot. *)
RegisteredInv ==
  \A u \in Units : SnapshotInitialized(u) =>
    \A k \in writtenKeys[u] : keyInfo[k] <= snapshotId[u]

(* NoLostUpdate for every key the unit registered or buffered. *)
UnchangedInv ==
  \A u \in Units : Reading(u) /\ snapshot[u] # NoSnapshot =>
    \A k \in writtenKeys[u] \cup writeBatch[u] : snapshot[u][k] = db[k]

IndInv ==
  /\ TypeOK
  /\ ActiveSnapshotsSorted
  /\ PhaseInv
  /\ BoundInv
  /\ OwnerInv
  /\ FreshInv
  /\ ConflictInv
  /\ RegisteredInv
  /\ UnchangedInv
-----------------------------------------------------------------------------
(* Erasing a unit's only entry from a list: what is left is in the list's     *)
(* order, and every other entry is still there.                               *)
LEMMA WithoutProperties ==
  ASSUME NEW s \in Seq(Units), NEW p \in 1..Len(s),
         \A i, j \in 1..Len(s) : i < j => s[i] # s[j]
  PROVE  LET r == Without(s, s[p])
         IN  /\ r \in Seq(Units) /\ Len(r) = Len(s) - 1
             /\ \A i \in 1..Len(r) : r[i] = IF i < p THEN s[i] ELSE s[i + 1]
<1> DEFINE q == CHOOSE i \in 1..Len(s) : s[i] = s[p]
           r == [i \in 1..(Len(s) - 1) |-> IF i < q THEN s[i] ELSE s[i + 1]]
<1>1. q \in 1..Len(s) /\ s[q] = s[p]
  OBVIOUS
<1>2. q = p
  BY <1>1
<1>3. Len(s) - 1 \in Nat
  OBVIOUS
<1>4. \A i \in 1..(Len(s) - 1) : r[i] \in Units
  BY <1>2
<1>5. r \in Seq(Units) /\ Len(r) = Len(s) - 1
  BY <1>3, <1>4
<1>6. Without(s, s[p]) = r
  BY DEF Without
<1> QED
  BY Zenon, <1>2, <1>5, <1>6

(* What dropping a unit's snapshot does to the engine: the other units' ids   *)
(* stay, the list stays sorted, and a tracked key that some remaining         *)
(* snapshot can conflict on stays tracked.                                    *)
LEMMA CleanupProperties ==
  ASSUME TypeOK, ActiveSnapshotsSorted,
         NEW u \in Units, NEW info \in [Keys -> Nat], Cleanup(u, info)
  PROVE  /\ activeSnapshots' \in Seq(Units)
         /\ snapshotId' = [snapshotId EXCEPT ![u] = NoId]
         /\ keyInfo' \in [Keys -> Nat]
         /\ ActiveSnapshotsSorted'
         /\ \A k \in Keys : keyInfo'[k] = info[k] \/ keyInfo'[k] = 0
         /\ \A w \in Units \ {u}, k \in Keys :
              SnapshotInitialized(w) /\ info[k] > snapshotId[w] => keyInfo'[k] = info[k]
<1>1. CASE ~SnapshotInitialized(u)
  <2>1. /\ keyInfo' = info /\ activeSnapshots' = activeSnapshots
        /\ snapshotId' = snapshotId /\ snapshotId[u] = NoId
    BY <1>1 DEF Cleanup, SnapshotInitialized
  <2> QED
    BY <2>1 DEF TypeOK, ActiveSnapshotsSorted, SnapshotInitialized
<1>2. CASE SnapshotInitialized(u)
  <2> DEFINE s == activeSnapshots
             r == Without(s, u)
             oldest == IF r = <<>> THEN NoId ELSE snapshotId[r[1]]
  <2>1. PICK p \in 1..Len(s) : s[p] = u
    BY Zenon, <1>2 DEF ActiveSnapshotsSorted
  <2>2. s \in Seq(Units) /\ \A i, j \in 1..Len(s) : i < j => s[i] # s[j]
    BY DEF ActiveSnapshotsSorted, TypeOK
  <2>3. /\ r \in Seq(Units) /\ Len(r) = Len(s) - 1
        /\ \A i \in 1..Len(r) : r[i] = IF i < p THEN s[i] ELSE s[i + 1]
    BY Zenon, <2>1, <2>2, WithoutProperties
  <2>4. /\ activeSnapshots' = r
        /\ snapshotId' = [snapshotId EXCEPT ![u] = NoId]
        /\ keyInfo' = IF s[1] = u THEN CleanUpKeysCommittedBeforeSnapshot(info, oldest)
                                  ELSE info
    BY <1>2 DEF Cleanup
  <2> HIDE DEF r
  <2>5. keyInfo' \in [Keys -> Nat] /\ \A k \in Keys : keyInfo'[k] = info[k] \/ keyInfo'[k] = 0
    BY <2>4 DEF CleanUpKeysCommittedBeforeSnapshot
  <2>6. \A i \in 1..Len(r) : \E j \in 1..Len(s) : j # p /\ s[j] = r[i]
    <3> TAKE i \in 1..Len(r)
    <3> DEFINE j == IF i < p THEN i ELSE i + 1
    <3>1. j \in 1..Len(s) /\ j # p /\ s[j] = r[i]
      BY <2>2, <2>3
    <3> QED
      BY <3>1
  <2>7. \A j \in 1..Len(s) : j # p => \E i \in 1..Len(r) : r[i] = s[j]
    <3> TAKE j \in 1..Len(s)
    <3>1. CASE j < p
      <4>1. j \in 1..Len(r) /\ r[j] = s[j]
        BY <2>2, <2>3, <3>1
      <4> QED
        BY <4>1
    <3>2. CASE j > p
      <4>1. (j - 1) \in 1..Len(r) /\ r[j - 1] = s[j]
        BY <2>2, <2>3, <3>2
      <4> QED
        BY <4>1
    <3> QED
      BY <3>1, <3>2, <2>2
  <2>8. \A i \in 1..Len(r) : r[i] # u
    BY <2>1, <2>2, <2>6
  <2>9. \A i, j \in 1..Len(r) : i < j => r[i] # r[j] /\ snapshotId[r[i]] <= snapshotId[r[j]]
    <3> SUFFICES ASSUME NEW i \in 1..Len(r), NEW j \in 1..Len(r), i < j
                 PROVE  r[i] # r[j] /\ snapshotId[r[i]] <= snapshotId[r[j]]
      OBVIOUS
    <3> DEFINE a == IF i < p THEN i ELSE i + 1
               b == IF j < p THEN j ELSE j + 1
    <3>1. a \in 1..Len(s) /\ b \in 1..Len(s) /\ a < b /\ r[i] = s[a] /\ r[j] = s[b]
      BY SMTT(60), <2>2, <2>3
    <3> QED
      BY SMTT(60), <3>1 DEF ActiveSnapshotsSorted
  <2>10. ActiveSnapshotsSorted'
    <3>1. \A i, j \in 1..Len(r) :
            i < j => r[i] # r[j] /\ snapshotId'[r[i]] <= snapshotId'[r[j]]
      <4>1. \A i \in 1..Len(r) : r[i] \in Units /\ r[i] # u
        BY <2>3, <2>8
      <4>2. \A i \in 1..Len(r) : snapshotId'[r[i]] = snapshotId[r[i]]
        BY Zenon, <2>4, <4>1 DEF TypeOK
      <4> QED
        BY <2>9, <4>2
    <3>2. \A w \in Units : SnapshotInitialized(w)' <=> \E i \in 1..Len(r) : r[i] = w
      <4> TAKE w \in Units
      <4>1. CASE w = u
        BY Zenon, <2>4, <2>8, <4>1 DEF SnapshotInitialized, TypeOK
      <4>2. CASE w # u
        <5>1. SnapshotInitialized(w)' <=> SnapshotInitialized(w)
          BY <2>4, <4>2 DEF SnapshotInitialized, TypeOK
        <5>2. SnapshotInitialized(w) <=> \E j \in 1..Len(s) : s[j] = w
          BY DEF ActiveSnapshotsSorted
        <5>3. (\E j \in 1..Len(s) : s[j] = w) <=> \E i \in 1..Len(r) : r[i] = w
          BY ZenonT(60), <2>1, <2>6, <2>7, <4>2
        <5> QED
          BY <5>1, <5>2, <5>3
      <4> QED
        BY <4>1, <4>2
    <3> QED
      BY <3>1, <3>2, <2>4 DEF ActiveSnapshotsSorted
  <2>11. ASSUME NEW w \in Units \ {u}, NEW k \in Keys,
                SnapshotInitialized(w), info[k] > snapshotId[w]
         PROVE  keyInfo'[k] = info[k]
    <3>1. PICK j \in 1..Len(s) : s[j] = w
      BY <2>11 DEF ActiveSnapshotsSorted
    <3>2. PICK i \in 1..Len(r) : r[i] = w
      BY Zenon, <2>1, <2>7, <2>11, <3>1
    <3>3. r # <<>> /\ 1 \in 1..Len(r) /\ r[1] \in Units
      BY <2>3, <3>2
    <3>4. snapshotId[r[1]] <= snapshotId[w]
      <4>1. snapshotId[w] \in Nat
        BY DEF TypeOK
      <4>2. CASE i = 1
        BY <3>2, <4>1, <4>2
      <4>3. CASE i > 1
        BY Zenon, <2>9, <3>2, <3>3, <4>3
      <4> QED
        BY <4>2, <4>3, <2>3
    <3>5. snapshotId[r[1]] # NoId
      <4>1. PICK m \in 1..Len(s) : s[m] = r[1]
        BY <2>6, <3>3
      <4> QED
        BY Zenon, <4>1, <3>3 DEF ActiveSnapshotsSorted, SnapshotInitialized
    <3>6. oldest # NoId /\ info[k] > oldest /\ oldest \in Nat
      BY <2>11, <3>3, <3>4, <3>5, SMTT(60) DEF TypeOK
    <3> QED
      BY <2>4, <3>6 DEF CleanUpKeysCommittedBeforeSnapshot
  <2> QED
    BY Zenon, <2>3, <2>4, <2>5, <2>10, <2>11
<1> QED
  BY Zenon, <1>1, <1>2

(* RocksTransaction::abort gives up the unit's keys and its snapshot id. *)
LEMMA TransactionAbortProperties ==
  ASSUME IndInv, NEW u \in Units, TransactionAbort(u)
  PROVE  /\ ActiveSnapshotsSorted'
         /\ activeSnapshots' \in Seq(Units) /\ keyInfo' \in [Keys -> Nat]
         /\ snapshotId' = [snapshotId EXCEPT ![u] = NoId]
         /\ writtenKeys' = [writtenKeys EXCEPT ![u] = {}]
         /\ uncommitted' = [k \in Keys |-> IF k \in writtenKeys[u] THEN NoUnit
                                                                   ELSE uncommitted[k]]
         /\ latestSnapshotId' = latestSnapshotId
         /\ \A k \in Keys : keyInfo'[k] = keyInfo[k] \/ keyInfo'[k] = 0
         /\ \A w \in Units \ {u}, k \in Keys :
              SnapshotInitialized(w) /\ keyInfo[k] > snapshotId[w] => keyInfo'[k] = keyInfo[k]
<1>1. TypeOK /\ ActiveSnapshotsSorted /\ keyInfo \in [Keys -> Nat] /\ Cleanup(u, keyInfo)
  BY DEF IndInv, TypeOK, TransactionAbort
<1> QED
  BY <1>1, CleanupProperties DEF TransactionAbort

(* The end of a unit of work, however it ends: the snapshot and the batch go, *)
(* and the transaction is aborted, or left alone when there is no snapshot.   *)
LEMMA ReleaseStep ==
  ASSUME IndInv, NEW u \in Units, pc[u] \in {"open", "conflict", "committed"},
         \/ TransactionAbort(u)
         \/ snapshot[u] = NoSnapshot /\ UNCHANGED engineVars,
         snapshot' = [snapshot EXCEPT ![u] = NoSnapshot],
         writeBatch' = [writeBatch EXCEPT ![u] = {}],
         pc' = [pc EXCEPT ![u] = "open"],
         UNCHANGED <<dbVars, allocated>>
  PROVE  IndInv'
<1> USE DEF IndInv
<1>1. /\ ActiveSnapshotsSorted'
      /\ activeSnapshots' \in Seq(Units) /\ keyInfo' \in [Keys -> Nat]
      /\ snapshotId' = [snapshotId EXCEPT ![u] = NoId]
      /\ latestSnapshotId' = latestSnapshotId
      /\ \A k \in Keys : keyInfo'[k] = keyInfo[k] \/ keyInfo'[k] = 0
      /\ \A w \in Units \ {u}, k \in Keys :
           SnapshotInitialized(w) /\ keyInfo[k] > snapshotId[w] => keyInfo'[k] = keyInfo[k]
  <2>1. CASE TransactionAbort(u)
    BY <2>1, TransactionAbortProperties
  <2>2. CASE snapshot[u] = NoSnapshot /\ UNCHANGED engineVars
    <3>1. snapshotId[u] = NoId
      BY <2>2 DEF PhaseInv, SnapshotInitialized
    <3>2. /\ activeSnapshots' = activeSnapshots /\ keyInfo' = keyInfo
          /\ snapshotId' = snapshotId /\ latestSnapshotId' = latestSnapshotId
      BY Zenon, <2>2 DEF engineVars
    <3> QED
      BY <3>1, <3>2 DEF TypeOK, ActiveSnapshotsSorted, SnapshotInitialized
  <2> QED
    BY <2>1, <2>2
<1>2. /\ writtenKeys' \in [Units -> SUBSET Keys]
      /\ uncommitted' \in [Keys -> Units \cup {NoUnit}]
      /\ \A v \in Units \ {u} : writtenKeys'[v] = writtenKeys[v]
      /\ writtenKeys'[u] \subseteq writtenKeys[u]
      /\ \A k \in Keys : uncommitted[k] # u => uncommitted'[k] = uncommitted[k]
      /\ OwnerInv'
  <2>1. CASE TransactionAbort(u)
    <3>1. /\ writtenKeys' = [writtenKeys EXCEPT ![u] = {}]
          /\ uncommitted' = [k \in Keys |-> IF k \in writtenKeys[u] THEN NoUnit
                                                                    ELSE uncommitted[k]]
      BY <2>1, TransactionAbortProperties
    <3> QED
      BY <3>1, ConstantsAssumption DEF TypeOK, OwnerInv
  <2>2. CASE UNCHANGED engineVars
    BY Zenon, <2>2 DEF TypeOK, OwnerInv, engineVars
  <2> QED
    BY Zenon, <2>1, <2>2
<1>3. /\ db' = db /\ dbSeq' = dbSeq /\ allocated' = allocated
  BY DEF dbVars
<1>4. TypeOK'
  BY ZenonT(60), <1>1, <1>2, <1>3 DEF TypeOK, NoId
<1>5. PhaseInv'
  BY Zenon, <1>1, <1>2 DEF PhaseInv, TypeOK, SnapshotInitialized
<1>6. BoundInv'
  <2>1. \A w \in Units : snapshotId'[w] = snapshotId[w] \/ snapshotId'[w] = 0
    BY <1>1 DEF TypeOK, NoId
  <2>2. \A w \in Units : snapshot'[w] = snapshot[w] \/ snapshot'[w] = NoSnapshot
    BY DEF TypeOK
  <2>3. latestSnapshotId \in Nat
    BY Zenon DEF TypeOK
  <2> QED
    BY SMTT(60), <1>1, <1>3, <2>1, <2>2, <2>3 DEF BoundInv
<1>7. FreshInv'
  <2>1. \A v \in Units : writeBatch'[v] \subseteq writeBatch[v]
                         /\ writtenKeys'[v] \subseteq writtenKeys[v]
    BY ZenonT(60), <1>2 DEF TypeOK
  <2>2. \A v \in Units : v # u => /\ writeBatch'[v] = writeBatch[v]
                                  /\ writtenKeys'[v] = writtenKeys[v] /\ pc'[v] = pc[v]
    BY Zenon, <1>2 DEF TypeOK
  <2>3. writeBatch'[u] = {}
    BY Zenon DEF TypeOK
  <2> QED
    BY SMTT(60), <1>3, <2>1, <2>2, <2>3 DEF FreshInv
<1>8. ConflictInv'
  <2> SUFFICES ASSUME NEW w \in Units, NEW k \in Keys,
                      Reading(w)', snapshot'[w] # NoSnapshot, snapshot'[w][k] # db'[k]
               PROVE  \/ keyInfo'[k] > snapshotId'[w]
                      \/ uncommitted'[k] \in Units /\ pc'[uncommitted'[k]] = "written"
                      \/ k \in RecordKeys /\ snapshot'[w][k] = 0 /\ k \notin writeBatch'[w]
    BY Zenon DEF ConflictInv
  <2>1. w # u /\ snapshot'[w] = snapshot[w] /\ pc'[w] = pc[w] /\ writeBatch'[w] = writeBatch[w]
    BY Zenon DEF TypeOK
  <2>2. Reading(w) /\ snapshot[w] # NoSnapshot /\ snapshot[w][k] # db[k]
    BY Zenon, <1>3, <2>1 DEF Reading
  <2>3. SnapshotInitialized(w) /\ snapshotId'[w] = snapshotId[w]
    BY Zenon, <1>1, <2>1, <2>2 DEF PhaseInv, Reading, TypeOK
  <2>4. CASE keyInfo[k] > snapshotId[w]
    BY Zenon, <1>1, <2>1, <2>3, <2>4
  <2>5. CASE uncommitted[k] \in Units /\ pc[uncommitted[k]] = "written"
    BY ZenonT(60), <1>2, <2>5 DEF TypeOK
  <2>6. CASE k \in RecordKeys /\ snapshot[w][k] = 0 /\ k \notin writeBatch[w]
    BY Zenon, <2>1, <2>6
  <2> QED
    BY Zenon, <2>2, <2>4, <2>5, <2>6 DEF ConflictInv
<1>9. RegisteredInv'
  <2> SUFFICES ASSUME NEW w \in Units, SnapshotInitialized(w)', NEW k \in writtenKeys'[w]
               PROVE  keyInfo'[k] <= snapshotId'[w]
    BY Zenon DEF RegisteredInv
  <2>1. w # u /\ snapshotId'[w] = snapshotId[w] /\ k \in writtenKeys[w] /\ k \in Keys
    BY Zenon, <1>1, <1>2 DEF SnapshotInitialized, TypeOK
  <2>2. SnapshotInitialized(w) /\ keyInfo[k] <= snapshotId[w]
    BY Zenon, <2>1 DEF RegisteredInv, SnapshotInitialized
  <2>3. snapshotId[w] \in Nat /\ (keyInfo'[k] = keyInfo[k] \/ keyInfo'[k] = 0)
    BY Zenon, <1>1, <2>1 DEF TypeOK
  <2> QED
    BY <2>1, <2>2, <2>3
<1>10. UnchangedInv'
  <2> SUFFICES ASSUME NEW w \in Units, Reading(w)', snapshot'[w] # NoSnapshot,
                      NEW k \in writtenKeys'[w] \cup writeBatch'[w]
               PROVE  snapshot'[w][k] = db'[k]
    BY Zenon DEF UnchangedInv
  <2>1. /\ w # u /\ snapshot'[w] = snapshot[w] /\ pc'[w] = pc[w]
        /\ writeBatch'[w] = writeBatch[w] /\ writtenKeys'[w] = writtenKeys[w]
    BY <1>2 DEF TypeOK
  <2> QED
    BY Zenon, <1>3, <2>1 DEF UnchangedInv, Reading
<1> QED
  BY <1>1, <1>2, <1>4, <1>5, <1>6, <1>7, <1>8, <1>9, <1>10

(* Each conjunct of the invariant is about some of the variables only: a step *)
(* that leaves those alone keeps it.                                          *)
LEMMA SortedKept ==
  ASSUME ActiveSnapshotsSorted, UNCHANGED <<activeSnapshots, snapshotId>>
  PROVE  ActiveSnapshotsSorted'
<1>1. activeSnapshots' = activeSnapshots /\ snapshotId' = snapshotId
  OBVIOUS
<1> QED
  BY Zenon, <1>1 DEF ActiveSnapshotsSorted, SnapshotInitialized

LEMMA BoundKept ==
  ASSUME BoundInv,
         UNCHANGED <<snapshotId, latestSnapshotId, keyInfo, snapshot, db, dbSeq>>
  PROVE  BoundInv'
<1>1. /\ snapshotId' = snapshotId /\ latestSnapshotId' = latestSnapshotId
      /\ keyInfo' = keyInfo /\ snapshot' = snapshot /\ db' = db /\ dbSeq' = dbSeq
  OBVIOUS
<1> QED
  BY Zenon, <1>1 DEF BoundInv

LEMMA OwnerKept ==
  ASSUME OwnerInv, UNCHANGED <<writtenKeys, uncommitted>>
  PROVE  OwnerInv'
<1>1. writtenKeys' = writtenKeys /\ uncommitted' = uncommitted
  OBVIOUS
<1> QED
  BY Zenon, <1>1 DEF OwnerInv

LEMMA RegisteredKept ==
  ASSUME RegisteredInv, UNCHANGED <<snapshotId, writtenKeys, keyInfo>>
  PROVE  RegisteredInv'
<1>1. snapshotId' = snapshotId /\ writtenKeys' = writtenKeys /\ keyInfo' = keyInfo
  OBVIOUS
<1> QED
  BY Zenon, <1>1 DEF RegisteredInv, SnapshotInitialized

LEMMA FreshShrunk ==
  ASSUME FreshInv, db' = db, allocated' = allocated,
         \A w \in Units : \A k :
           /\ k \in writeBatch'[w] => k \in writeBatch[w]
           /\ k \in writtenKeys'[w] => k \in writtenKeys[w]
           /\ k \in writeBatch'[w] \ writtenKeys'[w] =>
                k \notin writtenKeys[w] /\ (pc'[w] # "written" => pc[w] # "written")
  PROVE  FreshInv'
<1>1. \A k \in RecordKeys \ allocated' :
        db'[k] = 0 /\ \A w \in Units : k \notin writeBatch'[w] /\ k \notin writtenKeys'[w]
  BY Zenon DEF FreshInv
<1>2. ASSUME NEW w \in Units, NEW k \in writeBatch'[w] \ writtenKeys'[w], pc'[w] # "written"
      PROVE  /\ k \in RecordKeys /\ db'[k] = 0
             /\ \A v \in Units \ {w} : k \notin writeBatch'[v] /\ k \notin writtenKeys'[v]
  <2>1. k \in writeBatch[w] \ writtenKeys[w] /\ pc[w] # "written"
    BY Zenon, <1>2
  <2>2. /\ k \in RecordKeys /\ db[k] = 0
        /\ \A v \in Units \ {w} : k \notin writeBatch[v] /\ k \notin writtenKeys[v]
    BY Zenon, <2>1 DEF FreshInv
  <2> QED
    BY Zenon, <2>2
<1> QED
  BY Zenon, <1>1, <1>2 DEF FreshInv

LEMMA FreshKept ==
  ASSUME FreshInv, UNCHANGED <<allocated, db, writeBatch, writtenKeys>>,
         \A w \in Units : pc'[w] # "written" => pc[w] # "written"
  PROVE  FreshInv'
<1>1. /\ allocated' = allocated /\ db' = db /\ writeBatch' = writeBatch
      /\ writtenKeys' = writtenKeys
  OBVIOUS
<1> QED
  BY Zenon, <1>1 DEF FreshInv

LEMMA ConflictKept ==
  ASSUME ConflictInv,
         UNCHANGED <<snapshot, db, keyInfo, snapshotId, writeBatch, uncommitted>>,
         \A w \in Units : /\ Reading(w)' => Reading(w)
                          /\ pc[w] = "written" => pc'[w] = "written"
  PROVE  ConflictInv'
<1>1. /\ snapshot' = snapshot /\ db' = db /\ keyInfo' = keyInfo
      /\ snapshotId' = snapshotId /\ writeBatch' = writeBatch /\ uncommitted' = uncommitted
  OBVIOUS
<1> SUFFICES ASSUME NEW w \in Units, NEW k \in Keys,
                    Reading(w)', snapshot'[w] # NoSnapshot, snapshot'[w][k] # db'[k]
             PROVE  \/ keyInfo'[k] > snapshotId'[w]
                    \/ uncommitted'[k] \in Units /\ pc'[uncommitted'[k]] = "written"
                    \/ k \in RecordKeys /\ snapshot'[w][k] = 0 /\ k \notin writeBatch'[w]
  BY Zenon DEF ConflictInv
<1>2. Reading(w) /\ snapshot[w] # NoSnapshot /\ snapshot[w][k] # db[k]
  BY Zenon, <1>1
<1>3. \/ keyInfo[k] > snapshotId[w]
      \/ uncommitted[k] \in Units /\ pc[uncommitted[k]] = "written"
      \/ k \in RecordKeys /\ snapshot[w][k] = 0 /\ k \notin writeBatch[w]
  BY Zenon, <1>2 DEF ConflictInv
<1> QED
  BY Zenon, <1>1, <1>3

LEMMA UnchangedKept ==
  ASSUME UnchangedInv, UNCHANGED <<snapshot, db, writtenKeys, writeBatch>>,
         \A w \in Units : Reading(w)' => Reading(w)
  PROVE  UnchangedInv'
<1>1. /\ snapshot' = snapshot /\ db' = db /\ writtenKeys' = writtenKeys
      /\ writeBatch' = writeBatch
  OBVIOUS
<1> QED
  BY Zenon, <1>1 DEF UnchangedInv

(* Where a unit is decides about its snapshot: nothing changes as long as the  *)
(* snapshots stay and nobody starts or ends a commit.                          *)
LEMMA PhaseKept ==
  ASSUME PhaseInv, UNCHANGED <<snapshotId, snapshot>>,
         \A w \in Units :
           \/ /\ pc[w] \in {"open", "conflict", "written"}
              /\ pc'[w] \in {"open", "conflict", "written"}
           \/ pc'[w] = pc[w] /\ writtenKeys'[w] = writtenKeys[w] /\ writeBatch'[w] = writeBatch[w]
  PROVE  PhaseInv'
<1> SUFFICES ASSUME NEW w \in Units
             PROVE  /\ pc'[w] \in {"open", "conflict", "written"} =>
                         (SnapshotInitialized(w)' <=> snapshot'[w] # NoSnapshot)
                    /\ pc'[w] = "recorded" =>
                         SnapshotInitialized(w)' /\ snapshot'[w] = NoSnapshot
                    /\ pc'[w] = "committed" =>
                         /\ writtenKeys'[w] = {} /\ writeBatch'[w] = {}
                         /\ SnapshotInitialized(w)' => snapshot'[w] # NoSnapshot
  BY Zenon DEF PhaseInv
<1>1. (SnapshotInitialized(w)' <=> SnapshotInitialized(w)) /\ snapshot'[w] = snapshot[w]
  BY DEF SnapshotInitialized
<1>2. /\ pc[w] \in {"open", "conflict", "written"} =>
           (SnapshotInitialized(w) <=> snapshot[w] # NoSnapshot)
      /\ pc[w] = "recorded" => SnapshotInitialized(w) /\ snapshot[w] = NoSnapshot
      /\ pc[w] = "committed" => /\ writtenKeys[w] = {} /\ writeBatch[w] = {}
                                /\ SnapshotInitialized(w) => snapshot[w] # NoSnapshot
  BY Zenon DEF PhaseInv
<1>3. CASE /\ pc[w] \in {"open", "conflict", "written"}
           /\ pc'[w] \in {"open", "conflict", "written"}
  BY Zenon, <1>1, <1>2, <1>3
<1>4. CASE pc'[w] = pc[w] /\ writtenKeys'[w] = writtenKeys[w] /\ writeBatch'[w] = writeBatch[w]
  BY Zenon, <1>1, <1>2, <1>4
<1> QED
  BY <1>3, <1>4

(* recordSnapshotId appends the largest id, so the list stays sorted. *)
LEMMA RecordSnapshotIdStep ==
  ASSUME IndInv, NEW u \in Units, RecordSnapshotId(u)
  PROVE  IndInv'
<1> USE DEF IndInv
<1>1. /\ pc[u] = "open" /\ snapshot[u] = NoSnapshot
      /\ activeSnapshots' = Append(activeSnapshots, u)
      /\ snapshotId' = [snapshotId EXCEPT ![u] = latestSnapshotId]
      /\ pc' = [pc EXCEPT ![u] = "recorded"]
      /\ latestSnapshotId' = latestSnapshotId /\ keyInfo' = keyInfo
      /\ uncommitted' = uncommitted /\ writtenKeys' = writtenKeys
      /\ snapshot' = snapshot /\ writeBatch' = writeBatch
      /\ db' = db /\ dbSeq' = dbSeq /\ allocated' = allocated
  BY Zenon DEF RecordSnapshotId, dbVars
<1>2. snapshotId[u] = NoId
  BY Zenon, <1>1 DEF PhaseInv, SnapshotInitialized
<1>3. TypeOK'
  BY SMTT(60), <1>1 DEF TypeOK
<1>4. ActiveSnapshotsSorted'
  <2> DEFINE s == activeSnapshots
             n == Len(activeSnapshots)
  <2>1. /\ activeSnapshots \in Seq(Units) /\ n \in Nat
        /\ Len(activeSnapshots') = n + 1 /\ activeSnapshots'[n + 1] = u
        /\ \A i \in 1..n : activeSnapshots'[i] = s[i] /\ s[i] \in Units
    BY <1>1 DEF TypeOK
  <2>2. \A i \in 1..n : s[i] # u
    BY Zenon, <1>2 DEF ActiveSnapshotsSorted, SnapshotInitialized
  <2>3. \A i \in 1..n : snapshotId'[s[i]] = snapshotId[s[i]]
    BY Zenon, <1>1, <2>1, <2>2 DEF TypeOK
  <2>4. snapshotId'[u] = latestSnapshotId
    BY Zenon, <1>1 DEF TypeOK
  <2>5. \A i, j \in 1..(n + 1) :
          i < j => /\ activeSnapshots'[i] # activeSnapshots'[j]
                   /\ snapshotId'[activeSnapshots'[i]] <= snapshotId'[activeSnapshots'[j]]
    <3> TAKE i, j \in 1..(n + 1)
    <3> HAVE i < j
    <3>1. i \in 1..n /\ activeSnapshots'[i] = s[i]
      BY <2>1
    <3>2. CASE j = n + 1
      BY Zenon, <2>1, <2>2, <2>3, <2>4, <3>1, <3>2 DEF BoundInv
    <3>3. CASE j \in 1..n
      BY <2>1, <2>3, <3>1, <3>3 DEF ActiveSnapshotsSorted
    <3> QED
      BY <2>1, <3>2, <3>3
  <2>6. \A w \in Units : SnapshotInitialized(w)' <=>
                         \E i \in 1..(n + 1) : activeSnapshots'[i] = w
    <3> TAKE w \in Units
    <3>1. CASE w = u
      <4>1. snapshotId'[w] # NoId
        BY Zenon, <2>4, <3>1 DEF TypeOK, NoId
      <4>2. n + 1 \in 1..(n + 1)
        BY <2>1
      <4> QED
        BY Zenon, <2>1, <3>1, <4>1, <4>2 DEF SnapshotInitialized
    <3>2. CASE w # u
      <4>1. SnapshotInitialized(w)' <=> SnapshotInitialized(w)
        BY Zenon, <1>1, <3>2 DEF SnapshotInitialized, TypeOK
      <4>2. SnapshotInitialized(w) <=> \E i \in 1..n : s[i] = w
        BY Zenon DEF ActiveSnapshotsSorted
      <4>3. (\E i \in 1..n : s[i] = w) <=> \E i \in 1..(n + 1) : activeSnapshots'[i] = w
        BY SMTT(60), <2>1, <3>2
      <4> QED
        BY Zenon, <4>1, <4>2, <4>3
    <3> QED
      BY Zenon, <3>1, <3>2
  <2> QED
    BY ZenonT(60), <2>1, <2>5, <2>6 DEF ActiveSnapshotsSorted
<1>5. PhaseInv'
  BY Zenon, <1>1 DEF PhaseInv, TypeOK, SnapshotInitialized, NoId
<1>6. BoundInv'
  BY <1>1 DEF BoundInv, TypeOK
<1>7. \A w \in Units : \/ pc'[w] = pc[w] /\ snapshotId'[w] = snapshotId[w]
                       \/ w = u /\ pc'[w] = "recorded"
  BY <1>1 DEF TypeOK
<1>8. \A w \in Units : /\ Reading(w)' => Reading(w)
                       /\ pc'[w] = "written" <=> pc[w] = "written"
  BY Zenon, <1>1, <1>7 DEF Reading
<1>9. OwnerInv' /\ FreshInv' /\ UnchangedInv'
  BY Zenon, <1>1, <1>8, OwnerKept, FreshKept, UnchangedKept
<1>10. ConflictInv'
  <2> SUFFICES ASSUME NEW w \in Units, NEW k \in Keys,
                      Reading(w)', snapshot[w] # NoSnapshot, snapshot[w][k] # db[k]
               PROVE  \/ keyInfo[k] > snapshotId'[w]
                      \/ uncommitted[k] \in Units /\ pc'[uncommitted[k]] = "written"
                      \/ k \in RecordKeys /\ snapshot[w][k] = 0 /\ k \notin writeBatch[w]
    BY Zenon, <1>1 DEF ConflictInv
  <2>1. Reading(w) /\ snapshotId'[w] = snapshotId[w]
    BY <1>7, <1>8 DEF Reading
  <2>2. \/ keyInfo[k] > snapshotId[w]
        \/ uncommitted[k] \in Units /\ pc[uncommitted[k]] = "written"
        \/ k \in RecordKeys /\ snapshot[w][k] = 0 /\ k \notin writeBatch[w]
    BY Zenon, <2>1 DEF ConflictInv
  <2> QED
    BY Zenon, <1>8, <2>1, <2>2
<1>11. RegisteredInv'
  <2> SUFFICES ASSUME NEW w \in Units, snapshotId'[w] # NoId, NEW k \in writtenKeys[w]
               PROVE  keyInfo[k] <= snapshotId'[w]
    BY <1>1 DEF RegisteredInv, SnapshotInitialized
  <2>1. CASE w = u
    <3>1. k \in Keys /\ snapshotId'[w] = latestSnapshotId
      BY <1>1, <2>1 DEF TypeOK
    <3> QED
      BY Zenon, <3>1 DEF BoundInv
  <2>2. CASE w # u
    <3>1. snapshotId'[w] = snapshotId[w]
      BY Zenon, <1>1, <2>2 DEF TypeOK
    <3> QED
      BY Zenon, <3>1 DEF RegisteredInv, SnapshotInitialized
  <2> QED
    BY Zenon, <2>1, <2>2
<1> QED
  BY Zenon, <1>3, <1>4, <1>5, <1>6, <1>9, <1>10, <1>11

(* A snapshot taken after its id: what it does not see is above the id or pending. *)
LEMMA GetSnapshotStep ==
  ASSUME IndInv, NEW u \in Units, GetSnapshot(u)
  PROVE  IndInv'
<1> USE DEF IndInv
<1>1. /\ pc[u] = "recorded"
      /\ snapshot' = [snapshot EXCEPT ![u] = db]
      /\ pc' = [pc EXCEPT ![u] = "open"]
      /\ UNCHANGED <<latestSnapshotId, keyInfo, uncommitted, activeSnapshots, snapshotId,
                     writtenKeys, writeBatch, db, dbSeq, allocated>>
  BY Zenon DEF GetSnapshot, engineVars, dbVars
<1>2. db # NoSnapshot
  BY ConstantsAssumption DEF TypeOK, NoSnapshot
<1>3. TypeOK' /\ ActiveSnapshotsSorted'
  <2>1. TypeOK'
    BY Zenon, <1>1 DEF TypeOK
  <2> QED
    BY Zenon, <1>1, <2>1, SortedKept
<1>4. PhaseInv'
  BY Zenon, <1>1, <1>2 DEF PhaseInv, TypeOK, SnapshotInitialized
<1>5. \A w \in Units : w # u => snapshot'[w] = snapshot[w] /\ pc'[w] = pc[w]
  BY Zenon, <1>1 DEF TypeOK
<1>6. snapshot'[u] = db /\ pc'[u] = "open"
  BY Zenon, <1>1 DEF TypeOK
<1>7. BoundInv'
  BY <1>1, <1>5, <1>6 DEF BoundInv, TypeOK
<1>8. OwnerInv' /\ FreshInv' /\ RegisteredInv'
  <2>1. \A w \in Units : pc'[w] # "written" => pc[w] # "written"
    BY <1>1, <1>5
  <2> QED
    BY Zenon, <1>1, <2>1, OwnerKept, FreshKept, RegisteredKept
<1>9. ConflictInv'
  <2> SUFFICES ASSUME NEW w \in Units, NEW k \in Keys,
                      Reading(w)', snapshot'[w] # NoSnapshot, snapshot'[w][k] # db'[k]
               PROVE  \/ keyInfo'[k] > snapshotId'[w]
                      \/ uncommitted'[k] \in Units /\ pc'[uncommitted'[k]] = "written"
                      \/ k \in RecordKeys /\ snapshot'[w][k] = 0 /\ k \notin writeBatch'[w]
    BY Zenon DEF ConflictInv
  <2>1. w # u
    BY Zenon, <1>1, <1>6
  <2>2. Reading(w) /\ snapshot[w] # NoSnapshot /\ snapshot[w][k] # db[k]
    BY Zenon, <1>1, <1>5, <2>1 DEF Reading
  <2>3. uncommitted[k] \in Units /\ pc[uncommitted[k]] = "written" =>
          pc'[uncommitted[k]] = "written"
    BY <1>1, <1>5
  <2>4. \/ keyInfo[k] > snapshotId[w]
        \/ uncommitted[k] \in Units /\ pc[uncommitted[k]] = "written"
        \/ k \in RecordKeys /\ snapshot[w][k] = 0 /\ k \notin writeBatch[w]
    BY Zenon, <2>2 DEF ConflictInv
  <2> QED
    BY Zenon, <1>1, <1>5, <2>1, <2>3, <2>4
<1>10. UnchangedInv'
  <2> SUFFICES ASSUME NEW w \in Units, Reading(w)', snapshot'[w] # NoSnapshot,
                      NEW k \in writtenKeys'[w] \cup writeBatch'[w]
               PROVE  snapshot'[w][k] = db'[k]
    BY Zenon DEF UnchangedInv
  <2>1. writtenKeys' = writtenKeys /\ writeBatch' = writeBatch /\ db' = db
    BY <1>1
  <2>2. CASE w = u
    BY <1>6, <2>1, <2>2
  <2>3. CASE w # u
    <3>1. Reading(w) /\ snapshot'[w] = snapshot[w]
      BY Zenon, <1>5, <2>3 DEF Reading
    <3> QED
      BY Zenon, <2>1, <3>1 DEF UnchangedInv
  <2> QED
    BY <2>2, <2>3
<1> QED
  BY Zenon, <1>3, <1>4, <1>7, <1>8, <1>9, <1>10

(* registerWrite succeeds only on a key that is unchanged since the snapshot. *)
LEMMA RegisterWriteStep ==
  ASSUME IndInv, NEW u \in Units, NEW k \in Keys, RegisterWrite(u, k)
  PROVE  IndInv'
<1> USE DEF IndInv
<1>1. /\ pc[u] = "open" /\ KnownKey(u, k)
      /\ UNCHANGED <<latestSnapshotId, keyInfo, activeSnapshots, snapshotId, snapshot,
                     db, dbSeq, allocated>>
  BY DEF RegisterWrite, dbVars
<1>2. CASE /\ pc' = [pc EXCEPT ![u] = "conflict"]
           /\ UNCHANGED <<uncommitted, writtenKeys, writeBatch>>
  <2>1. \A w \in Units : (pc[w] = "open" /\ pc'[w] = "conflict") \/ pc'[w] = pc[w]
    BY <1>1, <1>2 DEF TypeOK
  <2>2. TypeOK'
    BY <1>1, <1>2 DEF TypeOK
  <2>3. PhaseInv'
    BY <1>1, <1>2, <2>1, PhaseKept
  <2>4. ActiveSnapshotsSorted' /\ BoundInv' /\ OwnerInv' /\ RegisteredInv'
    BY Zenon, <1>1, <1>2, SortedKept, BoundKept, OwnerKept, RegisteredKept
  <2>5. \A w \in Units : /\ Reading(w)' => Reading(w)
                         /\ pc'[w] = "written" <=> pc[w] = "written"
    BY <2>1 DEF Reading
  <2>6. FreshInv' /\ ConflictInv' /\ UnchangedInv'
    BY Zenon, <1>1, <1>2, <2>5, FreshKept, ConflictKept, UnchangedKept
  <2> QED
    BY <2>2, <2>3, <2>4, <2>6
<1>3. CASE /\ ~IsKeyCommittedAfterSnapshot(k, snapshotId[u])
           /\ uncommitted[k] \in {NoUnit, u}
           /\ writtenKeys' = [writtenKeys EXCEPT ![u] = @ \cup {k}]
           /\ uncommitted' = [uncommitted EXCEPT ![k] = u]
           /\ writeBatch' = [writeBatch EXCEPT ![u] = @ \cup {k}]
           /\ UNCHANGED pc
  <2>1. /\ \A w \in Units : writtenKeys'[w] = IF w = u THEN writtenKeys[u] \cup {k}
                                                       ELSE writtenKeys[w]
        /\ \A w \in Units : writeBatch'[w] = IF w = u THEN writeBatch[u] \cup {k}
                                                      ELSE writeBatch[w]
        /\ \A j \in Keys : uncommitted'[j] = IF j = k THEN u ELSE uncommitted[j]
    BY Zenon, <1>3 DEF TypeOK
  <2>2. TypeOK'
    BY <1>1, <1>3 DEF TypeOK
  <2>3. PhaseInv'
    BY Zenon, <1>1, <1>3, <2>1, PhaseKept
  <2>4. BoundInv' /\ ActiveSnapshotsSorted'
    BY Zenon, <1>1, BoundKept, SortedKept
  <2>5. OwnerInv'
    <3> SUFFICES ASSUME NEW w \in Units, NEW j \in Keys
                 PROVE  j \in writtenKeys'[w] <=> uncommitted'[j] = w
      BY Zenon DEF OwnerInv
    <3>1. j \in writtenKeys[w] <=> uncommitted[j] = w
      BY Zenon DEF OwnerInv
    <3>2. j = k => uncommitted[j] = NoUnit \/ uncommitted[j] = u
      BY <1>3
    <3>3. NoUnit # w
      BY ConstantsAssumption
    <3> QED
      BY <2>1, <3>1, <3>2, <3>3
  <2>6. k \in RecordKeys => k \in writeBatch[u] \/ db[k] # 0
    BY SMTT(60), <1>1 DEF KnownKey, BoundInv, TypeOK
  <2>7. FreshInv'
    <3>1. k \in RecordKeys => k \in allocated
      BY Zenon, <2>6 DEF FreshInv
    <3>2. \A w \in Units : w # u /\ k \in writeBatch[w] \ writtenKeys[w] => pc[w] = "written"
      BY Zenon, <2>6 DEF FreshInv
    <3>3. db' = db /\ allocated' = allocated /\ pc' = pc
      BY <1>1, <1>3
    <3>4. ASSUME NEW j \in RecordKeys \ allocated'
          PROVE  db'[j] = 0 /\ \A w \in Units : j \notin writeBatch'[w] /\ j \notin writtenKeys'[w]
      <4>1. j # k /\ db[j] = 0 /\ \A w \in Units : j \notin writeBatch[w] /\ j \notin writtenKeys[w]
        BY Zenon, <3>1, <3>3 DEF FreshInv
      <4> QED
        BY <2>1, <3>3, <4>1
    <3>5. ASSUME NEW w \in Units, NEW j \in writeBatch'[w] \ writtenKeys'[w], pc'[w] # "written"
          PROVE  /\ j \in RecordKeys /\ db'[j] = 0
                 /\ \A v \in Units \ {w} : j \notin writeBatch'[v] /\ j \notin writtenKeys'[v]
      <4>1. j \in writeBatch[w] \ writtenKeys[w] /\ (w = u => j # k)
        BY <2>1
      <4>2. /\ j \in RecordKeys /\ db[j] = 0
            /\ \A v \in Units \ {w} : j \notin writeBatch[v] /\ j \notin writtenKeys[v]
        BY Zenon, <3>3, <3>5, <4>1 DEF FreshInv
      <4>3. j # k
        BY Zenon, <3>2, <3>3, <3>5, <4>1
      <4> QED
        BY <2>1, <3>3, <4>2, <4>3
    <3> QED
      BY Zenon, <3>4, <3>5 DEF FreshInv
  <2>8. snapshot[u] # NoSnapshot => snapshot[u][k] = db[k]
    <3> SUFFICES ASSUME snapshot[u] # NoSnapshot, snapshot[u][k] # db[k]
                 PROVE  FALSE
      BY Zenon
    <3>1. SnapshotInitialized(u)
      BY Zenon, <1>1 DEF PhaseInv
    <3>2. ~(keyInfo[k] > snapshotId[u])
      BY Zenon, <1>3, <3>1 DEF IsKeyCommittedAfterSnapshot, SnapshotInitialized
    <3>3. ~(uncommitted[k] \in Units /\ pc[uncommitted[k]] = "written")
      BY Zenon, <1>1, <1>3, ConstantsAssumption
    <3>4. ~(k \in RecordKeys /\ snapshot[u][k] = 0 /\ k \notin writeBatch[u])
      BY Zenon, <1>1 DEF KnownKey
    <3> QED
      BY Zenon, <1>1, <3>2, <3>3, <3>4 DEF ConflictInv, Reading
  <2>9. UnchangedInv'
    <3> SUFFICES ASSUME NEW w \in Units, Reading(w), snapshot[w] # NoSnapshot,
                        NEW j \in writtenKeys'[w] \cup writeBatch'[w]
                 PROVE  snapshot[w][j] = db[j]
      BY Zenon, <1>1, <1>3 DEF UnchangedInv, Reading
    <3>1. CASE j \in writtenKeys[w] \cup writeBatch[w]
      BY Zenon, <3>1 DEF UnchangedInv
    <3>2. CASE w = u /\ j = k
      BY Zenon, <2>8, <3>2
    <3> QED
      BY Zenon, <2>1, <3>1, <3>2
  <2>10. RegisteredInv'
    <3>1. SnapshotInitialized(u) => keyInfo[k] <= snapshotId[u]
      BY SMTT(60), <1>3 DEF IsKeyCommittedAfterSnapshot, SnapshotInitialized, TypeOK
    <3> QED
      BY Zenon, <1>1, <2>1, <3>1 DEF RegisteredInv, SnapshotInitialized
  <2>11. ConflictInv'
    <3> SUFFICES ASSUME NEW w \in Units, NEW j \in Keys,
                        Reading(w), snapshot[w] # NoSnapshot, snapshot[w][j] # db[j]
                 PROVE  \/ keyInfo[j] > snapshotId[w]
                        \/ uncommitted'[j] \in Units /\ pc[uncommitted'[j]] = "written"
                        \/ j \in RecordKeys /\ snapshot[w][j] = 0 /\ j \notin writeBatch'[w]
      BY Zenon, <1>1, <1>3 DEF ConflictInv, Reading
    <3>1. CASE uncommitted[j] \in Units /\ pc[uncommitted[j]] = "written"
      <4>1. j # k
        BY Zenon, <1>1, <1>3, <3>1, ConstantsAssumption
      <4> QED
        BY Zenon, <2>1, <3>1, <4>1
    <3>2. CASE j \in RecordKeys /\ snapshot[w][j] = 0 /\ j \notin writeBatch[w]
      <4>1. ~(w = u /\ j = k)
        BY Zenon, <2>8
      <4>2. j \notin writeBatch'[w]
        BY Zenon, <2>1, <3>2, <4>1
      <4> QED
        BY Zenon, <3>2, <4>2
    <3> QED
      BY Zenon, <3>1, <3>2 DEF ConflictInv
  <2> QED
    BY Zenon, <2>2, <2>3, <2>4, <2>5, <2>7, <2>9, <2>10, <2>11
<1> QED
  BY <1>2, <1>3 DEF RegisterWrite

(* A record key just handed out is in no snapshot and in no other batch. *)
LEMMA InsertRecordStep ==
  ASSUME IndInv, NEW u \in Units, NEW k \in Keys, InsertRecord(u, k)
  PROVE  IndInv'
<1> USE DEF IndInv
<1>1. /\ pc[u] = "open" /\ k \in RecordKeys \ allocated
      /\ allocated' = allocated \cup {k}
      /\ writeBatch' = [writeBatch EXCEPT ![u] = @ \cup {k}]
      /\ UNCHANGED <<latestSnapshotId, keyInfo, uncommitted, activeSnapshots, snapshotId,
                     writtenKeys, pc, snapshot, db, dbSeq>>
  BY Zenon DEF InsertRecord, engineVars, dbVars
<1>2. \A w \in Units : writeBatch'[w] = IF w = u THEN writeBatch[u] \cup {k} ELSE writeBatch[w]
  BY Zenon, <1>1 DEF TypeOK
<1>3. db[k] = 0 /\ \A w \in Units : k \notin writeBatch[w] /\ k \notin writtenKeys[w]
  BY Zenon, <1>1 DEF FreshInv
<1>4. \A w \in Units : snapshot[w] # NoSnapshot => snapshot[w][k] = 0
  BY SMTT(60), <1>3 DEF BoundInv, TypeOK
<1>5. TypeOK'
  BY Zenon, <1>1 DEF TypeOK
<1>6. PhaseInv'
  BY Zenon, <1>1, <1>2, PhaseKept
<1>7. ActiveSnapshotsSorted' /\ BoundInv' /\ OwnerInv' /\ RegisteredInv'
  BY Zenon, <1>1, SortedKept, BoundKept, OwnerKept, RegisteredKept
<1>8. FreshInv'
  BY SMTT(60), <1>1, <1>2, <1>3 DEF FreshInv
<1>9. ConflictInv'
  BY <1>1, <1>2, <1>3, <1>4, SMTT(60) DEF ConflictInv, Reading
<1>10. UnchangedInv'
  BY <1>1, <1>2, <1>3, <1>4 DEF UnchangedInv, Reading
<1> QED
  BY Zenon, <1>5, <1>6, <1>7, <1>8, <1>9, <1>10
-----------------------------------------------------------------------------

(* _db->Write: the keys in the batch are the unit's own, so the units whose *)
(* snapshot they leave behind are covered by ConflictInv.                   *)
LEMMA CommitWriteStep ==
  ASSUME IndInv, NEW u \in Units, CommitWrite(u)
  PROVE  IndInv'
<1> USE DEF IndInv
<1>1. /\ pc[u] = "open"
      /\ dbSeq' = dbSeq + 1
      /\ db' = [k \in Keys |-> IF k \in writeBatch[u] THEN dbSeq' ELSE db[k]]
      /\ pc' = [pc EXCEPT ![u] = "written"]
      /\ UNCHANGED <<latestSnapshotId, keyInfo, uncommitted, activeSnapshots, snapshotId,
                     writtenKeys, snapshot, writeBatch, allocated>>
  BY DEF CommitWrite, engineVars
<1>2. \A w \in Units : pc'[w] = IF w = u THEN "written" ELSE pc[w]
  BY Zenon, <1>1 DEF TypeOK
<1>3. \A k \in Keys : db'[k] = IF k \in writeBatch[u] THEN dbSeq + 1 ELSE db[k]
  BY Zenon, <1>1
<1>4. TypeOK' /\ ActiveSnapshotsSorted'
  BY <1>1 DEF TypeOK, ActiveSnapshotsSorted, SnapshotInitialized
<1>5. PhaseInv'
  BY <1>1, <1>2 DEF PhaseInv, SnapshotInitialized
<1>6. BoundInv'
  <2>1. dbSeq \in Nat /\ \A k \in Keys : db[k] \in Nat /\ db[k] <= db'[k] /\ db'[k] <= dbSeq'
    BY <1>1, <1>3 DEF BoundInv, TypeOK
  <2>2. \A w \in Units, k \in Keys : snapshot[w] # NoSnapshot => snapshot[w][k] \in Nat
    BY Zenon DEF TypeOK
  <2>3. \A w \in Units, k \in Keys : snapshot[w] # NoSnapshot => snapshot[w][k] <= db'[k]
    BY SMTT(60), <2>1, <2>2, <1>4 DEF BoundInv, TypeOK
  <2> QED
    BY Zenon, <1>1, <2>1, <2>3 DEF BoundInv
<1>7. OwnerInv' /\ RegisteredInv'
  BY <1>1 DEF OwnerInv, RegisteredInv, SnapshotInitialized
<1>8. FreshInv'
  <2>1. \A k \in RecordKeys \ allocated : k \notin writeBatch[u] /\ k \in Keys
    BY ConstantsAssumption DEF FreshInv
  <2>2. \A w \in Units : \A k \in writeBatch[w] \ writtenKeys[w] :
          w # u /\ pc[w] # "written" => k \in Keys /\ k \notin writeBatch[u]
    BY DEF FreshInv, TypeOK
  <2>3. \A k \in RecordKeys \ allocated :
          db'[k] = 0 /\ \A w \in Units : k \notin writeBatch[w] /\ k \notin writtenKeys[w]
    BY <1>3, <2>1 DEF FreshInv
  <2>4. ASSUME NEW w \in Units, NEW k \in writeBatch[w] \ writtenKeys[w], pc'[w] # "written"
        PROVE  /\ k \in RecordKeys /\ db'[k] = 0
               /\ \A v \in Units \ {w} : k \notin writeBatch[v] /\ k \notin writtenKeys[v]
    <3>1. w # u /\ pc[w] # "written"
      BY <1>2, <2>4
    <3>2. k \in Keys /\ k \notin writeBatch[u]
      BY <2>2, <3>1
    <3>3. db'[k] = db[k]
      BY Zenon, <1>3, <3>2
    <3> QED
      BY Zenon, <3>1, <3>3 DEF FreshInv
  <2>5. writeBatch' = writeBatch /\ writtenKeys' = writtenKeys /\ allocated' = allocated
    BY <1>1
  <2> QED
    BY Zenon, <2>3, <2>4, <2>5 DEF FreshInv
<1>9. \A k \in writeBatch[u] :
        \/ uncommitted[k] = u
        \/ /\ k \in RecordKeys /\ db[k] = 0
           /\ \A w \in Units \ {u} : k \notin writeBatch[w] /\ k \notin writtenKeys[w]
  BY Zenon, <1>1 DEF FreshInv, OwnerInv, TypeOK
<1>10. ConflictInv'
  <2> SUFFICES ASSUME NEW w \in Units, NEW k \in Keys,
                      Reading(w)', snapshot[w] # NoSnapshot, snapshot[w][k] # db'[k]
               PROVE  \/ keyInfo[k] > snapshotId[w]
                      \/ uncommitted[k] \in Units /\ pc'[uncommitted[k]] = "written"
                      \/ k \in RecordKeys /\ snapshot[w][k] = 0 /\ k \notin writeBatch[w]
    BY Zenon, <1>1 DEF ConflictInv
  <2>1. w # u /\ Reading(w)
    BY Zenon, <1>2 DEF Reading
  <2>2. CASE k \in writeBatch[u]
    <3>1. CASE uncommitted[k] = u
      BY Zenon, <1>2, <3>1
    <3>2. CASE /\ k \in RecordKeys /\ db[k] = 0
               /\ \A v \in Units \ {u} : k \notin writeBatch[v] /\ k \notin writtenKeys[v]
      BY <2>1, <3>2 DEF BoundInv, TypeOK
    <3> QED
      BY Zenon, <1>9, <2>2, <3>1, <3>2
  <2>3. CASE k \notin writeBatch[u]
    BY <1>2, <1>3, <2>1, <2>3 DEF ConflictInv
  <2> QED
    BY Zenon, <2>2, <2>3
<1>11. UnchangedInv'
  <2> SUFFICES ASSUME NEW w \in Units, Reading(w)', snapshot[w] # NoSnapshot,
                      NEW k \in writtenKeys[w] \cup writeBatch[w]
               PROVE  snapshot[w][k] = db'[k]
    BY <1>1 DEF UnchangedInv
  <2>1. w # u /\ Reading(w) /\ pc[w] # "written" /\ k \in Keys
    BY Zenon, <1>2 DEF Reading, TypeOK
  <2>2. k \notin writeBatch[u]
    BY <1>9, <2>1 DEF FreshInv, OwnerInv
  <2> QED
    BY Zenon, <1>3, <2>1, <2>2 DEF UnchangedInv
<1> QED
  BY Zenon, <1>4, <1>5, <1>6, <1>7, <1>8, <1>10, <1>11

(* RocksTransaction::commit: what the pending owner protected is now protected *)
(* by the commit's id in _keyInfo.                                             *)
LEMMA CommitTransactionStep ==
  ASSUME IndInv, NEW u \in Units, CommitTransaction(u)
  PROVE  IndInv'
<1> USE DEF IndInv
<1> DEFINE n == latestSnapshotId + 1
           info == [k \in Keys |-> IF k \in writtenKeys[u] THEN n ELSE keyInfo[k]]
<1>1. /\ pc[u] = "written"
      /\ writeBatch' = [writeBatch EXCEPT ![u] = {}]
      /\ pc' = [pc EXCEPT ![u] = "committed"]
      /\ UNCHANGED <<snapshot, db, dbSeq, allocated>>
  BY Zenon DEF CommitTransaction, dbVars
<1>2. \A w \in Units : /\ pc'[w] = IF w = u THEN "committed" ELSE pc[w]
                       /\ writeBatch'[w] = IF w = u THEN {} ELSE writeBatch[w]
  BY <1>1 DEF TypeOK
<1>3. CASE writtenKeys[u] = {} /\ UNCHANGED engineVars
  <2>1. UNCHANGED <<latestSnapshotId, keyInfo, uncommitted, activeSnapshots, snapshotId,
                    writtenKeys>>
    BY Zenon, <1>3 DEF engineVars
  <2>e. /\ latestSnapshotId' = latestSnapshotId /\ keyInfo' = keyInfo /\ uncommitted' = uncommitted
        /\ activeSnapshots' = activeSnapshots /\ snapshotId' = snapshotId
        /\ writtenKeys' = writtenKeys /\ snapshot' = snapshot /\ db' = db /\ dbSeq' = dbSeq
        /\ allocated' = allocated
    BY <1>1, <2>1
  <2>t. TypeOK'
    BY <1>1, <2>e DEF TypeOK
  <2>2. ActiveSnapshotsSorted' /\ BoundInv' /\ OwnerInv' /\ RegisteredInv'
    BY <2>e, SortedKept, BoundKept, OwnerKept, RegisteredKept
  <2>3. PhaseInv'
    <3> SUFFICES ASSUME NEW w \in Units
                 PROVE  (/\ pc[w] \in {"open", "conflict", "written"} =>
                              (SnapshotInitialized(w) <=> snapshot[w] # NoSnapshot)
                         /\ pc[w] = "recorded" => SnapshotInitialized(w) /\ snapshot[w] = NoSnapshot
                         /\ pc[w] = "committed" => /\ writtenKeys[w] = {} /\ writeBatch[w] = {}
                                                   /\ SnapshotInitialized(w) => snapshot[w] # NoSnapshot)'
      BY Zenon DEF PhaseInv
    <3>1. SnapshotInitialized(w)' <=> SnapshotInitialized(w)
      BY Zenon, <2>e DEF SnapshotInitialized
    <3>2. CASE w = u
      <4>1. pc'[w] = "committed" /\ writeBatch'[w] = {} /\ writtenKeys'[w] = {}
            /\ (SnapshotInitialized(w) => snapshot[w] # NoSnapshot)
        BY Zenon, <1>1, <1>2, <1>3, <2>e, <3>2 DEF PhaseInv
      <4> QED
        BY <2>e, <3>1, <4>1
    <3>3. CASE w # u
      <4>1. pc'[w] = pc[w] /\ writeBatch'[w] = writeBatch[w]
        BY Zenon, <1>2, <3>3
      <4> QED
        BY Zenon, <2>e, <3>1, <4>1 DEF PhaseInv
    <3> QED
      BY Zenon, <3>2, <3>3
  <2>5. FreshInv'
    <3>1. ASSUME NEW w \in Units, NEW k
          PROVE  /\ k \in writeBatch'[w] => k \in writeBatch[w]
                 /\ k \in writtenKeys'[w] => k \in writtenKeys[w]
                 /\ k \in writeBatch'[w] \ writtenKeys'[w] =>
                      k \notin writtenKeys[w] /\ (pc'[w] # "written" => pc[w] # "written")
      BY <1>2, <2>e
    <3> QED
      BY Zenon, <2>e, <3>1, FreshShrunk
  <2>6. \A k \in Keys : uncommitted[k] # u
    BY Zenon, <1>3 DEF OwnerInv
  <2>7. ConflictInv'
    <3>1. \A w \in Units : Reading(w)' => Reading(w) /\ writeBatch'[w] = writeBatch[w]
      BY <1>2 DEF Reading
    <3>2. \A k \in Keys : uncommitted[k] \in Units => pc'[uncommitted[k]] = pc[uncommitted[k]]
      BY Zenon, <1>2, <2>6
    <3> QED
      BY Zenon, <2>e, <3>1, <3>2 DEF ConflictInv
  <2>8. UnchangedInv'
    <3>1. \A w \in Units : Reading(w)' => Reading(w) /\ writeBatch'[w] = writeBatch[w]
      BY <1>2 DEF Reading
    <3> QED
      BY Zenon, <2>e, <3>1 DEF UnchangedInv
  <2> QED
    BY Zenon, <2>t, <2>2, <2>3, <2>5, <2>7, <2>8
<1>4. CASE /\ uncommitted' = [k \in Keys |-> IF k \in writtenKeys[u] THEN NoUnit
                                                                     ELSE uncommitted[k]]
           /\ Cleanup(u, info)
           /\ latestSnapshotId' = n
           /\ writtenKeys' = [writtenKeys EXCEPT ![u] = {}]
  <2>1. n \in Nat \ {0} /\ info \in [Keys -> Nat]
    BY DEF TypeOK
  <2>2. /\ activeSnapshots' \in Seq(Units)
        /\ snapshotId' = [snapshotId EXCEPT ![u] = NoId]
        /\ keyInfo' \in [Keys -> Nat]
        /\ ActiveSnapshotsSorted'
        /\ \A k \in Keys : keyInfo'[k] = info[k] \/ keyInfo'[k] = 0
        /\ \A w \in Units \ {u}, k \in Keys :
             SnapshotInitialized(w) /\ info[k] > snapshotId[w] => keyInfo'[k] = info[k]
    <3> HIDE DEF info
    <3> QED
      BY ZenonT(60), <1>4, <2>1, CleanupProperties
  <2>3. /\ \A w \in Units : snapshotId'[w] = IF w = u THEN NoId ELSE snapshotId[w]
        /\ \A w \in Units : writtenKeys'[w] = IF w = u THEN {} ELSE writtenKeys[w]
        /\ \A k \in Keys : uncommitted'[k] = IF k \in writtenKeys[u] THEN NoUnit
                                                                     ELSE uncommitted[k]
    BY Zenon, <1>4, <2>2 DEF TypeOK
  <2>4. TypeOK'
    <3>1. snapshotId' \in [Units -> Nat] /\ writtenKeys' \in [Units -> SUBSET Keys]
      BY Zenon, <1>4, <2>2 DEF TypeOK, NoId
    <3>2. uncommitted' \in [Keys -> Units \cup {NoUnit}]
      BY Zenon, <1>4 DEF TypeOK
    <3>3. writeBatch' \in [Units -> SUBSET Keys] /\ pc' \in [Units ->
            {"open", "recorded", "conflict", "written", "committed"}]
      BY Zenon, <1>1 DEF TypeOK
    <3>4. latestSnapshotId' \in Nat \ {0}
      BY Zenon, <1>4, <2>1
    <3>5. /\ snapshot' \in [Units -> [Keys -> Nat] \cup {NoSnapshot}]
          /\ db' \in [Keys -> Nat] /\ dbSeq' \in Nat /\ allocated' \in SUBSET RecordKeys
      BY Zenon, <1>1 DEF TypeOK
    <3> QED
      BY Zenon, <2>2, <3>1, <3>2, <3>3, <3>4, <3>5 DEF TypeOK
  <2>5. PhaseInv'
    BY <1>1, <1>2, <2>3, SMTT(60) DEF PhaseInv, SnapshotInitialized
  <2>6. BoundInv'
    <3>1. \A w \in Units : snapshotId'[w] <= n
      <4>1. latestSnapshotId \in Nat
            /\ \A w \in Units : snapshotId[w] \in Nat /\ snapshotId[w] <= latestSnapshotId
        BY Zenon DEF BoundInv, TypeOK
      <4> QED
        BY <2>3, <4>1 DEF NoId
    <3>2. \A k \in Keys : info[k] <= n
      <4>1. latestSnapshotId \in Nat /\ \A k \in Keys : keyInfo[k] \in Nat /\ keyInfo[k] <= latestSnapshotId
        BY Zenon DEF BoundInv, TypeOK
      <4>2. \A k \in Keys : info[k] = n \/ info[k] = keyInfo[k]
        BY Zenon
      <4> QED
        BY <4>1, <4>2
    <3>3. \A k \in Keys : keyInfo'[k] <= n
      <4> HIDE DEF info, n
      <4>1. n \in Nat /\ 0 <= n
        BY <2>1
      <4> QED
        BY Zenon, <2>2, <3>2, <4>1
    <3> QED
      BY Zenon, <1>1, <1>4, <3>1, <3>3 DEF BoundInv
  <2>7. OwnerInv'
    <3> SUFFICES ASSUME NEW w \in Units, NEW k \in Keys
                 PROVE  k \in writtenKeys'[w] <=> uncommitted'[k] = w
      BY Zenon DEF OwnerInv
    <3>1. k \in writtenKeys[w] <=> uncommitted[k] = w
      BY Zenon DEF OwnerInv
    <3>2. k \in writtenKeys[u] <=> uncommitted[k] = u
      BY Zenon DEF OwnerInv
    <3>3. NoUnit # w
      BY ConstantsAssumption
    <3> QED
      BY <2>3, <3>1, <3>2, <3>3
  <2>8. FreshInv'
    <3>1. db' = db /\ allocated' = allocated
      BY <1>1
    <3>2. ASSUME NEW w \in Units, NEW k
          PROVE  /\ k \in writeBatch'[w] => k \in writeBatch[w]
                 /\ k \in writtenKeys'[w] => k \in writtenKeys[w]
                 /\ k \in writeBatch'[w] \ writtenKeys'[w] =>
                      k \notin writtenKeys[w] /\ (pc'[w] # "written" => pc[w] # "written")
      BY <1>2, <2>3
    <3> QED
      BY Zenon, <3>1, <3>2, FreshShrunk
  <2>9. ConflictInv'
    <3> SUFFICES ASSUME NEW w \in Units, NEW k \in Keys,
                        Reading(w)', snapshot[w] # NoSnapshot, snapshot[w][k] # db[k]
                 PROVE  \/ keyInfo'[k] > snapshotId'[w]
                        \/ uncommitted'[k] \in Units /\ pc'[uncommitted'[k]] = "written"
                        \/ k \in RecordKeys /\ snapshot[w][k] = 0 /\ k \notin writeBatch'[w]
      BY Zenon, <1>1 DEF ConflictInv
    <3>1. w # u /\ Reading(w) /\ snapshotId'[w] = snapshotId[w]
      BY Zenon, <1>2, <2>3 DEF Reading
    <3>2. SnapshotInitialized(w)
      BY Zenon, <3>1 DEF PhaseInv, Reading
    <3>3. snapshotId[w] \in Nat /\ snapshotId[w] < n /\ keyInfo[k] \in Nat /\ keyInfo[k] < n
      BY SMTT(60) DEF BoundInv, TypeOK
    <3>4. CASE keyInfo[k] > snapshotId[w]
      <4>1. info[k] > snapshotId[w]
        BY Zenon, <3>3, <3>4
      <4> QED
        BY Zenon, <2>2, <3>1, <3>2, <4>1
    <3>5. CASE uncommitted[k] \in Units /\ pc[uncommitted[k]] = "written"
      <4>1. CASE uncommitted[k] = u
        <5>1. k \in writtenKeys[u]
          BY Zenon, <4>1 DEF OwnerInv
        <5>2. info[k] > snapshotId[w]
          BY Zenon, <3>3, <5>1
        <5> QED
          BY Zenon, <2>2, <3>1, <3>2, <5>2
      <4>2. CASE uncommitted[k] # u
        <5>1. k \notin writtenKeys[u]
          BY Zenon, <4>2 DEF OwnerInv
        <5> QED
          BY Zenon, <1>2, <2>3, <3>5, <4>2, <5>1
      <4> QED
        BY Zenon, <4>1, <4>2
    <3>6. CASE k \in RecordKeys /\ snapshot[w][k] = 0 /\ k \notin writeBatch[w]
      BY Zenon, <1>2, <3>1, <3>6
    <3> QED
      BY Zenon, <3>1, <3>4, <3>5, <3>6 DEF ConflictInv
  <2>10. RegisteredInv'
    <3> SUFFICES ASSUME NEW w \in Units, SnapshotInitialized(w)', NEW k \in writtenKeys'[w]
                 PROVE  keyInfo'[k] <= snapshotId'[w]
      BY Zenon DEF RegisteredInv
    <3>1. /\ w # u /\ snapshotId'[w] = snapshotId[w] /\ SnapshotInitialized(w)
          /\ k \in writtenKeys[w] /\ k \in Keys
      BY Zenon, <2>3 DEF SnapshotInitialized, TypeOK
    <3>2. k \notin writtenKeys[u]
      <4>1. uncommitted[k] = w
        BY Zenon, <3>1 DEF OwnerInv
      <4>2. k \in writtenKeys[u] => uncommitted[k] = u
        BY Zenon, <3>1 DEF OwnerInv
      <4> QED
        BY Zenon, <3>1, <4>1, <4>2
    <3>3. info[k] = keyInfo[k] /\ keyInfo[k] <= snapshotId[w] /\ snapshotId[w] \in Nat
      BY Zenon, <3>1, <3>2 DEF RegisteredInv, TypeOK
    <3>4. keyInfo'[k] = info[k] \/ keyInfo'[k] = 0
      BY Zenon, <2>2, <3>1
    <3> HIDE DEF info
    <3> QED
      BY <3>1, <3>3, <3>4
  <2>11. UnchangedInv'
    <3>1. snapshot' = snapshot /\ db' = db
      BY <1>1
    <3>2. \A w \in Units : Reading(w)' => /\ Reading(w) /\ writeBatch'[w] = writeBatch[w]
                                          /\ writtenKeys'[w] = writtenKeys[w]
      BY <1>2, <2>3 DEF Reading
    <3> QED
      BY Zenon, <3>1, <3>2 DEF UnchangedInv
  <2> QED
    BY Zenon, <2>2, <2>4, <2>5, <2>6, <2>7, <2>8, <2>9, <2>10, <2>11
<1> QED
  BY Zenon, <1>3, <1>4 DEF CommitTransaction
-----------------------------------------------------------------------------
(* The invariant holds when the engine is constructed. *)
LEMMA InitEstablishesIndInv == Init => IndInv
<1> SUFFICES ASSUME Init PROVE IndInv
  BY Zenon
<1> USE ConstantsAssumption DEF Init, NoId, NoSnapshot
<1>1. TypeOK
  BY DEF TypeOK
<1>2. ActiveSnapshotsSorted
  BY DEF ActiveSnapshotsSorted, SnapshotInitialized
<1>3. PhaseInv /\ RegisteredInv /\ UnchangedInv
  BY Zenon DEF PhaseInv, RegisteredInv, UnchangedInv, SnapshotInitialized
<1>4. BoundInv /\ OwnerInv
  BY DEF BoundInv, OwnerInv
<1>5. FreshInv /\ ConflictInv
  BY Zenon DEF FreshInv, ConflictInv
<1> QED
  BY Zenon, <1>1, <1>2, <1>3, <1>4, <1>5 DEF IndInv

(* Every step keeps the invariant. *)
LEMMA NextPreservesIndInv == IndInv /\ [Next]_vars => IndInv'
<1> SUFFICES ASSUME IndInv, [Next]_vars PROVE IndInv'
  BY Zenon
<1>1. CASE UNCHANGED vars
  <2>1. UNCHANGED <<latestSnapshotId, keyInfo, uncommitted, activeSnapshots, snapshotId,
                    writtenKeys, pc, snapshot, writeBatch, db, dbSeq, allocated>>
    BY <1>1 DEF vars, engineVars, unitVars, dbVars
  <2>2. pc' = pc /\ writtenKeys' = writtenKeys /\ writeBatch' = writeBatch
        /\ \A w \in Units : Reading(w)' <=> Reading(w)
    BY <2>1 DEF Reading
  <2>3. TypeOK'
    BY <2>1 DEF IndInv, TypeOK
  <2>4. ActiveSnapshotsSorted' /\ BoundInv' /\ OwnerInv' /\ RegisteredInv'
    BY <2>1, SortedKept, BoundKept, OwnerKept, RegisteredKept DEF IndInv
  <2>5. PhaseInv' /\ FreshInv'
    BY <2>1, <2>2, PhaseKept, FreshKept DEF IndInv
  <2>6. ConflictInv' /\ UnchangedInv'
    BY <2>1, <2>2, ConflictKept, UnchangedKept DEF IndInv
  <2> QED
    BY Zenon, <2>3, <2>4, <2>5, <2>6 DEF IndInv
<1>2. ASSUME NEW u \in Units, RecordSnapshotId(u) PROVE IndInv'
  BY Zenon, <1>2, RecordSnapshotIdStep
<1>3. ASSUME NEW u \in Units, GetSnapshot(u) PROVE IndInv'
  BY Zenon, <1>3, GetSnapshotStep
<1>4. ASSUME NEW u \in Units, NEW k \in Keys, RegisterWrite(u, k) PROVE IndInv'
  BY Zenon, <1>4, RegisterWriteStep
<1>5. ASSUME NEW u \in Units, NEW k \in Keys, InsertRecord(u, k) PROVE IndInv'
  BY Zenon, <1>5, InsertRecordStep
<1>6. ASSUME NEW u \in Units, CommitWrite(u) PROVE IndInv'
  BY <1>6, CommitWriteStep
<1>7. ASSUME NEW u \in Units, CommitTransaction(u) PROVE IndInv'
  BY <1>7, CommitTransactionStep
<1>8. ASSUME NEW u \in Units, EndCommit(u) PROVE IndInv'
  <2>1. writeBatch' = [writeBatch EXCEPT ![u] = {}]
    BY <1>8 DEF EndCommit, IndInv, PhaseInv, TypeOK
  <2> QED
    BY ZenonT(60), <1>8, <2>1, ReleaseStep DEF EndCommit, ReleaseSnapshot
<1>9. ASSUME NEW u \in Units, Abort(u) PROVE IndInv'
  BY ZenonT(60), <1>9, ReleaseStep DEF Abort, ReleaseSnapshot
<1>10. ASSUME NEW u \in Units, Destroy(u) PROVE IndInv'
  BY ZenonT(60), <1>10, ReleaseStep DEF Destroy
<1> QED
  BY Zenon, <1>1, <1>2, <1>3, <1>4, <1>5, <1>6, <1>7, <1>8, <1>9, <1>10 DEF Next

(* Every reachable state satisfies the inductive invariant. *)
THEOREM Invariance == Spec => []IndInv
  BY InitEstablishesIndInv, NextPreservesIndInv, PTL DEF Spec

(* Every variable keeps its type. *)
THEOREM TypeCorrect == Spec => []TypeOK
<1>1. IndInv => TypeOK
  BY DEF IndInv
<1> QED
  BY <1>1, Invariance, PTL

(* No unit of work ever overwrites a value it has not read: whenever a unit   *)
(* may call _db->Write, its snapshot agrees with the store on every key in    *)
(* its batch.                                                                 *)
THEOREM NoUpdateIsLost == Spec => []NoLostUpdate
<1>1. IndInv => NoLostUpdate
  BY DEF IndInv, NoLostUpdate, UnchangedInv, Reading
<1> QED
  BY <1>1, Invariance, PTL

(* The invariant() calls of RocksTransaction::commit never fire. *)
THEOREM CommitNeverAsserts == Spec => []CommitInvariants
<1>1. IndInv => CommitInvariants
  BY DEF IndInv, CommitInvariants, RegisteredInv, OwnerInv, TypeOK,
         IsKeyCommittedAfterSnapshot, SnapshotInitialized
<1> QED
  BY <1>1, Invariance, PTL

(* _activeSnapshots is sorted, as its declaration says, and holds exactly the *)
(* snapshot ids in use.                                                       *)
THEOREM SnapshotListSorted == Spec => []ActiveSnapshotsSorted
<1>1. IndInv => ActiveSnapshotsSorted
  BY Zenon DEF IndInv
<1> QED
  BY <1>1, Invariance, PTL
-----------------------------------------------------------------------------
(* The empty store is an initial state of SnapshotIsolation. *)
LEMMA InitRefines == Init => Abstract!Init
  BY Zenon DEF Init, Abstract!Init, Installed, NoSnapshot, Abstract!NoView

(* Every step is a step of SnapshotIsolation or changes nothing it sees. *)
LEMMA StepRefines == IndInv /\ [Next]_vars => [Abstract!Next]_(Abstract!vars)
<1> SUFFICES ASSUME IndInv, [Next]_vars PROVE [Abstract!Next]_(Abstract!vars)
  OBVIOUS
<1> DEFINE view == [w \in Units |-> IF Installed(w) THEN NoSnapshot ELSE snapshot[w]]
           writeSet == [w \in Units |-> IF Installed(w) THEN {} ELSE writeBatch[w]]
<1> USE DEF IndInv
<1>0. NoSnapshot = Abstract!NoView
  BY Zenon DEF NoSnapshot, Abstract!NoView
<1>1. ASSUME UNCHANGED <<db, dbSeq>>, view' = view, writeSet' = writeSet
      PROVE  UNCHANGED Abstract!vars
  BY Zenon, <1>1 DEF Abstract!vars
<1>2. CASE UNCHANGED vars
  BY Zenon, <1>1, <1>2 DEF vars, unitVars, dbVars, Installed
<1>3. ASSUME NEW u \in Units, UNCHANGED <<db, dbSeq>>,
             view' = [view EXCEPT ![u] = NoSnapshot], writeSet' = [writeSet EXCEPT ![u] = {}]
      PROVE  Abstract!Next
  BY ZenonT(60), <1>0, <1>3 DEF Abstract!Next, Abstract!Discard
<1>4. ASSUME NEW u \in Units, RecordSnapshotId(u) PROVE UNCHANGED Abstract!vars
  BY <1>1, <1>4 DEF RecordSnapshotId, Installed, TypeOK, dbVars
<1>5. ASSUME NEW u \in Units, GetSnapshot(u) PROVE Abstract!Next
  <2>1. view[u] = NoSnapshot /\ view' = [view EXCEPT ![u] = db] /\ writeSet' = writeSet
    BY ZenonT(60), <1>5 DEF GetSnapshot, PhaseInv, Installed, TypeOK
  <2> QED
    BY ZenonT(60), <1>0, <1>5, <2>1 DEF GetSnapshot, dbVars, Abstract!Next, Abstract!TakeView
<1>6. ASSUME NEW u \in Units, NEW k \in Keys,
             UNCHANGED <<db, dbSeq, snapshot, pc>>, pc[u] = "open",
             writeBatch' = [writeBatch EXCEPT ![u] = @ \cup {k}]
      PROVE  Abstract!Next
  <2>1. view' = view /\ writeSet' = [writeSet EXCEPT ![u] = @ \cup {k}]
    BY ZenonT(60), <1>6 DEF Installed, TypeOK
  <2> QED
    BY ZenonT(60), <1>6, <2>1 DEF Abstract!Next, Abstract!BufferWrite
<1>7. ASSUME NEW u \in Units, NEW k \in Keys, RegisterWrite(u, k)
      PROVE  Abstract!Next \/ UNCHANGED Abstract!vars
  <2>1. UNCHANGED <<db, dbSeq, snapshot>> /\ pc[u] = "open"
    BY Zenon, <1>7 DEF RegisterWrite, dbVars
  <2>2. CASE pc' = [pc EXCEPT ![u] = "conflict"] /\ UNCHANGED writeBatch
    BY Zenon, <1>1, <2>1, <2>2 DEF Installed, TypeOK
  <2>3. CASE pc' = pc /\ writeBatch' = [writeBatch EXCEPT ![u] = @ \cup {k}]
    BY ZenonT(60), <1>6, <2>1, <2>3
  <2> QED
    BY Zenon, <1>7, <2>2, <2>3 DEF RegisterWrite
<1>8. ASSUME NEW u \in Units, NEW k \in Keys, InsertRecord(u, k) PROVE Abstract!Next
  BY ZenonT(60), <1>6, <1>8 DEF InsertRecord, dbVars
<1>9. ASSUME NEW u \in Units, CommitWrite(u) PROVE Abstract!Next
  <2>1. /\ view[u] = snapshot[u] /\ writeSet[u] = writeBatch[u]
        /\ view' = [view EXCEPT ![u] = NoSnapshot] /\ writeSet' = [writeSet EXCEPT ![u] = {}]
    BY ZenonT(60), <1>9 DEF CommitWrite, Installed, TypeOK
  <2>2. view[u] # NoSnapshot => \A k \in writeSet[u] : db[k] = view[u][k]
    BY <1>9, <2>1 DEF CommitWrite, UnchangedInv, Reading
  <2> QED
    BY ZenonT(60), <1>0, <1>9, <2>1, <2>2 DEF CommitWrite, Abstract!Next, Abstract!Commit
<1>10. ASSUME NEW u \in Units, CommitTransaction(u) PROVE UNCHANGED Abstract!vars
  BY Zenon, <1>1, <1>10 DEF CommitTransaction, Installed, TypeOK, dbVars
<1>11. ASSUME NEW u \in Units, UNCHANGED <<db, dbSeq>>, pc' = [pc EXCEPT ![u] = "open"],
              snapshot' = [snapshot EXCEPT ![u] = NoSnapshot],
              writeBatch' = [writeBatch EXCEPT ![u] = {}]
       PROVE  Abstract!Next
  BY ZenonT(60), <1>3, <1>11 DEF Installed, TypeOK
<1>12. ASSUME NEW u \in Units, EndCommit(u) PROVE Abstract!Next
  <2>1. writeBatch' = [writeBatch EXCEPT ![u] = {}]
    BY <1>12 DEF EndCommit, PhaseInv, TypeOK
  <2> QED
    BY ZenonT(60), <1>11, <1>12, <2>1 DEF EndCommit, ReleaseSnapshot, dbVars
<1>13. ASSUME NEW u \in Units, Abort(u) PROVE Abstract!Next
  BY ZenonT(60), <1>11, <1>13 DEF Abort, ReleaseSnapshot, dbVars
<1>14. ASSUME NEW u \in Units, Destroy(u) PROVE Abstract!Next
  BY ZenonT(60), <1>11, <1>14 DEF Destroy, dbVars
<1> QED
  BY Zenon, <1>2, <1>4, <1>5, <1>7, <1>8, <1>9, <1>10, <1>12, <1>13, <1>14 DEF Next

(* The engine implements snapshot isolation with first committer wins.        *)
THEOREM RefinesSnapshotIsolation == Spec => ImplementsSnapshotIsolation
  BY InitRefines, StepRefines, Invariance, PTL
     DEF Spec, ImplementsSnapshotIsolation, Abstract!Spec
=============================================================================
