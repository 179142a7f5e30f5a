---------------------------- MODULE CappedProofs ----------------------------
(* Proofs about CappedVisibility and CappedDelete, for every number of units   *)
(* of work, cursors and waiters and every bound.  The first part is the        *)
(* visibility manager: CapInv is inductive and implies the four invariants.    *)
(* The second is the trimming of capped collections: its steps are steps of    *)
(* the first, or leave it alone, and DelInv is inductive beside CapInv.        *)
EXTENDS CappedDelete, TLAPS

Numbered(t) == txn[t] \in {"open", "written", "done", "aborted"}

(* A unit of work: its record ids, and its write. *)
TxnOK(t) ==
  /\ ~Numbered(t) => first[t] = 0 /\ last[t] = 0
  /\ Numbered(t) => 1 <= first[t] /\ first[t] <= last[t] /\ last[t] < nextId
  /\ txn[t] \in {"written", "done"} <=> logPos[t] # 0
  /\ txn[t] \in {"written", "done"} => inserted[t] = last[t]
  /\ logPos[t] <= logEnd
  /\ first[t] <= highestSeen
  /\ isOplog => inserted[t] <= highestSeen

(* Units of work have ids of their own. *)
RangesInv ==
  /\ \A t \in Txns : TxnOK(t)
  /\ \A t, u \in Txns : t # u /\ Numbered(t) /\ Numbered(u) => last[t] < first[u] \/ last[u] < first[t]
  /\ 1 <= nextId /\ nextId <= MaxRecord + 1 /\ highestSeen < nextId
  /\ durable <= logEnd /\ syncFrom <= logEnd

(* The list of the visibility manager. *)
ListInv ==
  /\ \A t \in Txns : txn[t] \in {"open", "written"} =>
       /\ first[t] \in uncommittedRecords
       /\ first[t] \notin opsWaitingForJournal \cup opsAboutToBeJournaled
  /\ \A x \in uncommittedRecords : \E t \in Txns : first[t] = x /\ txn[t] \in {"open", "written", "done"}
  /\ opsWaitingForJournal \cup opsAboutToBeJournaled \subseteq uncommittedRecords
  /\ opsWaitingForJournal \cap opsAboutToBeJournaled = {}
  /\ journalThread # "syncing" => opsAboutToBeJournaled = {}

(* What the running sync covers, and what is visible. *)
DurableInv ==
  /\ \A t \in Txns : first[t] \in opsAboutToBeJournaled => logPos[t] <= syncFrom
  /\ isOplog => \A u \in Txns : txn[u] = "done" /\ first[u] \notin uncommittedRecords =>
       \/ logPos[u] <= durable
       \/ \A t \in Txns : first[u] < first[t] /\ logPos[t] # 0 => logPos[u] < logPos[t]

Active(t) == txn[t] \in {"open", "written", "done"}
Behind(t, r) == first[t] < reader[r].readTill \/ first[t] <= reader[r].lastLoc

ReaderOK(r) ==
  isOplog /\ reader[r].pc # "closed" =>
    /\ reader[r].lastLoc <= reader[r].readTill /\ reader[r].readTill <= highestSeen
    /\ \A x \in uncommittedRecords : reader[r].lastLoc < x
    /\ reader[r].pc # "eof" => \A x \in uncommittedRecords : reader[r].readTill <= x
    /\ reader[r].pc = "reading" =>
         \A t \in Txns : Active(t) /\ Behind(t, r) => t \in reader[r].snapshot

SnapshotInv ==
  \A r \in Readers : /\ \A t \in reader[r].snapshot : logPos[t] # 0
                     /\ reader[r].pc = "closed" => reader[r].lastLoc = 0

WaiterOK(w) ==
  waiter[w].pc # "idle" =>
    /\ waiter[w].waitingFor <= highestSeen
    /\ \A t \in waiter[w].done : txn[t] = "done" /\ last[t] <= waiter[w].waitingFor
    /\ waiter[w].pc = "returned" => \A x \in uncommittedRecords : waiter[w].waitingFor < x

CapInv ==
  /\ TypeOK /\ RangesInv /\ ListInv /\ DurableInv /\ SnapshotInv
  /\ \A r \in Readers : ReaderOK(r)
  /\ \A w \in Waiters : WaiterOK(w)
-----------------------------------------------------------------------------
Cursor == [pc : {"closed", "opened", "reading", "eof"}, readTill : Nat, snapshot : SUBSET Txns, lastLoc : Nat]
Wait == [pc : {"idle", "asleep", "awake", "returned"}, waitingFor : Nat, done : SUBSET Txns]

(* What the front and the back of a set of record ids are. *)
EndsFound ==
  /\ \A S \in SUBSET Nat : S # {} => Least(S) \in S /\ \A y \in S : Least(S) <= y
  /\ \A S \in SUBSET (0..MaxRecord) : S # {} => Greatest(S) \in S /\ \A y \in S : y <= Greatest(S)

(* Every number is one. *)
LEMMA Numbers ==
  ASSUME TypeOK
  PROVE  /\ \A t \in Txns : first[t] \in Nat /\ last[t] \in Nat /\ inserted[t] \in Nat /\ logPos[t] \in Nat
         /\ highestSeen \in Nat /\ nextId \in Nat /\ logEnd \in Nat /\ durable \in Nat /\ syncFrom \in Nat
         /\ uncommittedRecords \subseteq Nat
BY Zenon DEF TypeOK

LEMMA CursorFields ==
  ASSUME TypeOK, NEW r \in Readers
  PROVE  /\ reader[r] \in Cursor /\ reader[r].readTill \in Nat /\ reader[r].lastLoc \in Nat
         /\ reader[r].snapshot \in SUBSET Txns /\ reader[r].pc \in {"closed", "opened", "reading", "eof"}
<1>1. reader[r] \in Cursor BY Zenon DEF TypeOK, Cursor
<1> QED BY Zenon, <1>1 DEF Cursor

LEMMA WaitFields ==
  ASSUME TypeOK, NEW w \in Waiters
  PROVE  /\ waiter[w] \in Wait /\ waiter[w].waitingFor \in Nat /\ waiter[w].done \in SUBSET Txns
         /\ waiter[w].pc \in {"idle", "asleep", "awake", "returned"}
<1>1. waiter[w] \in Wait BY Zenon DEF TypeOK, Wait
<1> QED BY Zenon, <1>1 DEF Wait

(* Nothing of the units of work changes, and no record id is given out. *)
LEMMA RangesKept ==
  ASSUME RangesInv, isOplog' = isOplog, txn' = txn, first' = first, last' = last, inserted' = inserted,
         nextId' = nextId, highestSeen' = highestSeen, logPos' = logPos, logEnd' = logEnd,
         durable' <= logEnd, syncFrom' <= logEnd
  PROVE  RangesInv'
<1>1. ASSUME NEW t \in Txns PROVE TxnOK(t)' BY Zenon DEF RangesInv, TxnOK, Numbered
<1> QED BY Zenon, <1>1 DEF RangesInv, Numbered

(* Records become visible, or new ones, beyond all, are registered: cursors    *)
(* are not overtaken...                                                        *)
LEMMA ReaderStays ==
  ASSUME TypeOK, NEW r \in Readers, ReaderOK(r), reader'[r] = reader[r], isOplog' = isOplog,
         highestSeen' \in Nat, highestSeen <= highestSeen', uncommittedRecords' \subseteq Nat,
         \A x \in uncommittedRecords' : x \in uncommittedRecords \/ highestSeen < x,
         \A t \in Txns : first'[t] \in Nat,
         \A t \in Txns : Active(t)' => (Active(t) /\ first'[t] = first[t]) \/ highestSeen < first'[t]
  PROVE  ReaderOK(r)'
<1>1. SUFFICES ASSUME isOplog, reader[r].pc # "closed" PROVE ReaderOK(r)' BY Zenon DEF ReaderOK
<1>2. PICK a \in Nat : a = reader[r].lastLoc BY Zenon, CursorFields
<1>3. PICK b \in Nat : b = reader[r].readTill BY Zenon, CursorFields
<1>4. /\ a <= b /\ b <= highestSeen /\ highestSeen \in Nat
      /\ \A x \in uncommittedRecords : a < x
      /\ reader[r].pc # "eof" => \A x \in uncommittedRecords : b <= x
  BY Zenon, <1>1, <1>2, <1>3, Numbers DEF ReaderOK
<1>5. \A x \in uncommittedRecords' : a < x BY <1>4
<1>6. reader[r].pc # "eof" => \A x \in uncommittedRecords' : b <= x BY <1>4
<1>7. b <= highestSeen' BY <1>4
<1>8. ASSUME reader[r].pc = "reading", NEW t \in Txns, Active(t)', first'[t] < b \/ first'[t] <= a
      PROVE  t \in reader[r].snapshot
  <2>1. ~(highestSeen < first'[t]) BY <1>4, <1>8
  <2>2. Active(t) /\ (first[t] < b \/ first[t] <= a) BY Zenon, <1>8, <2>1
  <2> QED BY Zenon, <1>1, <1>2, <1>3, <1>8, <2>2 DEF ReaderOK, Behind
<1> QED BY Zenon, <1>2, <1>3, <1>4, <1>5, <1>6, <1>7, <1>8 DEF ReaderOK, Behind

(* ... and waiters wait for what they did. *)
LEMMA WaiterStays ==
  ASSUME TypeOK, NEW w \in Waiters, WaiterOK(w), waiter'[w].waitingFor = waiter[w].waitingFor,
         waiter'[w].done = waiter[w].done, waiter[w].pc = "idle" => waiter'[w].pc = "idle",
         waiter'[w].pc = "returned" => waiter[w].pc = "returned",
         highestSeen' \in Nat, highestSeen <= highestSeen', uncommittedRecords' \subseteq Nat,
         \A x \in uncommittedRecords' : x \in uncommittedRecords \/ highestSeen < x,
         \A t \in Txns : txn[t] = "done" => txn'[t] = "done" /\ last'[t] = last[t]
  PROVE  WaiterOK(w)'
<1>1. SUFFICES ASSUME waiter[w].pc # "idle" PROVE WaiterOK(w)' BY Zenon DEF WaiterOK
<1>2. PICK a \in Nat : a = waiter[w].waitingFor BY Zenon, WaitFields
<1>3. a <= highestSeen /\ highestSeen \in Nat BY Zenon, <1>1, <1>2, Numbers DEF WaiterOK
<1>4. a <= highestSeen' BY <1>3
<1>5. waiter[w].pc = "returned" => \A x \in uncommittedRecords' : a < x
  <2>1. waiter[w].pc = "returned" => \A x \in uncommittedRecords : a < x BY Zenon, <1>1, <1>2 DEF WaiterOK
  <2> QED BY <1>3, <2>1
<1>6. \A t \in waiter[w].done : txn'[t] = "done" /\ last'[t] <= a
  <2>1. \A t \in waiter[w].done : t \in Txns BY Zenon, WaitFields
  <2> QED BY Zenon, <1>1, <1>2, <2>1 DEF WaiterOK
<1> QED BY Zenon, <1>2, <1>4, <1>5, <1>6 DEF WaiterOK

(* _opsBecameVisibleCV.notify_all() wakes, and nothing else. *)
LEMMA Notified ==
  ASSUME TypeOK, NotifyVisible
  PROVE  /\ waiter' \in [Waiters -> Wait]
         /\ \A w \in Waiters : /\ waiter'[w].waitingFor = waiter[w].waitingFor
                               /\ waiter'[w].done = waiter[w].done
                               /\ waiter[w].pc = "idle" => waiter'[w].pc = "idle"
                               /\ waiter'[w].pc = "returned" => waiter[w].pc = "returned"
<1>1. \A w \in Waiters : waiter'[w] = IF waiter[w].pc = "asleep" THEN [waiter[w] EXCEPT !.pc = "awake"] ELSE waiter[w]
  BY Zenon DEF NotifyVisible
<1>2. ASSUME NEW w \in Waiters
      PROVE  /\ waiter'[w] \in Wait /\ waiter'[w].waitingFor = waiter[w].waitingFor
             /\ waiter'[w].done = waiter[w].done
             /\ waiter[w].pc = "idle" => waiter'[w].pc = "idle"
             /\ waiter'[w].pc = "returned" => waiter[w].pc = "returned"
  <2>1. PICK q \in Wait : q = waiter[w] BY Zenon, WaitFields
  <2>2. PICK s : s = [q EXCEPT !.pc = "awake"] BY Zenon
  <2>3. s \in Wait /\ s.waitingFor = q.waitingFor /\ s.done = q.done /\ s.pc = "awake" BY <2>2 DEF Wait
  <2>4. waiter'[w] = IF q.pc = "asleep" THEN s ELSE q BY Zenon, <1>1, <2>1, <2>2
  <2>5. CASE q.pc = "asleep" BY Zenon, <2>1, <2>3, <2>4, <2>5
  <2>6. CASE q.pc # "asleep" BY Zenon, <2>1, <2>4, <2>6
  <2> QED BY Zenon, <2>5, <2>6
<1>3. waiter' \in [Waiters -> Wait]
  <2>1. waiter' = [w \in Waiters |-> waiter'[w]] BY Zenon DEF NotifyVisible
  <2> QED BY Zenon, <1>2, <2>1
<1> QED BY Zenon, <1>2, <1>3

(* Two units of work never have the same first record. *)
LEMMA FirstIsOwn ==
  ASSUME TypeOK, RangesInv, NEW t \in Txns, NEW u \in Txns, Numbered(t), first[t] = first[u]
  PROVE  t = u
<1>1. first[t] \in Nat /\ last[t] \in Nat /\ first[u] \in Nat /\ last[u] \in Nat BY Zenon, Numbers
<1>2. 1 <= first[t] /\ first[t] <= last[t] BY Zenon DEF RangesInv, TxnOK
<1>3. Numbered(u)
  <2>1. first[u] # 0 BY <1>1, <1>2
  <2> QED BY Zenon, <2>1 DEF RangesInv, TxnOK
<1>4. first[u] <= last[u] BY Zenon, <1>3 DEF RangesInv, TxnOK
<1>5. SUFFICES ASSUME t # u PROVE FALSE OBVIOUS
<1>6. last[t] < first[u] \/ last[u] < first[t] BY Zenon, <1>3, <1>5 DEF RangesInv
<1> QED BY <1>1, <1>2, <1>4, <1>6

(* Ids in the list have been given out. *)
LEMMA ListedIsNumbered ==
  ASSUME TypeOK, RangesInv, ListInv, NEW x \in uncommittedRecords
  PROVE  x \in Nat /\ 1 <= x /\ x <= highestSeen /\ x < nextId
<1>1. PICK t \in Txns : first[t] = x /\ txn[t] \in {"open", "written", "done"} BY Zenon DEF ListInv
<1>2. Numbered(t) BY Zenon, <1>1 DEF Numbered
<1>3. 1 <= first[t] /\ first[t] <= last[t] /\ last[t] < nextId /\ first[t] <= highestSeen
  BY Zenon, <1>2 DEF RangesInv, TxnOK
<1>4. first[t] \in Nat /\ last[t] \in Nat /\ nextId \in Nat BY Zenon, Numbers
<1> QED BY <1>1, <1>3, <1>4

(* A unit of work is given ids beyond all others. *)
LEMMA RegisterStep ==
  ASSUME CapInv, NEW t \in Txns, NEW count \in 1..MaxBatch, Register(t, count), isOplog' = isOplog
  PROVE  CapInv'
<1> USE DEF CapInv
<1>0. /\ txn[t] = "idle" /\ nextId + count - 1 <= MaxRecord /\ nextId' = nextId + count
      /\ txn' = [txn EXCEPT ![t] = "open"] /\ first' = [first EXCEPT ![t] = nextId]
      /\ last' = [last EXCEPT ![t] = nextId + count - 1] /\ inserted' = [inserted EXCEPT ![t] = nextId - 1]
      /\ uncommittedRecords' = uncommittedRecords \cup {nextId} /\ highestSeen' = nextId
  BY Zenon DEF Register
<1>1. /\ opsWaitingForJournal' = opsWaitingForJournal /\ opsAboutToBeJournaled' = opsAboutToBeJournaled
      /\ journalThread' = journalThread /\ shuttingDown' = shuttingDown /\ reader' = reader /\ waiter' = waiter
      /\ logPos' = logPos /\ logEnd' = logEnd /\ durable' = durable /\ syncFrom' = syncFrom
  BY Zenon DEF Register, logVars
<1>2. count \in Nat /\ 1 <= count /\ MaxRecord \in Nat BY CappedAssumption
<1>3. /\ nextId \in Nat /\ highestSeen \in Nat /\ 1 <= nextId /\ highestSeen < nextId
      /\ durable <= logEnd /\ syncFrom <= logEnd
      /\ \A u \in Txns : first[u] \in Nat /\ last[u] \in Nat /\ inserted[u] \in Nat
  BY Zenon, Numbers DEF RangesInv
<1>4. nextId + count - 1 \in Nat /\ nextId - 1 \in Nat /\ nextId + count \in Nat BY <1>2, <1>3
<1>5. /\ txn'[t] = "open" /\ first'[t] = nextId /\ last'[t] = nextId + count - 1 /\ inserted'[t] = nextId - 1
      /\ \A u \in Txns : u # t => /\ txn'[u] = txn[u] /\ first'[u] = first[u]
                                  /\ last'[u] = last[u] /\ inserted'[u] = inserted[u]
  BY Zenon, <1>0 DEF TypeOK
<1>6. TypeOK'
  <2>1. txn' \in [Txns -> {"idle", "open", "written", "done", "aborted", "lost"}] BY <1>0 DEF TypeOK
  <2>2. first' \in [Txns -> Nat] /\ last' \in [Txns -> Nat] /\ inserted' \in [Txns -> Nat]
    BY Zenon, <1>0, <1>3, <1>4 DEF TypeOK
  <2>3. uncommittedRecords' \subseteq Nat /\ highestSeen' \in Nat /\ nextId' \in Nat
    BY <1>0, <1>3, <1>4 DEF TypeOK
  <2> QED BY Zenon, <1>1, <2>1, <2>2, <2>3 DEF TypeOK
<1>7. RangesInv'
  <2>1. ~Numbered(t) /\ TxnOK(t) BY Zenon, <1>0 DEF Numbered, RangesInv
  <2>2. logPos[t] = 0 /\ logPos[t] <= logEnd BY Zenon, <1>0, <2>1 DEF TxnOK
  <2>3. TxnOK(t)'
    <3>1. nextId <= nextId + count - 1 /\ nextId + count - 1 < nextId + count /\ nextId - 1 <= nextId /\ nextId <= nextId
      BY <1>2, <1>3
    <3> QED BY Zenon, <1>0, <1>1, <1>3, <1>5, <2>2, <3>1 DEF TxnOK, Numbered
  <2>4. ASSUME NEW u \in Txns, u # t PROVE TxnOK(u)'
    <3>1. TxnOK(u) BY Zenon DEF RangesInv
    <3>2. last[u] < nextId => last[u] < nextId' BY <1>0, <1>2, <1>3
    <3>3. /\ first[u] <= highestSeen => first[u] <= highestSeen'
          /\ inserted[u] <= highestSeen => inserted[u] <= highestSeen'
      BY <1>0, <1>3
    <3> QED BY Zenon, <1>1, <1>5, <2>4, <3>1, <3>2, <3>3 DEF TxnOK, Numbered
  <2>5. \A u \in Txns : u # t /\ Numbered(u)' => last'[u] < first'[t]
    <3>1. \A u \in Txns : u # t /\ Numbered(u)' => last[u] < nextId
      BY Zenon, <1>5 DEF RangesInv, TxnOK, Numbered
    <3> QED BY Zenon, <1>5, <3>1
  <2>6. \A u, v \in Txns : u # v /\ Numbered(u)' /\ Numbered(v)' => last'[u] < first'[v] \/ last'[v] < first'[u]
    <3>1. SUFFICES ASSUME NEW u \in Txns, NEW v \in Txns, u # v, Numbered(u)', Numbered(v)'
                   PROVE  last'[u] < first'[v] \/ last'[v] < first'[u]
      BY Zenon
    <3>2. CASE u = t \/ v = t BY Zenon, <2>5, <3>1, <3>2
    <3>3. CASE u # t /\ v # t
      <4>1. Numbered(u) /\ Numbered(v) BY Zenon, <1>5, <3>1, <3>3 DEF Numbered
      <4> QED BY Zenon, <1>5, <3>1, <3>3, <4>1 DEF RangesInv
    <3> QED BY Zenon, <3>2, <3>3
  <2>7. 1 <= nextId' /\ nextId' <= MaxRecord + 1 /\ highestSeen' < nextId' BY <1>0, <1>2, <1>3
  <2> QED BY Zenon, <1>1, <1>3, <2>3, <2>4, <2>6, <2>7 DEF RangesInv
<1>8. \A x \in uncommittedRecords : x # nextId
  <2>1. \A x \in uncommittedRecords : x \in Nat /\ x < nextId BY Zenon, ListedIsNumbered
  <2> QED BY <1>3, <2>1
<1>81. nextId \in uncommittedRecords' /\ \A x \in uncommittedRecords : x \in uncommittedRecords'
  BY Zenon, <1>0
<1>9. ListInv'
  <2>1. ASSUME NEW u \in Txns, txn'[u] \in {"open", "written"}
        PROVE  /\ first'[u] \in uncommittedRecords'
               /\ first'[u] \notin opsWaitingForJournal \cup opsAboutToBeJournaled
    <3>1. CASE u = t
      <4>1. nextId \notin opsWaitingForJournal \cup opsAboutToBeJournaled BY Zenon, <1>8 DEF ListInv
      <4> QED BY Zenon, <1>5, <1>81, <3>1, <4>1
    <3>2. CASE u # t
      <4>1. txn[u] \in {"open", "written"} /\ first'[u] = first[u] BY Zenon, <1>5, <2>1, <3>2
      <4>2. first[u] \in uncommittedRecords /\ first[u] \notin opsWaitingForJournal \cup opsAboutToBeJournaled
        BY Zenon, <4>1 DEF ListInv
      <4> QED BY Zenon, <1>81, <4>1, <4>2
    <3> QED BY Zenon, <3>1, <3>2
  <2>2. ASSUME NEW x \in uncommittedRecords' PROVE \E u \in Txns : first'[u] = x /\ txn'[u] \in {"open", "written", "done"}
    <3>1. CASE x = nextId BY Zenon, <1>5, <3>1
    <3>2. CASE x \in uncommittedRecords
      <4>1. PICK u \in Txns : first[u] = x /\ txn[u] \in {"open", "written", "done"} BY Zenon, <3>2 DEF ListInv
      <4>2. u # t BY Zenon, <1>0, <4>1
      <4> QED BY Zenon, <1>5, <4>1, <4>2
    <3> QED BY Zenon, <1>0, <3>1, <3>2
  <2> QED BY Zenon, <1>0, <1>1, <2>1, <2>2 DEF ListInv
<1>10. \A u \in Txns : u # t => first[u] < nextId
  <2>1. \A u \in Txns : first[u] <= highestSeen BY Zenon DEF RangesInv, TxnOK
  <2> QED BY <1>3, <2>1
<1>11. logPos[t] = 0 BY Zenon, <1>0 DEF RangesInv, TxnOK
<1>12. DurableInv'
  <2>1. \A u \in Txns : first'[u] \in opsAboutToBeJournaled => logPos[u] <= syncFrom
    <3>1. nextId \notin opsAboutToBeJournaled BY Zenon, <1>8 DEF ListInv
    <3> QED BY Zenon, <1>5, <3>1 DEF DurableInv
  <2>2. ASSUME isOplog, NEW u \in Txns, txn'[u] = "done", first'[u] \notin uncommittedRecords'
        PROVE  \/ logPos[u] <= durable
               \/ \A v \in Txns : first'[u] < first'[v] /\ logPos[v] # 0 => logPos[u] < logPos[v]
    <3>1. u # t BY Zenon, <1>5, <2>2
    <3>2. txn[u] = "done" /\ first[u] \notin uncommittedRecords BY Zenon, <1>5, <1>81, <2>2, <3>1
    <3>3. \/ logPos[u] <= durable
          \/ \A v \in Txns : first[u] < first[v] /\ logPos[v] # 0 => logPos[u] < logPos[v]
      BY Zenon, <2>2, <3>2 DEF DurableInv
    <3> QED BY Zenon, <1>5, <1>11, <3>1, <3>3
  <2> QED BY Zenon, <1>1, <2>1, <2>2 DEF DurableInv
<1>13. SnapshotInv' BY Zenon, <1>1 DEF SnapshotInv
<1>14. highestSeen <= highestSeen' /\ \A x \in uncommittedRecords' : x \in uncommittedRecords \/ highestSeen < x
  BY <1>0, <1>3
<1>15. \A u \in Txns : Active(u)' => (Active(u) /\ first'[u] = first[u]) \/ highestSeen < first'[u]
  BY Zenon, <1>3, <1>5 DEF Active
<1>16. highestSeen' \in Nat /\ uncommittedRecords' \subseteq Nat /\ \A u \in Txns : first'[u] \in Nat
  BY Zenon, <1>6 DEF TypeOK
<1>17. \A r \in Readers : ReaderOK(r)' BY Zenon, <1>1, <1>14, <1>15, <1>16, ReaderStays
<1>18. \A u \in Txns : txn[u] = "done" => txn'[u] = "done" /\ last'[u] = last[u]
  BY Zenon, <1>0, <1>5
<1>19. \A w \in Waiters : WaiterOK(w)' BY Zenon, <1>1, <1>14, <1>16, <1>18, WaiterStays
<1> QED BY Zenon, <1>6, <1>7, <1>9, <1>12, <1>13, <1>17, <1>19

(* It puts its records into its batch. *)
LEMMA InsertStep ==
  ASSUME CapInv, NEW t \in Txns, Insert(t), isOplog' = isOplog
  PROVE  CapInv'
<1> USE DEF CapInv
<1>0. /\ txn[t] = "open" /\ inserted[t] < last[t] /\ inserted' = [inserted EXCEPT ![t] = inserted[t] + 1]
      /\ highestSeen' = IF isOplog /\ inserted[t] + 1 > highestSeen THEN inserted[t] + 1 ELSE highestSeen
  BY Zenon DEF Insert
<1>1. /\ opsWaitingForJournal' = opsWaitingForJournal /\ opsAboutToBeJournaled' = opsAboutToBeJournaled
      /\ journalThread' = journalThread /\ shuttingDown' = shuttingDown /\ reader' = reader /\ waiter' = waiter
      /\ logPos' = logPos /\ logEnd' = logEnd /\ durable' = durable /\ syncFrom' = syncFrom
      /\ uncommittedRecords' = uncommittedRecords /\ txn' = txn /\ first' = first /\ last' = last /\ nextId' = nextId
  BY Zenon DEF Insert, logVars
<1>2. /\ nextId \in Nat /\ highestSeen \in Nat /\ uncommittedRecords \subseteq Nat
      /\ \A u \in Txns : first[u] \in Nat /\ last[u] \in Nat /\ inserted[u] \in Nat
  BY Zenon, Numbers
<1>3. last[t] < nextId /\ highestSeen < nextId BY Zenon, <1>0 DEF RangesInv, TxnOK, Numbered
<1>4. /\ highestSeen' \in Nat /\ highestSeen <= highestSeen' /\ highestSeen' < nextId
      /\ isOplog => inserted[t] + 1 <= highestSeen'
  BY <1>0, <1>2, <1>3
<1>5. inserted'[t] = inserted[t] + 1 /\ \A u \in Txns : u # t => inserted'[u] = inserted[u]
  BY Zenon, <1>0 DEF TypeOK
<1>6. TypeOK'
  <2>1. inserted' \in [Txns -> Nat]
    <3>1. inserted[t] + 1 \in Nat BY <1>2
    <3> QED BY Zenon, <1>0, <3>1 DEF TypeOK
  <2> QED BY Zenon, <1>1, <1>4, <2>1 DEF TypeOK
<1>7. RangesInv'
  <2>1. ASSUME NEW u \in Txns PROVE TxnOK(u)'
    <3>1. TxnOK(u) BY Zenon DEF RangesInv
    <3>2. /\ first[u] <= highestSeen => first[u] <= highestSeen'
          /\ inserted[u] <= highestSeen => inserted[u] <= highestSeen'
      BY <1>2, <1>4
    <3>3. isOplog => inserted'[u] <= highestSeen' BY Zenon, <1>4, <1>5, <3>1, <3>2 DEF TxnOK
    <3>4. txn[u] \in {"written", "done"} => inserted'[u] = last[u] BY Zenon, <1>0, <1>5, <3>1 DEF TxnOK
    <3> QED BY Zenon, <1>1, <3>1, <3>2, <3>3, <3>4 DEF TxnOK, Numbered
  <2> QED BY Zenon, <1>1, <1>4, <2>1 DEF RangesInv, Numbered
<1>8. ListInv' BY Zenon, <1>1 DEF ListInv
<1>9. DurableInv' BY Zenon, <1>1 DEF DurableInv
<1>10. SnapshotInv' BY Zenon, <1>1 DEF SnapshotInv
<1>11. \A r \in Readers : ReaderOK(r)' BY Zenon, <1>1, <1>2, <1>4, ReaderStays DEF Active
<1>12. \A w \in Waiters : WaiterOK(w)' BY Zenon, <1>1, <1>2, <1>4, WaiterStays
<1> QED BY Zenon, <1>6, <1>7, <1>8, <1>9, <1>10, <1>11, <1>12

(* Its batch is written, after all that have been. *)
LEMMA WriteStep ==
  ASSUME CapInv, NEW t \in Txns, Write(t), isOplog' = isOplog
  PROVE  CapInv'
<1> USE DEF CapInv
<1>0. /\ txn[t] = "open" /\ inserted[t] = last[t] /\ txn' = [txn EXCEPT ![t] = "written"]
      /\ logEnd' = logEnd + 1 /\ logPos' = [logPos EXCEPT ![t] = logEnd + 1]
  BY Zenon DEF Write
<1>1. /\ opsWaitingForJournal' = opsWaitingForJournal /\ opsAboutToBeJournaled' = opsAboutToBeJournaled
      /\ journalThread' = journalThread /\ shuttingDown' = shuttingDown /\ reader' = reader /\ waiter' = waiter
      /\ durable' = durable /\ syncFrom' = syncFrom /\ highestSeen' = highestSeen
      /\ uncommittedRecords' = uncommittedRecords /\ first' = first /\ last' = last /\ nextId' = nextId
      /\ inserted' = inserted
  BY Zenon DEF Write, managerVars
<1>2. /\ highestSeen \in Nat /\ uncommittedRecords \subseteq Nat /\ logEnd \in Nat /\ durable \in Nat /\ syncFrom \in Nat
      /\ \A u \in Txns : first[u] \in Nat /\ logPos[u] \in Nat
  BY Zenon, Numbers
<1>3. /\ txn'[t] = "written" /\ logPos'[t] = logEnd + 1
      /\ \A u \in Txns : u # t => txn'[u] = txn[u] /\ logPos'[u] = logPos[u]
  BY Zenon, <1>0 DEF TypeOK
<1>4. logEnd + 1 \in Nat /\ logEnd + 1 # 0 /\ logEnd <= logEnd + 1 /\ logEnd + 1 <= logEnd + 1 BY <1>2
<1>5. TypeOK'
  <2>1. txn' \in [Txns -> {"idle", "open", "written", "done", "aborted", "lost"}] BY <1>0 DEF TypeOK
  <2>2. logPos' \in [Txns -> Nat] BY Zenon, <1>0, <1>4 DEF TypeOK
  <2> QED BY Zenon, <1>0, <1>1, <1>4, <2>1, <2>2 DEF TypeOK
<1>6. \A u \in Txns : Numbered(u)' <=> Numbered(u) BY Zenon, <1>0, <1>3 DEF Numbered
<1>7. RangesInv'
  <2>1. ASSUME NEW u \in Txns PROVE TxnOK(u)'
    <3>1. TxnOK(u) BY Zenon DEF RangesInv
    <3>2. logPos[u] <= logEnd => logPos[u] <= logEnd' BY <1>0, <1>2
    <3>3. CASE u = t
      <4>1. logPos'[t] # 0 /\ logPos'[t] <= logEnd' BY Zenon, <1>0, <1>3, <1>4
      <4> QED BY Zenon, <1>0, <1>1, <1>3, <1>6, <3>1, <3>3, <4>1 DEF TxnOK
    <3>4. CASE u # t BY Zenon, <1>1, <1>3, <1>6, <3>1, <3>2, <3>4 DEF TxnOK
    <3> QED BY Zenon, <3>3, <3>4
  <2>2. durable <= logEnd' /\ syncFrom <= logEnd'
    <3>1. durable <= logEnd /\ syncFrom <= logEnd BY Zenon DEF RangesInv
    <3> QED BY <1>0, <1>2, <3>1
  <2> QED BY Zenon, <1>1, <1>6, <2>1, <2>2 DEF RangesInv
<1>8. ListInv'
  <2>1. \A u \in Txns : /\ txn'[u] \in {"open", "written"} <=> txn[u] \in {"open", "written"}
                        /\ txn'[u] \in {"open", "written", "done"} <=> txn[u] \in {"open", "written", "done"}
    BY Zenon, <1>0, <1>3
  <2> QED BY Zenon, <1>1, <2>1 DEF ListInv
<1>9. DurableInv'
  <2>1. \A u \in Txns : first[u] \in opsAboutToBeJournaled => logPos'[u] <= syncFrom
    <3>1. first[t] \notin opsAboutToBeJournaled BY Zenon, <1>0 DEF ListInv
    <3> QED BY Zenon, <1>3, <3>1 DEF DurableInv
  <2>2. ASSUME isOplog, NEW u \in Txns, txn'[u] = "done", first[u] \notin uncommittedRecords
        PROVE  \/ logPos'[u] <= durable
               \/ \A v \in Txns : first[u] < first[v] /\ logPos'[v] # 0 => logPos'[u] < logPos'[v]
    <3>1. u # t /\ txn[u] = "done" /\ logPos'[u] = logPos[u] BY Zenon, <1>3, <2>2
    <3>2. \/ logPos[u] <= durable
          \/ \A v \in Txns : first[u] < first[v] /\ logPos[v] # 0 => logPos[u] < logPos[v]
      BY Zenon, <2>2, <3>1 DEF DurableInv
    <3>3. logPos[u] < logEnd + 1
      <4>1. logPos[u] <= logEnd BY Zenon DEF RangesInv, TxnOK
      <4> QED BY <1>2, <4>1
    <3> QED BY Zenon, <1>3, <3>1, <3>2, <3>3
  <2> QED BY Zenon, <1>1, <2>1, <2>2 DEF DurableInv
<1>10. SnapshotInv'
  <2>1. \A u \in Txns : logPos[u] # 0 => logPos'[u] # 0 BY Zenon, <1>3, <1>4
  <2>2. \A r \in Readers : reader[r].snapshot \in SUBSET Txns BY Zenon, CursorFields
  <2> QED BY Zenon, <1>1, <2>1, <2>2 DEF SnapshotInv
<1>11. \A u \in Txns : Active(u)' => Active(u) BY Zenon, <1>0, <1>3 DEF Active
<1>12. highestSeen <= highestSeen BY <1>2
<1>13. \A r \in Readers : ReaderOK(r)' BY Zenon, <1>1, <1>2, <1>11, <1>12, ReaderStays
<1>14. \A u \in Txns : txn[u] = "done" => txn'[u] = "done" BY Zenon, <1>0, <1>3
<1>15. \A w \in Waiters : WaiterOK(w)' BY Zenon, <1>1, <1>2, <1>12, <1>14, WaiterStays
<1> QED BY Zenon, <1>5, <1>7, <1>8, <1>9, <1>10, <1>13, <1>15

(* dealtWithCappedRecord makes a record visible at once: that of a unit of     *)
(* work that rolls back, or the newest.                                        *)
LEMMA VisibleStep ==
  ASSUME CapInv, NEW t \in Txns, NEW s \in {"done", "aborted"}, txn[t] \in {"open", "written"},
         s = "done" <=> txn[t] = "written", isOplog /\ s = "done" => first[t] = highestSeen,
         txn' = [txn EXCEPT ![t] = s], MakeVisible(t), isOplog' = isOplog,
         UNCHANGED <<highestSeen, opsAboutToBeJournaled, shuttingDown, first, last, inserted, nextId, logVars, reader>>
  PROVE  CapInv'
<1> USE DEF CapInv
<1>0. /\ uncommittedRecords' = uncommittedRecords \ {first[t]} /\ NotifyVisible
      /\ opsWaitingForJournal' = opsWaitingForJournal /\ journalThread' = journalThread
  BY Zenon DEF MakeVisible
<1>1. /\ opsAboutToBeJournaled' = opsAboutToBeJournaled /\ shuttingDown' = shuttingDown /\ reader' = reader
      /\ highestSeen' = highestSeen /\ first' = first /\ last' = last /\ inserted' = inserted /\ nextId' = nextId
      /\ logPos' = logPos /\ logEnd' = logEnd /\ durable' = durable /\ syncFrom' = syncFrom
  BY Zenon DEF logVars
<1>2. txn'[t] = s /\ \A u \in Txns : u # t => txn'[u] = txn[u] BY Zenon DEF TypeOK
<1>3. Numbered(t) BY Zenon DEF Numbered
<1>4. \A u \in Txns : u # t => first[u] # first[t] BY Zenon, <1>3, FirstIsOwn
<1>5. /\ \A x \in uncommittedRecords' : x \in uncommittedRecords
      /\ \A x \in uncommittedRecords : x # first[t] => x \in uncommittedRecords'
      /\ first[t] \notin uncommittedRecords'
  BY Zenon, <1>0
<1>6. TypeOK'
  <2>1. txn' \in [Txns -> {"idle", "open", "written", "done", "aborted", "lost"}] BY DEF TypeOK
  <2>2. waiter' \in [Waiters -> Wait] BY Zenon, <1>0, Notified
  <2>3. uncommittedRecords' \subseteq Nat BY Zenon, <1>5 DEF TypeOK
  <2>4. /\ isOplog' \in BOOLEAN /\ highestSeen' \in Nat
        /\ opsWaitingForJournal' \subseteq Nat /\ opsAboutToBeJournaled' \subseteq Nat
        /\ journalThread' \in {"asleep", "awake", "syncing", "stopped"} /\ shuttingDown' \in BOOLEAN
    BY Zenon, <1>0, <1>1 DEF TypeOK
  <2>5. /\ first' \in [Txns -> Nat] /\ last' \in [Txns -> Nat] /\ inserted' \in [Txns -> Nat]
        /\ logPos' \in [Txns -> Nat] /\ logEnd' \in Nat /\ durable' \in Nat /\ syncFrom' \in Nat
        /\ nextId' \in Nat
    BY Zenon, <1>1 DEF TypeOK
  <2>6. reader' \in [Readers -> Cursor] BY Zenon, <1>1 DEF TypeOK, Cursor
  <2> QED BY Zenon, <2>1, <2>2, <2>3, <2>4, <2>5, <2>6 DEF TypeOK, Wait, Cursor
<1>7. \A u \in Txns : Numbered(u)' <=> Numbered(u) BY Zenon, <1>2, <1>3 DEF Numbered
<1>8. RangesInv'
  <2>1. ASSUME NEW u \in Txns PROVE TxnOK(u)'
    <3>1. TxnOK(u) BY Zenon DEF RangesInv
    <3>2. txn'[u] \in {"written", "done"} <=> txn[u] \in {"written", "done"}
      <4>1. CASE u = t /\ s = "done" BY Zenon, <1>2, <4>1
      <4>2. CASE u = t /\ s = "aborted"
        <5>1. txn[t] = "open" BY Zenon, <4>2
        <5> QED BY <1>2, <4>2, <5>1
      <4>3. CASE u # t BY Zenon, <1>2, <4>3
      <4> QED BY Zenon, <4>1, <4>2, <4>3
    <3> QED BY Zenon, <1>1, <1>7, <3>1, <3>2 DEF TxnOK
  <2> QED BY Zenon, <1>1, <1>7, <2>1 DEF RangesInv
<1>9. ListInv'
  <2>1. ASSUME NEW u \in Txns, txn'[u] \in {"open", "written"}
        PROVE  /\ first[u] \in uncommittedRecords'
               /\ first[u] \notin opsWaitingForJournal \cup opsAboutToBeJournaled
    <3>1. u # t BY <1>2, <2>1
    <3>2. txn[u] \in {"open", "written"} BY Zenon, <1>2, <2>1, <3>1
    <3>3. /\ first[u] \in uncommittedRecords
          /\ first[u] \notin opsWaitingForJournal \cup opsAboutToBeJournaled
      BY Zenon, <3>2 DEF ListInv
    <3> QED BY Zenon, <1>4, <1>5, <3>1, <3>3
  <2>2. ASSUME NEW x \in uncommittedRecords' PROVE \E u \in Txns : first[u] = x /\ txn'[u] \in {"open", "written", "done"}
    <3>1. PICK u \in Txns : first[u] = x /\ txn[u] \in {"open", "written", "done"} BY Zenon, <1>5 DEF ListInv
    <3>2. u # t BY Zenon, <1>5, <3>1
    <3> QED BY Zenon, <1>2, <3>1, <3>2
  <2>3. opsWaitingForJournal \cup opsAboutToBeJournaled \subseteq uncommittedRecords'
    <3>1. first[t] \notin opsWaitingForJournal \cup opsAboutToBeJournaled BY Zenon DEF ListInv
    <3>2. opsWaitingForJournal \cup opsAboutToBeJournaled \subseteq uncommittedRecords BY Zenon DEF ListInv
    <3> QED BY Zenon, <1>5, <3>1, <3>2
  <2>4. /\ opsWaitingForJournal \cap opsAboutToBeJournaled = {}
        /\ journalThread # "syncing" => opsAboutToBeJournaled = {}
    BY Zenon DEF ListInv
  <2>5. \A u \in Txns : txn'[u] \in {"open", "written"} =>
          /\ first'[u] \in uncommittedRecords'
          /\ first'[u] \notin opsWaitingForJournal' \cup opsAboutToBeJournaled'
    <3>1. first' = first /\ opsWaitingForJournal' = opsWaitingForJournal /\ opsAboutToBeJournaled' = opsAboutToBeJournaled
      BY Zenon, <1>0, <1>1
    <3> QED BY Zenon, <2>1, <3>1
  <2>6. \A x \in uncommittedRecords' : \E u \in Txns : first'[u] = x /\ txn'[u] \in {"open", "written", "done"}
    <3>1. first' = first BY Zenon, <1>1
    <3>2. SUFFICES ASSUME NEW x \in uncommittedRecords'
                   PROVE  \E u \in Txns : first'[u] = x /\ txn'[u] \in {"open", "written", "done"}
      BY Zenon
    <3>3. PICK u \in Txns : first[u] = x /\ txn'[u] \in {"open", "written", "done"} BY Zenon, <1>0, <2>2
    <3> QED BY Zenon, <3>1, <3>3
  <2>7. /\ opsWaitingForJournal' \cup opsAboutToBeJournaled' \subseteq uncommittedRecords'
        /\ opsWaitingForJournal' \cap opsAboutToBeJournaled' = {}
        /\ journalThread' # "syncing" => opsAboutToBeJournaled' = {}
    BY Zenon, <1>0, <1>1, <2>3, <2>4
  <2> QED BY Zenon, <2>5, <2>6, <2>7 DEF ListInv
<1>10. DurableInv'
  <2>1. ASSUME isOplog, NEW u \in Txns, txn'[u] = "done", first[u] \notin uncommittedRecords'
        PROVE  \/ logPos[u] <= durable
               \/ \A v \in Txns : first[u] < first[v] /\ logPos[v] # 0 => logPos[u] < logPos[v]
    <3>1. CASE u = t
      <4>1. first[u] = highestSeen BY Zenon, <1>2, <2>1, <3>1
      <4>2. \A v \in Txns : first[v] <= highestSeen /\ first[v] \in Nat /\ highestSeen \in Nat
        BY Zenon, Numbers DEF RangesInv, TxnOK
      <4>3. \A v \in Txns : ~(first[u] < first[v]) BY <4>1, <4>2
      <4> QED BY Zenon, <4>3
    <3>2. CASE u # t
      <4>1. txn[u] = "done" /\ first[u] \notin uncommittedRecords BY Zenon, <1>2, <1>4, <1>5, <2>1, <3>2
      <4> QED BY Zenon, <2>1, <4>1 DEF DurableInv
    <3> QED BY Zenon, <3>1, <3>2
  <2> QED BY Zenon, <1>1, <2>1 DEF DurableInv
<1>11. SnapshotInv' BY Zenon, <1>1 DEF SnapshotInv
<1>12. highestSeen \in Nat /\ uncommittedRecords' \subseteq Nat /\ \A u \in Txns : first[u] \in Nat
  BY Zenon, <1>5, Numbers
<1>13. highestSeen <= highestSeen BY <1>12
<1>14. \A u \in Txns : Active(u)' => Active(u) BY Zenon, <1>2 DEF Active
<1>15. \A r \in Readers : ReaderOK(r)' BY Zenon, <1>1, <1>5, <1>12, <1>13, <1>14, ReaderStays
<1>16. \A u \in Txns : txn[u] = "done" => txn'[u] = "done"
  <2>1. txn[t] # "done" OBVIOUS
  <2> QED BY Zenon, <1>2, <2>1
<1>17. \A w \in Waiters : WaiterOK(w)' BY Zenon, <1>0, <1>1, <1>5, <1>12, <1>13, <1>16, Notified, WaiterStays
<1> QED BY Zenon, <1>6, <1>8, <1>9, <1>10, <1>11, <1>15, <1>17

(* A record that must wait for the journal is handed to its thread. *)
LEMMA DeferStep ==
  ASSUME CapInv, NEW t \in Txns, txn[t] = "written", txn' = [txn EXCEPT ![t] = "done"], Defer(t), isOplog' = isOplog,
         UNCHANGED <<highestSeen, opsAboutToBeJournaled, shuttingDown, first, last, inserted, nextId, logVars, reader>>
  PROVE  CapInv'
<1> USE DEF CapInv
<1>0. /\ opsWaitingForJournal' = opsWaitingForJournal \cup {first[t]}
      /\ journalThread' = IF opsWaitingForJournal = {} /\ journalThread = "asleep" THEN "awake" ELSE journalThread
      /\ uncommittedRecords' = uncommittedRecords /\ waiter' = waiter
  BY Zenon DEF Defer
<1>1. /\ opsAboutToBeJournaled' = opsAboutToBeJournaled /\ shuttingDown' = shuttingDown /\ reader' = reader
      /\ highestSeen' = highestSeen /\ first' = first /\ last' = last /\ inserted' = inserted /\ nextId' = nextId
      /\ logPos' = logPos /\ logEnd' = logEnd /\ durable' = durable /\ syncFrom' = syncFrom
  BY Zenon DEF logVars
<1>2. txn'[t] = "done" /\ \A u \in Txns : u # t => txn'[u] = txn[u] BY Zenon DEF TypeOK
<1>3. Numbered(t) BY Zenon DEF Numbered
<1>4. \A u \in Txns : u # t => first[u] # first[t] BY Zenon, <1>3, FirstIsOwn
<1>5. /\ first[t] \in uncommittedRecords
      /\ first[t] \notin opsWaitingForJournal /\ first[t] \notin opsAboutToBeJournaled
  BY Zenon DEF ListInv
<1>6. TypeOK'
  <2>1. txn' \in [Txns -> {"idle", "open", "written", "done", "aborted", "lost"}] BY DEF TypeOK
  <2>2. opsWaitingForJournal' \subseteq Nat
    <3>1. first[t] \in Nat /\ opsWaitingForJournal \subseteq Nat BY Zenon DEF TypeOK
    <3> QED BY Zenon, <1>0, <3>1
  <2>3. journalThread' \in {"asleep", "awake", "syncing", "stopped"} BY <1>0 DEF TypeOK
  <2> QED BY Zenon, <1>0, <1>1, <2>1, <2>2, <2>3 DEF TypeOK
<1>7. \A u \in Txns : Numbered(u)' <=> Numbered(u) BY Zenon, <1>2, <1>3 DEF Numbered
<1>8. RangesInv'
  <2>1. ASSUME NEW u \in Txns PROVE TxnOK(u)'
    <3>1. TxnOK(u) BY Zenon DEF RangesInv
    <3>2. txn'[u] \in {"written", "done"} <=> txn[u] \in {"written", "done"} BY Zenon, <1>2
    <3> QED BY Zenon, <1>1, <1>7, <3>1, <3>2 DEF TxnOK
  <2> QED BY Zenon, <1>1, <1>7, <2>1 DEF RangesInv
<1>9. ListInv'
  <2>1. ASSUME NEW u \in Txns, txn'[u] \in {"open", "written"}
        PROVE  /\ first[u] \in uncommittedRecords
               /\ first[u] \notin opsWaitingForJournal' \cup opsAboutToBeJournaled
    <3>1. u # t BY <1>2, <2>1
    <3>2. txn[u] \in {"open", "written"} BY Zenon, <1>2, <2>1, <3>1
    <3>3. /\ first[u] \in uncommittedRecords
          /\ first[u] \notin opsWaitingForJournal \cup opsAboutToBeJournaled
      BY Zenon, <3>2 DEF ListInv
    <3>4. first[u] \notin opsWaitingForJournal' BY Zenon, <1>0, <1>4, <3>1, <3>3
    <3> QED BY Zenon, <3>3, <3>4
  <2>2. ASSUME NEW x \in uncommittedRecords PROVE \E u \in Txns : first[u] = x /\ txn'[u] \in {"open", "written", "done"}
    <3>1. PICK u \in Txns : first[u] = x /\ txn[u] \in {"open", "written", "done"} BY Zenon DEF ListInv
    <3> QED BY Zenon, <1>2, <3>1
  <2>3. /\ opsWaitingForJournal' \cup opsAboutToBeJournaled \subseteq uncommittedRecords
        /\ opsWaitingForJournal' \cap opsAboutToBeJournaled = {}
    BY Zenon, <1>0, <1>5 DEF ListInv
  <2>4. journalThread' # "syncing" => opsAboutToBeJournaled = {} BY <1>0 DEF ListInv
  <2>5. \A u \in Txns : txn'[u] \in {"open", "written"} =>
          /\ first'[u] \in uncommittedRecords'
          /\ first'[u] \notin opsWaitingForJournal' \cup opsAboutToBeJournaled'
    BY Zenon, <1>0, <1>1, <2>1
  <2>6. \A x \in uncommittedRecords' : \E u \in Txns : first'[u] = x /\ txn'[u] \in {"open", "written", "done"}
    <3>1. first' = first BY Zenon, <1>1
    <3>2. SUFFICES ASSUME NEW x \in uncommittedRecords'
                   PROVE  \E u \in Txns : first'[u] = x /\ txn'[u] \in {"open", "written", "done"}
      BY Zenon
    <3>3. PICK u \in Txns : first[u] = x /\ txn'[u] \in {"open", "written", "done"} BY Zenon, <1>0, <2>2
    <3> QED BY Zenon, <3>1, <3>3
  <2>7. /\ opsWaitingForJournal' \cup opsAboutToBeJournaled' \subseteq uncommittedRecords'
        /\ opsWaitingForJournal' \cap opsAboutToBeJournaled' = {}
        /\ journalThread' # "syncing" => opsAboutToBeJournaled' = {}
    BY Zenon, <1>0, <1>1, <2>3, <2>4
  <2> QED BY Zenon, <2>5, <2>6, <2>7 DEF ListInv
<1>10. DurableInv'
  <2>1. ASSUME NEW u \in Txns, txn'[u] = "done", first[u] \notin uncommittedRecords PROVE txn[u] = "done"
    BY Zenon, <1>2, <1>5, <2>1
  <2> QED BY Zenon, <1>0, <1>1, <2>1 DEF DurableInv
<1>11. SnapshotInv' BY Zenon, <1>1 DEF SnapshotInv
<1>12. highestSeen \in Nat /\ uncommittedRecords \subseteq Nat /\ \A u \in Txns : first[u] \in Nat
  BY Zenon, Numbers
<1>13. highestSeen <= highestSeen BY <1>12
<1>14. \A u \in Txns : Active(u)' => Active(u) BY Zenon, <1>2 DEF Active
<1>15. \A r \in Readers : ReaderOK(r)' BY Zenon, <1>0, <1>1, <1>12, <1>13, <1>14, ReaderStays
<1>16. \A u \in Txns : txn[u] = "done" => txn'[u] = "done" BY Zenon, <1>2
<1>17. \A w \in Waiters : WaiterOK(w)' BY Zenon, <1>0, <1>1, <1>12, <1>13, <1>16, WaiterStays
<1> QED BY Zenon, <1>6, <1>8, <1>9, <1>10, <1>11, <1>15, <1>17

(* CappedInsertChange::commit *)
LEMMA CommitStep ==
  ASSUME CapInv, NEW t \in Txns, Commit(t), isOplog' = isOplog
  PROVE  CapInv'
<1>1. /\ txn[t] = "written" /\ txn' = [txn EXCEPT ![t] = "done"]
      /\ UNCHANGED <<highestSeen, opsAboutToBeJournaled, shuttingDown, first, last, inserted, nextId, logVars, reader>>
      /\ isOplog /\ first[t] # highestSeen => Defer(t)
      /\ ~(isOplog /\ first[t] # highestSeen) => MakeVisible(t)
  BY Zenon DEF Commit
<1>2. CASE isOplog /\ first[t] # highestSeen BY Zenon, <1>1, <1>2, DeferStep
<1>3. CASE ~(isOplog /\ first[t] # highestSeen) BY Zenon, <1>1, <1>3, VisibleStep
<1> QED BY Zenon, <1>2, <1>3

(* CappedInsertChange::rollback *)
LEMMA RollbackStep ==
  ASSUME CapInv, NEW t \in Txns, Rollback(t), isOplog' = isOplog
  PROVE  CapInv'
<1>1. /\ txn[t] = "open" /\ txn' = [txn EXCEPT ![t] = "aborted"] /\ MakeVisible(t)
      /\ UNCHANGED <<highestSeen, opsAboutToBeJournaled, shuttingDown, first, last, inserted, nextId, logVars, reader>>
  BY Zenon DEF Rollback
<1> QED BY Zenon, <1>1, VisibleStep

(* The manager's journal side steps; the units of work do not. *)
LEMMA JournalKept ==
  ASSUME CapInv, isOplog' = isOplog, txn' = txn, first' = first, last' = last, inserted' = inserted,
         nextId' = nextId, highestSeen' = highestSeen, logPos' = logPos, logEnd' = logEnd, reader' = reader,
         durable' \in Nat, syncFrom' \in Nat, durable' <= logEnd, syncFrom' <= logEnd, durable <= durable',
         uncommittedRecords' \subseteq uncommittedRecords, waiter' = waiter \/ NotifyVisible,
         opsWaitingForJournal' \subseteq Nat, opsAboutToBeJournaled' \subseteq Nat,
         journalThread' \in {"asleep", "awake", "syncing", "stopped"}, shuttingDown' \in BOOLEAN
  PROVE  /\ TypeOK' /\ RangesInv' /\ SnapshotInv'
         /\ \A r \in Readers : ReaderOK(r)'
         /\ \A w \in Waiters : WaiterOK(w)'
<1> USE DEF CapInv
<1>1. RangesInv' BY Zenon, RangesKept
<1>2. \A w \in Waiters : waiter[w] \in Wait BY Zenon, WaitFields
<1>3. /\ waiter' \in [Waiters -> Wait]
      /\ \A w \in Waiters : /\ waiter'[w].waitingFor = waiter[w].waitingFor
                            /\ waiter'[w].done = waiter[w].done
                            /\ waiter[w].pc = "idle" => waiter'[w].pc = "idle"
                            /\ waiter'[w].pc = "returned" => waiter[w].pc = "returned"
  <2>1. CASE waiter' = waiter BY Zenon, <2>1 DEF TypeOK, Wait
  <2>2. CASE NotifyVisible BY Zenon, <2>2, Notified
  <2> QED BY Zenon, <2>1, <2>2
<1>4. TypeOK' BY Zenon, <1>3 DEF TypeOK, Wait
<1>5. SnapshotInv' BY Zenon DEF SnapshotInv
<1>6. highestSeen \in Nat /\ uncommittedRecords' \subseteq Nat /\ \A u \in Txns : first[u] \in Nat
  BY Zenon, Numbers
<1>7. highestSeen <= highestSeen BY <1>6
<1>8. \A r \in Readers : ReaderOK(r)' BY Zenon, <1>6, <1>7, ReaderStays DEF Active
<1>9. \A w \in Waiters : WaiterOK(w)' BY Zenon, <1>3, <1>6, <1>7, WaiterStays
<1> QED BY Zenon, <1>1, <1>4, <1>5, <1>8, <1>9

LEMMA JournalTakeStep ==
  ASSUME CapInv, JournalTake, isOplog' = isOplog
  PROVE  CapInv'
<1> USE DEF CapInv
<1>1. /\ txn' = txn /\ first' = first /\ last' = last /\ inserted' = inserted /\ nextId' = nextId
      /\ highestSeen' = highestSeen /\ logPos' = logPos /\ logEnd' = logEnd /\ reader' = reader /\ durable' = durable
      /\ uncommittedRecords' = uncommittedRecords /\ waiter' = waiter /\ shuttingDown' = shuttingDown
  BY Zenon DEF JournalTake, txnVars
<1>2. durable \in Nat /\ syncFrom \in Nat /\ logEnd \in Nat /\ \A t \in Txns : logPos[t] \in Nat BY Zenon, Numbers
<1>3. durable <= logEnd /\ syncFrom <= logEnd /\ \A t \in Txns : logPos[t] <= logEnd BY Zenon DEF RangesInv, TxnOK
<1>4. durable <= durable /\ logEnd <= logEnd BY <1>2
<1>5. /\ opsWaitingForJournal \subseteq Nat /\ opsAboutToBeJournaled \subseteq Nat /\ shuttingDown \in BOOLEAN
      /\ {} \subseteq Nat
  BY Zenon DEF TypeOK
<1>6. journalThread = "awake" /\ opsAboutToBeJournaled = {}
  <2>1. journalThread = "awake" BY Zenon DEF JournalTake
  <2>2. journalThread # "syncing" BY <2>1
  <2> QED BY Zenon, <2>1, <2>2 DEF ListInv
<1>7. CASE shuttingDown \/ opsWaitingForJournal = {}
  <2>1. /\ journalThread' \in {"stopped", "asleep"} /\ opsWaitingForJournal' = opsWaitingForJournal
        /\ opsAboutToBeJournaled' = opsAboutToBeJournaled /\ syncFrom' = syncFrom
    BY Zenon, <1>7 DEF JournalTake
  <2>2. journalThread' \in {"asleep", "awake", "syncing", "stopped"} BY <2>1
  <2>3. /\ TypeOK' /\ RangesInv' /\ SnapshotInv'
        /\ \A r \in Readers : ReaderOK(r)'
        /\ \A w \in Waiters : WaiterOK(w)'
    BY Zenon, <1>1, <1>2, <1>3, <1>4, <1>5, <2>1, <2>2, JournalKept
  <2>4. ListInv' BY Zenon, <1>1, <1>6, <2>1 DEF ListInv
  <2>5. DurableInv' BY Zenon, <1>1, <2>1 DEF DurableInv
  <2> QED BY Zenon, <2>3, <2>4, <2>5
<1>8. CASE ~(shuttingDown \/ opsWaitingForJournal = {})
  <2>1. /\ journalThread' = "syncing" /\ opsWaitingForJournal' = {}
        /\ opsAboutToBeJournaled' = opsWaitingForJournal /\ syncFrom' = logEnd
    BY Zenon, <1>8 DEF JournalTake
  <2>2. journalThread' \in {"asleep", "awake", "syncing", "stopped"} BY <2>1
  <2>3. /\ TypeOK' /\ RangesInv' /\ SnapshotInv'
        /\ \A r \in Readers : ReaderOK(r)'
        /\ \A w \in Waiters : WaiterOK(w)'
    BY Zenon, <1>1, <1>2, <1>3, <1>4, <1>5, <2>1, <2>2, JournalKept
  <2>4. ListInv' BY Zenon, <1>1, <1>6, <2>1 DEF ListInv
  <2>5. DurableInv' BY Zenon, <1>1, <1>3, <2>1 DEF DurableInv
  <2> QED BY Zenon, <2>3, <2>4, <2>5
<1> QED BY Zenon, <1>7, <1>8

LEMMA JournalDoneStep ==
  ASSUME CapInv, JournalDone, isOplog' = isOplog
  PROVE  CapInv'
<1> USE DEF CapInv
<1>0. /\ journalThread' = "awake" /\ durable' = IF syncFrom > durable THEN syncFrom ELSE durable
      /\ uncommittedRecords' = uncommittedRecords \ opsAboutToBeJournaled /\ opsAboutToBeJournaled' = {}
      /\ NotifyVisible
  BY Zenon DEF JournalDone
<1>1. /\ txn' = txn /\ first' = first /\ last' = last /\ inserted' = inserted /\ nextId' = nextId
      /\ highestSeen' = highestSeen /\ logPos' = logPos /\ logEnd' = logEnd /\ reader' = reader /\ syncFrom' = syncFrom
      /\ opsWaitingForJournal' = opsWaitingForJournal /\ shuttingDown' = shuttingDown
  BY Zenon DEF JournalDone, txnVars
<1>2. durable \in Nat /\ syncFrom \in Nat /\ logEnd \in Nat /\ \A t \in Txns : logPos[t] \in Nat BY Zenon, Numbers
<1>3. durable <= logEnd /\ syncFrom <= logEnd BY Zenon DEF RangesInv
<1>4. durable' \in Nat /\ durable' <= logEnd /\ durable <= durable' /\ syncFrom <= durable' BY <1>0, <1>2, <1>3
<1>5. /\ opsWaitingForJournal \subseteq Nat /\ shuttingDown \in BOOLEAN /\ {} \subseteq Nat
      /\ "awake" \in {"asleep", "awake", "syncing", "stopped"}
  BY Zenon DEF TypeOK
<1>6. uncommittedRecords' \subseteq uncommittedRecords BY Zenon, <1>0
<1>7. /\ TypeOK' /\ RangesInv' /\ SnapshotInv'
      /\ \A r \in Readers : ReaderOK(r)'
      /\ \A w \in Waiters : WaiterOK(w)'
  BY Zenon, <1>0, <1>1, <1>2, <1>3, <1>4, <1>5, <1>6, JournalKept
<1>8. ListInv'
  <2>1. ASSUME NEW u \in Txns, txn[u] \in {"open", "written"}
        PROVE  /\ first[u] \in uncommittedRecords'
               /\ first[u] \notin opsWaitingForJournal
    BY Zenon, <1>0, <2>1 DEF ListInv
  <2>2. opsWaitingForJournal \subseteq uncommittedRecords' BY Zenon, <1>0 DEF ListInv
  <2>3. \A x \in uncommittedRecords' : \E u \in Txns : first[u] = x /\ txn[u] \in {"open", "written", "done"}
    BY Zenon, <1>6 DEF ListInv
  <2> QED BY Zenon, <1>0, <1>1, <2>1, <2>2, <2>3 DEF ListInv
<1>9. DurableInv'
  <2>1. ASSUME isOplog, NEW u \in Txns, txn[u] = "done", first[u] \notin uncommittedRecords'
        PROVE  \/ logPos[u] <= durable'
               \/ \A v \in Txns : first[u] < first[v] /\ logPos[v] # 0 => logPos[u] < logPos[v]
    <3>1. CASE first[u] \in opsAboutToBeJournaled
      <4>1. logPos[u] <= syncFrom BY Zenon, <3>1 DEF DurableInv
      <4>2. logPos[u] <= durable' BY <1>2, <1>4, <4>1
      <4> QED BY Zenon, <4>2
    <3>2. CASE first[u] \notin opsAboutToBeJournaled
      <4>1. first[u] \notin uncommittedRecords BY Zenon, <1>0, <2>1, <3>2
      <4>2. logPos[u] <= durable => logPos[u] <= durable' BY <1>2, <1>4
      <4> QED BY Zenon, <2>1, <4>1, <4>2 DEF DurableInv
    <3> QED BY Zenon, <3>1, <3>2
  <2>2. \A u \in Txns : first[u] \notin opsAboutToBeJournaled' BY Zenon, <1>0
  <2> QED BY Zenon, <1>1, <2>1, <2>2 DEF DurableInv
<1> QED BY Zenon, <1>7, <1>8, <1>9

LEMMA FlushStep ==
  ASSUME CapInv, FlushJournal, isOplog' = isOplog
  PROVE  CapInv'
<1> USE DEF CapInv
<1>1. /\ txn' = txn /\ first' = first /\ last' = last /\ inserted' = inserted /\ nextId' = nextId
      /\ highestSeen' = highestSeen /\ logPos' = logPos /\ logEnd' = logEnd /\ reader' = reader /\ syncFrom' = syncFrom
      /\ opsWaitingForJournal' = opsWaitingForJournal /\ shuttingDown' = shuttingDown /\ durable' = logEnd
      /\ uncommittedRecords' = uncommittedRecords /\ opsAboutToBeJournaled' = opsAboutToBeJournaled
      /\ journalThread' = journalThread /\ waiter' = waiter
  BY Zenon DEF FlushJournal, managerVars, txnVars
<1>2. durable \in Nat /\ syncFrom \in Nat /\ logEnd \in Nat /\ \A t \in Txns : logPos[t] \in Nat BY Zenon, Numbers
<1>3. durable <= logEnd /\ syncFrom <= logEnd /\ \A t \in Txns : logPos[t] <= logEnd BY Zenon DEF RangesInv, TxnOK
<1>4. logEnd <= logEnd BY <1>2
<1>5. /\ opsWaitingForJournal \subseteq Nat /\ opsAboutToBeJournaled \subseteq Nat /\ shuttingDown \in BOOLEAN
      /\ journalThread \in {"asleep", "awake", "syncing", "stopped"}
  BY Zenon DEF TypeOK
<1>6. /\ TypeOK' /\ RangesInv' /\ SnapshotInv'
      /\ \A r \in Readers : ReaderOK(r)'
      /\ \A w \in Waiters : WaiterOK(w)'
  BY Zenon, <1>1, <1>2, <1>3, <1>4, <1>5, JournalKept
<1>7. ListInv' BY Zenon, <1>1 DEF ListInv
<1>8. DurableInv' BY Zenon, <1>1, <1>3 DEF DurableInv
<1> QED BY Zenon, <1>6, <1>7, <1>8

LEMMA JoinStep ==
  ASSUME CapInv, JoinJournalThread, isOplog' = isOplog
  PROVE  CapInv'
<1> USE DEF CapInv
<1>0. journalThread' = IF journalThread = "asleep" THEN "awake" ELSE journalThread BY Zenon DEF JoinJournalThread
<1>1. /\ txn' = txn /\ first' = first /\ last' = last /\ inserted' = inserted /\ nextId' = nextId
      /\ highestSeen' = highestSeen /\ logPos' = logPos /\ logEnd' = logEnd /\ reader' = reader /\ syncFrom' = syncFrom
      /\ opsWaitingForJournal' = opsWaitingForJournal /\ shuttingDown' = TRUE /\ durable' = durable
      /\ uncommittedRecords' = uncommittedRecords /\ opsAboutToBeJournaled' = opsAboutToBeJournaled /\ waiter' = waiter
  BY Zenon DEF JoinJournalThread, logVars, txnVars
<1>2. durable \in Nat /\ syncFrom \in Nat /\ logEnd \in Nat BY Zenon, Numbers
<1>3. durable <= logEnd /\ syncFrom <= logEnd BY Zenon DEF RangesInv
<1>4. durable <= durable BY <1>2
<1>5. opsWaitingForJournal \subseteq Nat /\ opsAboutToBeJournaled \subseteq Nat /\ TRUE \in BOOLEAN
  BY Zenon DEF TypeOK
<1>50. /\ journalThread' \in {"asleep", "awake", "syncing", "stopped"}
       /\ journalThread' # "syncing" => journalThread # "syncing"
  BY <1>0 DEF TypeOK
<1>6. /\ TypeOK' /\ RangesInv' /\ SnapshotInv'
      /\ \A r \in Readers : ReaderOK(r)'
      /\ \A w \in Waiters : WaiterOK(w)'
  BY Zenon, <1>1, <1>2, <1>3, <1>4, <1>5, <1>50, JournalKept
<1>7. ListInv' BY Zenon, <1>1, <1>50 DEF ListInv
<1>8. DurableInv' BY Zenon, <1>1 DEF DurableInv
<1> QED BY Zenon, <1>6, <1>7, <1>8

(* What ReaderOK says of a cursor. *)
CursorOK(c) ==
  isOplog /\ c.pc # "closed" =>
    /\ c.lastLoc <= c.readTill /\ c.readTill <= highestSeen
    /\ \A x \in uncommittedRecords : c.lastLoc < x
    /\ c.pc # "eof" => \A x \in uncommittedRecords : c.readTill <= x
    /\ c.pc = "reading" =>
         \A t \in Txns : Active(t) /\ (first[t] < c.readTill \/ first[t] <= c.lastLoc) => t \in c.snapshot

(* One cursor moves. *)
LEMMA CursorStep ==
  ASSUME CapInv, isOplog' = isOplog, UNCHANGED <<managerVars, txnVars, logVars, waiter>>,
         NEW r \in Readers, NEW c \in Cursor, reader' = [reader EXCEPT ![r] = c],
         CursorOK(c), \A t \in c.snapshot : logPos[t] # 0, c.pc = "closed" => c.lastLoc = 0
  PROVE  CapInv'
<1> USE DEF CapInv
<1>1. /\ txn' = txn /\ first' = first /\ last' = last /\ inserted' = inserted /\ nextId' = nextId
      /\ logPos' = logPos /\ logEnd' = logEnd /\ durable' = durable /\ syncFrom' = syncFrom /\ waiter' = waiter
      /\ uncommittedRecords' = uncommittedRecords /\ highestSeen' = highestSeen
      /\ opsWaitingForJournal' = opsWaitingForJournal /\ opsAboutToBeJournaled' = opsAboutToBeJournaled
      /\ journalThread' = journalThread /\ shuttingDown' = shuttingDown
  BY Zenon DEF managerVars, txnVars, logVars
<1>2. reader \in [Readers -> Cursor] BY Zenon DEF TypeOK, Cursor
<1>3. reader' \in [Readers -> Cursor] /\ reader'[r] = c /\ \A s \in Readers : s # r => reader'[s] = reader[s]
  BY Zenon, <1>2
<1>4. TypeOK' BY Zenon, <1>1, <1>3 DEF TypeOK, Cursor
<1>5. durable <= logEnd /\ syncFrom <= logEnd BY Zenon DEF RangesInv
<1>6. RangesInv' BY Zenon, <1>1, <1>5, RangesKept
<1>7. ListInv' BY Zenon, <1>1 DEF ListInv
<1>8. DurableInv' BY Zenon, <1>1 DEF DurableInv
<1>9. SnapshotInv'
  <2>1. ASSUME NEW s \in Readers
        PROVE  /\ \A t \in reader'[s].snapshot : logPos[t] # 0
               /\ reader'[s].pc = "closed" => reader'[s].lastLoc = 0
    <3>1. CASE s = r BY Zenon, <1>3, <3>1
    <3>2. CASE s # r BY Zenon, <1>3, <3>2 DEF SnapshotInv
    <3> QED BY Zenon, <3>1, <3>2
  <2> QED BY Zenon, <1>1, <2>1 DEF SnapshotInv
<1>10. ASSUME NEW s \in Readers PROVE ReaderOK(s)'
  <2>1. PICK q : q = reader'[s] BY Zenon
  <2>2. CursorOK(q)
    <3>1. CASE s = r BY Zenon, <1>3, <2>1, <3>1
    <3>2. CASE s # r
      <4>1. q = reader[s] BY Zenon, <1>3, <2>1, <3>2
      <4>2. ReaderOK(s) BY Zenon
      <4> QED BY Zenon, <4>1, <4>2 DEF CursorOK, ReaderOK, Behind
    <3> QED BY Zenon, <3>1, <3>2
  <2> QED BY Zenon, <1>1, <2>1, <2>2 DEF CursorOK, ReaderOK, Behind, Active
<1>11. \A w \in Waiters : WaiterOK(w)' BY Zenon, <1>1 DEF WaiterOK
<1> QED BY Zenon, <1>4, <1>6, <1>7, <1>8, <1>9, <1>10, <1>11

LEMMA OpenStep ==
  ASSUME CapInv, EndsFound, NEW r \in Readers, OpenCursor(r), isOplog' = isOplog
  PROVE  CapInv'
<1> USE DEF CapInv
<1>0. /\ reader[r].pc \in {"closed", "eof"} /\ UNCHANGED <<managerVars, txnVars, logVars, waiter>>
      /\ reader' = [reader EXCEPT ![r].pc = "opened", ![r].readTill = IF isOplog THEN OplogStartHack ELSE 0]
  BY Zenon DEF OpenCursor
<1>1. PICK q \in Cursor : q = reader[r] BY Zenon, CursorFields
<1>2. PICK a \in Nat : a = q.lastLoc BY Zenon, <1>1, CursorFields
<1>3. PICK m : m = IF isOplog THEN OplogStartHack ELSE 0 BY Zenon
<1>4. highestSeen \in Nat /\ uncommittedRecords \subseteq Nat BY Zenon, Numbers
<1>5. uncommittedRecords # {} =>
        /\ Least(uncommittedRecords) \in uncommittedRecords
        /\ \A y \in uncommittedRecords : Least(uncommittedRecords) <= y
  BY Zenon, <1>4 DEF EndsFound
<1>6. \A x \in uncommittedRecords : x \in Nat /\ 1 <= x /\ x <= highestSeen BY Zenon, ListedIsNumbered
<1>7. isOplog => a <= highestSeen /\ \A x \in uncommittedRecords : a < x
  <2>1. CASE isOplog /\ q.pc = "closed"
    <3>1. a = 0 BY Zenon, <1>1, <1>2, <2>1 DEF SnapshotInv
    <3> QED BY <1>4, <1>6, <3>1
  <2>2. CASE isOplog /\ q.pc # "closed"
    <3>1. q.readTill \in Nat BY Zenon, <1>1, CursorFields
    <3>2. a <= q.readTill /\ q.readTill <= highestSeen /\ \A x \in uncommittedRecords : a < x
      BY Zenon, <1>1, <1>2, <2>2 DEF ReaderOK
    <3> QED BY <1>4, <3>1, <3>2
  <2> QED BY Zenon, <2>1, <2>2
<1>8. m \in Nat /\ (isOplog => a <= m /\ m <= highestSeen /\ \A x \in uncommittedRecords : m <= x)
  <2>1. CASE ~isOplog BY Zenon, <1>3, <2>1
  <2>2. CASE isOplog /\ uncommittedRecords = {}
    <3>1. m = highestSeen BY Zenon, <1>3, <2>2 DEF OplogStartHack
    <3> QED BY <1>4, <1>7, <2>2, <3>1
  <2>3. CASE isOplog /\ uncommittedRecords # {}
    <3>1. m = Least(uncommittedRecords) BY Zenon, <1>3, <2>3 DEF OplogStartHack
    <3>2. m \in uncommittedRecords /\ \A y \in uncommittedRecords : m <= y BY Zenon, <1>5, <2>3, <3>1
    <3> QED BY <1>2, <1>4, <1>6, <1>7, <2>3, <3>2
  <2> QED BY Zenon, <2>1, <2>2, <2>3
<1>9. PICK c : c = [pc |-> "opened", readTill |-> m, snapshot |-> q.snapshot, lastLoc |-> q.lastLoc] BY Zenon
<1>10. c \in Cursor /\ c.pc = "opened" /\ c.readTill = m /\ c.snapshot = q.snapshot /\ c.lastLoc = a
  BY Zenon, <1>2, <1>8, <1>9 DEF Cursor
<1>11. reader' = [reader EXCEPT ![r] = c]
  <2>1. c = [q EXCEPT !.pc = "opened", !.readTill = m]
    <3>1. PICK d : d = [q EXCEPT !.pc = "opened"] BY Zenon
    <3>2. d = [pc |-> "opened", readTill |-> q.readTill, snapshot |-> q.snapshot, lastLoc |-> q.lastLoc] BY Zenon, <3>1 DEF Cursor
    <3>3. c = [d EXCEPT !.readTill = m] BY <1>9, <3>2
    <3> QED BY Zenon, <3>1, <3>3
  <2> QED BY Zenon, <1>0, <1>1, <1>3, <2>1
<1>12. CursorOK(c)
  <2>1. c.pc # "closed" /\ c.pc # "reading" BY <1>10
  <2> QED BY Zenon, <1>7, <1>8, <1>10, <2>1 DEF CursorOK
<1>13. \A t \in c.snapshot : logPos[t] # 0 BY Zenon, <1>1, <1>10 DEF SnapshotInv
<1>14. c.pc # "closed" BY <1>10
<1> QED BY Zenon, <1>0, <1>10, <1>11, <1>12, <1>13, <1>14, CursorStep

LEMMA SnapshotStep ==
  ASSUME CapInv, NEW r \in Readers, TakeSnapshot(r), isOplog' = isOplog
  PROVE  CapInv'
<1> USE DEF CapInv
<1>0. /\ reader[r].pc \in {"opened", "reading"} /\ UNCHANGED <<managerVars, txnVars, logVars, waiter>>
      /\ reader' = [reader EXCEPT ![r].pc = "reading", ![r].snapshot = {t \in Txns : logPos[t] # 0}]
  BY Zenon DEF TakeSnapshot
<1>1. PICK q \in Cursor : q = reader[r] BY Zenon, CursorFields
<1>2. PICK S \in SUBSET Txns : S = {t \in Txns : logPos[t] # 0} BY Zenon
<1>3. PICK c : c = [pc |-> "reading", readTill |-> q.readTill, snapshot |-> S, lastLoc |-> q.lastLoc] BY Zenon
<1>4. c \in Cursor /\ c.pc = "reading" /\ c.readTill = q.readTill /\ c.snapshot = S /\ c.lastLoc = q.lastLoc
  BY <1>3 DEF Cursor
<1>5. reader' = [reader EXCEPT ![r] = c]
  <2>1. c = [q EXCEPT !.pc = "reading", !.snapshot = S]
    <3>1. PICK d : d = [q EXCEPT !.pc = "reading"] BY Zenon
    <3>2. d = [pc |-> "reading", readTill |-> q.readTill, snapshot |-> q.snapshot, lastLoc |-> q.lastLoc] BY Zenon, <3>1 DEF Cursor
    <3>3. c = [d EXCEPT !.snapshot = S] BY <1>3, <3>2
    <3> QED BY Zenon, <3>1, <3>3
  <2> QED BY Zenon, <1>0, <1>1, <1>2, <2>1
<1>6. q.readTill \in Nat /\ q.lastLoc \in Nat /\ q.pc # "closed" /\ q.pc # "eof"
  <2>1. q.pc # "closed" /\ q.pc # "eof" BY Zenon, <1>0, <1>1
  <2> QED BY Zenon, <1>1, <2>1, CursorFields
<1>7. CursorOK(c)
  <2>1. SUFFICES ASSUME isOplog PROVE CursorOK(c) BY Zenon DEF CursorOK
  <2>2. /\ q.lastLoc <= q.readTill /\ q.readTill <= highestSeen
        /\ \A x \in uncommittedRecords : q.lastLoc < x
        /\ \A x \in uncommittedRecords : q.readTill <= x
    BY Zenon, <1>1, <1>6, <2>1 DEF ReaderOK
  <2>3. ASSUME NEW t \in Txns, Active(t), first[t] < q.readTill \/ first[t] <= q.lastLoc PROVE t \in S
    <3>1. first[t] \in Nat BY Zenon, Numbers
    <3>2. first[t] \notin uncommittedRecords BY <1>6, <2>2, <2>3, <3>1
    <3>3. txn[t] = "done" BY Zenon, <2>3, <3>2 DEF ListInv, Active
    <3>4. logPos[t] # 0 BY Zenon, <3>3 DEF RangesInv, TxnOK
    <3> QED BY Zenon, <1>2, <3>4
  <2>4. c.pc # "closed" BY <1>4
  <2> QED BY Zenon, <1>4, <2>2, <2>3, <2>4 DEF CursorOK
<1>8. \A t \in c.snapshot : logPos[t] # 0 BY Zenon, <1>2, <1>4
<1>9. c.pc # "closed" BY <1>4
<1> QED BY Zenon, <1>0, <1>4, <1>5, <1>7, <1>8, <1>9, CursorStep

LEMMA NextStep ==
  ASSUME CapInv, EndsFound, NEW r \in Readers, NextRecord(r), isOplog' = isOplog
  PROVE  CapInv'
<1> USE DEF CapInv
<1>0. /\ reader[r].pc = "reading" /\ UNCHANGED <<managerVars, txnVars, logVars, waiter>>
      /\ Ahead(r) # {} /\ Visible(r, Least(Ahead(r))) => reader' = [reader EXCEPT ![r].lastLoc = Least(Ahead(r))]
      /\ ~(Ahead(r) # {} /\ Visible(r, Least(Ahead(r)))) => reader' = [reader EXCEPT ![r].pc = "eof", ![r].snapshot = {}]
  BY Zenon DEF NextRecord
<1>1. PICK q \in Cursor : q = reader[r] BY Zenon, CursorFields
<1>2. /\ q.readTill \in Nat /\ q.lastLoc \in Nat /\ q.snapshot \in SUBSET Txns /\ q.pc = "reading"
      /\ q.pc # "closed" /\ q.pc # "eof"
  <2>1. q.pc = "reading" BY Zenon, <1>0, <1>1
  <2>2. q.pc # "closed" /\ q.pc # "eof" BY Zenon, <2>1
  <2> QED BY Zenon, <1>1, <2>1, <2>2, CursorFields
<1>3. isOplog => /\ q.lastLoc <= q.readTill /\ q.readTill <= highestSeen
                 /\ \A x \in uncommittedRecords : q.lastLoc < x
                 /\ \A x \in uncommittedRecords : q.readTill <= x
                 /\ \A t \in Txns : Active(t) /\ (first[t] < q.readTill \/ first[t] <= q.lastLoc) => t \in q.snapshot
  BY Zenon, <1>1, <1>2 DEF ReaderOK, Behind
<1>4. \A t \in q.snapshot : logPos[t] # 0 BY Zenon, <1>1 DEF SnapshotInv
<1>5. CASE Ahead(r) # {} /\ Visible(r, Least(Ahead(r)))
  <2>1. PICK L : L = Least(Ahead(r)) BY Zenon
  <2>2. \A t \in Txns : first[t] \in Nat /\ last[t] \in Nat BY Zenon, Numbers
  <2>3. Ahead(r) \subseteq Nat
    <3>1. \A x \in Ahead(r) : \E t \in q.snapshot : x \in first[t]..last[t] BY Zenon, <1>1 DEF Ahead, RecordsOf
    <3>2. \A t \in Txns : \A x \in first[t]..last[t] : x \in Nat BY <2>2
    <3> QED BY Zenon, <1>2, <3>1, <3>2
  <2>4. L \in Ahead(r) BY Zenon, <1>5, <2>1, <2>3 DEF EndsFound
  <2>5. L \in Nat BY Zenon, <2>3, <2>4
  <2>6. PICK u \in q.snapshot : L \in first[u]..last[u] BY Zenon, <1>1, <2>4 DEF Ahead, RecordsOf
  <2>7. PICK c : c = [pc |-> q.pc, readTill |-> q.readTill, snapshot |-> q.snapshot, lastLoc |-> L] BY Zenon
  <2>8. c \in Cursor /\ c.pc = "reading" /\ c.readTill = q.readTill /\ c.snapshot = q.snapshot /\ c.lastLoc = L
    BY Zenon, <1>2, <2>5, <2>7 DEF Cursor
  <2>9. reader' = [reader EXCEPT ![r] = c]
    <3>1. c = [q EXCEPT !.lastLoc = L] BY <2>7 DEF Cursor
    <3> QED BY Zenon, <1>0, <1>1, <1>5, <2>1, <3>1
  <2>10. CursorOK(c)
    <3>1. SUFFICES ASSUME isOplog PROVE CursorOK(c) BY Zenon DEF CursorOK
    <3>2. L < q.readTill \/ (L = q.readTill /\ ~IsCappedHidden(L)) BY Zenon, <1>1, <1>5, <2>1, <3>1 DEF Visible
    <3>3. uncommittedRecords \subseteq Nat BY Zenon, Numbers
    <3>4. \A x \in uncommittedRecords : L < x
      <4>1. CASE L < q.readTill BY <1>2, <1>3, <2>5, <3>1, <3>3, <4>1
      <4>2. CASE ~IsCappedHidden(L)
        <5>1. SUFFICES ASSUME NEW x \in uncommittedRecords PROVE L < x BY Zenon
        <5>2. PICK m : m = Least(uncommittedRecords) BY Zenon
        <5>3. m \in uncommittedRecords /\ m <= x BY Zenon, <3>3, <5>1, <5>2 DEF EndsFound
        <5>4. ~(m <= L) BY Zenon, <4>2, <5>1, <5>2 DEF IsCappedHidden
        <5> QED BY <2>5, <3>3, <5>3, <5>4
      <4> QED BY Zenon, <3>2, <4>1, <4>2
    <3>5. ASSUME NEW t \in Txns, Active(t), first[t] < q.readTill \/ first[t] <= L PROVE t \in q.snapshot
      <4>1. CASE first[t] < q.readTill BY Zenon, <1>3, <3>1, <3>5, <4>1
      <4>2. CASE ~(first[t] < q.readTill)
        <5>1. first[t] = L BY <1>2, <2>2, <2>5, <3>2, <3>5, <4>2
        <5>2. Numbered(t) BY Zenon, <3>5 DEF Numbered, Active
        <5>3. u \in Txns BY Zenon, <1>2
        <5>4. Numbered(u)
          <6>1. logPos[u] # 0 BY Zenon, <1>4
          <6> QED BY Zenon, <5>3, <6>1 DEF RangesInv, TxnOK, Numbered
        <5>5. first[t] <= last[t] BY Zenon, <5>2 DEF RangesInv, TxnOK
        <5>6. ~(last[t] < first[u] \/ last[u] < first[t]) BY <2>2, <2>6, <5>1, <5>3, <5>5
        <5>7. t = u BY Zenon, <5>2, <5>3, <5>4, <5>6 DEF RangesInv
        <5> QED BY Zenon, <5>7
      <4> QED BY Zenon, <4>1, <4>2
    <3>6. L <= q.readTill BY <1>2, <2>5, <3>2
    <3>7. c.pc # "eof" BY Zenon, <2>8
    <3> QED BY Zenon, <1>3, <2>8, <3>1, <3>4, <3>5, <3>6, <3>7 DEF CursorOK
  <2>11. c.pc # "closed" BY Zenon, <2>8
  <2>12. \A t \in c.snapshot : logPos[t] # 0 BY Zenon, <1>4, <2>8
  <2> QED BY Zenon, <1>0, <2>8, <2>9, <2>10, <2>11, <2>12, CursorStep
<1>6. CASE ~(Ahead(r) # {} /\ Visible(r, Least(Ahead(r))))
  <2>0. PICK S \in SUBSET Txns : S = {} BY Zenon
  <2>1. PICK c : c = [pc |-> "eof", readTill |-> q.readTill, snapshot |-> S, lastLoc |-> q.lastLoc] BY Zenon
  <2>2. c \in Cursor /\ c.pc = "eof" /\ c.readTill = q.readTill /\ c.snapshot = S /\ c.lastLoc = q.lastLoc
    BY Zenon, <1>2, <2>1 DEF Cursor
  <2>3. reader' = [reader EXCEPT ![r] = c]
    <3>1. c = [q EXCEPT !.pc = "eof", !.snapshot = S]
      <4>1. PICK d : d = [q EXCEPT !.pc = "eof"] BY Zenon
      <4>2. d = [pc |-> "eof", readTill |-> q.readTill, snapshot |-> q.snapshot, lastLoc |-> q.lastLoc] BY Zenon, <4>1 DEF Cursor
      <4>3. c = [d EXCEPT !.snapshot = S] BY <2>1, <4>2
      <4> QED BY Zenon, <4>1, <4>3
    <3> QED BY Zenon, <1>0, <1>1, <1>6, <2>0, <3>1
  <2>4. c.pc # "closed" /\ c.pc # "reading" BY Zenon, <2>2
  <2>5. CursorOK(c) BY Zenon, <1>3, <2>2, <2>4 DEF CursorOK
  <2>6. \A t \in c.snapshot : logPos[t] # 0 BY Zenon, <2>0, <2>2
  <2> QED BY Zenon, <1>0, <2>2, <2>3, <2>4, <2>5, <2>6, CursorStep
<1> QED BY Zenon, <1>5, <1>6

LEMMA CloseStep ==
  ASSUME CapInv, NEW r \in Readers, CloseCursor(r), isOplog' = isOplog
  PROVE  CapInv'
<1>1. PICK c : c = ClosedCursor BY Zenon
<1>2. c \in Cursor /\ c.pc = "closed" /\ c.snapshot = {} /\ c.lastLoc = 0 BY Zenon, <1>1 DEF ClosedCursor, Cursor
<1>3. CursorOK(c) BY Zenon, <1>2 DEF CursorOK
<1>4. \A t \in c.snapshot : logPos[t] # 0 BY Zenon, <1>2
<1>5. reader' = [reader EXCEPT ![r] = c] /\ UNCHANGED <<managerVars, txnVars, logVars, waiter>>
  BY Zenon, <1>1 DEF CloseCursor
<1> QED BY Zenon, <1>2, <1>3, <1>4, <1>5, CursorStep

(* What WaiterOK says of a call. *)
CallOK(c) ==
  c.pc # "idle" =>
    /\ c.waitingFor <= highestSeen
    /\ \A t \in c.done : txn[t] = "done" /\ last[t] <= c.waitingFor
    /\ c.pc = "returned" => \A x \in uncommittedRecords : c.waitingFor < x

(* One waiter moves. *)
LEMMA CallStep ==
  ASSUME CapInv, isOplog' = isOplog, UNCHANGED <<managerVars, txnVars, logVars, reader>>,
         NEW w \in Waiters, NEW c \in Wait, waiter' = [waiter EXCEPT ![w] = c], CallOK(c)
  PROVE  CapInv'
<1> USE DEF CapInv
<1>1. /\ txn' = txn /\ first' = first /\ last' = last /\ inserted' = inserted /\ nextId' = nextId
      /\ logPos' = logPos /\ logEnd' = logEnd /\ durable' = durable /\ syncFrom' = syncFrom /\ reader' = reader
      /\ uncommittedRecords' = uncommittedRecords /\ highestSeen' = highestSeen
      /\ opsWaitingForJournal' = opsWaitingForJournal /\ opsAboutToBeJournaled' = opsAboutToBeJournaled
      /\ journalThread' = journalThread /\ shuttingDown' = shuttingDown
  BY Zenon DEF managerVars, txnVars, logVars
<1>2. waiter \in [Waiters -> Wait] BY Zenon DEF TypeOK, Wait
<1>3. waiter' \in [Waiters -> Wait] /\ waiter'[w] = c /\ \A s \in Waiters : s # w => waiter'[s] = waiter[s]
  BY Zenon, <1>2
<1>4. TypeOK' BY Zenon, <1>1, <1>3 DEF TypeOK, Wait
<1>5. durable <= logEnd /\ syncFrom <= logEnd BY Zenon DEF RangesInv
<1>6. RangesInv' BY Zenon, <1>1, <1>5, RangesKept
<1>7. ListInv' BY Zenon, <1>1 DEF ListInv
<1>8. DurableInv' BY Zenon, <1>1 DEF DurableInv
<1>9. SnapshotInv' BY Zenon, <1>1 DEF SnapshotInv
<1>10. \A r \in Readers : ReaderOK(r)' BY Zenon, <1>1 DEF ReaderOK, Behind, Active
<1>11. ASSUME NEW s \in Waiters PROVE WaiterOK(s)'
  <2>1. PICK q : q = waiter'[s] BY Zenon
  <2>2. CallOK(q)
    <3>1. CASE s = w BY Zenon, <1>3, <2>1, <3>1
    <3>2. CASE s # w
      <4>1. q = waiter[s] BY Zenon, <1>3, <2>1, <3>2
      <4>2. WaiterOK(s) BY Zenon
      <4> QED BY Zenon, <4>1, <4>2 DEF CallOK, WaiterOK
    <3> QED BY Zenon, <3>1, <3>2
  <2> QED BY Zenon, <1>1, <2>1, <2>2 DEF CallOK, WaiterOK
<1> QED BY Zenon, <1>4, <1>6, <1>7, <1>8, <1>9, <1>10, <1>11

(* The predicate of the wait says what it should. *)
LEMMA EarlierVisible ==
  ASSUME TypeOK, EndsFound, NEW n \in Nat, AllEarlierVisible(n), NEW x \in uncommittedRecords
  PROVE  n < x
<1>1. uncommittedRecords \subseteq Nat BY Zenon, Numbers
<1>2. PICK m : m = Least(uncommittedRecords) BY Zenon
<1>3. m \in uncommittedRecords /\ m <= x BY Zenon, <1>1, <1>2 DEF EndsFound
<1>4. m > n BY Zenon, <1>2 DEF AllEarlierVisible
<1> QED BY <1>1, <1>3, <1>4

LEMMA StartWaitingStep ==
  ASSUME CapInv, EndsFound, NEW w \in Waiters, StartWaiting(w), isOplog' = isOplog
  PROVE  CapInv'
<1> USE DEF CapInv
<1>1. PICK p : p = IF AllEarlierVisible(highestSeen) THEN "returned" ELSE "asleep" BY Zenon
<1>2. PICK S \in SUBSET Txns : S = {t \in Txns : txn[t] = "done"} BY Zenon
<1>3. PICK h : h = highestSeen BY Zenon
<1>4. PICK c : c = [pc |-> p, waitingFor |-> h, done |-> S] BY Zenon
<1>5. waiter' = [waiter EXCEPT ![w] = c] /\ UNCHANGED <<managerVars, txnVars, logVars, reader>> /\ isOplog
  BY Zenon, <1>1, <1>2, <1>3, <1>4 DEF StartWaiting
<1>6. p \in {"returned", "asleep"} /\ h \in Nat BY Zenon, <1>1, <1>3, Numbers
<1>7. c \in Wait /\ c.pc = p /\ c.waitingFor = h /\ c.done = S BY Zenon, <1>4, <1>6 DEF Wait
<1>8. p = "returned" => \A x \in uncommittedRecords : h < x
  <2>1. p = "returned" => AllEarlierVisible(h) BY Zenon, <1>1, <1>3
  <2> QED BY Zenon, <1>6, <2>1, EarlierVisible
<1>9. \A t \in S : txn[t] = "done" /\ last[t] <= h
  BY Zenon, <1>2, <1>3, <1>5 DEF RangesInv, TxnOK
<1>10. h <= highestSeen BY <1>3, <1>6
<1>11. CallOK(c) BY Zenon, <1>7, <1>8, <1>9, <1>10 DEF CallOK
<1> QED BY Zenon, <1>5, <1>7, <1>11, CallStep

LEMMA WakeStep ==
  ASSUME CapInv, EndsFound, NEW w \in Waiters, WakeUp(w), isOplog' = isOplog
  PROVE  CapInv'
<1> USE DEF CapInv
<1>1. PICK q \in Wait : q = waiter[w] BY Zenon, WaitFields
<1>2. PICK p : p = IF AllEarlierVisible(q.waitingFor) THEN "returned" ELSE "asleep" BY Zenon
<1>3. q.waitingFor \in Nat /\ q.done \in SUBSET Txns BY Zenon, <1>1, WaitFields
<1>4. p \in {"returned", "asleep"} BY Zenon, <1>2
<1>5. PICK c : c = [q EXCEPT !.pc = p] BY Zenon
<1>6. c \in Wait /\ c.pc = p /\ c.waitingFor = q.waitingFor /\ c.done = q.done BY <1>4, <1>5 DEF Wait
<1>7. /\ q.pc = "awake" /\ waiter' = [waiter EXCEPT ![w] = c]
      /\ UNCHANGED <<managerVars, txnVars, logVars, reader>>
  BY Zenon, <1>1, <1>2, <1>5 DEF WakeUp
<1>8. p = "returned" => \A x \in uncommittedRecords : q.waitingFor < x
  <2>1. p = "returned" => AllEarlierVisible(q.waitingFor) BY Zenon, <1>2
  <2> QED BY Zenon, <1>3, <2>1, EarlierVisible
<1>9. q.pc # "idle" BY <1>7
<1>10. q.waitingFor <= highestSeen /\ \A t \in q.done : txn[t] = "done" /\ last[t] <= q.waitingFor
  BY Zenon, <1>1, <1>9 DEF WaiterOK
<1>11. CallOK(c) BY Zenon, <1>6, <1>8, <1>10 DEF CallOK
<1> QED BY Zenon, <1>6, <1>7, <1>11, CallStep

(* The server comes back with the writes its log kept. *)
LEMMA RestartStep ==
  ASSUME CapInv, EndsFound, NEW n \in durable..logEnd, Restart(n), isOplog' = isOplog
  PROVE  CapInv'
<1> USE DEF CapInv
<1>0. PICK K \in SUBSET Txns : K = {t \in Txns : logPos[t] # 0 /\ logPos[t] <= n} BY Zenon
<1>1. PICK H \in SUBSET 0..MaxRecord : H = {last[t] : t \in K}
  <2>1. ASSUME NEW t \in K PROVE last[t] \in 0..MaxRecord
    <3>1. logPos[t] # 0 /\ t \in Txns BY Zenon, <1>0
    <3>2. Numbered(t) BY Zenon, <3>1 DEF RangesInv, TxnOK, Numbered
    <3>3. last[t] < nextId /\ nextId <= MaxRecord + 1 BY Zenon, <3>1, <3>2 DEF RangesInv, TxnOK
    <3>4. last[t] \in Nat /\ nextId \in Nat BY Zenon, <3>1, Numbers
    <3> QED BY <3>3, <3>4, CappedAssumption
  <2> QED BY Zenon, <2>1
<1>2. /\ \A t \in Txns : logPos'[t] = IF t \in K THEN logPos[t] ELSE 0
      /\ \A t \in Txns : first'[t] = IF t \in K THEN first[t] ELSE 0
      /\ \A t \in Txns : last'[t] = IF t \in K THEN last[t] ELSE 0
      /\ \A t \in Txns : inserted'[t] = IF t \in K THEN inserted[t] ELSE 0
  BY Zenon, <1>0 DEF Restart
<1>3. \A t \in Txns : txn'[t] = IF t \in K THEN "done" ELSE IF txn[t] = "idle" THEN "idle" ELSE "lost"
  BY Zenon, <1>0 DEF Restart
<1>4. /\ logPos' = [t \in Txns |-> logPos'[t]] /\ first' = [t \in Txns |-> first'[t]]
      /\ last' = [t \in Txns |-> last'[t]] /\ inserted' = [t \in Txns |-> inserted'[t]]
      /\ txn' = [t \in Txns |-> txn'[t]]
  BY Zenon DEF Restart
<1>5. highestSeen' = (IF K = {} THEN 0 ELSE Greatest(H)) /\ nextId' = highestSeen' + 1
  BY Zenon, <1>0, <1>1 DEF Restart
<1>6. /\ logEnd' = n /\ durable' = n /\ syncFrom' = 0 /\ uncommittedRecords' = {} /\ opsWaitingForJournal' = {}
      /\ opsAboutToBeJournaled' = {} /\ journalThread' = "awake" /\ shuttingDown' = FALSE
      /\ reader' = [r \in Readers |-> ClosedCursor] /\ waiter' = [w \in Waiters |-> NotWaiting]
  BY Zenon DEF Restart
<1>7. /\ n \in Nat /\ \A t \in Txns : first[t] \in Nat /\ last[t] \in Nat /\ inserted[t] \in Nat /\ logPos[t] \in Nat
      /\ \A t \in K : logPos[t] # 0 /\ logPos[t] <= n
  <2>1. durable \in Nat /\ logEnd \in Nat BY Zenon, Numbers
  <2>2. n \in Nat BY <2>1
  <2> QED BY Zenon, <1>0, <2>2, Numbers
<1>8. highestSeen' \in Nat /\ highestSeen' <= MaxRecord /\ \A t \in K : last[t] <= highestSeen'
  <2>1. CASE K = {}
    <3>1. highestSeen' = 0 BY Zenon, <1>5, <2>1
    <3> QED BY <2>1, <3>1, CappedAssumption
  <2>2. CASE K # {}
    <3>1. H # {} BY Zenon, <1>1, <2>2
    <3>2. Greatest(H) \in H /\ \A y \in H : y <= Greatest(H) BY Zenon, <3>1 DEF EndsFound
    <3>3. highestSeen' \in H /\ \A y \in H : y <= highestSeen' BY Zenon, <1>5, <2>2, <3>2
    <3>4. \A t \in K : last[t] <= highestSeen' BY Zenon, <1>1, <3>3
    <3>5. highestSeen' \in 0..MaxRecord BY Zenon, <3>3
    <3> QED BY <3>4, <3>5, CappedAssumption
  <2> QED BY Zenon, <2>1, <2>2
<1>9. nextId' \in Nat /\ 1 <= nextId' /\ nextId' <= MaxRecord + 1 /\ highestSeen' < nextId'
  BY <1>5, <1>8, CappedAssumption
<1>10. ASSUME NEW t \in K
       PROVE  /\ t \in Txns /\ Numbered(t) /\ 1 <= first[t] /\ first[t] <= last[t] /\ inserted[t] = last[t]
              /\ txn'[t] = "done" /\ logPos'[t] = logPos[t] /\ first'[t] = first[t] /\ last'[t] = last[t]
              /\ inserted'[t] = inserted[t]
  <2>1. t \in Txns /\ logPos[t] # 0 BY Zenon, <1>7
  <2>2. txn[t] \in {"written", "done"} BY Zenon, <2>1 DEF RangesInv, TxnOK
  <2>3. Numbered(t) BY Zenon, <2>2 DEF Numbered
  <2> QED BY Zenon, <1>2, <1>3, <2>1, <2>2, <2>3 DEF RangesInv, TxnOK
<1>11. ASSUME NEW t \in Txns, t \notin K
       PROVE  /\ txn'[t] \in {"idle", "lost"} /\ logPos'[t] = 0 /\ first'[t] = 0 /\ last'[t] = 0
              /\ inserted'[t] = 0
  BY Zenon, <1>2, <1>3, <1>11
<1>12. TypeOK'
  <2>1. \A t \in Txns : /\ logPos'[t] \in Nat /\ first'[t] \in Nat /\ last'[t] \in Nat /\ inserted'[t] \in Nat
                        /\ txn'[t] \in {"idle", "open", "written", "done", "aborted", "lost"}
    <3>1. 0 \in Nat OBVIOUS
    <3> QED BY Zenon, <1>7, <1>10, <1>11, <3>1
  <2>2. /\ logPos' \in [Txns -> Nat] /\ first' \in [Txns -> Nat] /\ last' \in [Txns -> Nat] /\ inserted' \in [Txns -> Nat]
        /\ txn' \in [Txns -> {"idle", "open", "written", "done", "aborted", "lost"}]
    BY Zenon, <1>4, <2>1
  <2>3. ClosedCursor \in Cursor /\ NotWaiting \in Wait BY Zenon DEF ClosedCursor, NotWaiting, Cursor, Wait
  <2>4. reader' \in [Readers -> Cursor] /\ waiter' \in [Waiters -> Wait] BY Zenon, <1>6, <2>3
  <2>5. /\ uncommittedRecords' \subseteq Nat /\ opsWaitingForJournal' \subseteq Nat /\ opsAboutToBeJournaled' \subseteq Nat
        /\ journalThread' \in {"asleep", "awake", "syncing", "stopped"} /\ shuttingDown' \in BOOLEAN
        /\ logEnd' \in Nat /\ durable' \in Nat /\ syncFrom' \in Nat /\ isOplog' \in BOOLEAN
    <3>1. 0 \in Nat OBVIOUS
    <3> QED BY Zenon, <1>6, <1>7, <3>1 DEF TypeOK
  <2> QED BY Zenon, <1>8, <1>9, <2>2, <2>4, <2>5 DEF TypeOK, Cursor, Wait
<1>13. \A t \in Txns : Numbered(t)' <=> t \in K
  <2>1. \A t \in K : Numbered(t)' BY Zenon, <1>10 DEF Numbered
  <2>2. \A t \in Txns : t \notin K => ~Numbered(t)' BY Zenon, <1>11 DEF Numbered
  <2> QED BY Zenon, <2>1, <2>2
<1>14. RangesInv'
  <2>1. ASSUME NEW t \in K PROVE TxnOK(t)'
    <3>1. /\ first[t] \in Nat /\ last[t] \in Nat /\ t \in Txns /\ last[t] <= highestSeen' /\ inserted[t] = last[t]
          /\ 1 <= first[t] /\ first[t] <= last[t] /\ logPos[t] # 0 /\ logPos[t] <= n
      BY Zenon, <1>7, <1>8, <1>10
    <3>2. first[t] <= highestSeen' /\ last[t] < nextId' BY <1>8, <1>9, <3>1
    <3>3. Numbered(t)' BY Zenon, <1>13, <3>1
    <3> QED BY Zenon, <1>6, <1>10, <3>1, <3>2, <3>3 DEF TxnOK
  <2>2. ASSUME NEW t \in Txns, t \notin K PROVE TxnOK(t)'
    <3>1. ~Numbered(t)' /\ 0 <= n /\ 0 <= highestSeen' BY <1>7, <1>8, <1>13, <2>2
    <3>2. ~(txn'[t] \in {"written", "done"}) BY Zenon, <1>11, <2>2
    <3> QED BY Zenon, <1>6, <1>11, <2>2, <3>1, <3>2 DEF TxnOK
  <2>3. \A t, u \in Txns : t # u /\ Numbered(t)' /\ Numbered(u)' => last'[t] < first'[u] \/ last'[u] < first'[t]
    BY Zenon, <1>10, <1>13 DEF RangesInv
  <2>4. durable' <= logEnd' /\ syncFrom' <= logEnd' BY <1>6, <1>7
  <2> QED BY Zenon, <1>9, <2>1, <2>2, <2>3, <2>4 DEF RangesInv
<1>15. ListInv'
  <2>1. \A t \in Txns : ~(txn'[t] \in {"open", "written"}) BY Zenon, <1>10, <1>11
  <2> QED BY Zenon, <1>6, <2>1 DEF ListInv
<1>16. DurableInv'
  <2>1. \A t \in Txns : logPos'[t] <= durable'
    <3>1. 0 <= n BY <1>7
    <3> QED BY Zenon, <1>6, <1>7, <1>10, <1>11, <3>1
  <2>2. \A t \in Txns : first'[t] \notin opsAboutToBeJournaled' BY Zenon, <1>6
  <2> QED BY Zenon, <2>1, <2>2 DEF DurableInv
<1>17. \A r \in Readers : reader'[r].pc = "closed" /\ reader'[r].snapshot = {} /\ reader'[r].lastLoc = 0
  BY Zenon, <1>6 DEF ClosedCursor
<1>18. SnapshotInv' BY Zenon, <1>17 DEF SnapshotInv
<1>19. \A r \in Readers : ReaderOK(r)' BY Zenon, <1>17 DEF ReaderOK
<1>20. \A w \in Waiters : waiter'[w].pc = "idle" BY Zenon, <1>6 DEF NotWaiting
<1>21. \A w \in Waiters : WaiterOK(w)' BY Zenon, <1>20 DEF WaiterOK
<1> QED BY Zenon, <1>12, <1>14, <1>15, <1>16, <1>18, <1>19, <1>21

LEMMA CapInitially ==
  ASSUME Init
  PROVE  CapInv
<1>1. /\ isOplog \in BOOLEAN /\ uncommittedRecords = {} /\ highestSeen = 0 /\ opsWaitingForJournal = {}
      /\ opsAboutToBeJournaled = {} /\ journalThread = "awake" /\ shuttingDown = FALSE
      /\ logEnd = 0 /\ durable = 0 /\ syncFrom = 0 /\ nextId = 1
  BY Zenon DEF Init
<1>2. /\ txn = [t \in Txns |-> "idle"] /\ first = [t \in Txns |-> 0] /\ last = [t \in Txns |-> 0]
      /\ inserted = [t \in Txns |-> 0] /\ logPos = [t \in Txns |-> 0]
      /\ reader = [r \in Readers |-> ClosedCursor] /\ waiter = [w \in Waiters |-> NotWaiting]
  BY Zenon DEF Init
<1>3. \A t \in Txns : txn[t] = "idle" /\ first[t] = 0 /\ last[t] = 0 /\ inserted[t] = 0 /\ logPos[t] = 0
  BY Zenon, <1>2
<1>4. \A r \in Readers : reader[r].pc = "closed" /\ reader[r].snapshot = {} /\ reader[r].lastLoc = 0
  BY Zenon, <1>2 DEF ClosedCursor
<1>5. \A w \in Waiters : waiter[w].pc = "idle" BY Zenon, <1>2 DEF NotWaiting
<1>6. TypeOK
  <2>1. ClosedCursor \in Cursor /\ NotWaiting \in Wait BY DEF ClosedCursor, NotWaiting, Cursor, Wait
  <2>2. reader \in [Readers -> Cursor] /\ waiter \in [Waiters -> Wait] BY Zenon, <1>2, <2>1
  <2>3. 0 \in Nat /\ 1 \in Nat OBVIOUS
  <2>4. /\ first \in [Txns -> Nat] /\ last \in [Txns -> Nat] /\ inserted \in [Txns -> Nat] /\ logPos \in [Txns -> Nat]
        /\ txn \in [Txns -> {"idle", "open", "written", "done", "aborted", "lost"}]
    BY Zenon, <1>2, <2>3
  <2> QED BY Zenon, <1>1, <2>2, <2>3, <2>4 DEF TypeOK, Cursor, Wait
<1>7. \A t \in Txns : ~Numbered(t) /\ ~(txn[t] \in {"written", "done"}) /\ ~(txn[t] \in {"open", "written"})
  BY Zenon, <1>3 DEF Numbered
<1>8. RangesInv
  <2>1. \A t \in Txns : TxnOK(t)
    <3>1. 0 <= 0 OBVIOUS
    <3> QED BY Zenon, <1>1, <1>3, <1>7, <3>1 DEF TxnOK
  <2>2. 1 <= nextId /\ nextId <= MaxRecord + 1 /\ highestSeen < nextId /\ durable <= logEnd /\ syncFrom <= logEnd
    BY <1>1, CappedAssumption
  <2> QED BY Zenon, <1>7, <2>1, <2>2 DEF RangesInv
<1>9. ListInv BY Zenon, <1>1, <1>7 DEF ListInv
<1>10. DurableInv
  <2>1. \A t \in Txns : txn[t] # "done" /\ first[t] \notin opsAboutToBeJournaled BY Zenon, <1>1, <1>7
  <2> QED BY Zenon, <2>1 DEF DurableInv
<1>11. SnapshotInv BY Zenon, <1>4 DEF SnapshotInv
<1>12. (\A r \in Readers : ReaderOK(r)) /\ \A w \in Waiters : WaiterOK(w) BY Zenon, <1>4, <1>5 DEF ReaderOK, WaiterOK
<1> QED BY Zenon, <1>6, <1>8, <1>9, <1>10, <1>11, <1>12 DEF CapInv

(* Every step keeps the invariant. *)
LEMMA CapPreserved ==
  ASSUME CapInv, EndsFound, [Next]_<<isOplog, cappedVars>>
  PROVE  CapInv'
<1>1. CASE Step /\ isOplog' = isOplog
  <2>1. CASE \E t \in Txns : (\E count \in 1..MaxBatch : Register(t, count)) \/ TxnStep(t) \/ Rollback(t)
    <3>1. PICK t \in Txns : (\E count \in 1..MaxBatch : Register(t, count)) \/ TxnStep(t) \/ Rollback(t) BY Zenon, <2>1
    <3>2. CASE \E count \in 1..MaxBatch : Register(t, count) BY Zenon, <1>1, <3>2, RegisterStep
    <3>3. CASE TxnStep(t) BY Zenon, <1>1, <3>3, InsertStep, WriteStep, CommitStep DEF TxnStep
    <3>4. CASE Rollback(t) BY Zenon, <1>1, <3>4, RollbackStep
    <3> QED BY Zenon, <3>1, <3>2, <3>3, <3>4
  <2>2. CASE JournalTake \/ JournalDone \/ FlushJournal \/ JoinJournalThread
    BY Zenon, <1>1, <2>2, JournalTakeStep, JournalDoneStep, FlushStep, JoinStep
  <2>3. CASE \E r \in Readers : OpenCursor(r) \/ TakeSnapshot(r) \/ NextRecord(r) \/ CloseCursor(r)
    BY Zenon, <1>1, <2>3, OpenStep, SnapshotStep, NextStep, CloseStep
  <2>4. CASE \E w \in Waiters : StartWaiting(w) \/ WakeUp(w) BY Zenon, <1>1, <2>4, StartWaitingStep, WakeStep
  <2>5. CASE \E n \in durable..logEnd : Restart(n) BY Zenon, <1>1, <2>5, RestartStep
  <2> QED BY Zenon, <1>1, <2>1, <2>2, <2>3, <2>4, <2>5 DEF Step
<1>2. CASE UNCHANGED <<isOplog, cappedVars>>
  <2>1. /\ isOplog' = isOplog /\ txn' = txn /\ first' = first /\ last' = last /\ inserted' = inserted /\ nextId' = nextId
        /\ highestSeen' = highestSeen /\ logPos' = logPos /\ logEnd' = logEnd /\ reader' = reader /\ syncFrom' = syncFrom
        /\ opsWaitingForJournal' = opsWaitingForJournal /\ shuttingDown' = shuttingDown /\ durable' = durable
        /\ uncommittedRecords' = uncommittedRecords /\ opsAboutToBeJournaled' = opsAboutToBeJournaled
        /\ journalThread' = journalThread /\ waiter' = waiter
    BY Zenon, <1>2 DEF cappedVars, managerVars, txnVars, logVars
  <2>2. durable \in Nat /\ syncFrom \in Nat BY Zenon, Numbers DEF CapInv
  <2>3. durable <= logEnd /\ syncFrom <= logEnd BY Zenon DEF RangesInv, CapInv
  <2>4. durable <= durable BY <2>2
  <2>5. /\ opsWaitingForJournal \subseteq Nat /\ opsAboutToBeJournaled \subseteq Nat /\ shuttingDown \in BOOLEAN
        /\ journalThread \in {"asleep", "awake", "syncing", "stopped"}
    BY Zenon DEF TypeOK, CapInv
  <2>6. /\ TypeOK' /\ RangesInv' /\ SnapshotInv'
        /\ \A r \in Readers : ReaderOK(r)'
        /\ \A w \in Waiters : WaiterOK(w)'
    BY Zenon, <2>1, <2>2, <2>3, <2>4, <2>5, JournalKept
  <2>7. ListInv' BY Zenon, <2>1 DEF ListInv, CapInv
  <2>8. DurableInv' BY Zenon, <2>1 DEF DurableInv, CapInv
  <2> QED BY Zenon, <2>6, <2>7, <2>8 DEF CapInv
<1> QED BY Zenon, <1>1, <1>2 DEF Next

LEMMA NoHole ==
  ASSUME CapInv
  PROVE  ReaderSeesNoHole
<1>1. SUFFICES ASSUME isOplog, NEW r \in Readers, reader[r].pc = "reading", NEW t \in Txns,
                      txn[t] \in {"open", "written", "done"}, first[t] <= reader[r].lastLoc
               PROVE  t \in reader[r].snapshot
  BY Zenon DEF ReaderSeesNoHole
<1>2. reader[r].pc # "closed" BY Zenon, <1>1
<1> QED BY Zenon, <1>1, <1>2 DEF CapInv, ReaderOK, Behind, Active

(* What is not hidden is before every record of the list. *)
LEMMA NotHidden ==
  ASSUME TypeOK, EndsFound, NEW n \in Nat, ~IsCappedHidden(n), NEW x \in uncommittedRecords
  PROVE  n < x
<1>1. uncommittedRecords \subseteq Nat BY Zenon, Numbers
<1>2. PICK m : m = Least(uncommittedRecords) BY Zenon
<1>3. m \in uncommittedRecords /\ m <= x BY Zenon, <1>1, <1>2 DEF EndsFound
<1>4. ~(m <= n) BY Zenon, <1>2 DEF IsCappedHidden
<1> QED BY <1>1, <1>3, <1>4

LEMMA InOrder ==
  ASSUME CapInv, EndsFound
  PROVE  SurvivesInOrder
<1> USE DEF CapInv
<1>1. SUFFICES ASSUME isOplog, NEW n \in durable..logEnd, NEW t \in Txns, NEW u \in Txns,
                      logPos[t] # 0, logPos[t] <= n, ~IsCappedHidden(first[t]),
                      logPos[u] # 0, first[u] < first[t]
               PROVE  logPos[u] <= n
  BY Zenon DEF SurvivesInOrder
<1>2. /\ first[u] \in Nat /\ first[t] \in Nat /\ logPos[u] \in Nat /\ logPos[t] \in Nat /\ durable \in Nat /\ logEnd \in Nat
      /\ uncommittedRecords \subseteq Nat
  BY Zenon, Numbers
<1>3. first[u] \notin uncommittedRecords
  <2>1. \A x \in uncommittedRecords : first[t] < x BY Zenon, <1>1, <1>2, NotHidden
  <2> QED BY <1>1, <1>2, <2>1
<1>4. txn[u] = "done"
  <2>1. txn[u] \in {"written", "done"} BY Zenon, <1>1 DEF RangesInv, TxnOK
  <2> QED BY Zenon, <1>3, <2>1 DEF ListInv
<1>5. \/ logPos[u] <= durable
      \/ \A v \in Txns : first[u] < first[v] /\ logPos[v] # 0 => logPos[u] < logPos[v]
  BY Zenon, <1>1, <1>3, <1>4 DEF DurableInv
<1>6. logPos[u] <= durable \/ logPos[u] < logPos[t] BY Zenon, <1>1, <1>5
<1> QED BY <1>1, <1>2, <1>6

LEMMA Once ==
  ASSUME CapInv
  PROVE  ErasedOnce
BY Zenon DEF CapInv, ListInv, ErasedOnce

LEMMA WaitedFor ==
  ASSUME CapInv, EndsFound
  PROVE  WaitedForIsVisible
<1> USE DEF CapInv
<1>1. SUFFICES ASSUME NEW w \in Waiters, waiter[w].pc = "returned", NEW t \in waiter[w].done, IsCappedHidden(last[t])
               PROVE  FALSE
  BY Zenon DEF WaitedForIsVisible
<1>2. waiter[w].pc # "idle" BY Zenon, <1>1
<1>3. last[t] <= waiter[w].waitingFor /\ \A x \in uncommittedRecords : waiter[w].waitingFor < x
  BY Zenon, <1>1, <1>2 DEF WaiterOK
<1>4. waiter[w].waitingFor \in Nat /\ last[t] \in Nat /\ uncommittedRecords \subseteq Nat
  BY Zenon, Numbers, WaitFields
<1>5. PICK m : m = Least(uncommittedRecords) BY Zenon
<1>6. m \in uncommittedRecords /\ m <= last[t] BY Zenon, <1>1, <1>4, <1>5 DEF IsCappedHidden, EndsFound
<1> QED BY <1>3, <1>4, <1>6
-----------------------------------------------------------------------------
Stored == UNION {RecordsOf(t) : t \in {u \in Txns : logPos[u] # 0}}
Pending == UNION {RecordsOf(t) : t \in {u \in counted : txn[u] = "open"}}
Tally == Live \cup Pending

(* The two ways to weigh a set of records, and what is used of either. *)
Records == SUBSET (1..MaxRecord)
Docs == [S \in Records |-> Cardinality(S)]
Size == [S \in Records |-> DataSize(S)]

Additive(w) ==
  /\ w \in [Records -> Nat]
  /\ w[{}] = 0
  /\ \A S, T \in Records : S \cap T = {} => w[S \cup T] = w[S] + w[T]

SizesAdd == Additive(Docs) /\ Additive(Size)

Busy == {"wants", "busy", "waits", "holds"}
Stage == {"no", "wants", "busy", "waits", "holds", "done"}

Trimmer == [by : Txns \cup {Background}, pc : {"none", "locked", "excess", "scan", "counted", "hint"},
            sizeOver : Nat, docsOver : Nat, view : SUBSET Nat, removed : SUBSET Nat]

UnitsInv ==
  /\ counted \subseteq Txns /\ \A t \in counted : txn[t] # "idle"
  /\ trim \in [Txns -> Stage] /\ \A t \in counted : trim[t] = "done"
  /\ \A t \in Txns : trim[t] \in Busy => ~isOplog /\ txn[t] = "open" /\ t \notin counted

DeadInv ==
  /\ dead \subseteq Stored /\ deleter.removed \subseteq Stored
  /\ \A x \in dead \cup deleter.removed : \A y \in uncommittedRecords : x < y

DeleterInv ==
  /\ deleter \in Trimmer
  /\ deleter.pc # "none" => (deleter.by = Background <=> isOplog)
  /\ deleter.pc # "none" /\ deleter.by # Background => trim[deleter.by] = "holds"
  /\ deleter.pc \in {"none", "locked", "excess"} => deleter.removed = {}
  /\ deleter.pc \in {"scan", "counted"} => deleter.removed \cap dead = {}
  /\ deleter.pc = "scan" => deleter.view \subseteq Live /\ deleter.view \cap deleter.removed = {}

(* A counter n is the weight of what is counted, but for a trim whose batch is *)
(* not yet written; an excess over a limit l, once computed, stays one.        *)
InFlight(w) == IF deleter.pc = "counted" THEN w[deleter.removed] ELSE 0
CountOK(w, n, l, over) ==
  /\ n = w[Tally] - InFlight(w)
  /\ deleter.pc \in {"excess", "scan"} /\ over > 0 => n + w[Own(deleter.by)] >= l + over

CountInv ==
  /\ cappedMaxDocs \in Int
  /\ cappedMaxDocs = -1 => deleter.docsOver = 0
  /\ CountOK(Docs, numRecords, cappedMaxDocs, deleter.docsOver)
  /\ CountOK(Size, dataSize, CappedMaxSize, deleter.sizeOver)

TrimInv ==
  lastTrim.newestOld # 0 =>
    /\ lastTrim.newestOld \in 1..MaxRecord
    /\ lastTrim.by # Background => lastTrim.by \in Txns /\ Numbered(lastTrim.by)
    /\ ExceedsCap(Kept \cup Own(lastTrim.by) \cup {lastTrim.newestOld})

DelInv == UnitsInv /\ DeadInv /\ DeleterInv /\ CountInv /\ TrimInv

(* What no step does: a unit of work that has its records keeps them, and one  *)
(* that is about to trim stays open.                                           *)
Steady ==
  \A t \in Txns :
    /\ Numbered(t) => Numbered(t)' /\ RecordsOf(t)' = RecordsOf(t)
    /\ trim[t] \in Busy => txn'[t] = "open"

LEMMA RecordsIn ==
  ASSUME CapInv, NEW t \in Txns, Numbered(t)
  PROVE  /\ RecordsOf(t) \subseteq 1..MaxRecord
         /\ \A x \in RecordsOf(t) : x \in Nat /\ x < nextId /\ first[t] <= x /\ x <= last[t]
<1>1. first[t] \in Nat /\ last[t] \in Nat /\ nextId \in Nat BY Zenon, Numbers DEF CapInv
<1>2. 1 <= first[t] /\ last[t] < nextId /\ nextId <= MaxRecord + 1 BY Zenon DEF CapInv, RangesInv, TxnOK
<1> QED BY <1>1, <1>2, CappedAssumption DEF RecordsOf

LEMMA WrittenIsNumbered ==
  ASSUME CapInv, NEW t \in Txns, logPos[t] # 0
  PROVE  Numbered(t) /\ txn[t] \in {"written", "done"}
BY Zenon DEF CapInv, RangesInv, TxnOK, Numbered

LEMMA StoredIn ==
  ASSUME CapInv
  PROVE  /\ Stored \subseteq 1..MaxRecord
         /\ \A x \in Stored : x \in Nat /\ x < nextId
<1>1. ASSUME NEW x \in Stored PROVE x \in 1..MaxRecord /\ x \in Nat /\ x < nextId
  <2>1. PICK t \in Txns : logPos[t] # 0 /\ x \in RecordsOf(t) BY Zenon DEF Stored
  <2> QED BY Zenon, <2>1, RecordsIn, WrittenIsNumbered
<1> QED BY Zenon, <1>1

LEMMA PendingIn ==
  ASSUME CapInv, DelInv
  PROVE  Pending \subseteq 1..MaxRecord
<1>1. ASSUME NEW x \in Pending PROVE x \in 1..MaxRecord
  <2>1. PICK t \in counted : txn[t] = "open" /\ x \in RecordsOf(t) BY Zenon DEF Pending
  <2>2. t \in Txns /\ Numbered(t) BY Zenon, <2>1 DEF DelInv, UnitsInv, Numbered
  <2> QED BY Zenon, <2>1, <2>2, RecordsIn
<1> QED BY Zenon, <1>1

LEMMA TallyIn ==
  ASSUME CapInv, DelInv
  PROVE  /\ Live \subseteq 1..MaxRecord /\ Tally \in Records /\ Live = Stored \ dead
         /\ Kept = Tally \ deleter.removed /\ Kept \in Records /\ deleter.removed \in Records
<1>1. Live = Stored \ dead BY Zenon DEF Live, Stored
<1>2. Kept = Tally \ deleter.removed BY Zenon DEF Kept, Tally, Pending
<1>3. deleter.removed \subseteq 1..MaxRecord BY Zenon, StoredIn DEF DelInv, DeadInv
<1> QED BY Zenon, <1>1, <1>2, <1>3, StoredIn, PendingIn DEF Tally, Records

LEMMA RecordsApart ==
  ASSUME CapInv, NEW t \in Txns, NEW u \in Txns, t # u, Numbered(t), Numbered(u)
  PROVE  RecordsOf(t) \cap RecordsOf(u) = {}
<1>1. last[t] < first[u] \/ last[u] < first[t] BY Zenon DEF CapInv, RangesInv
<1>2. first[t] \in Nat /\ last[t] \in Nat /\ first[u] \in Nat /\ last[u] \in Nat BY Zenon, Numbers DEF CapInv
<1> QED BY <1>1, <1>2 DEF RecordsOf

(* Records of units of work that are not committed are neither deleted nor     *)
(* stored and visible.                                                         *)
LEMMA OpenIsKept ==
  ASSUME CapInv, DelInv, NEW t \in Txns, txn[t] \in {"open", "written"}
  PROVE  RecordsOf(t) \cap (dead \cup deleter.removed) = {}
<1>1. first[t] \in uncommittedRecords BY Zenon DEF CapInv, ListInv
<1>2. Numbered(t) BY Zenon DEF Numbered
<1>3. SUFFICES ASSUME NEW x \in RecordsOf(t), x \in dead \cup deleter.removed PROVE FALSE BY Zenon
<1>4. x < first[t] BY Zenon, <1>1, <1>3 DEF DelInv, DeadInv
<1>5. x \in Nat /\ first[t] <= x /\ first[t] \in Nat BY Zenon, <1>2, <1>3, RecordsIn, Numbers DEF CapInv
<1> QED BY <1>4, <1>5

(* An open unit of work that has not added its records to the counters. *)
LEMMA UncountedApart ==
  ASSUME CapInv, DelInv, NEW t \in Txns, txn[t] = "open", t \notin counted
  PROVE  Numbered(t) /\ RecordsOf(t) \in Records /\ Tally \cap RecordsOf(t) = {}
<1>1. Numbered(t) BY Zenon DEF Numbered
<1>2. \A x \in Stored : x \notin RecordsOf(t)
  <2>1. SUFFICES ASSUME NEW x \in Stored, x \in RecordsOf(t) PROVE FALSE BY Zenon
  <2>2. PICK u \in Txns : logPos[u] # 0 /\ x \in RecordsOf(u) BY Zenon, <2>1 DEF Stored
  <2>3. Numbered(u) /\ txn[u] # "open" BY Zenon, <2>2, WrittenIsNumbered
  <2>4. u # t BY Zenon, <2>3
  <2> QED BY Zenon, <1>1, <2>1, <2>2, <2>3, <2>4, RecordsApart
<1>3. \A x \in Pending : x \notin RecordsOf(t)
  <2>1. SUFFICES ASSUME NEW x \in Pending, x \in RecordsOf(t) PROVE FALSE BY Zenon
  <2>2. PICK u \in counted : txn[u] = "open" /\ x \in RecordsOf(u) BY Zenon, <2>1 DEF Pending
  <2>3. u \in Txns /\ Numbered(u) /\ u # t BY Zenon, <2>2 DEF Numbered, DelInv, UnitsInv
  <2> QED BY Zenon, <1>1, <2>1, <2>2, <2>3, RecordsApart
<1>4. Live \subseteq Stored BY Zenon DEF Live, Stored
<1> QED BY Zenon, <1>1, <1>2, <1>3, <1>4, RecordsIn DEF Tally, Records

(* The records of the unit of work that trims. *)
LEMMA OwnIn ==
  ASSUME CapInv, DelInv, deleter.pc # "none"
  PROVE  /\ Own(deleter.by) \in Records /\ Tally \cap Own(deleter.by) = {}
         /\ deleter.by # Background => deleter.by \in Txns /\ Numbered(deleter.by)
         /\ Steady /\ deleter'.by = deleter.by => Own(deleter.by)' = Own(deleter.by)
<1>0. PICK b \in Txns \cup {Background} : b = deleter.by BY Zenon DEF DelInv, DeleterInv, Trimmer
<1>1. CASE b = Background
  <2>1. Own(b) = {} BY Zenon, <1>1 DEF Own
  <2>2. {} \in Records BY Zenon DEF Records
  <2>3. deleter'.by = b => Own(deleter.by)' = Own(b) BY Zenon, <1>1, <2>1 DEF Own
  <2> QED BY Zenon, <1>0, <1>1, <2>1, <2>2, <2>3
<1>2. CASE b # Background
  <2>1. b \in Txns BY Zenon, <1>0, <1>2
  <2>2. trim[b] = "holds" BY Zenon, <1>0, <1>2 DEF DelInv, DeleterInv
  <2>3. txn[b] = "open" /\ b \notin counted BY Zenon, <2>1, <2>2 DEF DelInv, UnitsInv, Busy
  <2>4. Own(b) = RecordsOf(b) BY Zenon, <1>2 DEF Own
  <2>5. Numbered(b) /\ RecordsOf(b) \in Records /\ Tally \cap RecordsOf(b) = {} BY Zenon, <2>1, <2>3, UncountedApart
  <2>6. Steady /\ deleter'.by = b => Own(deleter.by)' = RecordsOf(b)
    <3>1. SUFFICES ASSUME Steady, deleter'.by = b PROVE Own(deleter.by)' = RecordsOf(b) BY Zenon
    <3>2. RecordsOf(b)' = RecordsOf(b) BY Zenon, <2>1, <2>5, <3>1 DEF Steady
    <3>3. Own(deleter.by)' = RecordsOf(b)' BY Zenon, <1>2, <3>1 DEF Own, RecordsOf
    <3> QED BY Zenon, <3>2, <3>3
  <2> QED BY Zenon, <1>0, <1>2, <2>1, <2>4, <2>5, <2>6
<1> QED BY Zenon, <1>1, <1>2

(* Larger sets weigh more. *)
LEMMA Weighs ==
  ASSUME NEW w, Additive(w), NEW S \in Records, NEW T \in Records, S \subseteq T
  PROVE  /\ w[S] \in Nat /\ w[T] \in Nat /\ T \ S \in Records /\ w[T \ S] \in Nat
         /\ w[T] = w[S] + w[T \ S] /\ w[S] <= w[T]
<1>1. T \ S \in Records BY Zenon DEF Records
<1>2. S \cap (T \ S) = {} /\ S \cup (T \ S) = T BY Zenon
<1>3. w[T] = w[S] + w[T \ S] BY Zenon, <1>1, <1>2 DEF Additive
<1>4. w[S] \in Nat /\ w[T] \in Nat /\ w[T \ S] \in Nat BY Zenon, <1>1 DEF Additive
<1>5. w[S] <= w[T] BY <1>3, <1>4
<1> QED BY Zenon, <1>1, <1>3, <1>4, <1>5

LEMMA CapSays ==
  ASSUME NEW S \in Records
  PROVE  ExceedsCap(S) <=> Size[S] > CappedMaxSize \/ (cappedMaxDocs # -1 /\ Docs[S] > cappedMaxDocs)
<1>1. Size[S] = DataSize(S) /\ Docs[S] = Cardinality(S) BY Zenon DEF Size, Docs
<1> QED BY Zenon, <1>1 DEF ExceedsCap

LEMMA CapGrows ==
  ASSUME SizesAdd, cappedMaxDocs \in Int, NEW S \in Records, NEW T \in Records, S \subseteq T, ExceedsCap(S)
  PROVE  ExceedsCap(T)
<1>1. Additive(Docs) /\ Additive(Size) BY Zenon DEF SizesAdd
<1>2. PICK s \in Nat : s = Size[S] BY Zenon, <1>1, Weighs
<1>3. PICK t \in Nat : t = Size[T] /\ s <= t BY Zenon, <1>1, <1>2, Weighs
<1>4. PICK m \in Nat : m = Docs[S] BY Zenon, <1>1, Weighs
<1>5. PICK n \in Nat : n = Docs[T] /\ m <= n BY Zenon, <1>1, <1>4, Weighs
<1>6. s > CappedMaxSize => t > CappedMaxSize BY <1>2, <1>3, DeleteAssumption
<1>7. m > cappedMaxDocs => n > cappedMaxDocs BY <1>4, <1>5
<1> QED BY Zenon, <1>2, <1>3, <1>4, <1>5, <1>6, <1>7, CapSays

(* What stays grows, and no record is taken. *)
LEMMA TrimStays ==
  ASSUME CapInv, DelInv, SizesAdd, Steady, cappedMaxDocs' = cappedMaxDocs, lastTrim' = lastTrim,
         Kept \subseteq Kept', Kept' \in Records
  PROVE  TrimInv'
<1>1. SUFFICES ASSUME lastTrim.newestOld # 0
               PROVE  /\ lastTrim.newestOld \in 1..MaxRecord
                      /\ lastTrim.by # Background => lastTrim.by \in Txns /\ Numbered(lastTrim.by)'
                      /\ ExceedsCap(Kept \cup Own(lastTrim.by) \cup {lastTrim.newestOld})'
  <2>1. lastTrim.by = lastTrim'.by /\ lastTrim.newestOld = lastTrim'.newestOld BY Zenon
  <2> QED BY Zenon, <1>1, <2>1 DEF TrimInv, Numbered
<1>2. PICK x \in 1..MaxRecord : x = lastTrim.newestOld BY Zenon, <1>1 DEF DelInv, TrimInv
<1>3. PICK b : b = lastTrim.by BY Zenon
<1>4. (b # Background => b \in Txns /\ Numbered(b)) /\ ExceedsCap(Kept \cup Own(b) \cup {x})
  BY Zenon, <1>1, <1>2, <1>3 DEF DelInv, TrimInv
<1>5. (b # Background => Numbered(b)') /\ Own(b) \in Records /\ Own(lastTrim.by)' = Own(b)
  <2>1. CASE b = Background
    <3>1. Own(b) = {} /\ Own(lastTrim.by)' = {} BY Zenon, <1>3, <2>1 DEF Own
    <3> QED BY Zenon, <2>1, <3>1 DEF Records
  <2>2. CASE b # Background
    <3>1. RecordsOf(b)' = RecordsOf(b) /\ Numbered(b)' /\ RecordsOf(b) \in Records
      BY Zenon, <1>4, <2>2, RecordsIn DEF Steady, Records
    <3>2. Own(b) = RecordsOf(b) BY Zenon, <2>2 DEF Own
    <3>3. Own(lastTrim.by)' = RecordsOf(b)' BY Zenon, <1>3, <2>2 DEF Own, RecordsOf
    <3> QED BY Zenon, <3>1, <3>2, <3>3
  <2> QED BY Zenon, <2>1, <2>2
<1>6. PICK K \in Records : K = Kept' BY Zenon
<1>7. PICK S \in Records : S = Kept \cup Own(b) \cup {x} BY Zenon, <1>5, TallyIn DEF Records
<1>8. PICK T \in Records : T = K \cup Own(b) \cup {x} BY Zenon, <1>5, <1>6 DEF Records
<1>9. S \subseteq T BY Zenon, <1>6, <1>7, <1>8
<1>10. cappedMaxDocs \in Int BY Zenon DEF DelInv, CountInv
<1>11. ExceedsCap(T) BY Zenon, <1>4, <1>7, <1>9, <1>10, CapGrows
<1>12. Kept' \cup Own(lastTrim.by)' \cup {lastTrim'.newestOld} = T BY Zenon, <1>2, <1>5, <1>6, <1>8
<1>13. ExceedsCap(Kept \cup Own(lastTrim.by) \cup {lastTrim.newestOld})' BY Zenon, <1>11, <1>12 DEF ExceedsCap
<1>14. Numbered(lastTrim.by)' <=> Numbered(b)' BY Zenon, <1>3 DEF Numbered
<1> QED BY Zenon, <1>2, <1>3, <1>4, <1>5, <1>13, <1>14

(* The units of work and the manager step; the trimming does not. *)
LEMMA DelKept ==
  ASSUME CapInv, DelInv, SizesAdd, UNCHANGED deleteVars, isOplog' = isOplog, cappedMaxDocs' = cappedMaxDocs,
         Stored \subseteq Stored', Tally' = Tally, uncommittedRecords' \subseteq Nat,
         \A y \in uncommittedRecords' : y \in uncommittedRecords \/ nextId <= y,
         \A t \in counted : txn'[t] # "idle", Steady
  PROVE  DelInv'
<1>0. /\ numRecords' = numRecords /\ dataSize' = dataSize /\ counted' = counted /\ trim' = trim /\ dead' = dead
      /\ deleter' = deleter /\ lastTrim' = lastTrim
  BY Zenon DEF deleteVars, trimVars
<1> USE DEF DelInv
<1>1. UnitsInv'
  <2>1. \A t \in Txns : trim[t] \in Busy => ~isOplog /\ txn'[t] = "open" /\ t \notin counted
    BY Zenon DEF UnitsInv, Steady
  <2> QED BY Zenon, <1>0, <2>1 DEF UnitsInv
<1>2. DeadInv'
  <2>1. ASSUME NEW x \in dead \cup deleter.removed, NEW y \in uncommittedRecords' PROVE x < y
    <3>1. x \in Nat /\ x < nextId BY Zenon, StoredIn DEF DeadInv
    <3>2. nextId \in Nat /\ y \in Nat BY Zenon, Numbers DEF CapInv
    <3>3. y \in uncommittedRecords => x < y BY Zenon DEF DeadInv
    <3> QED BY <3>1, <3>2, <3>3
  <2>2. dead \subseteq Stored' /\ deleter.removed \subseteq Stored' BY Zenon DEF DeadInv
  <2> QED BY Zenon, <1>0, <2>1, <2>2 DEF DeadInv
<1>3. DeleterInv'
  <2>1. Live \subseteq Live' BY Zenon, <1>0 DEF Live, Stored
  <2>2. deleter.pc = "scan" => deleter.view \subseteq Live' BY Zenon, <2>1 DEF DeleterInv
  <2> QED BY Zenon, <1>0, <2>2 DEF DeleterInv, Trimmer
<1>4. CountInv'
  <2>1. deleter.pc \in {"excess", "scan"} => Own(deleter.by)' = Own(deleter.by)
    <3>1. deleter.pc \in {"excess", "scan"} => deleter.pc # "none" BY Zenon
    <3> QED BY Zenon, <1>0, <3>1, OwnIn
  <2>2. ASSUME NEW w, NEW n, NEW l, NEW o, CountOK(w, n, l, o) PROVE CountOK(w, n, l, o)'
    <3>1. InFlight(w)' = InFlight(w) BY Zenon, <1>0 DEF InFlight
    <3> QED BY Zenon, <1>0, <2>1, <2>2, <3>1 DEF CountOK
  <2>3. PICK n : n = numRecords BY Zenon
  <2>4. PICK z : z = dataSize BY Zenon
  <2>5. PICK l : l = cappedMaxDocs BY Zenon
  <2>6. PICK o : o = deleter.docsOver BY Zenon
  <2>7. PICK p : p = deleter.sizeOver BY Zenon
  <2>8. CountOK(Docs, n, l, o)' /\ CountOK(Size, z, CappedMaxSize, p)'
    BY Zenon, <2>2, <2>3, <2>4, <2>5, <2>6, <2>7 DEF CountInv
  <2>9. /\ CountOK(Docs, numRecords, cappedMaxDocs, deleter.docsOver)'
        /\ CountOK(Size, dataSize, CappedMaxSize, deleter.sizeOver)'
    BY Zenon, <1>0, <2>3, <2>4, <2>5, <2>6, <2>7, <2>8 DEF CountOK
  <2> QED BY Zenon, <1>0, <2>9 DEF CountInv
<1>5. TrimInv'
  <2>1. Kept' = Tally' \ deleter'.removed BY Zenon DEF Kept, Tally, Pending
  <2>2. Kept' = Kept BY Zenon, <1>0, <2>1, TallyIn
  <2> QED BY Zenon, <1>0, <2>2, TallyIn, TrimStays
<1> QED BY Zenon, <1>1, <1>2, <1>3, <1>4, <1>5

(* Nothing is written, and no unit of work that is counted opens or aborts. *)
LEMMA SetsKept ==
  ASSUME logPos' = logPos, counted' = counted, dead' = dead, counted \subseteq Txns,
         \A t \in Txns : logPos[t] # 0 \/ t \in counted => first'[t] = first[t] /\ last'[t] = last[t],
         \A t \in counted : txn'[t] = "open" <=> txn[t] = "open"
  PROVE  Stored' = Stored /\ Pending' = Pending /\ Tally' = Tally
<1>1. \A t \in Txns : logPos[t] # 0 \/ t \in counted => RecordsOf(t)' = RecordsOf(t) BY Zenon DEF RecordsOf
<1>2. Stored' = Stored
  <2>1. \A x : x \in Stored' <=> \E t \in Txns : logPos[t] # 0 /\ x \in RecordsOf(t)' BY Zenon DEF Stored
  <2>2. \A x : x \in Stored <=> \E t \in Txns : logPos[t] # 0 /\ x \in RecordsOf(t) BY Zenon DEF Stored
  <2>3. \A x : x \in Stored' <=> x \in Stored BY Zenon, <1>1, <2>1, <2>2
  <2> QED BY Zenon, <2>3
<1>3. Pending' = Pending
  <2>1. \A x : x \in Pending' <=> \E t \in counted : txn'[t] = "open" /\ x \in RecordsOf(t)' BY Zenon DEF Pending
  <2>2. \A x : x \in Pending <=> \E t \in counted : txn[t] = "open" /\ x \in RecordsOf(t) BY Zenon DEF Pending
  <2>3. \A x : x \in Pending' <=> x \in Pending BY Zenon, <1>1, <2>1, <2>2
  <2> QED BY Zenon, <2>3
<1>4. Live' = Live
  <2>1. Live = Stored \ dead /\ Live' = Stored' \ dead' BY Zenon DEF Live, Stored
  <2> QED BY Zenon, <1>2, <2>1
<1> QED BY Zenon, <1>2, <1>3, <1>4 DEF Tally

LEMMA DelRegister ==
  ASSUME CapInv, DelInv, SizesAdd, NEW t \in Txns, NEW count \in 1..MaxBatch, Register(t, count),
         isOplog' = isOplog, cappedMaxDocs' = cappedMaxDocs, UNCHANGED deleteVars
  PROVE  DelInv'
<1>0. /\ txn[t] = "idle" /\ txn' = [txn EXCEPT ![t] = "open"] /\ first' = [first EXCEPT ![t] = nextId]
      /\ last' = [last EXCEPT ![t] = nextId + count - 1] /\ logPos' = logPos
      /\ uncommittedRecords' = uncommittedRecords \cup {nextId}
  BY Zenon DEF Register, logVars
<1>1. counted' = counted /\ dead' = dead BY Zenon DEF deleteVars, trimVars
<1>2. txn'[t] = "open" /\ \A u \in Txns : u # t => txn'[u] = txn[u] /\ first'[u] = first[u] /\ last'[u] = last[u]
  BY Zenon, <1>0 DEF CapInv, TypeOK
<1>3. counted \subseteq Txns /\ \A u \in counted : txn[u] # "idle" BY Zenon DEF DelInv, UnitsInv
<1>4. logPos[t] = 0
  <2>1. ~(txn[t] \in {"written", "done"}) BY Zenon, <1>0
  <2> QED BY Zenon, <2>1, WrittenIsNumbered
<1>5. \A u \in Txns : logPos[u] # 0 \/ u \in counted => u # t BY Zenon, <1>0, <1>3, <1>4
<1>6. Stored' = Stored /\ Tally' = Tally BY Zenon, <1>0, <1>1, <1>2, <1>3, <1>5, SetsKept
<1>7. nextId \in Nat /\ uncommittedRecords \subseteq Nat BY Zenon, Numbers DEF CapInv
<1>8. uncommittedRecords' \subseteq Nat /\ \A y \in uncommittedRecords' : y \in uncommittedRecords \/ nextId <= y
  BY <1>0, <1>7
<1>9. \A u \in counted : txn'[u] # "idle" BY Zenon, <1>2, <1>3, <1>5
<1>10. Steady
  <2>1. ~Numbered(t) BY Zenon, <1>0 DEF Numbered
  <2>2. \A u \in Txns : Numbered(u) => Numbered(u)' /\ RecordsOf(u)' = RecordsOf(u)
    BY Zenon, <1>2, <2>1 DEF Numbered, RecordsOf
  <2>3. \A u \in Txns : trim[u] \in Busy => txn'[u] = "open" BY Zenon, <1>2 DEF DelInv, UnitsInv
  <2> QED BY Zenon, <2>2, <2>3 DEF Steady
<1> QED BY Zenon, <1>6, <1>8, <1>9, <1>10, DelKept

(* Steps that write nothing, and open no unit of work. *)
LEMMA DelQuiet ==
  ASSUME CapInv, DelInv, SizesAdd, isOplog' = isOplog, cappedMaxDocs' = cappedMaxDocs, UNCHANGED deleteVars,
         first' = first, last' = last, logPos' = logPos, uncommittedRecords' \subseteq uncommittedRecords,
         \A t \in counted : txn'[t] # "idle" /\ (txn'[t] = "open" <=> txn[t] = "open"),
         \A t \in Txns : (Numbered(t) => Numbered(t)') /\ (trim[t] \in Busy => txn'[t] = "open")
  PROVE  DelInv'
<1>1. counted' = counted /\ dead' = dead BY Zenon DEF deleteVars, trimVars
<1>2. counted \subseteq Txns BY Zenon DEF DelInv, UnitsInv
<1>3. Stored' = Stored /\ Tally' = Tally BY Zenon, <1>1, <1>2, SetsKept
<1>4. uncommittedRecords' \subseteq Nat BY Zenon, Numbers DEF CapInv
<1>5. Steady
  <2>1. \A t \in Txns : RecordsOf(t)' = RecordsOf(t) BY Zenon DEF RecordsOf
  <2> QED BY Zenon, <2>1 DEF Steady
<1> QED BY Zenon, <1>3, <1>4, <1>5, DelKept

LEMMA DelInsert ==
  ASSUME CapInv, DelInv, SizesAdd, NEW t \in Txns, Insert(t), isOplog' = isOplog, cappedMaxDocs' = cappedMaxDocs,
         UNCHANGED deleteVars
  PROVE  DelInv'
<1>1. txn' = txn /\ first' = first /\ last' = last /\ logPos' = logPos /\ uncommittedRecords' = uncommittedRecords
  BY Zenon DEF Insert, logVars
<1>2. \A u \in counted : txn[u] # "idle" BY Zenon DEF DelInv, UnitsInv
<1>3. \A u \in Txns : (Numbered(u) => Numbered(u)') /\ (trim[u] \in Busy => txn'[u] = "open")
  BY Zenon, <1>1 DEF DelInv, UnitsInv, Numbered
<1> QED BY Zenon, <1>1, <1>2, <1>3, DelQuiet

LEMMA DelCommit ==
  ASSUME CapInv, DelInv, SizesAdd, NEW t \in Txns, Commit(t), isOplog' = isOplog, cappedMaxDocs' = cappedMaxDocs,
         UNCHANGED deleteVars
  PROVE  DelInv'
<1>1. txn[t] = "written" /\ txn' = [txn EXCEPT ![t] = "done"] /\ first' = first /\ last' = last /\ logPos' = logPos
  BY Zenon DEF Commit, logVars
<1>2. uncommittedRecords' \subseteq uncommittedRecords BY Zenon DEF Commit, Defer, MakeVisible
<1>3. txn'[t] = "done" /\ \A u \in Txns : u # t => txn'[u] = txn[u] BY Zenon, <1>1 DEF CapInv, TypeOK
<1>4. counted \subseteq Txns /\ \A u \in counted : txn[u] # "idle" BY Zenon DEF DelInv, UnitsInv
<1>5. \A u \in counted : txn'[u] # "idle" /\ (txn'[u] = "open" <=> txn[u] = "open")
  <2>1. "done" # "idle" /\ "done" # "open" /\ "written" # "open" OBVIOUS
  <2> QED BY Zenon, <1>1, <1>3, <1>4, <2>1
<1>6. \A u \in Txns : (Numbered(u) => Numbered(u)') /\ (trim[u] \in Busy => txn'[u] = "open")
  <2>1. trim[t] \notin Busy /\ Numbered(t)' BY Zenon, <1>1, <1>3 DEF DelInv, UnitsInv, Numbered
  <2>2. \A u \in Txns : trim[u] \in Busy => txn[u] = "open" BY Zenon DEF DelInv, UnitsInv
  <2> QED BY Zenon, <1>3, <2>1, <2>2 DEF Numbered
<1> QED BY Zenon, <1>1, <1>2, <1>5, <1>6, DelQuiet

LEMMA DelRollback ==
  ASSUME CapInv, DelInv, SizesAdd, NEW t \in Txns, RollbackUncounted(t), isOplog' = isOplog,
         cappedMaxDocs' = cappedMaxDocs
  PROVE  DelInv'
<1>1. /\ txn' = [txn EXCEPT ![t] = "aborted"] /\ first' = first /\ last' = last /\ logPos' = logPos
      /\ t \notin counted /\ trim[t] \in {"no", "done"} /\ UNCHANGED deleteVars
  BY Zenon DEF RollbackUncounted, Rollback, logVars
<1>2. uncommittedRecords' \subseteq uncommittedRecords BY Zenon DEF RollbackUncounted, Rollback, MakeVisible
<1>3. txn'[t] = "aborted" /\ \A u \in Txns : u # t => txn'[u] = txn[u] BY Zenon, <1>1 DEF CapInv, TypeOK
<1>4. counted \subseteq Txns /\ \A u \in counted : txn[u] # "idle" BY Zenon DEF DelInv, UnitsInv
<1>5. \A u \in counted : txn'[u] = txn[u] BY Zenon, <1>1, <1>3, <1>4
<1>6. \A u \in counted : txn'[u] # "idle" /\ (txn'[u] = "open" <=> txn[u] = "open") BY Zenon, <1>4, <1>5
<1>7. \A u \in Txns : (Numbered(u) => Numbered(u)') /\ (trim[u] \in Busy => txn'[u] = "open")
  <2>1. trim[t] \notin Busy /\ Numbered(t)' BY Zenon, <1>1, <1>3 DEF Busy, Numbered
  <2>2. \A u \in Txns : trim[u] \in Busy => txn[u] = "open" BY Zenon DEF DelInv, UnitsInv
  <2> QED BY Zenon, <1>3, <2>1, <2>2 DEF Numbered
<1> QED BY Zenon, <1>1, <1>2, <1>6, <1>7, DelQuiet

LEMMA DelJournal ==
  ASSUME CapInv, DelInv, SizesAdd, JournalTake \/ JournalDone \/ FlushJournal, isOplog' = isOplog,
         cappedMaxDocs' = cappedMaxDocs, UNCHANGED deleteVars
  PROVE  DelInv'
<1>1. txn' = txn /\ first' = first /\ last' = last /\ logPos' = logPos
  BY Zenon DEF JournalTake, JournalDone, FlushJournal, txnVars
<1>2. uncommittedRecords' \subseteq uncommittedRecords
  BY Zenon DEF JournalTake, JournalDone, FlushJournal, managerVars
<1>3. \A u \in counted : txn[u] # "idle" BY Zenon DEF DelInv, UnitsInv
<1>4. \A u \in Txns : (Numbered(u) => Numbered(u)') /\ (trim[u] \in Busy => txn'[u] = "open")
  BY Zenon, <1>1 DEF DelInv, UnitsInv, Numbered
<1> QED BY Zenon, <1>1, <1>2, <1>3, <1>4, DelQuiet

(* A write moves records from the pending to the stored. *)
LEMMA DelWrite ==
  ASSUME CapInv, DelInv, SizesAdd, NEW t \in Txns, WriteCounted(t), isOplog' = isOplog,
         cappedMaxDocs' = cappedMaxDocs
  PROVE  DelInv'
<1>0. /\ t \in counted /\ txn[t] = "open" /\ txn' = [txn EXCEPT ![t] = "written"] /\ first' = first /\ last' = last
      /\ logPos' = [logPos EXCEPT ![t] = logEnd + 1] /\ uncommittedRecords' = uncommittedRecords
      /\ UNCHANGED deleteVars
  BY Zenon DEF WriteCounted, Write, managerVars
<1>1. counted' = counted /\ dead' = dead BY Zenon, <1>0 DEF deleteVars, trimVars
<1>2. /\ txn'[t] = "written" /\ logPos'[t] = logEnd + 1
      /\ \A u \in Txns : u # t => txn'[u] = txn[u] /\ logPos'[u] = logPos[u]
  BY Zenon, <1>0 DEF CapInv, TypeOK
<1>3. logEnd + 1 # 0
  <2>1. logEnd \in Nat BY Zenon, Numbers DEF CapInv
  <2> QED BY <2>1
<1>4. counted \subseteq Txns /\ \A u \in counted : txn[u] # "idle" BY Zenon DEF DelInv, UnitsInv
<1>5. \A u \in Txns : RecordsOf(u)' = RecordsOf(u) BY Zenon, <1>0 DEF RecordsOf
<1>6. \A x : x \in Stored' <=> x \in Stored \/ x \in RecordsOf(t)
  <2>1. \A x : x \in Stored' <=> \E u \in Txns : logPos'[u] # 0 /\ x \in RecordsOf(u)' BY Zenon DEF Stored
  <2>2. \A x : x \in Stored <=> \E u \in Txns : logPos[u] # 0 /\ x \in RecordsOf(u) BY Zenon DEF Stored
  <2>3. \A u \in Txns : logPos'[u] # 0 <=> (logPos[u] # 0 \/ u = t) BY Zenon, <1>2, <1>3
  <2> QED BY Zenon, <1>5, <2>1, <2>2, <2>3
<1>7. \A x : x \in Pending <=> x \in Pending' \/ x \in RecordsOf(t)
  <2>1. \A x : x \in Pending' <=> \E u \in counted : txn'[u] = "open" /\ x \in RecordsOf(u)'
    BY Zenon, <1>1 DEF Pending
  <2>2. \A x : x \in Pending <=> \E u \in counted : txn[u] = "open" /\ x \in RecordsOf(u) BY Zenon DEF Pending
  <2>3. \A u \in counted : txn[u] = "open" <=> (txn'[u] = "open" \/ u = t)
    <3>1. txn'[t] # "open" BY <1>2
    <3> QED BY Zenon, <1>0, <1>2, <1>4, <3>1
  <2>4. \A u \in counted : RecordsOf(u)' = RecordsOf(u) BY Zenon, <1>4, <1>5
  <2>5. ASSUME NEW x, x \in Pending PROVE x \in Pending' \/ x \in RecordsOf(t)
    <3>1. PICK u \in counted : txn[u] = "open" /\ x \in RecordsOf(u) BY Zenon, <2>2, <2>5
    <3>2. txn'[u] = "open" \/ u = t BY Zenon, <2>3, <3>1
    <3>3. x \in RecordsOf(u)' BY Zenon, <2>4, <3>1
    <3> QED BY Zenon, <2>1, <3>1, <3>2, <3>3
  <2>6. ASSUME NEW x, x \in Pending' PROVE x \in Pending
    <3>1. PICK u \in counted : txn'[u] = "open" /\ x \in RecordsOf(u)' BY Zenon, <2>1, <2>6
    <3>2. txn[u] = "open" BY Zenon, <2>3, <3>1
    <3>3. x \in RecordsOf(u) BY Zenon, <2>4, <3>1
    <3> QED BY Zenon, <2>2, <3>2, <3>3
  <2>7. ASSUME NEW x, x \in RecordsOf(t) PROVE x \in Pending BY Zenon, <1>0, <2>2, <2>7
  <2> QED BY Zenon, <2>5, <2>6, <2>7
<1>8. RecordsOf(t) \cap dead = {} BY Zenon, <1>0, OpenIsKept
<1>9. Live = Stored \ dead /\ Live' = Stored' \ dead BY Zenon, <1>1 DEF Live, Stored
<1>10. Tally' = Tally
  <2>1. \A x : x \in Tally' <=> x \in Tally BY Zenon, <1>6, <1>7, <1>8, <1>9 DEF Tally
  <2> QED BY Zenon, <2>1
<1>11. Stored \subseteq Stored' BY Zenon, <1>6
<1>12. uncommittedRecords \subseteq Nat BY Zenon, Numbers DEF CapInv
<1>13. \A u \in counted : txn'[u] # "idle"
  <2>1. txn'[t] # "idle" BY <1>2
  <2> QED BY Zenon, <1>2, <1>4, <2>1
<1>14. Steady
  <2>1. trim[t] \notin Busy /\ Numbered(t)' BY Zenon, <1>0, <1>2 DEF DelInv, UnitsInv, Numbered
  <2>2. \A u \in Txns : trim[u] \in Busy => txn[u] = "open" BY Zenon DEF DelInv, UnitsInv
  <2>3. \A u \in Txns : u # t => (Numbered(u) => Numbered(u)') BY Zenon, <1>2 DEF Numbered
  <2> QED BY Zenon, <1>2, <1>5, <2>1, <2>2, <2>3 DEF Steady
<1> QED BY Zenon, <1>0, <1>10, <1>11, <1>12, <1>13, <1>14, DelKept

(* A unit of work adds its records to the counters. *)
LEMMA DelCount ==
  ASSUME CapInv, DelInv, SizesAdd, NEW t \in Txns, Count(t), isOplog' = isOplog, cappedMaxDocs' = cappedMaxDocs
  PROVE  DelInv'
<1>0. /\ t \notin counted /\ txn[t] = "open" /\ counted' = counted \cup {t} /\ trim[t] = "done"
      /\ numRecords' = numRecords + Cardinality(RecordsOf(t)) /\ dataSize' = dataSize + DataSize(RecordsOf(t))
      /\ trim' = trim /\ dead' = dead /\ deleter' = deleter /\ lastTrim' = lastTrim
  BY Zenon DEF Count, trimVars
<1>1. /\ txn' = txn /\ first' = first /\ last' = last /\ logPos' = logPos /\ uncommittedRecords' = uncommittedRecords
  BY Zenon DEF Count, cappedVars, txnVars, logVars, managerVars
<1> USE DEF DelInv
<1>2. counted \subseteq Txns /\ \A u \in counted : txn[u] # "idle" BY Zenon DEF UnitsInv
<1>3. \A u \in Txns : RecordsOf(u)' = RecordsOf(u) BY Zenon, <1>1 DEF RecordsOf
<1>4. Stored' = Stored
  <2>1. \A x : x \in Stored' <=> \E u \in Txns : logPos[u] # 0 /\ x \in RecordsOf(u)' BY Zenon, <1>1 DEF Stored
  <2>2. \A x : x \in Stored <=> \E u \in Txns : logPos[u] # 0 /\ x \in RecordsOf(u) BY Zenon DEF Stored
  <2>3. \A x : x \in Stored' <=> x \in Stored BY Zenon, <1>3, <2>1, <2>2
  <2> QED BY Zenon, <2>3
<1>5. \A x : x \in Pending' <=> x \in Pending \/ x \in RecordsOf(t)
  <2>1. \A x : x \in Pending' <=> \E u \in counted' : txn[u] = "open" /\ x \in RecordsOf(u)' BY Zenon, <1>1 DEF Pending
  <2>2. \A x : x \in Pending <=> \E u \in counted : txn[u] = "open" /\ x \in RecordsOf(u) BY Zenon DEF Pending
  <2>3. \A u : u \in counted' <=> u \in counted \/ u = t BY Zenon, <1>0
  <2>4. ASSUME NEW x, x \in Pending' PROVE x \in Pending \/ x \in RecordsOf(t)
    <3>1. PICK u \in counted' : txn[u] = "open" /\ x \in RecordsOf(u)' BY Zenon, <2>1, <2>4
    <3>2. CASE u = t BY Zenon, <1>3, <3>1, <3>2
    <3>3. CASE u \in counted BY Zenon, <1>2, <1>3, <2>2, <3>1, <3>3
    <3> QED BY Zenon, <2>3, <3>2, <3>3
  <2>5. ASSUME NEW x, x \in Pending PROVE x \in Pending'
    <3>1. PICK u \in counted : txn[u] = "open" /\ x \in RecordsOf(u) BY Zenon, <2>2, <2>5
    <3>2. u \in counted' /\ x \in RecordsOf(u)' BY Zenon, <1>2, <1>3, <2>3, <3>1
    <3> QED BY Zenon, <2>1, <3>1, <3>2
  <2>6. ASSUME NEW x, x \in RecordsOf(t) PROVE x \in Pending'
    <3>1. t \in counted' /\ x \in RecordsOf(t)' BY Zenon, <1>3, <2>3, <2>6
    <3> QED BY Zenon, <1>0, <2>1, <3>1
  <2> QED BY Zenon, <2>4, <2>5, <2>6
<1>6. Live' = Live
  <2>1. Live = Stored \ dead /\ Live' = Stored' \ dead' BY Zenon DEF Live, Stored
  <2> QED BY Zenon, <1>0, <1>4, <2>1
<1>7. Tally' = Tally \cup RecordsOf(t)
  <2>1. \A x : x \in Tally' <=> x \in Tally \cup RecordsOf(t) BY Zenon, <1>5, <1>6 DEF Tally
  <2> QED BY Zenon, <2>1
<1>8. Numbered(t) /\ Tally \cap RecordsOf(t) = {} /\ RecordsOf(t) \in Records /\ Tally \in Records
  BY Zenon, <1>0, UncountedApart, TallyIn
<1>9. Steady BY Zenon, <1>1, <1>3 DEF Steady, UnitsInv, Numbered
<1>10. UnitsInv'
  <2>1. \A u \in Txns : trim[u] \in Busy => u # t BY Zenon, <1>0 DEF Busy
  <2>2. \A u \in Txns : trim[u] \in Busy => ~isOplog /\ txn[u] = "open" /\ u \notin counted BY Zenon DEF UnitsInv
  <2>3. \A u \in Txns : trim[u] \in Busy => ~isOplog /\ txn[u] = "open" /\ u \notin counted' BY Zenon, <1>0, <2>1, <2>2
  <2> QED BY Zenon, <1>0, <1>1, <1>2, <2>3 DEF UnitsInv
<1>11. DeadInv' BY Zenon, <1>0, <1>1, <1>4 DEF DeadInv
<1>12. DeleterInv' BY Zenon, <1>0, <1>6 DEF DeleterInv, Trimmer
<1>13. CountInv'
  <2>1. ASSUME NEW w, Additive(w), NEW n, NEW l \in Int, NEW o \in Nat, CountOK(w, n, l, o),
               NEW m, m = n + w[RecordsOf(t)]
        PROVE  CountOK(w, m, l, o)'
    <3>1. InFlight(w)' = InFlight(w) BY Zenon, <1>0 DEF InFlight
    <3>2. PICK r \in Nat : r = w[RecordsOf(t)] BY Zenon, <1>8, <2>1 DEF Additive
    <3>3. PICK s \in Nat : s = w[Tally] BY Zenon, <1>8, <2>1 DEF Additive
    <3>4. w[Tally'] = s + r BY Zenon, <1>7, <1>8, <2>1, <3>2, <3>3 DEF Additive
    <3>5. PICK f \in Nat : f = InFlight(w)
      <4>1. w[deleter.removed] \in Nat /\ 0 \in Nat BY Zenon, <2>1, TallyIn DEF Additive
      <4> QED BY Zenon, <4>1 DEF InFlight
    <3>6. n = s - f BY Zenon, <2>1, <3>3, <3>5 DEF CountOK
    <3>7. m = (s + r) - f /\ m = n + r BY <2>1, <3>2, <3>6
    <3>8. m = w[Tally'] - InFlight(w)' BY <3>1, <3>4, <3>5, <3>7
    <3>9. deleter.pc \in {"excess", "scan"} /\ o > 0 => m + w[Own(deleter.by)'] >= l + o
      <4>1. SUFFICES ASSUME deleter.pc \in {"excess", "scan"}, o > 0 PROVE m + w[Own(deleter.by)'] >= l + o BY Zenon
      <4>2. deleter.pc # "none" BY Zenon, <4>1
      <4>3. Own(deleter.by)' = Own(deleter.by) /\ Own(deleter.by) \in Records BY Zenon, <1>0, <1>9, <4>2, OwnIn
      <4>4. PICK v \in Nat : v = w[Own(deleter.by)] BY Zenon, <2>1, <4>3 DEF Additive
      <4>5. n + v >= l + o BY Zenon, <2>1, <4>1, <4>4 DEF CountOK
      <4>6. m + v >= l + o BY <3>6, <3>7, <4>5
      <4> QED BY Zenon, <4>3, <4>4, <4>6
    <3> QED BY Zenon, <1>0, <3>8, <3>9 DEF CountOK
  <2>2. Additive(Docs) /\ Additive(Size) BY Zenon DEF SizesAdd
  <2>3. PICK n : n = numRecords BY Zenon
  <2>4. PICK z : z = dataSize BY Zenon
  <2>5. PICK l \in Int : l = cappedMaxDocs BY Zenon DEF CountInv
  <2>6. PICK o \in Nat : o = deleter.docsOver BY Zenon DEF DeleterInv, Trimmer
  <2>7. PICK p \in Nat : p = deleter.sizeOver BY Zenon DEF DeleterInv, Trimmer
  <2>8. PICK n1 : n1 = numRecords' BY Zenon
  <2>9. PICK z1 : z1 = dataSize' BY Zenon
  <2>10. n1 = n + Docs[RecordsOf(t)] /\ z1 = z + Size[RecordsOf(t)]
    BY Zenon, <1>0, <1>8, <2>3, <2>4, <2>8, <2>9 DEF Docs, Size
  <2>11. CappedMaxSize \in Int BY DeleteAssumption
  <2>12. CountOK(Docs, n, l, o) /\ CountOK(Size, z, CappedMaxSize, p)
    BY Zenon, <2>3, <2>4, <2>5, <2>6, <2>7 DEF CountInv
  <2>13. CountOK(Docs, n1, l, o)' BY Zenon, <2>1, <2>2, <2>10, <2>12
  <2>14. CountOK(Size, z1, CappedMaxSize, p)' BY Zenon, <2>1, <2>2, <2>10, <2>11, <2>12
  <2>15. /\ CountOK(Docs, numRecords, cappedMaxDocs, deleter.docsOver)'
         /\ CountOK(Size, dataSize, CappedMaxSize, deleter.sizeOver)'
    BY Zenon, <1>0, <2>5, <2>6, <2>7, <2>8, <2>9, <2>13, <2>14 DEF CountOK
  <2> QED BY Zenon, <1>0, <2>15 DEF CountInv
<1>14. TrimInv'
  <2>1. Kept' = Tally' \ deleter'.removed BY Zenon DEF Kept, Tally, Pending
  <2>2. Kept \subseteq Kept' BY Zenon, <1>0, <1>7, <2>1, TallyIn
  <2>3. Kept' \in Records BY Zenon, <1>7, <1>8, <2>1 DEF Records
  <2> QED BY Zenon, <1>0, <1>9, <2>2, <2>3, TrimStays
<1> QED BY Zenon, <1>10, <1>11, <1>12, <1>13, <1>14

LEMMA SameUnits ==
  ASSUME DelInv, UNCHANGED cappedVars, counted' = counted
  PROVE  /\ Stored' = Stored /\ Pending' = Pending /\ Steady
         /\ txn' = txn /\ uncommittedRecords' = uncommittedRecords
<1>1. txn' = txn /\ first' = first /\ last' = last /\ logPos' = logPos /\ uncommittedRecords' = uncommittedRecords
  BY Zenon DEF cappedVars, txnVars, logVars, managerVars
<1>2. Steady
  <2>1. \A t \in Txns : RecordsOf(t)' = RecordsOf(t) BY Zenon, <1>1 DEF RecordsOf
  <2> QED BY Zenon, <1>1, <2>1 DEF Steady, Numbered, DelInv, UnitsInv
<1> QED BY Zenon, <1>1, <1>2 DEF Stored, Pending, RecordsOf

(* The deleter steps in its locals, and the counters may follow. *)
LEMMA DeleterMoves ==
  ASSUME CapInv, DelInv, UNCHANGED cappedVars, isOplog' = isOplog, counted' = counted, dead' = dead,
         trim' \in [Txns -> Stage], \A t \in counted : trim'[t] = "done",
         \A t \in Txns : trim'[t] \in Busy => ~isOplog /\ txn[t] = "open" /\ t \notin counted,
         NEW d \in Trimmer, deleter' = d, d.removed \subseteq Stored,
         \A x \in d.removed : \A y \in uncommittedRecords : x < y,
         d.pc # "none" => (d.by = Background <=> isOplog),
         d.pc # "none" /\ d.by # Background => trim'[d.by] = "holds",
         d.pc \in {"none", "locked", "excess"} => d.removed = {},
         d.pc \in {"scan", "counted"} => d.removed \cap dead = {},
         d.pc = "scan" => d.view \subseteq Live /\ d.view \cap d.removed = {}
  PROVE  UnitsInv' /\ DeadInv' /\ DeleterInv' /\ Tally' = Tally /\ Steady /\ Kept' = Tally \ d.removed
<1> USE DEF DelInv
<1>1. /\ Stored' = Stored /\ Pending' = Pending /\ Steady
      /\ txn' = txn /\ uncommittedRecords' = uncommittedRecords
  BY Zenon, SameUnits
<1>2. Live' = Live
  <2>1. Live = Stored \ dead /\ Live' = Stored' \ dead' BY Zenon DEF Live, Stored
  <2> QED BY Zenon, <1>1, <2>1
<1>3. UnitsInv' BY Zenon, <1>1 DEF UnitsInv
<1>4. DeadInv'
  <2>1. \A x \in dead \cup d.removed : \A y \in uncommittedRecords : x < y BY Zenon DEF DeadInv
  <2>2. dead \subseteq Stored BY Zenon DEF DeadInv
  <2> QED BY Zenon, <1>1, <2>1, <2>2 DEF DeadInv
<1>5. DeleterInv' BY Zenon, <1>2 DEF DeleterInv, Trimmer
<1>6. Tally' = Tally BY Zenon, <1>1, <1>2 DEF Tally
<1>7. Kept' = Tally' \ deleter'.removed BY Zenon DEF Kept, Tally, Pending
<1> QED BY Zenon, <1>1, <1>3, <1>4, <1>5, <1>6, <1>7

LEMMA TrimmerFields ==
  ASSUME NEW d \in Trimmer
  PROVE  /\ d.by \in Txns \cup {Background} /\ d.sizeOver \in Nat /\ d.docsOver \in Nat
         /\ d.view \in SUBSET Nat /\ d.removed \in SUBSET Nat
         /\ d.pc \in {"none", "locked", "excess", "scan", "counted", "hint"}
BY Zenon DEF Trimmer

(* Steps that leave the counters alone, and an excess that has been computed. *)
LEMMA CountStays ==
  ASSUME CapInv, DelInv, Steady, Tally' = Tally, numRecords' = numRecords, dataSize' = dataSize,
         cappedMaxDocs' = cappedMaxDocs, NEW d, deleter' = d,
         d = deleter \/ (deleter.pc # "counted" /\ d.pc # "counted"),
         d.docsOver = deleter.docsOver \/ d.docsOver = 0,
         d.pc \in {"excess", "scan"} => /\ deleter.pc \in {"excess", "scan"} /\ d.by = deleter.by
                                        /\ d.docsOver = deleter.docsOver /\ d.sizeOver = deleter.sizeOver
  PROVE  CountInv'
<1> USE DEF DelInv
<1>1. \A w : InFlight(w)' = InFlight(w) BY Zenon DEF InFlight
<1>2. d.pc \in {"excess", "scan"} => Own(deleter.by)' = Own(deleter.by)
  <2>1. d.pc \in {"excess", "scan"} => deleter.pc # "none" /\ deleter'.by = deleter.by BY Zenon
  <2> QED BY Zenon, <2>1, OwnIn
<1>3. CountOK(Docs, numRecords, cappedMaxDocs, deleter.docsOver)'
  <2>1. CountOK(Docs, numRecords, cappedMaxDocs, deleter.docsOver) BY Zenon DEF CountInv
  <2> QED BY Zenon, <1>1, <1>2, <2>1 DEF CountOK
<1>4. CountOK(Size, dataSize, CappedMaxSize, deleter.sizeOver)'
  <2>1. CountOK(Size, dataSize, CappedMaxSize, deleter.sizeOver) BY Zenon DEF CountInv
  <2> QED BY Zenon, <1>1, <1>2, <2>1 DEF CountOK
<1> QED BY Zenon, <1>3, <1>4 DEF CountInv

(* A unit of work goes on in cappedDeleteAsNeeded without the mutex. *)
LEMMA GoesOn ==
  ASSUME CapInv, DelInv, SizesAdd, isOplog' = isOplog, cappedMaxDocs' = cappedMaxDocs, NEW t \in Txns, NEW v \in Stage,
         UNCHANGED <<cappedVars, numRecords, dataSize, counted, dead, hint, deleter, lastTrim>>,
         trim' = [trim EXCEPT ![t] = v], trim[t] \in {"no", "wants", "busy", "waits"},
         v \in Busy => ~isOplog /\ txn[t] = "open" /\ t \notin counted
  PROVE  DelInv'
<1> USE DEF DelInv
<1>1. /\ UNCHANGED cappedVars /\ numRecords' = numRecords /\ dataSize' = dataSize
      /\ counted' = counted /\ dead' = dead /\ deleter' = deleter /\ lastTrim' = lastTrim
  BY Zenon
<1>2. trim \in [Txns -> Stage] /\ \A u \in counted : trim[u] = "done" BY Zenon DEF UnitsInv
<1>3. trim' \in [Txns -> Stage] /\ trim'[t] = v /\ \A u \in Txns : u # t => trim'[u] = trim[u] BY Zenon, <1>2
<1>4. \A u \in counted : trim'[u] = "done"
  <2>1. t \notin counted BY Zenon, <1>2
  <2>2. counted \subseteq Txns BY Zenon DEF UnitsInv
  <2> QED BY Zenon, <1>2, <1>3, <2>1, <2>2
<1>5. \A u \in Txns : trim'[u] \in Busy => ~isOplog /\ txn[u] = "open" /\ u \notin counted
  BY Zenon, <1>3 DEF UnitsInv
<1>6. PICK d \in Trimmer : d = deleter BY Zenon DEF DeleterInv
<1>7. d.pc # "none" /\ d.by # Background => trim'[d.by] = "holds"
  <2>1. SUFFICES ASSUME d.pc # "none", d.by # Background PROVE trim'[d.by] = "holds" BY Zenon
  <2>2. trim[d.by] = "holds" BY Zenon, <1>6, <2>1 DEF DeleterInv
  <2>3. d.by \in Txns BY Zenon, <2>1, TrimmerFields
  <2>4. d.by # t BY Zenon, <2>2
  <2> QED BY Zenon, <1>3, <2>2, <2>3, <2>4
<1>8. /\ d.removed \subseteq Stored /\ \A x \in d.removed : \A y \in uncommittedRecords : x < y
      /\ d.pc # "none" => (d.by = Background <=> isOplog)
      /\ d.pc \in {"none", "locked", "excess"} => d.removed = {}
      /\ d.pc \in {"scan", "counted"} => d.removed \cap dead = {}
      /\ d.pc = "scan" => d.view \subseteq Live /\ d.view \cap d.removed = {}
  BY Zenon, <1>6 DEF DeadInv, DeleterInv
<1>9. UnitsInv' /\ DeadInv' /\ DeleterInv' /\ Tally' = Tally /\ Steady /\ Kept' = Tally \ d.removed
  BY Zenon, <1>1, <1>3, <1>4, <1>5, <1>6, <1>7, <1>8, DeleterMoves
<1>10. CountInv'
  <2>1. d.by = deleter.by /\ d.pc = deleter.pc /\ d.docsOver = deleter.docsOver /\ d.sizeOver = deleter.sizeOver
    BY Zenon, <1>6
  <2>2. deleter' = d /\ d = deleter BY Zenon, <1>1, <1>6
  <2>3. d.pc \in {"excess", "scan"} => /\ deleter.pc \in {"excess", "scan"} /\ d.by = deleter.by
                                        /\ d.docsOver = deleter.docsOver /\ d.sizeOver = deleter.sizeOver
    BY Zenon, <2>1
  <2>4. d = deleter \/ (deleter.pc # "counted" /\ d.pc # "counted") BY <2>2
  <2>5. Steady /\ Tally' = Tally /\ numRecords' = numRecords /\ dataSize' = dataSize BY Zenon, <1>1, <1>9
  <2> QED BY Zenon, <2>1, <2>2, <2>3, <2>4, <2>5, CountStays
<1>11. TrimInv'
  <2>1. Kept' = Kept /\ Kept \in Records BY Zenon, <1>6, <1>9, TallyIn
  <2> QED BY Zenon, <1>1, <1>9, <2>1, TrimStays
<1> QED BY Zenon, <1>9, <1>10, <1>11

(* The deleter takes _cappedDeleterMutex. *)
LEMMA LockedStep ==
  ASSUME CapInv, DelInv, SizesAdd, UNCHANGED <<cappedVars, numRecords, dataSize, counted, dead, hint, lastTrim>>,
         isOplog' = isOplog, cappedMaxDocs' = cappedMaxDocs,
         deleter.pc = "none", NEW b \in Txns \cup {Background}, b = Background <=> isOplog,
         trim' \in [Txns -> Stage], \A t \in counted : trim'[t] = "done",
         \A t \in Txns : trim'[t] \in Busy => ~isOplog /\ txn[t] = "open" /\ t \notin counted,
         b # Background => trim'[b] = "holds",
         deleter' = [by |-> b, pc |-> "locked", sizeOver |-> 0, docsOver |-> 0, view |-> {}, removed |-> {}]
  PROVE  DelInv'
<1> USE DEF DelInv
<1>1. /\ UNCHANGED cappedVars /\ numRecords' = numRecords /\ dataSize' = dataSize
      /\ counted' = counted /\ dead' = dead /\ lastTrim' = lastTrim
  BY Zenon
<1>2. PICK d : d = [by |-> b, pc |-> "locked", sizeOver |-> 0, docsOver |-> 0, view |-> {}, removed |-> {}] BY Zenon
<1>3. d \in Trimmer /\ d.by = b /\ d.pc = "locked" /\ d.docsOver = 0 /\ d.removed = {} BY Zenon, <1>2 DEF Trimmer
<1>4. d.pc # "none" /\ d.pc # "scan" /\ d.pc # "counted" /\ d.pc # "excess" BY Zenon, <1>3
<1>5. UnitsInv' /\ DeadInv' /\ DeleterInv' /\ Tally' = Tally /\ Steady /\ Kept' = Tally \ d.removed
  BY Zenon, <1>1, <1>2, <1>3, <1>4, DeleterMoves
<1>6. deleter.pc # "counted" /\ deleter.removed = {} BY Zenon DEF DeleterInv
<1>7. CountInv' BY Zenon, <1>1, <1>2, <1>3, <1>4, <1>5, <1>6, CountStays
<1>8. TrimInv'
  <2>1. Kept' = Kept /\ Kept \in Records BY Zenon, <1>3, <1>5, <1>6, TallyIn
  <2> QED BY Zenon, <1>1, <1>5, <2>1, TrimStays
<1> QED BY Zenon, <1>5, <1>7, <1>8

LEMMA LocksStep ==
  ASSUME CapInv, DelInv, SizesAdd, NEW t \in Txns, Locks(t), trim[t] \in {"wants", "waits"}, deleter.pc = "none",
         isOplog' = isOplog, cappedMaxDocs' = cappedMaxDocs
  PROVE  DelInv'
<1>1. /\ UNCHANGED <<cappedVars, numRecords, dataSize, counted, dead, hint, lastTrim>>
      /\ trim' = [trim EXCEPT ![t] = "holds"] /\ deleter' = [NoDeleter EXCEPT !.by = t, !.pc = "locked"]
  BY Zenon DEF Locks
<1>2. trim \in [Txns -> Stage] /\ \A u \in counted : trim[u] = "done" BY Zenon DEF DelInv, UnitsInv
<1>3. ~isOplog /\ txn[t] = "open" /\ t \notin counted /\ t # Background
  <2>1. trim[t] \in Busy BY Zenon DEF Busy
  <2> QED BY Zenon, <2>1, DeleteAssumption DEF DelInv, UnitsInv
<1>4. deleter' = [by |-> t, pc |-> "locked", sizeOver |-> 0, docsOver |-> 0, view |-> {}, removed |-> {}]
  BY Zenon, <1>1 DEF NoDeleter
<1>5. trim' \in [Txns -> Stage] /\ trim'[t] = "holds" /\ \A u \in Txns : u # t => trim'[u] = trim[u]
  BY Zenon, <1>1, <1>2 DEF Stage
<1>6. \A u \in counted : trim'[u] = "done"
  <2>1. counted \subseteq Txns BY Zenon DEF DelInv, UnitsInv
  <2> QED BY Zenon, <1>2, <1>3, <1>5, <2>1
<1>7. \A u \in Txns : trim'[u] \in Busy => ~isOplog /\ txn[u] = "open" /\ u \notin counted
  BY Zenon, <1>3, <1>5 DEF DelInv, UnitsInv
<1> QED BY Zenon, <1>1, <1>3, <1>4, <1>5, <1>6, <1>7, LockedStep

LEMMA TrimUnitStep ==
  ASSUME CapInv, DelInv, SizesAdd, NEW t \in Txns, TrimStep(t), isOplog' = isOplog, cappedMaxDocs' = cappedMaxDocs
  PROVE  DelInv'
<1>0. trim[t] \in Busy => ~isOplog /\ txn[t] = "open" /\ t \notin counted BY Zenon DEF DelInv, UnitsInv
<1>1. CASE TrimCheck(t)
  <2>1. PICK v : v = IF isOplog \/ ~CappedAndNeedDelete(Own(t)) THEN "done" ELSE "wants" BY Zenon
  <2>2. v \in Stage /\ (v \in Busy => ~isOplog) BY Zenon, <2>1 DEF Stage, Busy
  <2>3. /\ UNCHANGED <<cappedVars, numRecords, dataSize, counted, dead, hint, deleter, lastTrim>>
        /\ trim' = [trim EXCEPT ![t] = v] /\ trim[t] = "no" /\ txn[t] = "open"
    BY Zenon, <1>1, <2>1 DEF TrimCheck
  <2>4. t \notin counted BY Zenon, <2>3 DEF DelInv, UnitsInv
  <2> QED BY Zenon, <2>2, <2>3, <2>4, GoesOn
<1>2. ASSUME NEW v \in Stage, Goes(t, v), trim[t] \in {"wants", "busy", "waits"} PROVE DelInv'
  <2>1. trim[t] \in Busy /\ trim[t] \in {"no", "wants", "busy", "waits"} BY Zenon, <1>2 DEF Busy
  <2>2. /\ UNCHANGED <<cappedVars, numRecords, dataSize, counted, dead, hint, deleter, lastTrim>>
        /\ trim' = [trim EXCEPT ![t] = v]
    BY Zenon, <1>2 DEF Goes
  <2> QED BY Zenon, <1>0, <2>1, <2>2, GoesOn
<1>3. "busy" \in Stage /\ "waits" \in Stage /\ "done" \in Stage BY Zenon DEF Stage
<1>4. CASE TrimLock(t) BY Zenon, <1>4, LocksStep DEF TrimLock
<1>5. CASE TryLockFails(t) BY Zenon, <1>2, <1>3, <1>5 DEF TryLockFails
<1>6. CASE BackPressure(t)
  <2>1. PICK v : v = IF dataSize - CappedMaxSize < CappedMaxSizeSlack THEN "done" ELSE "waits" BY Zenon
  <2>2. v \in Stage BY Zenon, <1>3, <2>1
  <2>3. Goes(t, v) /\ trim[t] = "busy" BY Zenon, <1>6, <2>1 DEF BackPressure
  <2> QED BY Zenon, <1>2, <2>2, <2>3
<1>7. CASE WaitLock(t) BY Zenon, <1>2, <1>3, <1>7, LocksStep DEF WaitLock
<1>8. CASE WaitTimeout(t) BY Zenon, <1>2, <1>3, <1>8 DEF WaitTimeout
<1> QED BY Zenon, <1>1, <1>4, <1>5, <1>6, <1>7, <1>8 DEF TrimStep

LEMMA BackgroundStep ==
  ASSUME CapInv, DelInv, SizesAdd, BackgroundStart, isOplog' = isOplog, cappedMaxDocs' = cappedMaxDocs
  PROVE  DelInv'
<1>1. /\ UNCHANGED <<cappedVars, numRecords, dataSize, counted, dead, hint, lastTrim>> /\ isOplog
      /\ deleter.pc = "none" /\ trim' = trim /\ deleter' = [NoDeleter EXCEPT !.pc = "locked"]
  BY Zenon DEF BackgroundStart
<1>2. /\ trim \in [Txns -> Stage] /\ \A u \in counted : trim[u] = "done"
      /\ \A u \in Txns : trim[u] \in Busy => ~isOplog /\ txn[u] = "open" /\ u \notin counted
  BY Zenon DEF DelInv, UnitsInv
<1>3. deleter' = [by |-> Background, pc |-> "locked", sizeOver |-> 0, docsOver |-> 0, view |-> {}, removed |-> {}]
  BY Zenon, <1>1 DEF NoDeleter
<1> QED BY Zenon, <1>1, <1>2, <1>3, LockedStep

(* The excess over a limit l of a counter n, computed. *)
LEMMA ExcessHolds ==
  ASSUME CapInv, DelInv, Steady, NEW w, Additive(w), NEW n, NEW l \in Int, NEW o, NEW e, CountOK(w, n, l, o),
         Tally' = Tally, deleter.pc = "locked", NEW d, deleter' = d, d.pc = "excess", d.by = deleter.by,
         e = 0 \/ (n + w[Own(deleter.by)] > l /\ e = n + w[Own(deleter.by)] - l)
  PROVE  e \in Nat /\ CountOK(w, n, l, e)'
<1>1. deleter.pc # "none" /\ deleter.pc # "counted" /\ d.pc # "counted" BY Zenon
<1>2. Own(deleter.by)' = Own(deleter.by) /\ Own(deleter.by) \in Records BY Zenon, <1>1, OwnIn
<1>3. InFlight(w) = 0 /\ InFlight(w)' = 0 BY Zenon, <1>1 DEF InFlight
<1>4. PICK s \in Nat : s = w[Tally] BY Zenon, TallyIn DEF Additive
<1>5. PICK v \in Nat : v = w[Own(deleter.by)] BY Zenon, <1>2 DEF Additive
<1>6. n = s - 0 BY Zenon, <1>3, <1>4 DEF CountOK
<1>7. e \in Nat /\ (e > 0 => n + v >= l + e)
  <2>1. e = 0 \/ (n + v > l /\ e = n + v - l) BY Zenon, <1>5
  <2>2. CASE e = 0 BY <2>2
  <2>3. CASE n + v > l /\ e = n + v - l BY <1>4, <1>5, <1>6, <2>3
  <2> QED BY Zenon, <2>1, <2>2, <2>3
<1> QED BY Zenon, <1>2, <1>3, <1>4, <1>5, <1>6, <1>7 DEF CountOK

(* It reads the counters... *)
LEMMA ExcessStep ==
  ASSUME CapInv, DelInv, SizesAdd, ComputeExcess, isOplog' = isOplog, cappedMaxDocs' = cappedMaxDocs
  PROVE  DelInv'
<1> USE DEF DelInv
<1>1. /\ UNCHANGED cappedVars /\ numRecords' = numRecords /\ dataSize' = dataSize
      /\ counted' = counted /\ dead' = dead /\ trim' = trim /\ lastTrim' = lastTrim
      /\ deleter.pc = "locked"
      /\ deleter' = [deleter EXCEPT !.pc = "excess", !.sizeOver = SizeOver(Own(deleter.by)),
                                    !.docsOver = DocsOver(Own(deleter.by))]
  BY Zenon DEF ComputeExcess
<1>2. /\ trim \in [Txns -> Stage] /\ \A u \in counted : trim[u] = "done"
      /\ \A u \in Txns : trim[u] \in Busy => ~isOplog /\ txn[u] = "open" /\ u \notin counted
  BY Zenon DEF UnitsInv
<1>3. PICK q \in Trimmer : q = deleter BY Zenon DEF DeleterInv
<1>4. PICK p : p = SizeOver(Own(q.by)) BY Zenon
<1>5. PICK o : o = DocsOver(Own(q.by)) BY Zenon
<1>6. q.pc # "none" /\ q.pc # "counted" BY <1>1, <1>3
<1>7. /\ (q.by = Background <=> isOplog) /\ q.removed = {}
      /\ q.by # Background => trim[q.by] = "holds"
  BY Zenon, <1>1, <1>3, <1>6 DEF DeleterInv
<1>8. Own(q.by) \in Records BY Zenon, <1>3, <1>6, OwnIn
<1>9. DataSize(Own(q.by)) = Size[Own(q.by)] /\ Cardinality(Own(q.by)) = Docs[Own(q.by)] BY Zenon, <1>8 DEF Size, Docs
<1>10. p = 0 \/ (dataSize + Size[Own(q.by)] > CappedMaxSize /\ p = dataSize + Size[Own(q.by)] - CappedMaxSize)
  <2>1. PICK s : s = Size[Own(q.by)] BY Zenon
  <2>2. p = IF dataSize + s > CappedMaxSize THEN dataSize + s - CappedMaxSize ELSE 0
    BY Zenon, <1>4, <1>9, <2>1 DEF SizeOver
  <2>3. p = 0 \/ (dataSize + s > CappedMaxSize /\ p = dataSize + s - CappedMaxSize) BY <2>2
  <2> QED BY Zenon, <2>1, <2>3
<1>11. /\ o = 0 \/ (numRecords + Docs[Own(q.by)] > cappedMaxDocs /\ o = numRecords + Docs[Own(q.by)] - cappedMaxDocs)
       /\ cappedMaxDocs = -1 => o = 0
  <2>1. PICK s : s = Docs[Own(q.by)] BY Zenon
  <2>2. o = IF cappedMaxDocs # -1 /\ numRecords + s > cappedMaxDocs THEN numRecords + s - cappedMaxDocs ELSE 0
    BY Zenon, <1>5, <1>9, <2>1 DEF DocsOver
  <2>3. /\ o = 0 \/ (numRecords + s > cappedMaxDocs /\ o = numRecords + s - cappedMaxDocs)
        /\ cappedMaxDocs = -1 => o = 0
    BY <2>2
  <2> QED BY Zenon, <2>1, <2>3
<1>12. PICK d : d = [by |-> q.by, pc |-> "excess", sizeOver |-> p, docsOver |-> o, view |-> q.view, removed |-> q.removed]
  BY Zenon
<1>13. d.by = q.by /\ d.pc = "excess" /\ d.sizeOver = p /\ d.docsOver = o /\ d.removed = {} BY Zenon, <1>7, <1>12
<1>14. deleter' = d
  <2>1. PICK c : c = [q EXCEPT !.pc = "excess"] BY Zenon
  <2>2. c = [by |-> q.by, pc |-> "excess", sizeOver |-> q.sizeOver, docsOver |-> q.docsOver,
             view |-> q.view, removed |-> q.removed]
    BY Zenon, <2>1 DEF Trimmer
  <2>3. PICK a : a = [c EXCEPT !.sizeOver = p] BY Zenon
  <2>4. a = [by |-> q.by, pc |-> "excess", sizeOver |-> p, docsOver |-> q.docsOver,
             view |-> q.view, removed |-> q.removed]
    BY <2>2, <2>3
  <2>5. d = [a EXCEPT !.docsOver = o] BY <1>12, <2>4
  <2> QED BY Zenon, <1>1, <1>3, <1>4, <1>5, <2>1, <2>3, <2>5
<1>15. Steady /\ Tally' = Tally
  <2>1. Stored' = Stored /\ Pending' = Pending /\ Steady BY Zenon, <1>1, SameUnits
  <2>2. Live = Stored \ dead /\ Live' = Stored' \ dead' BY Zenon DEF Live, Stored
  <2> QED BY Zenon, <1>1, <2>1, <2>2 DEF Tally
<1>16. Additive(Docs) /\ Additive(Size) BY Zenon DEF SizesAdd
<1>17. PICK n : n = numRecords BY Zenon
<1>18. PICK z : z = dataSize BY Zenon
<1>19. PICK l \in Int : l = cappedMaxDocs BY Zenon DEF CountInv
<1>20. CappedMaxSize \in Int BY DeleteAssumption
<1>21. CountOK(Docs, n, l, deleter.docsOver) /\ CountOK(Size, z, CappedMaxSize, deleter.sizeOver)
  BY Zenon, <1>17, <1>18, <1>19 DEF CountInv
<1>21a. deleter.pc = "locked" /\ Tally' = Tally /\ Steady /\ deleter' = d /\ d.pc = "excess" /\ d.by = deleter.by
  BY Zenon, <1>1, <1>3, <1>13, <1>14, <1>15
<1>22. o \in Nat /\ CountOK(Docs, n, l, o)'
  <2>1. o = 0 \/ (n + Docs[Own(deleter.by)] > l /\ o = n + Docs[Own(deleter.by)] - l)
    BY Zenon, <1>3, <1>11, <1>17, <1>19
  <2>2. PICK i : i = deleter.docsOver BY Zenon
  <2>3. CountOK(Docs, n, l, i) BY Zenon, <1>21, <2>2
  <2>4. Additive(Docs) BY Zenon, <1>16
  <2> QED BY ZenonT(60), <1>21a, <2>1, <2>3, <2>4, ExcessHolds
<1>23. p \in Nat /\ CountOK(Size, z, CappedMaxSize, p)'
  <2>1. p = 0 \/ (z + Size[Own(deleter.by)] > CappedMaxSize /\ p = z + Size[Own(deleter.by)] - CappedMaxSize)
    BY Zenon, <1>3, <1>10, <1>18
  <2>2. PICK i : i = deleter.sizeOver BY Zenon
  <2>3. CountOK(Size, z, CappedMaxSize, i) BY Zenon, <1>21, <2>2
  <2>4. Additive(Size) BY Zenon, <1>16
  <2> QED BY ZenonT(60), <1>20, <1>21a, <2>1, <2>3, <2>4, ExcessHolds
<1>24. d \in Trimmer BY Zenon, <1>12, <1>22, <1>23 DEF Trimmer
<1>25. d.pc # "none" /\ d.pc # "scan" /\ d.pc # "counted" BY Zenon, <1>13
<1>26. UnitsInv' /\ DeadInv' /\ DeleterInv' /\ Kept' = Tally \ d.removed
  BY Zenon, <1>1, <1>2, <1>7, <1>13, <1>14, <1>24, <1>25, DeleterMoves
<1>27. CountInv'
  <2>1. /\ CountOK(Docs, numRecords, cappedMaxDocs, deleter.docsOver)'
        /\ CountOK(Size, dataSize, CappedMaxSize, deleter.sizeOver)'
    BY Zenon, <1>1, <1>13, <1>14, <1>17, <1>18, <1>19, <1>22, <1>23 DEF CountOK
  <2> QED BY Zenon, <1>11, <1>13, <1>14, <2>1 DEF CountInv
<1>28. TrimInv'
  <2>1. Kept' = Kept /\ Kept \in Records BY Zenon, <1>3, <1>7, <1>13, <1>26, TallyIn
  <2> QED BY Zenon, <1>1, <1>15, <2>1, TrimStays
<1> QED BY Zenon, <1>26, <1>27, <1>28

(* ... and places its iterator. *)
LEMMA SeekStep ==
  ASSUME CapInv, DelInv, SizesAdd, SeekHint, isOplog' = isOplog, cappedMaxDocs' = cappedMaxDocs
  PROVE  DelInv'
<1> USE DEF DelInv
<1>1. /\ UNCHANGED cappedVars /\ numRecords' = numRecords /\ dataSize' = dataSize
      /\ counted' = counted /\ dead' = dead /\ trim' = trim /\ lastTrim' = lastTrim
      /\ deleter.pc = "excess"
      /\ deleter' = [deleter EXCEPT !.pc = "scan", !.view = {loc \in Live : loc >= hint}]
  BY Zenon DEF SeekHint
<1>2. /\ trim \in [Txns -> Stage] /\ \A u \in counted : trim[u] = "done"
      /\ \A u \in Txns : trim[u] \in Busy => ~isOplog /\ txn[u] = "open" /\ u \notin counted
  BY Zenon DEF UnitsInv
<1>3. PICK q \in Trimmer : q = deleter BY Zenon DEF DeleterInv
<1>4. PICK V \in SUBSET Nat : V = {loc \in Live : loc >= hint}
  <2>1. \A x \in Live : x \in Nat BY Zenon, StoredIn, TallyIn
  <2> QED BY Zenon, <2>1
<1>5. q.pc # "none" /\ q.pc # "counted" BY Zenon, <1>1, <1>3
<1>6. /\ (q.by = Background <=> isOplog) /\ q.removed = {}
      /\ q.by # Background => trim[q.by] = "holds"
  BY Zenon, <1>1, <1>3, <1>5 DEF DeleterInv
<1>7. PICK d : d = [by |-> q.by, pc |-> "scan", sizeOver |-> q.sizeOver, docsOver |-> q.docsOver,
                    view |-> V, removed |-> q.removed]
  BY Zenon
<1>8. /\ d \in Trimmer /\ d.by = q.by /\ d.pc = "scan" /\ d.sizeOver = q.sizeOver /\ d.docsOver = q.docsOver
      /\ d.removed = {} /\ d.view = V
  BY Zenon, <1>6, <1>7, TrimmerFields DEF Trimmer
<1>9. deleter' = d
  <2>1. PICK c : c = [q EXCEPT !.pc = "scan"] BY Zenon
  <2>2. c = [by |-> q.by, pc |-> "scan", sizeOver |-> q.sizeOver, docsOver |-> q.docsOver,
             view |-> q.view, removed |-> q.removed]
    BY Zenon, <2>1 DEF Trimmer
  <2>3. d = [c EXCEPT !.view = V] BY <1>7, <2>2
  <2> QED BY Zenon, <1>1, <1>3, <1>4, <2>1, <2>3
<1>10. d.pc # "none" /\ d.pc # "counted" BY Zenon, <1>8
<1>11. V \subseteq Live BY Zenon, <1>4
<1>12. UnitsInv' /\ DeadInv' /\ DeleterInv' /\ Tally' = Tally /\ Steady /\ Kept' = Tally \ d.removed
  BY Zenon, <1>1, <1>2, <1>6, <1>8, <1>9, <1>10, <1>11, DeleterMoves
<1>13. CountInv'
  <2>1. deleter.pc \in {"excess", "scan"} /\ deleter.pc # "counted" BY Zenon, <1>1
  <2> QED BY Zenon, <1>1, <1>3, <1>8, <1>9, <1>10, <1>12, <2>1, CountStays
<1>14. TrimInv'
  <2>1. Kept' = Kept /\ Kept \in Records BY Zenon, <1>3, <1>6, <1>8, <1>12, TallyIn
  <2> QED BY Zenon, <1>1, <1>12, <2>1, TrimStays
<1> QED BY Zenon, <1>12, <1>13, <1>14

(* While the deleter has not saved an excess, what it keeps, with the records  *)
(* of its own unit, is over the limit.                                         *)
LEMMA StillOver ==
  ASSUME CapInv, DelInv, NEW w, Additive(w), NEW n, NEW l \in Int, NEW o \in Nat, CountOK(w, n, l, o),
         deleter.pc = "scan", w[deleter.removed] < o
  PROVE  Kept \cup Own(deleter.by) \in Records /\ w[Kept \cup Own(deleter.by)] > l
<1>1. deleter.pc # "none" /\ deleter.pc # "counted" BY Zenon
<1>2. Own(deleter.by) \in Records /\ Tally \cap Own(deleter.by) = {} BY Zenon, <1>1, OwnIn
<1>3. Kept = Tally \ deleter.removed /\ Kept \in Records /\ Tally \in Records /\ deleter.removed \in Records
  BY Zenon, TallyIn
<1>4. deleter.removed \subseteq Tally
  <2>1. deleter.removed \subseteq Stored /\ deleter.removed \cap dead = {} BY Zenon DEF DelInv, DeadInv, DeleterInv
  <2>2. Live = Stored \ dead BY Zenon, TallyIn
  <2> QED BY Zenon, <2>1, <2>2 DEF Tally
<1>5. PICK s \in Nat : s = w[Tally] BY Zenon, <1>3 DEF Additive
<1>6. PICK r \in Nat : r = w[deleter.removed] BY Zenon, <1>3 DEF Additive
<1>7. PICK k \in Nat : k = w[Kept] BY Zenon, <1>3 DEF Additive
<1>8. PICK v \in Nat : v = w[Own(deleter.by)] BY Zenon, <1>2 DEF Additive
<1>9. s = r + k
  <2>1. PICK T \in Records : T = Tally BY Zenon, <1>3
  <2>2. PICK R \in Records : R = deleter.removed BY Zenon, <1>3
  <2>3. R \subseteq T BY Zenon, <1>4, <2>1, <2>2
  <2>4. w[T] = w[R] + w[T \ R] BY Zenon, <2>3, Weighs
  <2> QED BY Zenon, <1>3, <1>5, <1>6, <1>7, <2>1, <2>2, <2>4
<1>10. Kept \cap Own(deleter.by) = {} BY Zenon, <1>2, <1>3
<1>11. w[Kept \cup Own(deleter.by)] = k + v BY Zenon, <1>2, <1>3, <1>7, <1>8, <1>10 DEF Additive
<1>12. n = s - 0
  <2>1. InFlight(w) = 0 BY Zenon, <1>1 DEF InFlight
  <2> QED BY Zenon, <1>5, <2>1 DEF CountOK
<1>13. o > 0 BY <1>6
<1>14. n + v >= l + o BY Zenon, <1>8, <1>13 DEF CountOK
<1>15. k + v > l BY <1>6, <1>9, <1>12, <1>14
<1> QED BY Zenon, <1>2, <1>3, <1>11, <1>15 DEF Records

LEMMA ScanningOver ==
  ASSUME CapInv, DelInv, SizesAdd, deleter.pc = "scan", Scanning
  PROVE  ExceedsCap(Kept \cup Own(deleter.by))
<1> USE DEF DelInv
<1>1. Additive(Docs) /\ Additive(Size) BY Zenon DEF SizesAdd
<1>2. PICK l \in Int : l = cappedMaxDocs BY Zenon DEF CountInv
<1>3. PICK o \in Nat : o = deleter.docsOver BY Zenon DEF DeleterInv, Trimmer
<1>4. PICK p \in Nat : p = deleter.sizeOver BY Zenon DEF DeleterInv, Trimmer
<1>5. PICK n : n = numRecords BY Zenon
<1>6. PICK z : z = dataSize BY Zenon
<1>7. CountOK(Docs, n, l, o) /\ CountOK(Size, z, CappedMaxSize, p)
  BY Zenon, <1>2, <1>3, <1>4, <1>5, <1>6 DEF CountInv
<1>8. CappedMaxSize \in Int BY DeleteAssumption
<1>9. deleter.removed \in Records BY Zenon, TallyIn
<1>10. DataSize(deleter.removed) = Size[deleter.removed] /\ Cardinality(deleter.removed) = Docs[deleter.removed]
  BY Zenon, <1>9 DEF Size, Docs
<1>11. CASE Size[deleter.removed] < p
  <2>1. Kept \cup Own(deleter.by) \in Records /\ Size[Kept \cup Own(deleter.by)] > CappedMaxSize
    BY Zenon, <1>1, <1>7, <1>8, <1>11, StillOver
  <2>2. PICK S \in Records : S = Kept \cup Own(deleter.by) BY Zenon, <2>1
  <2>3. ExceedsCap(S) BY Zenon, <2>1, <2>2, CapSays
  <2> QED BY Zenon, <2>2, <2>3
<1>12. CASE Docs[deleter.removed] < o
  <2>1. o # 0
    <3>1. PICK r \in Nat : r = Docs[deleter.removed] BY Zenon, <1>1, <1>9 DEF Additive
    <3> QED BY <1>12, <3>1
  <2>2. cappedMaxDocs # -1 BY Zenon, <1>3, <2>1 DEF CountInv
  <2>3. Kept \cup Own(deleter.by) \in Records /\ Docs[Kept \cup Own(deleter.by)] > cappedMaxDocs
    BY Zenon, <1>1, <1>2, <1>7, <1>12, StillOver
  <2> QED BY Zenon, <2>2, <2>3, CapSays
<1> QED BY Zenon, <1>3, <1>4, <1>10, <1>11, <1>12 DEF Scanning

(* A record is deleted: what stayed until now, which it was part of, is over a *)
(* limit with the records of the deleter's own unit.                           *)
LEMMA DeleteNextStep ==
  ASSUME CapInv, DelInv, SizesAdd, EndsFound, DeleteNext, isOplog' = isOplog, cappedMaxDocs' = cappedMaxDocs
  PROVE  DelInv'
<1> USE DEF DelInv
<1>1. /\ UNCHANGED cappedVars /\ numRecords' = numRecords /\ dataSize' = dataSize
      /\ counted' = counted /\ dead' = dead /\ trim' = trim
      /\ deleter.pc = "scan" /\ Scanning /\ MayDelete(Least(deleter.view))
      /\ deleter' = [deleter EXCEPT !.removed = deleter.removed \cup {Least(deleter.view)},
                                    !.view = deleter.view \ {Least(deleter.view)}]
      /\ lastTrim' = [newestOld |-> Least(deleter.view), by |-> deleter.by]
  BY Zenon DEF DeleteNext
<1>2. /\ trim \in [Txns -> Stage] /\ \A u \in counted : trim[u] = "done"
      /\ \A u \in Txns : trim[u] \in Busy => ~isOplog /\ txn[u] = "open" /\ u \notin counted
  BY Zenon DEF UnitsInv
<1>3. PICK q \in Trimmer : q = deleter BY Zenon DEF DeleterInv
<1>4. PICK L : L = Least(q.view) BY Zenon
<1>5. q.view \in SUBSET Nat /\ q.removed \in SUBSET Nat BY Zenon, TrimmerFields
<1>6. L \in q.view BY Zenon, <1>1, <1>3, <1>4, <1>5 DEF EndsFound, Scanning
<1>7. q.pc # "none" /\ q.pc # "counted" BY Zenon, <1>1, <1>3
<1>8. /\ (q.by = Background <=> isOplog) /\ (q.by # Background => trim[q.by] = "holds")
      /\ q.removed \cap dead = {} /\ q.view \subseteq Live /\ q.view \cap q.removed = {}
      /\ q.removed \subseteq Stored /\ \A x \in q.removed : \A y \in uncommittedRecords : x < y
  BY Zenon, <1>1, <1>3, <1>7 DEF DeleterInv, DeadInv
<1>9. L \in Live /\ L \in Stored /\ L \notin dead /\ L \notin q.removed /\ L \in 1..MaxRecord /\ L \in Nat
  <2>1. L \in Live /\ L \notin q.removed BY Zenon, <1>6, <1>8
  <2> QED BY Zenon, <2>1, StoredIn, TallyIn
<1>10. \A y \in uncommittedRecords : L < y
  <2>1. ~IsCappedHidden(L) BY Zenon, <1>1, <1>3, <1>4 DEF MayDelete
  <2> QED BY Zenon, <1>9, <2>1, NotHidden DEF CapInv
<1>11. PICK R \in SUBSET Nat : R = q.removed \cup {L} BY Zenon, <1>5, <1>9
<1>12. PICK V \in SUBSET Nat : V = q.view \ {L} BY Zenon, <1>5
<1>13. PICK d : d = [by |-> q.by, pc |-> q.pc, sizeOver |-> q.sizeOver, docsOver |-> q.docsOver,
                     view |-> V, removed |-> R]
  BY Zenon
<1>14. /\ d \in Trimmer /\ d.by = q.by /\ d.pc = q.pc /\ d.sizeOver = q.sizeOver /\ d.docsOver = q.docsOver
       /\ d.view = V /\ d.removed = R
  BY Zenon, <1>13 DEF Trimmer
<1>15. deleter' = d
  <2>1. PICK c : c = [q EXCEPT !.removed = R] BY Zenon
  <2>2. c = [by |-> q.by, pc |-> q.pc, sizeOver |-> q.sizeOver, docsOver |-> q.docsOver,
             view |-> q.view, removed |-> R]
    BY Zenon, <2>1 DEF Trimmer
  <2>3. d = [c EXCEPT !.view = V] BY <1>13, <2>2
  <2> QED BY Zenon, <1>1, <1>3, <1>4, <1>11, <1>12, <2>1, <2>3
<1>16. /\ R \subseteq Stored /\ R \cap dead = {} /\ V \subseteq Live /\ V \cap R = {}
       /\ \A x \in R : \A y \in uncommittedRecords : x < y
  BY Zenon, <1>8, <1>9, <1>10, <1>11, <1>12
<1>17. d.pc = "scan" /\ d.pc # "none" /\ d.pc # "locked" /\ d.pc # "excess" /\ d.pc # "counted"
  BY Zenon, <1>1, <1>3, <1>14
<1>18. UnitsInv' /\ DeadInv' /\ DeleterInv' /\ Tally' = Tally /\ Steady /\ Kept' = Tally \ d.removed
  BY Zenon, <1>1, <1>2, <1>8, <1>14, <1>15, <1>16, <1>17, DeleterMoves
<1>19. CountInv'
  <2>1. deleter.pc \in {"excess", "scan"} /\ deleter.pc # "counted" BY Zenon, <1>1
  <2> QED BY Zenon, <1>1, <1>3, <1>14, <1>15, <1>17, <1>18, <2>1, CountStays
<1>20. TrimInv'
  <2>1. PICK b : b = q.by BY Zenon
  <2>2. deleter'.by = b /\ deleter.by = b /\ deleter.pc # "none" BY Zenon, <1>1, <1>3, <1>14, <1>15, <2>1
  <2>3. Own(b) \in Records /\ Own(deleter.by)' = Own(b) BY Zenon, <1>18, <2>2, OwnIn
  <2>4. b # Background => b \in Txns /\ Numbered(b)' BY Zenon, <1>18, <2>2, OwnIn DEF Steady
  <2>5. PICK K \in Records : K = Kept BY Zenon, TallyIn
  <2>6. K = Tally \ q.removed /\ L \in Tally BY Zenon, <1>3, <1>9, <2>5, TallyIn DEF Tally
  <2>7. Kept' = K \ {L} /\ L \in K BY Zenon, <1>9, <1>11, <1>14, <1>18, <2>6
  <2>8. PICK T : T = K \cup Own(b) BY Zenon
  <2>9. ExceedsCap(T) BY Zenon, <1>1, <2>2, <2>5, <2>8, ScanningOver
  <2>10. Kept' \cup Own(b) \cup {L} = T BY Zenon, <2>7, <2>8
  <2>11. PICK l : l = [newestOld |-> L, by |-> b] BY Zenon
  <2>12. lastTrim' = l /\ l.newestOld = L /\ l.by = b BY Zenon, <1>1, <1>3, <1>4, <2>1, <2>11
  <2>13. Own(lastTrim.by)' = Own(b)
    <3>1. lastTrim'.by = deleter'.by BY Zenon, <2>2, <2>12
    <3>2. Own(lastTrim.by)' = Own(deleter.by)' BY Zenon, <3>1 DEF Own, RecordsOf
    <3> QED BY Zenon, <2>3, <3>2
  <2>14. Numbered(lastTrim.by)' <=> Numbered(b)' BY Zenon, <2>12 DEF Numbered
  <2>15. ExceedsCap(Kept \cup Own(lastTrim.by) \cup {lastTrim.newestOld})'
    BY Zenon, <2>9, <2>10, <2>12, <2>13 DEF ExceedsCap
  <2> QED BY Zenon, <1>9, <2>4, <2>12, <2>14, <2>15 DEF TrimInv
<1> QED BY Zenon, <1>18, <1>19, <1>20

(* What is in flight is off the counter. *)
LEMMA CountsOff ==
  ASSUME CapInv, DelInv, NEW w, Additive(w), NEW n, NEW l, NEW o, CountOK(w, n, l, o),
         Tally' = Tally, deleter.pc = "scan", NEW d, deleter' = d, d.removed = deleter.removed,
         d.pc = IF deleter.removed = {} THEN "hint" ELSE "counted", NEW m, m = n - w[deleter.removed]
  PROVE  CountOK(w, m, l, o)'
<1>1. PICK s \in Nat : s = w[Tally] BY Zenon, TallyIn DEF Additive
<1>2. PICK r \in Nat : r = w[deleter.removed] BY Zenon, TallyIn DEF Additive
<1>3. deleter.removed = {} => r = 0 BY Zenon, <1>2 DEF Additive
<1>4. d.pc # "excess" /\ d.pc # "scan" BY Zenon
<1>5. InFlight(w)' = r
  <2>1. CASE deleter.removed = {}
    <3>1. d.pc # "counted" /\ r = 0 BY Zenon, <1>3, <2>1
    <3> QED BY Zenon, <3>1 DEF InFlight
  <2>2. CASE deleter.removed # {}
    <3>1. d.pc = "counted" BY Zenon, <2>2
    <3> QED BY Zenon, <1>2, <3>1 DEF InFlight
  <2> QED BY Zenon, <2>1, <2>2
<1>6. n = s - 0
  <2>1. deleter.pc # "counted" BY Zenon
  <2> QED BY Zenon, <1>1, <2>1 DEF CountOK, InFlight
<1>7. m = s - r BY <1>1, <1>2, <1>6
<1>8. m = w[Tally'] - InFlight(w)' BY Zenon, <1>1, <1>5, <1>7
<1> QED BY Zenon, <1>4, <1>8 DEF CountOK

(* The scan ends, and what it removed is taken off the counters. *)
LEMMA ScanEndStep ==
  ASSUME CapInv, DelInv, SizesAdd, ScanEnd, isOplog' = isOplog, cappedMaxDocs' = cappedMaxDocs
  PROVE  DelInv'
<1> USE DEF DelInv
<1>1. /\ UNCHANGED cappedVars /\ numRecords' = numRecords - Cardinality(deleter.removed)
      /\ dataSize' = dataSize - DataSize(deleter.removed) /\ lastTrim' = lastTrim
      /\ counted' = counted /\ dead' = dead /\ trim' = trim /\ deleter.pc = "scan"
      /\ deleter' = [deleter EXCEPT !.pc = IF deleter.removed = {} THEN "hint" ELSE "counted"]
  BY Zenon DEF ScanEnd
<1>2. /\ trim \in [Txns -> Stage] /\ \A u \in counted : trim[u] = "done"
      /\ \A u \in Txns : trim[u] \in Busy => ~isOplog /\ txn[u] = "open" /\ u \notin counted
  BY Zenon DEF UnitsInv
<1>3. PICK q \in Trimmer : q = deleter BY Zenon DEF DeleterInv
<1>4. PICK p : p = IF q.removed = {} THEN "hint" ELSE "counted" BY Zenon
<1>5. p \in {"hint", "counted"} BY Zenon, <1>4
<1>6. PICK d : d = [q EXCEPT !.pc = p] BY Zenon
<1>7. /\ d \in Trimmer /\ d.by = q.by /\ d.pc = p /\ d.sizeOver = q.sizeOver /\ d.docsOver = q.docsOver
      /\ d.removed = q.removed
  BY Zenon, <1>5, <1>6 DEF Trimmer
<1>8. deleter' = d BY Zenon, <1>1, <1>3, <1>4, <1>6
<1>9. q.pc # "none" BY Zenon, <1>1, <1>3
<1>10. /\ (q.by = Background <=> isOplog) /\ (q.by # Background => trim[q.by] = "holds")
       /\ q.removed \cap dead = {}
       /\ q.removed \subseteq Stored /\ \A x \in q.removed : \A y \in uncommittedRecords : x < y
  BY Zenon, <1>1, <1>3, <1>9 DEF DeleterInv, DeadInv
<1>11. d.pc \notin {"none", "locked", "excess", "scan"} BY Zenon, <1>5, <1>7
<1>12. UnitsInv' /\ DeadInv' /\ DeleterInv' /\ Tally' = Tally /\ Steady /\ Kept' = Tally \ d.removed
  BY Zenon, <1>1, <1>2, <1>7, <1>8, <1>10, <1>11, DeleterMoves
<1>13. Docs[deleter.removed] = Cardinality(deleter.removed) /\ Size[deleter.removed] = DataSize(deleter.removed)
  BY Zenon, TallyIn DEF Docs, Size
<1>14. d.removed = deleter.removed /\ d.pc = IF deleter.removed = {} THEN "hint" ELSE "counted"
  BY Zenon, <1>3, <1>4, <1>7
<1>15. CountInv'
  <2>1. PICK n : n = numRecords BY Zenon
  <2>2. PICK z : z = dataSize BY Zenon
  <2>3. PICK l : l = cappedMaxDocs BY Zenon
  <2>4. PICK m : m = n - Docs[deleter.removed] BY Zenon
  <2>5. PICK y : y = z - Size[deleter.removed] BY Zenon
  <2>6. PICK o : o = q.docsOver BY Zenon
  <2>7. PICK g : g = q.sizeOver BY Zenon
  <2>8. CountOK(Docs, n, l, o) /\ CountOK(Size, z, CappedMaxSize, g)
    BY Zenon, <1>3, <2>1, <2>2, <2>3, <2>6, <2>7 DEF CountInv
  <2>9. CountOK(Docs, m, l, o)' BY Zenon, <1>1, <1>8, <1>12, <1>14, <2>4, <2>8, CountsOff DEF SizesAdd
  <2>10. CountOK(Size, y, CappedMaxSize, g)' BY Zenon, <1>1, <1>8, <1>12, <1>14, <2>5, <2>8, CountsOff DEF SizesAdd
  <2>11. numRecords' = m /\ dataSize' = y BY Zenon, <1>1, <1>13, <2>1, <2>2, <2>4, <2>5
  <2>12. deleter'.docsOver = o /\ deleter'.sizeOver = g BY Zenon, <1>7, <1>8, <2>6, <2>7
  <2>13. CountOK(Docs, numRecords, cappedMaxDocs, deleter.docsOver)'
    BY Zenon, <2>3, <2>9, <2>11, <2>12 DEF CountOK
  <2>14. CountOK(Size, dataSize, CappedMaxSize, deleter.sizeOver)'
    BY Zenon, <2>10, <2>11, <2>12 DEF CountOK
  <2>15. cappedMaxDocs' \in Int /\ (cappedMaxDocs' = -1 => deleter'.docsOver = 0)
    BY Zenon, <1>3, <2>6, <2>12 DEF CountInv
  <2> QED BY Zenon, <2>13, <2>14, <2>15 DEF CountInv
<1>16. TrimInv'
  <2>1. Kept' = Kept /\ Kept \in Records BY Zenon, <1>12, <1>14, TallyIn
  <2> QED BY Zenon, <1>1, <1>12, <2>1, TrimStays
<1> QED BY Zenon, <1>12, <1>15, <1>16

(* The batch is written: the records are gone. *)
LEMMA WriteDeletesStep ==
  ASSUME CapInv, DelInv, SizesAdd, WriteDeletes, isOplog' = isOplog, cappedMaxDocs' = cappedMaxDocs
  PROVE  DelInv'
<1> USE DEF DelInv
<1>1. /\ UNCHANGED cappedVars /\ numRecords' = numRecords /\ dataSize' = dataSize /\ lastTrim' = lastTrim
      /\ counted' = counted /\ dead' = dead \cup deleter.removed /\ trim' = trim /\ deleter.pc = "counted"
      /\ deleter' = [deleter EXCEPT !.pc = "hint"]
  BY Zenon DEF WriteDeletes
<1>2. /\ Stored' = Stored /\ Pending' = Pending /\ txn' = txn /\ uncommittedRecords' = uncommittedRecords
      /\ Steady
  BY Zenon, <1>1, SameUnits
<1>3. PICK q \in Trimmer : q = deleter BY Zenon DEF DeleterInv
<1>4. PICK d : d = [q EXCEPT !.pc = "hint"] BY Zenon
<1>5. d \in Trimmer /\ d.by = q.by /\ d.pc = "hint" /\ d.removed = q.removed /\ d.docsOver = q.docsOver
  BY Zenon, <1>4 DEF Trimmer
<1>6. deleter' = d BY Zenon, <1>1, <1>3, <1>4
<1>7. q.pc # "none" BY Zenon, <1>1, <1>3
<1>8. /\ (q.by = Background <=> isOplog) /\ (q.by # Background => trim[q.by] = "holds")
      /\ q.removed \cap dead = {}
      /\ q.removed \subseteq Stored
  BY Zenon, <1>1, <1>3, <1>7 DEF DeleterInv, DeadInv
<1>9. UnitsInv' BY Zenon, <1>1, <1>2 DEF UnitsInv
<1>10. DeadInv'
  <2>1. \A x \in dead \cup q.removed : \A y \in uncommittedRecords : x < y BY Zenon, <1>3 DEF DeadInv
  <2>2. dead \subseteq Stored BY Zenon DEF DeadInv
  <2>3. dead' \cup d.removed = dead \cup q.removed BY Zenon, <1>1, <1>3, <1>5
  <2>4. dead' \subseteq Stored /\ d.removed \subseteq Stored BY Zenon, <1>1, <1>3, <1>5, <1>8, <2>2
  <2> QED BY Zenon, <1>2, <1>6, <2>1, <2>3, <2>4 DEF DeadInv
<1>11. d.pc \notin {"none", "locked", "excess", "scan", "counted"} BY Zenon, <1>5
<1>12. DeleterInv' BY Zenon, <1>1, <1>5, <1>6, <1>8, <1>11 DEF DeleterInv, Trimmer
<1>13. q.removed \cap Pending = {}
  <2>1. SUFFICES ASSUME NEW x \in Pending, x \in q.removed PROVE FALSE BY Zenon
  <2>2. PICK u \in counted : txn[u] = "open" /\ x \in RecordsOf(u) BY Zenon, <2>1 DEF Pending
  <2>3. u \in Txns BY Zenon, <2>2 DEF UnitsInv
  <2> QED BY Zenon, <1>3, <2>1, <2>2, <2>3, OpenIsKept
<1>14. Live = Stored \ dead /\ Live' = Stored' \ dead' BY Zenon DEF Live, Stored
<1>15. Tally = Tally' \cup q.removed /\ Tally' \cap q.removed = {}
  <2>1. \A x : x \in Live <=> x \in Live' \/ x \in q.removed BY Zenon, <1>1, <1>2, <1>3, <1>8, <1>14
  <2>2. \A x \in Live' : x \notin q.removed BY Zenon, <1>1, <1>3, <1>14
  <2>3. \A x : x \in Tally <=> x \in Tally' \cup q.removed BY Zenon, <1>2, <2>1 DEF Tally
  <2>4. \A x \in Tally' : x \notin q.removed BY Zenon, <1>2, <1>13, <2>2 DEF Tally
  <2> QED BY Zenon, <2>3, <2>4
<1>16. PICK T : T = Tally' BY Zenon
<1>17. T \in Records /\ q.removed \in Records /\ Tally = T \cup q.removed /\ T \cap q.removed = {}
  <2>1. Tally \in Records BY Zenon, TallyIn
  <2> QED BY Zenon, <1>15, <1>16, <2>1 DEF Records
<1>18. ASSUME NEW w, Additive(w), NEW n, n = w[Tally] - InFlight(w) PROVE n = w[Tally'] - InFlight(w)'
  <2>1. PICK m \in Nat : m = w[T] BY Zenon, <1>17, <1>18 DEF Additive
  <2>2. PICK r \in Nat : r = w[q.removed] BY Zenon, <1>17, <1>18 DEF Additive
  <2>3. w[Tally] = m + r BY Zenon, <1>17, <1>18, <2>1, <2>2 DEF Additive
  <2>4. InFlight(w) = r BY Zenon, <1>1, <1>3, <2>2 DEF InFlight
  <2>5. n = (m + r) - r BY Zenon, <1>18, <2>3, <2>4
  <2>6. n = m - 0 BY <2>1, <2>2, <2>5
  <2>7. InFlight(w)' = 0 BY Zenon, <1>6, <1>11 DEF InFlight
  <2> QED BY Zenon, <1>16, <2>1, <2>6, <2>7
<1>19. CountInv'
  <2>1. PICK n : n = numRecords BY Zenon
  <2>2. PICK z : z = dataSize BY Zenon
  <2>3. n = Docs[Tally] - InFlight(Docs) /\ z = Size[Tally] - InFlight(Size)
    BY Zenon, <2>1, <2>2 DEF CountInv, CountOK
  <2>4. n = Docs[Tally'] - InFlight(Docs)' BY Zenon, <1>18, <2>3 DEF SizesAdd
  <2>5. z = Size[Tally'] - InFlight(Size)' BY Zenon, <1>18, <2>3 DEF SizesAdd
  <2>6. d.pc # "excess" /\ d.pc # "scan" BY Zenon, <1>5
  <2>7. cappedMaxDocs' \in Int /\ (cappedMaxDocs' = -1 => deleter'.docsOver = 0)
    BY Zenon, <1>3, <1>5, <1>6 DEF CountInv
  <2>8. CountOK(Docs, numRecords, cappedMaxDocs, deleter.docsOver)' BY Zenon, <1>1, <1>6, <2>1, <2>4, <2>6 DEF CountOK
  <2>9. CountOK(Size, dataSize, CappedMaxSize, deleter.sizeOver)' BY Zenon, <1>1, <1>6, <2>2, <2>5, <2>6 DEF CountOK
  <2> QED BY Zenon, <2>7, <2>8, <2>9 DEF CountInv
<1>20. TrimInv'
  <2>1. Kept' = Tally' \ deleter'.removed BY Zenon DEF Kept, Tally, Pending
  <2>2. Kept = Tally \ deleter.removed /\ Kept \in Records BY Zenon, TallyIn
  <2>3. Kept' = Kept BY Zenon, <1>3, <1>5, <1>6, <1>15, <2>1, <2>2
  <2> QED BY Zenon, <1>1, <1>2, <2>2, <2>3, TrimStays
<1> QED BY Zenon, <1>9, <1>10, <1>12, <1>19, <1>20

(* The deleter is done, or gives up before it has changed anything. *)
LEMMA UnlocksStep ==
  ASSUME CapInv, DelInv, SizesAdd, Unlocks, deleter.pc \in {"scan", "hint"},
         isOplog' = isOplog, cappedMaxDocs' = cappedMaxDocs
  PROVE  DelInv'
<1> USE DEF DelInv
<1>1. /\ UNCHANGED cappedVars /\ numRecords' = numRecords /\ dataSize' = dataSize /\ lastTrim' = lastTrim
      /\ counted' = counted /\ dead' = dead /\ deleter' = NoDeleter
      /\ trim' = [t \in Txns |-> IF t = deleter.by THEN "done" ELSE trim[t]]
  BY Zenon DEF Unlocks
<1>2. /\ trim \in [Txns -> Stage] /\ counted \subseteq Txns /\ \A u \in counted : trim[u] = "done"
      /\ \A u \in Txns : trim[u] \in Busy => ~isOplog /\ txn[u] = "open" /\ u \notin counted
  BY Zenon DEF UnitsInv
<1>3. \A u \in Txns : trim'[u] = "done" \/ trim'[u] = trim[u] BY Zenon, <1>1
<1>4. trim' \in [Txns -> Stage]
  <2>1. "done" \in Stage BY Zenon DEF Stage
  <2>2. \A u \in Txns : trim'[u] \in Stage BY Zenon, <1>2, <1>3, <2>1
  <2>3. trim' = [t \in Txns |-> trim'[t]] BY Zenon, <1>1
  <2> QED BY Zenon, <2>2, <2>3
<1>5. /\ \A u \in counted : trim'[u] = "done"
      /\ \A u \in Txns : trim'[u] \in Busy => ~isOplog /\ txn[u] = "open" /\ u \notin counted
  <2>1. "done" \notin Busy BY Zenon DEF Busy
  <2> QED BY Zenon, <1>2, <1>3, <2>1
<1>6. PICK d : d = NoDeleter BY Zenon
<1>7. d \in Trimmer /\ d.pc = "none" /\ d.removed = {} /\ d.docsOver = 0 BY Zenon, <1>6 DEF NoDeleter, Trimmer
<1>8. d.pc \notin {"scan", "counted", "excess"} /\ deleter.pc # "counted" BY Zenon, <1>7
<1>9. UnitsInv' /\ DeadInv' /\ DeleterInv' /\ Tally' = Tally /\ Steady /\ Kept' = Tally \ d.removed
  BY Zenon, <1>1, <1>4, <1>5, <1>6, <1>7, <1>8, DeleterMoves
<1>10. CountInv'
  <2>1. d.pc \notin {"excess", "scan"} /\ d.pc # "counted" BY Zenon, <1>8
  <2> QED BY Zenon, <1>1, <1>6, <1>7, <1>8, <1>9, <2>1, CountStays
<1>11. TrimInv'
  <2>1. Kept' \in Records /\ Kept \subseteq Kept' BY Zenon, <1>7, <1>9, TallyIn
  <2> QED BY Zenon, <1>1, <1>9, <2>1, TrimStays
<1> QED BY Zenon, <1>9, <1>10, <1>11

LEMMA DelInitially ==
  ASSUME DeleteInit, SizesAdd
  PROVE  DelInv
<1>1. /\ Init /\ numRecords = 0 /\ dataSize = 0 /\ counted = {} /\ trim = [t \in Txns |-> "no"] /\ dead = {}
      /\ deleter = NoDeleter /\ lastTrim = [newestOld |-> 0, by |-> Background]
  BY Zenon DEF DeleteInit
<1>2. PICK d : d = NoDeleter BY Zenon
<1>3. d \in Trimmer /\ d.pc = "none" /\ d.removed = {} /\ d.docsOver = 0 BY Zenon, <1>2 DEF NoDeleter, Trimmer
<1>4. d.pc \notin {"scan", "counted", "excess"} BY Zenon, <1>3
<1>5. UnitsInv
  <2>1. "no" \in Stage /\ "no" \notin Busy BY Zenon DEF Stage, Busy
  <2> QED BY Zenon, <1>1, <2>1 DEF UnitsInv
<1>6. DeadInv BY Zenon, <1>1, <1>2, <1>3 DEF DeadInv
<1>7. DeleterInv BY Zenon, <1>1, <1>2, <1>3, <1>4 DEF DeleterInv
<1>8. \A t \in Txns : logPos[t] = 0 BY Zenon, <1>1 DEF Init
<1>9. Tally = {} BY Zenon, <1>1, <1>8 DEF Tally, Live, Pending
<1>10. CountInv
  <2>1. Docs[Tally] = 0 /\ Size[Tally] = 0 BY Zenon, <1>9 DEF SizesAdd, Additive
  <2>2. \A w : InFlight(w) = 0 BY Zenon, <1>1, <1>2, <1>4 DEF InFlight
  <2>3. 0 = 0 - 0 OBVIOUS
  <2>4. numRecords = Docs[Tally] - InFlight(Docs) /\ dataSize = Size[Tally] - InFlight(Size)
    BY Zenon, <1>1, <2>1, <2>2, <2>3
  <2>5. cappedMaxDocs \in {-1, MaxDocs} BY Zenon DEF DeleteInit
  <2>6. cappedMaxDocs \in Int BY <2>5, DeleteAssumption
  <2>7. deleter.pc \notin {"excess", "scan"} /\ deleter.docsOver = 0 BY Zenon, <1>1, <1>2, <1>3, <1>4
  <2> QED BY Zenon, <2>4, <2>6, <2>7 DEF CountInv, CountOK
<1>11. TrimInv
  <2>1. PICK l : l = [newestOld |-> 0, by |-> Background] BY Zenon
  <2>2. l.newestOld = 0 BY Zenon, <2>1
  <2> QED BY Zenon, <1>1, <2>1, <2>2 DEF TrimInv
<1> QED BY Zenon, <1>5, <1>6, <1>7, <1>10, <1>11 DEF DelInv

(* Every step keeps the invariant. *)
LEMMA DelPreserved ==
  ASSUME CapInv, DelInv, EndsFound, SizesAdd, [DeleteNextState]_<<isOplog, cappedMaxDocs, cappedVars, deleteVars>>
  PROVE  DelInv'
<1>1. CASE DeleteAnyStep /\ isOplog' = isOplog /\ cappedMaxDocs' = cappedMaxDocs
  <2>1. ASSUME NEW t \in Txns, NEW count \in 1..MaxBatch, Register(t, count), UNCHANGED deleteVars PROVE DelInv'
    BY Zenon, <1>1, <2>1, DelRegister
  <2>2. ASSUME NEW t \in Txns, UnitStep(t) PROVE DelInv'
    BY Zenon, <1>1, <2>2, DelInsert, TrimUnitStep, DelCount, DelWrite, DelCommit DEF UnitStep
  <2>3. ASSUME NEW t \in Txns, RollbackUncounted(t) PROVE DelInv' BY Zenon, <1>1, <2>3, DelRollback
  <2>4. CASE BackgroundStart BY Zenon, <1>1, <2>4, BackgroundStep
  <2>5. CASE DeleterStep
    <3>1. CASE SetHint BY Zenon, <1>1, <3>1, UnlocksStep DEF SetHint
    <3>2. CASE TrimConflict BY Zenon, <1>1, <3>2, UnlocksStep DEF TrimConflict
    <3> QED BY Zenon, <1>1, <2>5, <3>1, <3>2, ExcessStep, SeekStep, DeleteNextStep, ScanEndStep, WriteDeletesStep
            DEF DeleterStep
  <2>6. CASE (JournalTake \/ JournalDone \/ FlushJournal) /\ UNCHANGED deleteVars BY Zenon, <1>1, <2>6, DelJournal
  <2> QED BY Zenon, <1>1, <2>1, <2>2, <2>3, <2>4, <2>5, <2>6 DEF DeleteAnyStep
<1>2. CASE UNCHANGED <<isOplog, cappedMaxDocs, cappedVars, deleteVars>>
  <2>1. isOplog' = isOplog /\ cappedMaxDocs' = cappedMaxDocs /\ UNCHANGED cappedVars /\ UNCHANGED deleteVars
    BY Zenon, <1>2
  <2>2. txn' = txn /\ first' = first /\ last' = last /\ logPos' = logPos /\ uncommittedRecords' = uncommittedRecords
    BY Zenon, <2>1 DEF cappedVars, txnVars, logVars, managerVars
  <2>3. /\ \A u \in counted : txn[u] # "idle"
        /\ \A u \in Txns : trim[u] \in Busy => txn[u] = "open"
    BY Zenon DEF DelInv, UnitsInv
  <2>4. \A u \in Txns : Numbered(u) => Numbered(u)' BY Zenon, <2>2 DEF Numbered
  <2> QED BY Zenon, <2>1, <2>2, <2>3, <2>4, DelQuiet
<1> QED BY Zenon, <1>1, <1>2 DEF DeleteNextState

(* A step with trimming is a step without, or one that does not concern the    *)
(* visibility manager.                                                         *)
LEMMA VisibilitySteps ==
  ASSUME [DeleteNextState]_<<isOplog, cappedMaxDocs, cappedVars, deleteVars>>
  PROVE  [Next]_<<isOplog, cappedVars>>
<1>1. CASE DeleteAnyStep /\ isOplog' = isOplog
  <2>0. ASSUME UNCHANGED cappedVars PROVE [Next]_<<isOplog, cappedVars>> BY Zenon, <1>1, <2>0
  <2>1. ASSUME NEW t \in Txns, NEW count \in 1..MaxBatch, Register(t, count) PROVE Next
    BY Zenon, <1>1, <2>1 DEF Next, Step
  <2>2. ASSUME NEW t \in Txns, Insert(t) \/ Write(t) \/ Commit(t) \/ Rollback(t) PROVE Next
    BY Zenon, <1>1, <2>2 DEF Next, Step, TxnStep
  <2>3. ASSUME NEW t \in Txns, UnitStep(t) \/ RollbackUncounted(t) PROVE [Next]_<<isOplog, cappedVars>>
    <3>1. CASE TrimStep(t)
      <4>1. Locks(t) => UNCHANGED cappedVars BY Zenon DEF Locks
      <4>2. \A v : Goes(t, v) => UNCHANGED cappedVars BY Zenon DEF Goes
      <4>3. UNCHANGED cappedVars
        BY Zenon, <3>1, <4>1, <4>2
           DEF TrimStep, TrimCheck, TrimLock, TryLockFails, BackPressure, WaitLock, WaitTimeout
      <4> QED BY Zenon, <2>0, <4>3
    <3>2. CASE Count(t) BY Zenon, <2>0, <3>2 DEF Count
    <3>3. CASE Insert(t) \/ Write(t) \/ Commit(t) \/ Rollback(t) BY Zenon, <2>2, <3>3
    <3> QED BY Zenon, <2>3, <3>1, <3>2, <3>3 DEF UnitStep, RollbackUncounted, WriteCounted
  <2>4. CASE BackgroundStart BY Zenon, <2>0, <2>4 DEF BackgroundStart
  <2>5. CASE DeleterStep
    BY Zenon, <2>0, <2>5
       DEF DeleterStep, ComputeExcess, SeekHint, DeleteNext, ScanEnd, WriteDeletes, SetHint, TrimConflict, Unlocks
  <2>6. CASE JournalTake \/ JournalDone \/ FlushJournal BY Zenon, <1>1, <2>6 DEF Next, Step
  <2> QED BY Zenon, <1>1, <2>1, <2>3, <2>4, <2>5, <2>6 DEF DeleteAnyStep
<1>2. CASE UNCHANGED <<isOplog, cappedMaxDocs, cappedVars, deleteVars>>
  <2>1. UNCHANGED <<isOplog, cappedVars>> BY Zenon, <1>2
  <2> QED BY Zenon, <2>1
<1> QED BY Zenon, <1>1, <1>2 DEF DeleteNextState

LEMMA OnlyVisible ==
  ASSUME CapInv, DelInv
  PROVE  DeletesOnlyVisible
BY Zenon, OpenIsKept DEF DeletesOnlyVisible

LEMMA Exactly ==
  ASSUME CapInv, DelInv, SizesAdd
  PROVE  CounterIsExact
<1>1. SUFFICES ASSUME \A t \in Txns : txn[t] # "open", deleter.pc = "none"
               PROVE  numRecords = Cardinality(Live) /\ dataSize = DataSize(Live)
  BY Zenon DEF CounterIsExact
<1>2. counted \subseteq Txns BY Zenon DEF DelInv, UnitsInv
<1>3. Tally = Live BY Zenon, <1>1, <1>2 DEF Tally, Pending
<1>4. deleter.pc # "counted" BY Zenon, <1>1
<1>5. numRecords = Docs[Live] - 0 /\ dataSize = Size[Live] - 0
  BY Zenon, <1>3, <1>4 DEF DelInv, CountInv, CountOK, InFlight
<1>6. Live \in Records BY Zenon, <1>3, TallyIn
<1>7. Docs[Live] \in Nat /\ Size[Live] \in Nat BY Zenon, <1>6 DEF SizesAdd, Additive
<1>8. numRecords = Docs[Live] /\ dataSize = Size[Live] BY <1>5, <1>7
<1>9. Docs[Live] = Cardinality(Live) /\ Size[Live] = DataSize(Live) BY Zenon, <1>6 DEF Docs, Size
<1> QED BY Zenon, <1>8, <1>9

LEMMA UpToCap ==
  ASSUME DelInv
  PROVE  KeepsUpToCap
BY Zenon DEF DelInv, TrimInv, KeepsUpToCap

(* The specification's notion, which the library used below defines again. *)
NumberOf(S) == Cardinality(S)

LEMMA SizesSay ==
  ASSUME \A S \in Records : NumberOf(S) \in Nat /\ NumberOf(Bytes(S)) \in Nat,
         NumberOf({}) = 0 /\ NumberOf(Bytes({})) = 0,
         \A S, T \in Records : S \cap T = {} =>
           /\ NumberOf(S \cup T) = NumberOf(S) + NumberOf(T)
           /\ NumberOf(Bytes(S \cup T)) = NumberOf(Bytes(S)) + NumberOf(Bytes(T))
  PROVE  SizesAdd
<1>1. \A S \in Records : Docs[S] = NumberOf(S) /\ Size[S] = NumberOf(Bytes(S))
  BY Zenon DEF Docs, Size, DataSize, NumberOf
<1>2. Docs \in [Records -> Nat]
  <2>1. Docs = [S \in Records |-> Docs[S]] BY Zenon DEF Docs
  <2> QED BY Zenon, <1>1, <2>1
<1>3. Size \in [Records -> Nat]
  <2>1. Size = [S \in Records |-> Size[S]] BY Zenon DEF Size
  <2> QED BY Zenon, <1>1, <2>1
<1>4. {} \in Records /\ \A S, T \in Records : S \cup T \in Records BY Zenon DEF Records
<1>5. Additive(Docs)
  <2>1. Docs[{}] = 0 BY Zenon, <1>1, <1>4
  <2>2. ASSUME NEW S \in Records, NEW T \in Records, S \cap T = {} PROVE Docs[S \cup T] = Docs[S] + Docs[T]
    <3>1. Docs[S] = NumberOf(S) /\ Docs[T] = NumberOf(T) /\ Docs[S \cup T] = NumberOf(S \cup T) BY Zenon, <1>1, <1>4
    <3> QED BY Zenon, <2>2, <3>1
  <2> QED BY Zenon, <1>2, <2>1, <2>2 DEF Additive
<1>6. Additive(Size)
  <2>1. Size[{}] = 0 BY Zenon, <1>1, <1>4
  <2>2. ASSUME NEW S \in Records, NEW T \in Records, S \cap T = {} PROVE Size[S \cup T] = Size[S] + Size[T]
    <3>1. Size[S] = NumberOf(Bytes(S)) /\ Size[T] = NumberOf(Bytes(T)) /\ Size[S \cup T] = NumberOf(Bytes(S \cup T))
      BY Zenon, <1>1, <1>4
    <3> QED BY Zenon, <2>2, <3>1
  <2> QED BY Zenon, <1>3, <2>1, <2>2 DEF Additive
<1> QED BY Zenon, <1>5, <1>6 DEF SizesAdd

USE DEF IsFiniteSet, Cardinality
-----------------------------------------------------------------------------
LOCAL INSTANCE FiniteSetTheorems

(* Sets of records, and of their bytes, are finite. *)
LEMMA Sizes == SizesAdd
<1>0. \A S : NumberOf(S) = Cardinality(S) BY Zenon DEF NumberOf, IsFiniteSet, Cardinality
<1>1. IsFiniteSet(1..MaxRecord) /\ IsFiniteSet(1..CappedMaxSize)
  <2>1. 1 \in Int /\ MaxRecord \in Int /\ CappedMaxSize \in Int BY CappedAssumption, DeleteAssumption
  <2> QED BY Zenon, <2>1, FS_Interval
<1>2. \A S \in Records : IsFiniteSet(S) BY Zenon, <1>1, FS_Subset DEF Records
<1>3. \A S \in Records : IsFiniteSet(Bytes(S))
  <2>1. TAKE S \in Records
  <2>2. IsFiniteSet(S \X (1..CappedMaxSize)) BY Zenon, <1>1, <1>2, FS_Product
  <2>3. Bytes(S) \subseteq S \X (1..CappedMaxSize) BY Zenon DEF Bytes
  <2> QED BY Zenon, <2>2, <2>3, FS_Subset
<1>4. Cardinality({}) = 0 BY Zenon, FS_EmptySet
<1>5. ASSUME NEW S, NEW T, IsFiniteSet(S), IsFiniteSet(T), S \cap T = {}
      PROVE  Cardinality(S \cup T) = Cardinality(S) + Cardinality(T)
  <2>1. PICK n \in Nat : n = Cardinality(S) BY Zenon, <1>5, FS_CardinalityType
  <2>2. PICK m \in Nat : m = Cardinality(T) BY Zenon, <1>5, FS_CardinalityType
  <2>3. Cardinality(S \cup T) = n + m - Cardinality(S \cap T) BY Zenon, <1>5, <2>1, <2>2, FS_Union
  <2>4. Cardinality(S \cup T) = n + m - 0 BY Zenon, <1>4, <1>5, <2>3
  <2>5. n + m - 0 = n + m BY <2>1, <2>2
  <2> QED BY Zenon, <2>1, <2>2, <2>4, <2>5
<1>6. ASSUME NEW S \in Records, NEW T \in Records, S \cap T = {}
      PROVE  /\ Cardinality(S \cup T) = Cardinality(S) + Cardinality(T)
             /\ Cardinality(Bytes(S \cup T)) = Cardinality(Bytes(S)) + Cardinality(Bytes(T))
  <2>1. Bytes(S \cup T) = Bytes(S) \cup Bytes(T)
    <3>1. \A b : b \in Bytes(S \cup T) <=> b \in Bytes(S) \cup Bytes(T) BY SMT DEF Bytes
    <3> QED BY Zenon, <3>1
  <2>2. Bytes(S) \cap Bytes(T) = {}
    <3>1. ASSUME NEW b \in Bytes(S), b \in Bytes(T) PROVE FALSE
      <4>1. b[1] \in S /\ b[1] \in T BY SMT, <3>1 DEF Bytes
      <4> QED BY Zenon, <1>6, <4>1
    <3> QED BY Zenon, <3>1
  <2> QED BY Zenon, <1>2, <1>3, <1>5, <1>6, <2>1, <2>2
<1>7. Bytes({}) = {}
  <2>1. ASSUME NEW b \in Bytes({}) PROVE FALSE BY SMT, <2>1 DEF Bytes
  <2> QED BY Zenon, <2>1
<1>8. \A S \in Records : Cardinality(S) \in Nat /\ Cardinality(Bytes(S)) \in Nat
  BY Zenon, <1>2, <1>3, FS_CardinalityType
<1> QED BY Zenon, <1>0, <1>4, <1>6, <1>7, <1>8, SizesSay

(* What the code takes from the front and the back of a list of record ids. *)
LEMMA LeastOf ==
  ASSUME NEW S \in SUBSET Nat, S # {}
  PROVE  Least(S) \in S /\ \A y \in S : Least(S) <= y
<1>1. PICK x \in S : \A y \in S : ~ (<<y, x>> \in OpToRel(<, Nat)) BY Zenon, NatLessThanWellFounded, WFMin
<1>2. \A a, b \in Nat : a < b => <<a, b>> \in OpToRel(<, Nat) BY Zenon DEF OpToRel
<1>3. \A y \in S : ~ (y < x) BY Zenon, <1>1, <1>2
<1>4. \A y \in S : x <= y BY <1>3
<1> QED BY Zenon, <1>4 DEF Least

LEMMA GreatestOf ==
  ASSUME NEW S \in SUBSET (0..MaxRecord), S # {}
  PROVE  Greatest(S) \in S /\ \A y \in S : y <= Greatest(S)
<1>0. MaxRecord \in Nat BY Zenon, CappedAssumption
<1>1. PICK T \in SUBSET Nat : T = {n \in Nat : \E y \in S : n = MaxRecord - y} BY Zenon
<1>2. T # {}
  <2>1. PICK y \in S : y \in 0..MaxRecord BY Zenon
  <2>2. MaxRecord - y \in Nat BY <1>0, <2>1
  <2> QED BY Zenon, <1>1, <2>2
<1>3. Least(T) \in T /\ \A n \in T : Least(T) <= n BY Zenon, <1>2, LeastOf
<1>4. PICK z \in S : Least(T) = MaxRecord - z BY Zenon, <1>1, <1>3
<1>5. ASSUME NEW y \in S PROVE z >= y /\ y <= z
  <2>1. y \in 0..MaxRecord /\ z \in 0..MaxRecord BY Zenon
  <2>2. MaxRecord - y \in Nat BY <1>0, <2>1
  <2>3. MaxRecord - y \in T BY Zenon, <1>1, <2>2
  <2>4. MaxRecord - z <= MaxRecord - y BY Zenon, <1>3, <1>4, <2>3
  <2> QED BY <1>0, <2>1, <2>4
<1>6. PICK g : g = Greatest(S) BY Zenon
<1>7. g \in S /\ \A y \in S : g >= y BY Zenon, <1>5, <1>6 DEF Greatest
<1>8. \A y \in S : y <= g BY Zenon, <1>0, <1>7
<1> QED BY Zenon, <1>6, <1>7, <1>8

LEMMA Ends == EndsFound
BY Zenon, LeastOf, GreatestOf DEF EndsFound

LEMMA NextCapInv == CapInv /\ [Next]_<<isOplog, cappedVars>> => CapInv'
BY Zenon, CapPreserved, Ends

LEMMA NextDelInv ==
  CapInv /\ DelInv /\ [DeleteNextState]_<<isOplog, cappedMaxDocs, cappedVars, deleteVars>> => CapInv' /\ DelInv'
BY Zenon, CapPreserved, VisibilitySteps, DelPreserved, Ends, Sizes

LEMMA InitDelInv == DeleteInit => CapInv /\ DelInv
BY Zenon, CapInitially, DelInitially, Sizes DEF DeleteInit
-----------------------------------------------------------------------------
(* Every variable has its type. *)
THEOREM TypeCorrect == Spec => []TypeOK
<1>1. CapInv => TypeOK BY Zenon DEF CapInv
<1>2. Init => CapInv BY Zenon, CapInitially
<1> QED BY <1>1, <1>2, NextCapInv, PTL DEF Spec

(* A forward cursor on the oplog never returns a record while a record before  *)
(* it, which it does not have in its snapshot, exists or may still appear.     *)
THEOREM ReadersSeeNoHole == Spec => []ReaderSeesNoHole
<1>1. CapInv => ReaderSeesNoHole BY Zenon, NoHole
<1>2. Init => CapInv BY Zenon, CapInitially
<1> QED BY <1>1, <1>2, NextCapInv, PTL DEF Spec

(* At whatever point of the log a crash cuts, the records of the oplog that    *)
(* isCappedHidden lets through survive with all the written ones before them.  *)
THEOREM CrashesKeepOrder == Spec => []SurvivesInOrder
<1>1. CapInv => SurvivesInOrder BY Zenon, InOrder, Ends
<1>2. Init => CapInv BY Zenon, CapInitially
<1> QED BY <1>1, <1>2, NextCapInv, PTL DEF Spec

(* The journal thread never erases from _uncommittedRecords what a commit or a *)
(* rollback erases, nor twice.                                                 *)
THEOREM NoneErasedTwice == Spec => []ErasedOnce
<1>1. CapInv => ErasedOnce BY Zenon, Once
<1>2. Init => CapInv BY Zenon, CapInitially
<1> QED BY <1>1, <1>2, NextCapInv, PTL DEF Spec

(* waitForAllEarlierOplogWritesToBeVisible returns only when what was committed *)
(* at the call can be read.                                                     *)
THEOREM WaitsEndVisible == Spec => []WaitedForIsVisible
<1>1. CapInv => WaitedForIsVisible BY Zenon, WaitedFor, Ends
<1>2. Init => CapInv BY Zenon, CapInitially
<1> QED BY <1>1, <1>2, NextCapInv, PTL DEF Spec

(* cappedDeleteAsNeeded, in the foreground or in RocksRecordStoreThread, does  *)
(* nothing to the visibility manager that the inserts alone would not do: the  *)
(* composition implements CappedVisibility, and the theorems above hold of it. *)
THEOREM TrimmingImplementsVisibility == DeleteSpec => Spec
<1>1. DeleteInit => Init BY Zenon DEF DeleteInit
<1>2. [DeleteNextState]_<<isOplog, cappedMaxDocs, cappedVars, deleteVars>> => [Next]_<<isOplog, cappedVars>>
  BY Zenon, VisibilitySteps
<1> QED BY <1>1, <1>2, PTL DEF DeleteSpec, Spec

(* cappedDeleteAsNeeded takes no record of a unit of work that is not          *)
(* committed, however commits and the journal thread interleave with its scan. *)
THEOREM OnlyVisibleAreDeleted == DeleteSpec => []DeletesOnlyVisible
<1>1. CapInv /\ DelInv => DeletesOnlyVisible BY Zenon, OnlyVisible
<1> QED BY <1>1, InitDelInv, NextDelInv, PTL DEF DeleteSpec

(* _numRecords and _dataSize, changed outside the writes they count, are right *)
(* whenever no insert is open and no one holds _cappedDeleterMutex.            *)
THEOREM CounterStaysExact == DeleteSpec => []CounterIsExact
<1>1. CapInv /\ DelInv => CounterIsExact BY Zenon, Exactly, Sizes
<1> QED BY <1>1, InitDelInv, NextDelInv, PTL DEF DeleteSpec

(* No interleaving of inserts, roll backs and deletions makes                  *)
(* cappedDeleteAsNeeded_inlock take a record that could have stayed: with the  *)
(* record that was taken last, what stays and the insert that asked for it are *)
(* over the limit in bytes, or over that in documents.                         *)
THEOREM CapIsKept == DeleteSpec => []KeepsUpToCap
<1>1. CapInv /\ DelInv => KeepsUpToCap BY Zenon, UpToCap
<1> QED BY <1>1, InitDelInv, NextDelInv, PTL DEF DeleteSpec
=============================================================================
