------------------------- MODULE SnapshotIsolation -------------------------
(* What the storage engine promises the layers above it, with no mention of *)
(* snapshot ids, key tables or locks: every unit of work reads the store as *)
(* it was when its view was taken, its writes appear all at once, and they  *)
(* appear only if no other unit of work wrote one of the same keys since    *)
(* the view was taken.  RocksTransaction implements this specification.     *)
EXTENDS Naturals

CONSTANTS Units,   \* recovery units, one per operation
          Keys     \* keys of the store

VARIABLES store,     \* Keys -> the version last written, 0 before any write
          version,   \* the version given to the latest write
          view,      \* Units -> the store as the unit reads it, or NoView
          writeSet   \* Units -> the keys the unit has buffered writes for

vars == <<store, version, view, writeSet>>

NoView == <<>>

Init ==
  /\ store = [k \in Keys |-> 0]
  /\ version = 0
  /\ view = [u \in Units |-> NoView]
  /\ writeSet = [u \in Units |-> {}]

TakeView(u) ==
  /\ view[u] = NoView
  /\ view' = [view EXCEPT ![u] = store]
  /\ UNCHANGED <<store, version, writeSet>>

BufferWrite(u, k) ==
  /\ writeSet' = [writeSet EXCEPT ![u] = @ \cup {k}]
  /\ UNCHANGED <<store, version, view>>

(* First committer wins: a unit that read before another one's write of the *)
(* same key can never install its own.                                      *)
Commit(u) ==
  /\ writeSet[u] # {}
  /\ view[u] # NoView => \A k \in writeSet[u] : store[k] = view[u][k]
  /\ version' = version + 1
  /\ store' = [k \in Keys |-> IF k \in writeSet[u] THEN version' ELSE store[k]]
  /\ view' = [view EXCEPT ![u] = NoView]
  /\ writeSet' = [writeSet EXCEPT ![u] = {}]

Discard(u) ==
  /\ view' = [view EXCEPT ![u] = NoView]
  /\ writeSet' = [writeSet EXCEPT ![u] = {}]
  /\ UNCHANGED <<store, version>>

Next ==
  \E u \in Units :
    \/ TakeView(u)
    \/ \E k \in Keys : BufferWrite(u, k)
    \/ Commit(u)
    \/ Discard(u)

Spec == Init /\ [][Next]_vars
=============================================================================
