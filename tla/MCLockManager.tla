-------------------------- MODULE MCLockManager ----------------------------
EXTENDS LockManager

CONSTANTS l1, l2, l3, p1, p2

(* Two lockers share a partition, the third has one of its own. *)
MCPartitionOf == [l \in {l1, l2, l3} |-> IF l = l3 THEN p2 ELSE p1]

PartnerSymmetry == Permutations({l1, l2})
=============================================================================
