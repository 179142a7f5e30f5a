---------------------------- MODULE MCLockExpiry ----------------------------
(* Two threads wait for a lock that two sessions of one process take in turn. *)
EXTENDS LockExpiry, TLC

CONSTANTS p1, s1, s2

MCProcessOf == s1 :> p1 @@ s2 :> p1
MCSkews == {2}
ExpirySymmetry == Permutations(Threads) \cup Permutations(Sessions)
=============================================================================
