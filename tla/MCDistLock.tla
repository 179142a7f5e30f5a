----------------------------- MODULE MCDistLock -----------------------------
(* A call of lock() for n1 in a mongos, and the config server's                *)
(* MigrationManager, which locks n1 and n2 under one session.                  *)
EXTENDS DistLock

CONSTANTS a, m, k, n1, n2, p1, p2, s1, s2

MCNameOf == [c \in {a, m, k} |-> IF c = k THEN n2 ELSE n1]
MCSessionOf == [c \in {a, m, k} |-> IF c = a THEN s1 ELSE s2]
MCProcessOf == [s \in {s1, s2} |-> IF s = s1 THEN p1 ELSE p2]
=============================================================================
