---------------------------- MODULE MCElections ----------------------------
(***************************************************************************)
(* Elections for TLC: three members and two terms.                         *)
(***************************************************************************)
EXTENDS Elections, TLC

\* The members are interchangeable; SYMMETRY Members is sound for invariants.
Members == Permutations(Server)
=============================================================================
