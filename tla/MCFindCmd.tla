----------------------------- MODULE MCFindCmd ------------------------------
(* Two concurrent finds on config.chunks.  Versions are what RequestVersion can *)
(* return: the bounds, and 0.                                                   *)
EXTENDS FindCmd

CONSTANTS r1, r2

MCNamespaces == {"config.chunks"}
MCVersions == Bounds \cup {0}

(* The finds differ in their filter only: one order of the filters stands for   *)
(* both.                                                                        *)
MCFindInit ==
  /\ FindInit
  /\ \/ version[r1] < version[r2]
     \/ version[r1] = version[r2] /\ filter[r1].bound <= filter[r2].bound

MCFairFindSpec ==
  /\ MCFindInit /\ [][FindNext]_findVars
  /\ \A r \in Requests : WF_findVars(FindStep(r)) /\ WF_findVars(Expire(r))
=============================================================================
