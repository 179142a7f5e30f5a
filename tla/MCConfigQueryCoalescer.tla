----------------------- MODULE MCConfigQueryCoalescer -----------------------
EXTENDS ConfigQueryCoalescer

CONSTANTS r1, r2, r3

(* Requests differ in their version only: one order of the versions stands   *)
(* for all of them.                                                          *)
MCInit == Init /\ version[r1] <= version[r2] /\ version[r2] <= version[r3]

MCLiveSpec ==
  MCInit /\ [][Next]_coalescerVars /\ \A r \in Requests : WF_coalescerVars(Step(r))
=============================================================================
