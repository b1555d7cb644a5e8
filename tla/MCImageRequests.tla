--------------------------- MODULE MCImageRequests ---------------------------
(***************************************************************************)
(* The instances TLC checks: a project of two roles and one of a single    *)
(* role, as blog and pn are.                                               *)
(***************************************************************************)
EXTENDS ImageRequests

CONSTANTS p1, p2, backend, frontend, s0, s1, s2, r1, r2, r3

MCAllowed == [p \in Projects |-> IF p = p1 THEN {backend, frontend} ELSE {backend}]

MCSymmetry == Permutations(Runs) \cup Permutations(Shas)
=============================================================================
