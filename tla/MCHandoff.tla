----------------------------- MODULE MCHandoff -----------------------------
(***************************************************************************)
(* The instances TLC checks. With buffers of one slot two cycles, which    *)
(* can come back after a restart, reach every tier: the worker, the        *)
(* channel, the spill list and the refusal.                                *)
(***************************************************************************)
EXTENDS Handoff

CONSTANTS c1, c2

MCTwoCycles == {c1, c2}

\* Cycles are interchangeable, nothing orders them.
MCSymmetry == Permutations(Cycles)
=============================================================================
