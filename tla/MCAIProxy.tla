------------------------------ MODULE MCAIProxy ------------------------------
(* The instances of AIProxy that TLC checks: projects and handlers are        *)
(* interchangeable.                                                           *)
EXTENDS AIProxy, TLC

Symmetry == Permutations(Projects) \union Permutations(Handlers)
=============================================================================
