--------------------------- MODULE MCReviewCycle ---------------------------
(***************************************************************************)
(* The instances TLC checks: one finding, and diffs that come and go in    *)
(* the index, one of them a bare manifest without its handbook. An empty   *)
(* index has a hash too and counts as another diff.                        *)
(***************************************************************************)
EXTENDS ReviewCycle

MCSha == [d \in Diffs |-> IF d = NoDiff THEN "EMPTY" ELSE d]
MCFiles == {"manifest", "handbook"}
MCFilesOf ==
    [d \in Diffs |-> IF d = NoDiff THEN {}
                     ELSE IF d = "bare" THEN {"manifest"} ELSE Files]
MCPath == [f \in Files |-> IF f = "manifest" THEN "other" ELSE "high"]
MCClaims == {[cb_state |-> "CLOSED", trusted |-> TRUE, override |-> 0]}

\* Bound: one finding is resolved as fixed on one diff.
MCBound == Cardinality(fixed) <= 1
=============================================================================
