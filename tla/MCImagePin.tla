----------------------------- MODULE MCImagePin -----------------------------
(* Small instances of ImagePin: pn with a file and a badge per role, blog  *)
(* with two roles in one file.                                             *)
EXTENDS ImagePin, TLC

MCAllowed == [p \in Projects |-> IF p = "pn" THEN {"backend", "frontend"} ELSE {"web", "jobs"}]

MCFileOf == [c \in Containers |-> IF c[1] = "pn" THEN c[2] ELSE "deployment"]

MCBadged == {c \in Containers : c[1] = "pn"}

MCSymmetry == Permutations(Runs) \cup Permutations(Shas)

=============================================================================
