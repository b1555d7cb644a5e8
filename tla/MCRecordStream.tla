--------------------------- MODULE MCRecordStream ---------------------------
(* The instance TLC checks of RecordStream: the containers are alike.       *)
EXTENDS RecordStream, TLC

MCSymmetry == Permutations(Keys)

=============================================================================
