--------------------------- MODULE MCNotifyQueue ---------------------------
(***************************************************************************)
(* The instance TLC checks: the two goroutines of the detector that drain  *)
(* the queue, a queue that two notifications fill, pushes enough to evict  *)
(* around a send in flight, and calls enough to overlap twice.             *)
(***************************************************************************)
EXTENDS NotifyQueue

CONSTANTS sender, shutdown

MCDrainers == {sender, shutdown}

\* The sender runs a pass whenever it is woken, the shutdown exactly one.
MCMaxCalls == [d \in MCDrainers |-> IF d = sender THEN 2 ELSE 1]
=============================================================================
