----------------------------- MODULE LossyFifo -----------------------------
(***************************************************************************)
(* What the notification queue promises, with no mutex, pass or in-flight  *)
(* send: a notification that arrives is waiting, delivered or lost; only a *)
(* full queue loses anything; deliveries happen in arrival order, at most  *)
(* once each, and a lost notification is never delivered later.            *)
(***************************************************************************)
EXTENDS Naturals, Sequences, FiniteSets

VARIABLES
  capacity,            \* how many notifications may wait, fixed at the start
  waiting,             \* arrivals still to be delivered, a set of numbers
  delivered,           \* arrivals accepted so far, in the order accepted
  lost,                \* arrivals given up
  arrived              \* how many notifications were numbered

vars == <<capacity, waiting, delivered, lost, arrived>>

Init ==
  /\ capacity \in Nat
  /\ waiting = {}
  /\ delivered = <<>>
  /\ lost = {}
  /\ arrived = 0

\* A new notification waits behind the others.
Arrive ==
  /\ Cardinality(waiting) < capacity
  /\ waiting' = waiting \union {arrived + 1}
  /\ arrived' = arrived + 1
  /\ UNCHANGED <<capacity, delivered, lost>>

\* A new notification takes the place of one that waits. The queue is full,
\* or its last free slot is held by a notification just accepted.
ArriveForAnother ==
  /\ Cardinality(waiting) + 1 >= capacity
  /\ \E n \in waiting :
       /\ waiting' = (waiting \ {n}) \union {arrived + 1}
       /\ lost' = lost \union {n}
  /\ arrived' = arrived + 1
  /\ UNCHANGED <<capacity, delivered>>

\* The oldest notification that waits is accepted.
Deliver ==
  \E n \in waiting :
    /\ \A m \in waiting : n <= m
    /\ waiting' = waiting \ {n}
    /\ delivered' = Append(delivered, n)
    /\ UNCHANGED <<capacity, lost, arrived>>

Next == Arrive \/ ArriveForAnother \/ Deliver

Spec == Init /\ [][Next]_vars
=============================================================================
