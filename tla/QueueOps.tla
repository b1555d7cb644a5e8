------------------------------ MODULE QueueOps ------------------------------
(***************************************************************************)
(* The list surgery notify.Queue performs under its mutex                  *)
(* (services/error-pipeline/internal/notify/queue.go), as pure operators.  *)
(* An entry is any value; whether the head is held by a send in flight is  *)
(* a parameter, so the queue's own model and the detector's share them.    *)
(***************************************************************************)
EXTENDS Naturals, Sequences

\* removeLocked: the entries behind position i move up by one.
RemoveEntry(items, i) ==
  [j \in 1 .. Len(items) - 1 |-> IF j < i THEN items[j] ELSE items[j + 1]]

\* The bug a test with no send in flight would miss: the head is dropped even
\* while a send holds it.
DroppableIgnoringFlight(items, headHeld) == IF items = <<>> THEN 0 ELSE 1

\* droppableLocked: the position of the oldest entry no send holds, 0 when
\* there is none (the code's -1).
Droppable(items, headHeld) ==
  LET oldest == IF headHeld THEN 2 ELSE 1
  IN  IF oldest <= Len(items) THEN oldest ELSE 0

\* Push keeps the arrival when there is room or something older can go.
KeepsArrival(items, headHeld, limit) ==
  /\ limit > 0
  /\ Len(items) >= limit => Droppable(items, headHeld) > 0

\* The queue once Push made room for the arrival; Push then appends it.
RoomMade(items, headHeld, limit) ==
  IF Len(items) >= limit
    THEN RemoveEntry(items, Droppable(items, headHeld))
    ELSE items

\* The entries a Push that keeps its arrival drops to make room: at most one.
Evicted(items, headHeld, limit) ==
  {items[i] : i \in {j \in 1 .. Len(items) :
                       Len(items) >= limit /\ j = Droppable(items, headHeld)}}

\* Queue.Push on the list alone: the arrival itself is what goes when every
\* slot is held by a send that may still succeed.
Pushed(items, headHeld, limit, e) ==
  IF KeepsArrival(items, headHeld, limit)
    THEN Append(RoomMade(items, headHeld, limit), e)
    ELSE items
=============================================================================
