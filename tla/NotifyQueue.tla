---------------------------- MODULE NotifyQueue ----------------------------
(***************************************************************************)
(* notify.Queue of the error pipeline: a bounded FIFO of notifications     *)
(* waiting for the notify proxy, drained in passes that never overlap      *)
(* (services/error-pipeline/internal/notify/queue.go). Every critical      *)
(* section of q.mu is one action; the send between two of them is not, so  *)
(* pushes and other Drain calls interleave with it.                        *)
(*                                                                         *)
(* An entry is the sequence number Push gave it: the payload never decides *)
(* anything. A Drain call is a Drainer; its context may end at any moment. *)
(***************************************************************************)
EXTENDS QueueOps, FiniteSets, SequencesExt

CONSTANTS
  Drainers,       \* the goroutines that call Drain: the sender, the shutdown
  Limits,         \* the values NewQueue's max takes, negative ones mapped to 0
  MaxPushes,      \* bound: Push calls in one behaviour
  MaxCalls        \* bound: Drain calls of each drainer

ASSUME LimitsAssumption == Limits \subseteq Nat
ASSUME BoundsAssumption == MaxPushes \in Nat /\ MaxCalls \in [Drainers -> Nat]

VARIABLES
  limit,          \* q.limit, fixed by NewQueue
  items,          \* q.items, as sequence numbers
  seq,            \* q.seq
  refused,        \* arrivals Push dropped instead of numbering
  draining,       \* q.draining; q.passDone is open exactly while it is TRUE
  inflight,       \* q.inflight
  pc,             \* where each Drain call is
  head,           \* the entry the call copied for its send
  cancelled,      \* whether the call's context is done
  calls,          \* Drain calls made so far, for the bound MaxCalls
  \* History, read by the properties only.
  accepted,       \* entries whose send returned nil, in order
  dropped,        \* numbered entries Push logged as dropped
  owed,           \* entries queued when the call started
  clean           \* the call's pass met no cancelled context and no failure

queueVars == <<limit, items, seq, refused, draining, inflight>>
callVars == <<pc, head, cancelled, calls>>
historyVars == <<accepted, dropped, owed, clean>>
vars == <<queueVars, callVars, historyVars>>

\* The stages of Drain between two critical sections.
Stages == {"idle", "begin", "waiting", "woken", "loop", "sending",
           "sent", "failed", "ending"}

\* The stages in which a call owns the running pass.
InPass == {"loop", "sending", "sent", "failed", "ending"}

\* The stages in which a call has a copied entry it has not settled.
Holding == {"sending", "sent", "failed"}

\* q.items[0].seq == q.inflight, the test of droppableLocked.
HeadHeld == items # <<>> /\ items[1] = inflight

-----------------------------------------------------------------------------
Init ==
  /\ limit \in Limits
  /\ items = <<>>
  /\ seq = 0
  /\ refused = 0
  /\ draining = FALSE
  /\ inflight = 0
  /\ pc = [d \in Drainers |-> "idle"]
  /\ head = [d \in Drainers |-> 0]
  /\ cancelled = [d \in Drainers |-> FALSE]
  /\ calls = [d \in Drainers |-> 0]
  /\ accepted = <<>>
  /\ dropped = {}
  /\ owed = [d \in Drainers |-> {}]
  /\ clean = [d \in Drainers |-> TRUE]

-----------------------------------------------------------------------------
(* Push *)

\* The arrival is numbered and appended; a full queue drops its oldest entry
\* no send holds.
PushKept ==
  /\ seq + refused < MaxPushes
  /\ KeepsArrival(items, HeadHeld, limit)
  /\ seq' = seq + 1
  /\ items' = Append(RoomMade(items, HeadHeld, limit), seq + 1)
  /\ dropped' = dropped \union Evicted(items, HeadHeld, limit)
  /\ UNCHANGED <<limit, refused, draining, inflight, callVars, accepted, owed, clean>>

\* The queue is disabled, or its only entry is held by a send: the arrival
\* goes and takes no number.
PushRefused ==
  /\ seq + refused < MaxPushes
  /\ ~KeepsArrival(items, HeadHeld, limit)
  /\ refused' = refused + 1
  /\ UNCHANGED <<limit, items, seq, draining, inflight, callVars, historyVars>>

-----------------------------------------------------------------------------
(* Drain *)

\* A goroutine calls Drain with a live context.
Call(d) ==
  /\ pc[d] = "idle"
  /\ calls[d] < MaxCalls[d]
  /\ calls' = [calls EXCEPT ![d] = @ + 1]
  /\ pc' = [pc EXCEPT ![d] = "begin"]
  /\ cancelled' = [cancelled EXCEPT ![d] = FALSE]
  /\ owed' = [owed EXCEPT ![d] = ToSet(items)]
  /\ clean' = [clean EXCEPT ![d] = TRUE]
  /\ UNCHANGED <<queueVars, head, accepted, dropped>>

\* The context of a running call is cancelled or reaches its deadline.
ContextDone(d) ==
  /\ pc[d] # "idle"
  /\ ~cancelled[d]
  /\ cancelled' = [cancelled EXCEPT ![d] = TRUE]
  /\ UNCHANGED <<queueVars, pc, head, calls, historyVars>>

\* Mutation: begin does not look at q.draining.
BeginPassAnyway(d) ==
  /\ pc[d] \in {"begin", "woken"}
  /\ draining' = TRUE
  /\ pc' = [pc EXCEPT ![d] = "loop"]
  /\ UNCHANGED <<limit, items, seq, refused, inflight, head, cancelled, calls, historyVars>>

\* begin, no pass running: this call takes the pass, whatever its context.
BeginPass(d) ==
  /\ pc[d] \in {"begin", "woken"}
  /\ ~draining
  /\ draining' = TRUE
  /\ pc' = [pc EXCEPT ![d] = "loop"]
  /\ UNCHANGED <<limit, items, seq, refused, inflight, head, cancelled, calls, historyVars>>

\* Mutation: a call that finds a pass running returns, leaving it the work.
BeginLeavesItToTheOther(d) ==
  /\ pc[d] \in {"begin", "woken"}
  /\ draining
  /\ pc' = [pc EXCEPT ![d] = "idle"]
  /\ UNCHANGED <<queueVars, head, cancelled, calls, historyVars>>

\* begin, another pass running: wait for its passDone channel, or give up at
\* once when the context is already done.
BeginWait(d) ==
  /\ pc[d] \in {"begin", "woken"}
  /\ draining
  /\ pc' = [pc EXCEPT ![d] = IF cancelled[d] THEN "idle" ELSE "waiting"]
  /\ clean' = [clean EXCEPT ![d] = ~cancelled[d]]
  /\ UNCHANGED <<queueVars, head, cancelled, calls, accepted, dropped, owed>>

\* The select of begin takes ctx.Done, even if passDone is closed as well.
GiveUp(d) ==
  /\ pc[d] \in {"waiting", "woken"}
  /\ cancelled[d]
  /\ pc' = [pc EXCEPT ![d] = "idle"]
  /\ clean' = [clean EXCEPT ![d] = FALSE]
  /\ UNCHANGED <<queueVars, head, cancelled, calls, accepted, dropped, owed>>

\* The loop head finds the context done.
StopCancelled(d) ==
  /\ pc[d] = "loop"
  /\ cancelled[d]
  /\ pc' = [pc EXCEPT ![d] = "ending"]
  /\ clean' = [clean EXCEPT ![d] = FALSE]
  /\ UNCHANGED <<queueVars, head, cancelled, calls, accepted, dropped, owed>>

\* The loop finds the queue empty.
StopEmpty(d) ==
  /\ pc[d] = "loop"
  /\ ~cancelled[d]
  /\ items = <<>>
  /\ pc' = [pc EXCEPT ![d] = "ending"]
  /\ UNCHANGED <<queueVars, head, cancelled, calls, historyVars>>

\* Mutation: the loop takes the newest entry instead of the oldest.
CopyNewest(d) ==
  /\ pc[d] = "loop"
  /\ ~cancelled[d]
  /\ items # <<>>
  /\ head' = [head EXCEPT ![d] = items[Len(items)]]
  /\ inflight' = items[Len(items)]
  /\ pc' = [pc EXCEPT ![d] = "sending"]
  /\ UNCHANGED <<limit, items, seq, refused, draining, cancelled, calls, historyVars>>

\* The loop copies the head and marks it in flight, then unlocks to send.
CopyHead(d) ==
  /\ pc[d] = "loop"
  /\ ~cancelled[d]
  /\ items # <<>>
  /\ head' = [head EXCEPT ![d] = items[1]]
  /\ inflight' = items[1]
  /\ pc' = [pc EXCEPT ![d] = "sending"]
  /\ UNCHANGED <<limit, items, seq, refused, draining, cancelled, calls, historyVars>>

\* q.send returns nil: the proxy accepted the notification.
SendAccepted(d) ==
  /\ pc[d] = "sending"
  /\ pc' = [pc EXCEPT ![d] = "sent"]
  /\ accepted' = Append(accepted, head[d])
  /\ UNCHANGED <<queueVars, head, cancelled, calls, dropped, owed, clean>>

\* q.send returns an error; the proxy may have accepted it all the same.
SendFailed(d) ==
  /\ pc[d] = "sending"
  /\ pc' = [pc EXCEPT ![d] = "failed"]
  /\ clean' = [clean EXCEPT ![d] = FALSE]
  /\ UNCHANGED <<queueVars, head, cancelled, calls, accepted, dropped, owed>>

\* dropThrough: how many entries from the front are at or below q.
Through(s, q) ==
  CHOOSE n \in 0 .. Len(s) :
    /\ \A i \in 1 .. n : s[i] <= q
    /\ n < Len(s) => s[n + 1] > q

\* The second critical section of the loop after a success.
SettleSent(d) ==
  /\ pc[d] = "sent"
  /\ items' = SubSeq(items, Through(items, head[d]) + 1, Len(items))
  /\ inflight' = 0
  /\ pc' = [pc EXCEPT ![d] = "loop"]
  /\ UNCHANGED <<limit, seq, refused, draining, head, cancelled, calls, historyVars>>

\* Mutation: a failed send takes its entry off the queue as a success does.
SettleFailedDropping(d) ==
  /\ pc[d] = "failed"
  /\ items' = SubSeq(items, Through(items, head[d]) + 1, Len(items))
  /\ inflight' = 0
  /\ pc' = [pc EXCEPT ![d] = "ending"]
  /\ UNCHANGED <<limit, seq, refused, draining, head, cancelled, calls, historyVars>>

\* The second critical section of the loop after a failure: the entry and
\* everything behind it stays queued, and the pass stops.
SettleFailed(d) ==
  /\ pc[d] = "failed"
  /\ inflight' = 0
  /\ pc' = [pc EXCEPT ![d] = "ending"]
  /\ UNCHANGED <<limit, items, seq, refused, draining, head, cancelled, calls, historyVars>>

\* Mutation: end clears q.draining but never closes q.passDone.
EndPassSilently(d) ==
  /\ pc[d] = "ending"
  /\ draining' = FALSE
  /\ pc' = [pc EXCEPT ![d] = "idle"]
  /\ UNCHANGED <<limit, items, seq, refused, inflight, head, cancelled, calls, historyVars>>

\* end: the pass is over and every waiting Drain is woken.
EndPass(d) ==
  /\ pc[d] = "ending"
  /\ draining' = FALSE
  /\ pc' = [e \in Drainers |->
              IF e = d THEN "idle"
              ELSE IF pc[e] = "waiting" THEN "woken" ELSE pc[e]]
  /\ UNCHANGED <<limit, items, seq, refused, inflight, head, cancelled, calls, historyVars>>

-----------------------------------------------------------------------------
DrainStep(d) ==
  \/ BeginPass(d) \/ BeginWait(d) \/ GiveUp(d)
  \/ StopCancelled(d) \/ StopEmpty(d) \/ CopyHead(d)
  \/ SendAccepted(d) \/ SendFailed(d)
  \/ SettleSent(d) \/ SettleFailed(d) \/ EndPass(d)

Next ==
  \/ PushKept
  \/ PushRefused
  \/ \E d \in Drainers : Call(d) \/ ContextDone(d) \/ DrainStep(d)

\* A runnable goroutine is scheduled, and a send returns: the detector gives
\* every send a deadline of its own (detector.go, sendTimeout).
Fairness == \A d \in Drainers : WF_vars(DrainStep(d))

Spec == Init /\ [][Next]_vars /\ Fairness

-----------------------------------------------------------------------------
(* Properties *)

\* Every variable of the queue and of its callers has its type, and the
\* queue never holds more than limit notifications (Push, queue.go:63-91).
TypeOK ==
  /\ limit \in Limits
  /\ items \in Seq(1 .. seq)
  /\ Len(items) <= limit
  /\ seq \in Nat
  /\ refused \in Nat
  /\ draining \in BOOLEAN
  /\ inflight \in 0 .. seq
  /\ pc \in [Drainers -> Stages]
  /\ head \in [Drainers -> 0 .. seq]
  /\ cancelled \in [Drainers -> BOOLEAN]
  /\ calls \in [Drainers -> Nat]
  /\ accepted \in Seq(1 .. seq)
  /\ dropped \in SUBSET (1 .. seq)
  /\ owed \in [Drainers -> SUBSET (1 .. seq)]
  /\ clean \in [Drainers -> BOOLEAN]

\* Two passes never overlap: while q.draining is set exactly one Drain call
\* owns the pass, and none does otherwise (begin and end, queue.go:140-172).
OnePass ==
  /\ draining => \E d \in Drainers : pc[d] \in InPass
  /\ \A d \in Drainers : pc[d] \in InPass => draining
  /\ \A d, e \in Drainers : pc[d] \in InPass /\ pc[e] \in InPass => d = e

\* The entry a send is in flight for is still queued, at the head, until the
\* send is settled, whatever other goroutines push meanwhile: "an entry
\* already copied for an in-flight send is never dropped" (queue.go:11-13).
InFlightStaysQueued ==
  \A d \in Drainers : pc[d] \in Holding =>
    items # <<>> /\ items[1] = head[d] /\ inflight = head[d]

\* Nothing is accepted twice and nothing overtakes an older notification:
\* the accepted entries are in Push order (Drain, queue.go:100-138).
AcceptedInOrder ==
  \A i, j \in DOMAIN accepted : i < j => accepted[i] < accepted[j]

\* "The drop line names a notification that really will not be delivered"
\* (queue.go:60-62): no dropped entry has been accepted or is still queued,
\* and every numbered entry is queued, accepted or dropped.
DropLineIsTrue ==
  /\ dropped \intersect (ToSet(accepted) \union ToSet(items)) = {}
  /\ 1 .. seq = ToSet(items) \union ToSet(accepted) \union dropped

\* A Drain call that met neither a done context nor a failed send has got
\* rid of everything queued when it was made: an overlapping pass never
\* swallows it (queue.go:100-103).
DrainNotSwallowed ==
  \A d \in Drainers : pc[d] = "idle" /\ clean[d] =>
    owed[d] \subseteq ToSet(accepted) \union dropped

\* Every Drain call returns: a call that waits for another pass is woken and
\* gets its own or gives up (begin, queue.go:140-163).
DrainReturns == \A d \in Drainers : pc[d] # "idle" ~> pc[d] = "idle"

-----------------------------------------------------------------------------
(* The queue implements the lossy FIFO: an entry waits from its Push until  *)
(* the send that the proxy accepted returns, which is before dropThrough    *)
(* takes it off the list.                                                   *)

Fifo == INSTANCE LossyFifo WITH
          capacity  <- limit,
          waiting   <- ToSet(items) \ ToSet(accepted),
          delivered <- accepted,
          lost      <- dropped,
          arrived   <- seq

\* Every step of the queue is a step of the lossy FIFO or leaves it alone.
ImplementsFifo == Fifo!Spec
=============================================================================
