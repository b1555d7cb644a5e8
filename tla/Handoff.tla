------------------------------ MODULE Handoff ------------------------------
(***************************************************************************)
(* How the error detector gets a closed collection window to the           *)
(* investigator, or tells #errors that it could not, across shutdowns and  *)
(* crashes (services/error-pipeline/internal/detector/detector.go).        *)
(*                                                                         *)
(* Four goroutines share the handoff buffers: the collector (ingest), the  *)
(* control loop (Run, tick, shutdown), the handoff worker and the sender.  *)
(* Each critical section, channel operation and outcome of a request is an *)
(* action. A cycle is one collection window of one error group; a          *)
(* notification is the set of cycles its skip notice covers, {} for an     *)
(* alert. InvestigatorURL is set: without it no cycle is ever handed off.  *)
(***************************************************************************)
EXTENDS QueueOps, FiniteSets, SequencesExt

CONSTANTS
  Cycles,           \* the collection windows of a behaviour
  HandoffQueue,     \* capacity of d.handoffs (handoffQueue, 100)
  HandoffOverflow,  \* bound of d.spill (handoffOverflow, 32)
  QueueSize,        \* limit of d.queue (queueSize, 100)
  SkipNoticeBatch,  \* largest batch noticed one by one (skipNoticeBatch, 10)
  MaxAlerts,        \* bound: alerts and burst summaries in one behaviour
  MaxDropped,       \* bound: cycles whose cooldown or retention ends
  MaxStarts         \* bound: starts of the detector after the first

ASSUME CapacityAssumption ==
  /\ HandoffQueue \in Nat \ {0}
  /\ HandoffOverflow \in Nat
  /\ QueueSize \in Nat \ {0, 1}
  /\ SkipNoticeBatch \in Nat
ASSUME HandoffBoundsAssumption ==
  MaxAlerts \in Nat /\ MaxDropped \in Nat /\ MaxStarts \in Nat /\ IsFiniteSet(Cycles)

VARIABLES
  up,               \* a detector process runs
  persisted,        \* the state file: what the next start loads of each cycle
  tracker,          \* d.tracker
  unresolved,       \* d.unresolved
  pinned,           \* d.pinned
  covered,          \* d.covered
  handoffs,         \* d.handoffs
  spill,            \* d.spill
  handoffWake,      \* d.handoffWake holds a token
  queue,            \* d.queue
  outbox,           \* what each producer still has to dispatch
  refused,          \* the cycle a producer found no channel slot for, if any
  collected,        \* the collector has returned
  worker, held,     \* the handoff worker and the cycle it posts
  sender, batch,    \* the sender, and notices flushSkips still has to push
  run, snap,        \* the control loop, and the snapshot it is about to save
  ctxDone,          \* Run's context is cancelled
  alerts, starts,   \* counted for the bounds
  \* History, read by the properties only.
  announced,        \* cycles whose skip notice was put in the queue
  reached           \* cycles the investigator acknowledged, or the proxy the notice of

skipVars == <<unresolved, pinned, covered>>
bufferVars == <<handoffs, spill, handoffWake>>
producerVars == <<outbox, refused, collected>>
workerVars == <<worker, held>>
senderVars == <<sender, batch>>
loopVars == <<run, snap>>
processVars == <<up, persisted, ctxDone, starts>>
historyVars == <<announced, reached>>
vars == <<tracker, skipVars, bufferVars, queue, producerVars, workerVars,
          senderVars, loopVars, processVars, alerts, historyVars>>

Producers == {"collector", "loop"}

\* A cycle in the tracker: not seen, not closed, closed (Handed), dropped by the
\* retention or for a newer cycle of its group. The clock is left out: the
\* window of any cycle not closed may just have ended, and the cooldown and the
\* retention of at most MaxDropped closed ones too.
CycleStates == {"none", "open", "handed", "gone"}

WorkerStages == {"head", "select", "posting", "staged", "exited"}
SenderStages == {"idle", "flushing", "draining", "sending", "drained", "exited"}
RunStages == {"select", "tick", "wait", "flush", "drain", "skipping", "notify"}

Outbox == [notes : Nat, hand : SUBSET Cycles]
Nothing == [notes |-> 0, hand |-> {}]

\* A snapshot says of each cycle that it is absent, waits for a handoff or is
\* handed; a dropped cycle is absent for good.
Snapshots == [Cycles -> {"none", "open", "handed", "gone"}]

-----------------------------------------------------------------------------
Init ==
  /\ up = TRUE
  /\ persisted = [c \in Cycles |-> "none"] /\ tracker = persisted
  /\ unresolved = {} /\ pinned = {} /\ covered = {}
  /\ handoffs = <<>> /\ spill = <<>> /\ handoffWake = FALSE
  /\ queue = <<>>
  /\ outbox = [p \in Producers |-> Nothing] /\ refused = [p \in Producers |-> {}]
  /\ collected = FALSE
  /\ worker = "head" /\ held = {}
  /\ sender = "idle" /\ batch = {}
  /\ run = "select" /\ snap = {}
  /\ ctxDone = FALSE
  /\ alerts = 0 /\ starts = 0
  /\ announced = {} /\ reached = {}

\* Nothing held in memory outlives the process: the next one is the detector
\* New builds, with the groups loadState reads from the state file.
FromStateFile ==
  /\ tracker' = persisted
  /\ unresolved' = {} /\ pinned' = {} /\ covered' = {}
  /\ handoffs' = <<>> /\ spill' = <<>> /\ handoffWake' = FALSE
  /\ queue' = <<>>
  /\ outbox' = [p \in Producers |-> Nothing] /\ refused' = [p \in Producers |-> {}]
  /\ collected' = FALSE
  /\ worker' = "head" /\ held' = {}
  /\ sender' = "idle" /\ batch' = {}
  /\ run' = "select" /\ snap' = {}
  /\ ctxDone' = FALSE

\* The process is gone: killed at any moment, or at the end of shutdown.
ProcessEnds ==
  /\ up' = FALSE
  /\ FromStateFile
  /\ UNCHANGED <<persisted, alerts, starts, historyVars>>

\* A kill, an eviction or an out-of-memory stop.
Crash ==
  /\ up
  /\ ProcessEnds

\* The next process starts.
Start ==
  /\ ~up
  /\ starts < MaxStarts
  /\ up' = TRUE
  /\ starts' = starts + 1
  /\ FromStateFile
  /\ UNCHANGED <<persisted, alerts, historyVars>>

\* SIGTERM cancels Run's context.
Cancel ==
  /\ up
  /\ ~ctxDone
  /\ ctxDone' = TRUE
  /\ UNCHANGED <<tracker, skipVars, bufferVars, queue, producerVars, workerVars,
                 senderVars, loopVars, up, persisted, starts, alerts, historyVars>>

-----------------------------------------------------------------------------
(* The collector and the control loop produce *)

\* The closed cycles that may be dropped at once, within the bound.
Droppables(cycles) ==
  LET In(s) == {c \in Cycles : cycles[c] = s}
  IN  {d \in SUBSET In("handed") : Cardinality(d) + Cardinality(In("gone")) <= MaxDropped}

\* The tracker once cycle c is in state s, and what route puts in the outbox.
Outcome(c, s, hand, n) == [tracker |-> [tracker EXCEPT ![c] = s], hand |-> hand, notes |-> n]

InState(s) == {c \in Cycles : tracker[c] = s}

\* The cycles whose window and cooldown may both be over.
Replaceable == {c \in Cycles : {c} \in Droppables([tracker EXCEPT ![c] = "handed"])}

\* absorb of one classified error: a first one opens a window and, if the
\* burst cap allows, alerts ...
Opening == {Outcome(c, "open", {}, n) : c \in InState("none"), n \in 0 .. 1}

\* ... a late one closes the window that ran out ...
Closing == {Outcome(c, "handed", {c}, 0) : c \in InState("open")}

\* ... and starts another cycle if the cooldown is over too ...
ClosingForNew ==
  {Outcome(c, "gone", {c}, n) : c \in InState("open") \intersect Replaceable, n \in 0 .. 1}

\* ... as one after the cooldown does; any other is only counted.
Renewing ==
  {Outcome(c, "gone", {}, n) : c \in InState("handed") \intersect Replaceable, n \in 0 .. 1}

Absorbed == Opening \union Closing \union ClosingForNew \union Renewing

\* The same with no error to absorb.
NothingAbsorbed == [tracker |-> tracker, hand |-> {}, notes |-> 0]

\* Mutation: the lock is released with the closed cycles not yet unresolved.
RouteUnmarked(p, hand, notes) ==
  /\ alerts + notes <= MaxAlerts
  /\ alerts' = alerts + notes
  /\ outbox' = [outbox EXCEPT ![p] = [notes |-> notes, hand |-> hand]]
  /\ UNCHANGED unresolved

\* route puts the closed cycles in the outbox, and marks them unresolved
\* before the lock on the tracker is released.
Route(p, hand, notes) ==
  /\ alerts + notes <= MaxAlerts
  /\ alerts' = alerts + notes
  /\ outbox' = [outbox EXCEPT ![p] = [notes |-> notes, hand |-> hand]]
  /\ unresolved' = unresolved \union hand

\* ingest, under d.mu, of a record that completes an error.
Ingest ==
  /\ up
  /\ ~collected
  /\ outbox["collector"] = Nothing /\ refused["collector"] = {}
  /\ \E a \in Absorbed :
       /\ tracker' = a.tracker
       /\ Route("collector", a.hand, a.notes)
  /\ UNCHANGED <<pinned, covered, bufferVars, queue, refused, collected, workerVars,
                 senderVars, loopVars, processVars, historyVars>>

\* collect returns once the context is done and its last ingest is over.
CollectEnds ==
  /\ up
  /\ ctxDone
  /\ ~collected
  /\ outbox["collector"] = Nothing /\ refused["collector"] = {}
  /\ collected' = TRUE
  /\ UNCHANGED <<tracker, skipVars, bufferVars, queue, outbox, refused, workerVars,
                 senderVars, loopVars, processVars, alerts, historyVars>>

\* snapshotGroups: a closed cycle with no outcome is written as not handed.
Snapshot(cycles, undecided) ==
  [c \in Cycles |->
     IF cycles[c] \in {"none", "gone"} THEN cycles[c]
     ELSE IF cycles[c] = "handed" /\ c \notin undecided THEN "handed"
     ELSE "open"]

\* snapshotGroups also prunes the keys of cycles the tracker dropped.
Pruned(cycles, undecided) == {c \in undecided : cycles[c] # "gone"}

\* tick, under d.mu: absorb a crash the assembler closed, close every window
\* that ended, drop what is idle past the retention, report a burst overflow,
\* and take a snapshot when one is due.
Tick ==
  /\ up
  /\ run = "select"
  /\ \E a \in Absorbed \union {NothingAbsorbed}, overflow \in 0 .. 1, saves \in BOOLEAN :
     \E due \in SUBSET {c \in Cycles : a.tracker[c] = "open"} :
       LET closed == [c \in Cycles |-> IF c \in due THEN "handed" ELSE a.tracker[c]]
           undecided == unresolved \union a.hand \union due
       IN  \E idle \in Droppables(closed) :
             LET kept == [c \in Cycles |-> IF c \in idle THEN "gone" ELSE closed[c]]
             IN  /\ alerts + a.notes + overflow <= MaxAlerts
                 /\ alerts' = alerts + a.notes + overflow
                 /\ tracker' = kept
                 /\ outbox' = [outbox EXCEPT !["loop"] =
                                 [notes |-> a.notes + overflow, hand |-> a.hand \union due]]
                 /\ unresolved' = IF saves THEN Pruned(kept, undecided) ELSE undecided
                 /\ snap' = IF saves THEN {Snapshot(kept, undecided)} ELSE {}
  /\ run' = "tick"
  /\ UNCHANGED <<pinned, covered, bufferVars, queue, refused, collected, workerVars,
                 senderVars, processVars, historyVars>>

\* The loop dispatches in a tick and in shutdown, the collector in ingest.
Dispatching(p) == up /\ (p = "loop" => run \in {"tick", "flush"})

\* queue.Push of one notification.
Push(e) ==
  LET kept == KeepsArrival(queue, sender = "sending", QueueSize)
  IN  /\ queue' = Pushed(queue, sender = "sending", QueueSize, e)
      /\ announced' = announced \union (IF kept THEN e ELSE {})

\* dispatch pushes the alerts first.
PushAlert(p) ==
  /\ Dispatching(p)
  /\ outbox[p].notes > 0
  /\ outbox' = [outbox EXCEPT ![p].notes = @ - 1]
  /\ Push({})
  /\ UNCHANGED <<tracker, skipVars, bufferVars, refused, collected, workerVars,
                 senderVars, loopVars, processVars, alerts, reached>>

\* enqueueHandoff: a slot in the worker's channel, if one is free right now.
EnqueueHandoff(p) ==
  /\ Dispatching(p)
  /\ outbox[p].notes = 0 /\ refused[p] = {}
  /\ \E c \in outbox[p].hand :
       /\ outbox' = [outbox EXCEPT ![p].hand = @ \ {c}]
       /\ IF Len(handoffs) < HandoffQueue
            THEN handoffs' = Append(handoffs, c) /\ UNCHANGED refused
            ELSE refused' = [refused EXCEPT ![p] = {c}] /\ UNCHANGED handoffs
  /\ UNCHANGED <<tracker, skipVars, spill, handoffWake, queue, collected, workerVars,
                 senderVars, loopVars, processVars, alerts, historyVars>>

\* Mutation: the worker is not woken for what it finds only at its loop head.
SpillSilently(p) ==
  /\ Dispatching(p)
  /\ Len(spill) < HandoffOverflow
  /\ \E c \in refused[p] : spill' = Append(spill, c)
  /\ refused' = [refused EXCEPT ![p] = {}]
  /\ UNCHANGED <<tracker, skipVars, handoffs, handoffWake, queue, outbox, collected,
                 workerVars, senderVars, loopVars, processVars, alerts, historyVars>>

\* enqueueHandoff after the channel was full: the spill list and a wake-up
\* for the worker.
Spill(p) ==
  /\ Dispatching(p)
  /\ Len(spill) < HandoffOverflow
  /\ \E c \in refused[p] : spill' = Append(spill, c)
  /\ refused' = [refused EXCEPT ![p] = {}]
  /\ handoffWake' = TRUE
  /\ UNCHANGED <<tracker, skipVars, handoffs, queue, outbox, collected, workerVars,
                 senderVars, loopVars, processVars, alerts, historyVars>>

\* enqueueHandoff with both tiers full: stageSkip pins the cycle.
Refuse(p) ==
  /\ Dispatching(p)
  /\ refused[p] # {}
  /\ Len(spill) >= HandoffOverflow
  /\ pinned' = pinned \union refused[p]
  /\ refused' = [refused EXCEPT ![p] = {}]
  /\ UNCHANGED <<tracker, unresolved, covered, bufferVars, queue, outbox, collected,
                 workerVars, senderVars, loopVars, processVars, alerts, historyVars>>

\* tick's saveState: the file is replaced whole, or the save failed.
TickSaves ==
  /\ up
  /\ run = "tick"
  /\ outbox["loop"] = Nothing /\ refused["loop"] = {}
  /\ persisted' \in {persisted} \union snap
  /\ snap' = {}
  /\ run' = "select"
  /\ UNCHANGED <<tracker, skipVars, bufferVars, queue, producerVars, workerVars,
                 senderVars, up, ctxDone, starts, alerts, historyVars>>

-----------------------------------------------------------------------------
(* The handoff worker *)

\* The loop head: stop, serve the spill list, or wait.
WorkerHead ==
  /\ up
  /\ worker = "head"
  /\ IF ctxDone
       THEN worker' = "exited" /\ UNCHANGED <<held, spill>>
       ELSE IF spill # <<>>
         THEN worker' = "posting" /\ held' = {Head(spill)} /\ spill' = Tail(spill)
         ELSE worker' = "select" /\ UNCHANGED <<held, spill>>
  /\ UNCHANGED <<tracker, skipVars, handoffs, handoffWake, queue, producerVars,
                 senderVars, loopVars, processVars, alerts, historyVars>>

\* Mutation: the select has no case for the context.
WorkerSelectForever ==
  /\ up
  /\ worker = "select"
  /\ \/ handoffWake /\ handoffWake' = FALSE /\ worker' = "head" /\ UNCHANGED <<held, handoffs>>
     \/ /\ handoffs # <<>>
        /\ held' = {Head(handoffs)} /\ handoffs' = Tail(handoffs)
        /\ worker' = "posting" /\ UNCHANGED handoffWake
  /\ UNCHANGED <<tracker, skipVars, spill, queue, producerVars, senderVars,
                 loopVars, processVars, alerts, historyVars>>

\* The select: the context, the wake-up or a cycle in the channel.
WorkerSelect ==
  /\ up
  /\ worker = "select"
  /\ \/ ctxDone /\ worker' = "exited" /\ UNCHANGED <<held, handoffs, handoffWake>>
     \/ handoffWake /\ handoffWake' = FALSE /\ worker' = "head" /\ UNCHANGED <<held, handoffs>>
     \/ /\ handoffs # <<>>
        /\ held' = {Head(handoffs)} /\ handoffs' = Tail(handoffs)
        /\ worker' = "posting" /\ UNCHANGED handoffWake
  /\ UNCHANGED <<tracker, skipVars, spill, queue, producerVars, senderVars,
                 loopVars, processVars, alerts, historyVars>>

\* deliverHandoff, one of the attempts acknowledged: resolve.
PostAccepted ==
  /\ up
  /\ worker = "posting"
  /\ reached' = reached \union held
  /\ unresolved' = unresolved \ held
  /\ held' = {}
  /\ worker' = "head"
  /\ UNCHANGED <<tracker, pinned, covered, bufferVars, queue, producerVars, senderVars,
                 loopVars, processVars, alerts, announced>>

\* deliverHandoff, every attempt failed and the context is live: stageSkip.
PostFailed ==
  /\ up
  /\ worker = "posting"
  /\ ~ctxDone
  /\ pinned' = pinned \union held
  /\ worker' = "staged"
  /\ UNCHANGED <<tracker, unresolved, covered, bufferVars, queue, producerVars, held,
                 senderVars, loopVars, processVars, alerts, historyVars>>

\* Mutation: the worker stops with the cycle it was posting.
RequeueNothing ==
  /\ up
  /\ worker \in {"posting", "staged"}
  /\ ctxDone
  /\ held' = {}
  /\ worker' = "exited"
  /\ UNCHANGED <<tracker, skipVars, bufferVars, queue, producerVars,
                 senderVars, loopVars, processVars, alerts, historyVars>>

\* deliverOne with an error and a done context: the worker returns its cycle
\* to the spill list and stops. The context may have ended after stageSkip.
Requeue ==
  /\ up
  /\ worker \in {"posting", "staged"}
  /\ ctxDone
  /\ \E c \in held : spill' = Append(spill, c)
  /\ held' = {}
  /\ worker' = "exited"
  /\ UNCHANGED <<tracker, skipVars, handoffs, handoffWake, queue, producerVars,
                 senderVars, loopVars, processVars, alerts, historyVars>>

\* deliverOne after a staged notice, the context still live: keep going.
KeepGoing ==
  /\ up
  /\ worker = "staged"
  /\ ~ctxDone
  /\ held' = {}
  /\ worker' = "head"
  /\ UNCHANGED <<tracker, skipVars, bufferVars, queue, producerVars, senderVars,
                 loopVars, processVars, alerts, historyVars>>

-----------------------------------------------------------------------------
(* The sender *)

\* What flushSkips pushes for a batch: a notice each, or one for all of them.
Notices(cycles) ==
  LET n == Cardinality(cycles)
  IN  IF n <= SkipNoticeBatch /\ Len(queue) + n <= QueueSize
        THEN {{c} : c \in cycles}
        ELSE {cycles}

\* flushSkips takes the pinned cycles, which are covered from then on.
TakePinned ==
  /\ batch' = Notices(pinned)
  /\ covered' = covered \union pinned
  /\ pinned' = {}

\* deliverSkips starts, on a wake-up or a retry with something to do.
FlushSkips ==
  /\ up
  /\ sender = "idle"
  /\ queue # <<>> \/ pinned # {}
  /\ TakePinned
  /\ sender' = "flushing"
  /\ UNCHANGED <<tracker, unresolved, bufferVars, queue, producerVars, workerVars,
                 loopVars, processVars, alerts, historyVars>>

\* flushSkips pushes one notice; another producer may push between two.
PushNotice ==
  /\ up
  /\ sender = "flushing" \/ run = "skipping"
  /\ \E e \in batch : Push(e) /\ batch' = batch \ {e}
  /\ UNCHANGED <<tracker, skipVars, bufferVars, producerVars, workerVars, sender,
                 loopVars, processVars, alerts, reached>>

FlushEnds ==
  /\ up
  /\ sender = "flushing"
  /\ batch = {}
  /\ sender' = "draining"
  /\ UNCHANGED <<tracker, skipVars, bufferVars, queue, producerVars, workerVars, batch,
                 loopVars, processVars, alerts, historyVars>>

\* Drain copies the head and sends it.
DrainSends ==
  /\ up
  /\ sender = "draining"
  /\ ~ctxDone
  /\ queue # <<>>
  /\ sender' = "sending"
  /\ UNCHANGED <<tracker, skipVars, bufferVars, queue, producerVars, workerVars, batch,
                 loopVars, processVars, alerts, historyVars>>

DrainSent ==
  /\ up
  /\ sender = "sending"
  /\ reached' = reached \union Head(queue)
  /\ queue' = Tail(queue)
  /\ sender' = "draining"
  /\ UNCHANGED <<tracker, skipVars, bufferVars, producerVars, workerVars, batch,
                 loopVars, processVars, alerts, announced>>

\* Drain stops: a send failed, the context is done or the queue is empty.
DrainStops ==
  /\ up
  /\ \/ sender = "sending"
     \/ sender = "draining" /\ (ctxDone \/ queue = <<>>)
  /\ sender' = "drained"
  /\ UNCHANGED <<tracker, skipVars, bufferVars, queue, producerVars, workerVars, batch,
                 loopVars, processVars, alerts, historyVars>>

\* settleCovered: the notices of the covered cycles count as their outcome.
Settle == unresolved' = unresolved \ covered /\ covered' = {}

\* deliverSkips after the drain: an empty queue settles.
AfterDrain ==
  /\ up
  /\ sender = "drained"
  /\ IF queue = <<>> THEN Settle ELSE UNCHANGED <<unresolved, covered>>
  /\ sender' = "idle"
  /\ UNCHANGED <<tracker, pinned, bufferVars, queue, producerVars, workerVars, batch,
                 loopVars, processVars, alerts, historyVars>>

SenderExits ==
  /\ up
  /\ sender = "idle"
  /\ ctxDone
  /\ sender' = "exited"
  /\ UNCHANGED <<tracker, skipVars, bufferVars, queue, producerVars, workerVars, batch,
                 loopVars, processVars, alerts, historyVars>>

-----------------------------------------------------------------------------
(* Shutdown, on the control loop *)

\* Run's select takes ctx.Done: no tick follows.
RunStops ==
  /\ up
  /\ run = "select"
  /\ ctxDone
  /\ run' = "wait"
  /\ UNCHANGED <<tracker, skipVars, bufferVars, queue, producerVars, workerVars,
                 senderVars, snap, processVars, alerts, historyVars>>

\* shutdown once the three goroutines returned: the assembler is flushed, the
\* partial burst reported; tracker.Tick is not called.
Shutdown ==
  /\ up
  /\ run = "wait"
  /\ collected /\ worker = "exited" /\ sender = "exited"
  /\ \E a \in Absorbed \union {NothingAbsorbed}, overflow \in 0 .. 1 :
       /\ tracker' = a.tracker
       /\ Route("loop", a.hand, a.notes + overflow)
  /\ run' = "flush"
  /\ UNCHANGED <<pinned, covered, bufferVars, queue, refused, collected, workerVars,
                 senderVars, snap, processVars, historyVars>>

ShutdownDispatched ==
  /\ up
  /\ run = "flush"
  /\ outbox["loop"] = Nothing /\ refused["loop"] = {}
  /\ run' = "drain"
  /\ UNCHANGED <<tracker, skipVars, bufferVars, queue, producerVars, workerVars,
                 senderVars, snap, processVars, alerts, historyVars>>

\* takeHandoffNow: the next cycle of the spill list, else of the channel.
TakeHandoffNow(c) ==
  IF spill # <<>>
    THEN c = Head(spill) /\ spill' = Tail(spill) /\ UNCHANGED handoffs
    ELSE /\ handoffs # <<>>
         /\ c = Head(handoffs) /\ handoffs' = Tail(handoffs) /\ UNCHANGED spill

\* drainHandoffs posts one cycle; a refusal stages its notice.
DrainHandoff ==
  /\ up
  /\ run = "drain"
  /\ \E c \in Cycles :
       /\ TakeHandoffNow(c)
       /\ \/ /\ reached' = reached \union {c}
             /\ unresolved' = unresolved \ {c}
             /\ UNCHANGED pinned
          \/ pinned' = pinned \union {c} /\ UNCHANGED <<reached, unresolved>>
  /\ UNCHANGED <<tracker, covered, handoffWake, queue, producerVars, workerVars,
                 senderVars, loopVars, processVars, alerts, announced>>

\* Mutation: only the cycle whose attempt was cut short is staged.
DrainCutShortHere ==
  /\ up
  /\ run = "drain"
  /\ \E c \in Cycles :
       /\ TakeHandoffNow(c)
       /\ batch' = Notices(pinned \union {c})
       /\ covered' = covered \union pinned \union {c}
  /\ pinned' = {}
  /\ run' = "skipping"
  /\ UNCHANGED <<tracker, unresolved, handoffWake, queue, producerVars,
                 workerVars, sender, snap, processVars, alerts, historyVars>>

\* drainHandoffs out of its budget: this cycle and every one behind it is
\* staged without another attempt.
DrainCutShort ==
  /\ up
  /\ run = "drain"
  /\ handoffs # <<>> \/ spill # <<>>
  /\ pinned' = pinned \union ToSet(handoffs) \union ToSet(spill)
  /\ handoffs' = <<>> /\ spill' = <<>>
  /\ UNCHANGED <<tracker, unresolved, covered, handoffWake, queue, producerVars,
                 workerVars, senderVars, loopVars, processVars, alerts, historyVars>>

\* Nothing waits any more: the last flushSkips starts.
ShutdownFlushes ==
  /\ up
  /\ run = "drain"
  /\ handoffs = <<>> /\ spill = <<>>
  /\ TakePinned
  /\ run' = "skipping"
  /\ UNCHANGED <<tracker, unresolved, bufferVars, queue, producerVars, workerVars,
                 sender, snap, processVars, alerts, historyVars>>

\* settleCovered, snapshotGroups and saveState, which may fail.
FinalSave ==
  /\ up
  /\ run = "skipping"
  /\ batch = {}
  /\ covered' = {}
  /\ LET undecided == unresolved \ covered
     IN  /\ unresolved' = Pruned(tracker, undecided)
         /\ persisted' \in {persisted, Snapshot(tracker, undecided)}
  /\ run' = "notify"
  /\ UNCHANGED <<tracker, pinned, bufferVars, queue, producerVars, workerVars,
                 senderVars, snap, up, ctxDone, starts, alerts, historyVars>>

\* The last Drain, on a budget of its own.
FinalSend ==
  /\ up
  /\ run = "notify"
  /\ queue # <<>>
  /\ reached' = reached \union Head(queue)
  /\ queue' = Tail(queue)
  /\ UNCHANGED <<tracker, skipVars, bufferVars, producerVars, workerVars, senderVars,
                 loopVars, processVars, alerts, announced>>

\* Run returns, with the queue empty or not.
Exit ==
  /\ up
  /\ run = "notify"
  /\ ProcessEnds

-----------------------------------------------------------------------------
Dispatch(p) == PushAlert(p) \/ EnqueueHandoff(p) \/ Spill(p) \/ Refuse(p)

WorkerStep ==
  WorkerHead \/ WorkerSelect \/ PostAccepted \/ PostFailed \/ Requeue \/ KeepGoing

SenderPass ==
  FlushSkips \/ PushNotice \/ FlushEnds \/ DrainSends \/ DrainSent \/ DrainStops \/ AfterDrain

ShutdownStep ==
  \/ RunStops \/ Shutdown \/ ShutdownDispatched \/ DrainHandoff \/ DrainCutShort
  \/ ShutdownFlushes \/ FinalSave \/ FinalSend \/ Exit

Next ==
  \/ Crash \/ Start \/ Cancel
  \/ Ingest \/ CollectEnds \/ Tick \/ TickSaves
  \/ \E p \in Producers : Dispatch(p)
  \/ WorkerStep \/ SenderPass \/ SenderExits \/ ShutdownStep

Spec == Init /\ [][Next]_vars

\* Every goroutine that can run is scheduled and every request ends (each has
\* a deadline). Two selects have the done context among several ready cases,
\* Go picks any of them, so it takes the context in the end.
Fairness ==
  /\ \A p \in Producers : WF_vars(Dispatch(p))
  /\ WF_vars(CollectEnds) /\ WF_vars(TickSaves)
  /\ WF_vars(WorkerStep) /\ WF_vars(SenderPass)
  /\ SF_vars(SenderExits) /\ SF_vars(RunStops)
  /\ WF_vars(ShutdownStep)

FairSpec == Spec /\ Fairness

-----------------------------------------------------------------------------
(* Properties *)

\* Every variable has its type; the channel, the notification queue and the
\* spill list keep their bounds, the last but for the one cycle the worker
\* returns when its context ends (enqueueHandoff, requeueHandoff).
TypeOK ==
  /\ up \in BOOLEAN /\ ctxDone \in BOOLEAN
  /\ alerts \in 0 .. MaxAlerts /\ starts \in 0 .. MaxStarts
  /\ persisted \in Snapshots
  /\ tracker \in [Cycles -> CycleStates]
  /\ unresolved \in SUBSET Cycles /\ pinned \in SUBSET Cycles /\ covered \in SUBSET Cycles
  /\ handoffs \in Seq(Cycles) /\ Len(handoffs) <= HandoffQueue
  /\ spill \in Seq(Cycles)
  /\ Len(spill) <= HandoffOverflow + (IF worker = "exited" THEN 1 ELSE 0)
  /\ handoffWake \in BOOLEAN
  /\ queue \in Seq(SUBSET Cycles) /\ Len(queue) <= QueueSize
  /\ outbox \in [Producers -> Outbox]
  /\ refused \in [Producers -> SUBSET Cycles]
  /\ collected \in BOOLEAN
  /\ worker \in WorkerStages /\ held \in SUBSET Cycles
  /\ sender \in SenderStages /\ batch \in SUBSET (SUBSET Cycles)
  /\ run \in RunStages /\ snap \in SUBSET Snapshots
  /\ announced \in SUBSET Cycles /\ reached \in SUBSET Cycles

\* The cycles some goroutine will still hand off or pin.
Buffered ==
  (UNION {outbox[p].hand \union refused[p] : p \in Producers})
    \union ToSet(handoffs) \union ToSet(spill) \union held \union pinned

\* No closed cycle without an outcome is ever out of every goroutine's hands:
\* it is on its way to the investigator, pinned, or covered by a notice that
\* a drain or the last save settles (markUnresolved, detector.go:826-833).
UnresolvedIsHeld == unresolved \subseteq Buffered \union covered

\* Whatever crashes, a cycle the state file says was handed off has been
\* investigated, or a notice that it was not has been put in the notification
\* queue (saveState, snapshotGroups, detector.go:1095-1122).
SavedHandedHasOutcome ==
  \A c \in Cycles : persisted[c] = "handed" => c \in reached \union announced

\* The last save of a shutdown leaves no cycle undecided and nothing in the
\* handoff buffers: "every closed group therefore ends up either investigated
\* or staged" (drainHandoffs, detector.go:776-780).
ShutdownDecidesAll == run = "notify" => unresolved = {} /\ Buffered = {} /\ batch = {}

\* No cycle is stranded in a handoff buffer, the spill list behind a full
\* channel included: it is posted, or pinned and then covered by a notice, or
\* the process ends (enqueueHandoff, handoffWorker, flushSkips).
BuffersServed == \A c \in Cycles : c \in Buffered ~> c \notin Buffered

\* A cancelled detector ends: Run waits for the collector, the sender and the
\* worker, and each of them returns (Run, detector.go:376-386).
ShutdownEnds == up /\ ctxDone ~> ~up

\* What shutdown promises of its save: "every group left Handed has a notice
\* sitting in the queue at that moment" (detector.go:1028-1029), unless it was
\* investigated or its notice was delivered before. Read of one process.
SavedHandedIsCovered ==
  run = "notify" =>
    \A c \in Cycles : tracker[c] = "handed" /\ persisted[c] = "handed" =>
      c \in reached \union UNION ToSet(queue)
=============================================================================
