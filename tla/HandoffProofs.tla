--------------------------- MODULE HandoffProofs ---------------------------
(***************************************************************************)
(* Type correctness and the safety of the detector's handoff, proved for   *)
(* every set of cycles, every capacity of the channel, the spill list and  *)
(* the notification queue, and every bound.                                *)
(*                                                                         *)
(* What a cycle needs is a place that will decide it; the places are       *)
(* shuffled by four goroutines, and the invariant below says for each of   *)
(* their stages what the places it is about to overwrite still hold.       *)
(***************************************************************************)
EXTENDS Handoff, SequenceTheorems, TLAPS

-----------------------------------------------------------------------------
(* The invariant *)

\* A buffer besides the worker's hands has the cycle.
Elsewhere(c) ==
  \/ \E p \in Producers : c \in outbox[p].hand \/ c \in refused[p]
  \/ c \in ToSet(handoffs) \/ c \in ToSet(spill) \/ c \in pinned

\* A producer holds at most one refused cycle, the worker at most one cycle,
\* and none at its loop head.
OneAtATime ==
  /\ \A p \in Producers : \A c, d \in refused[p] : c = d
  /\ \A c, d \in held : c = d
  /\ held # {} => worker \in {"posting", "staged"}

\* The loop has dispatched all of a tick before the next, and all of its last
\* outbox before it drains.
LoopDispatched ==
  run \notin {"tick", "flush"} => outbox["loop"] = Nothing /\ refused["loop"] = {}

\* A collector that has returned dispatched everything.
CollectorEmpty == collected => outbox["collector"] = Nothing /\ refused["collector"] = {}

\* Shutdown runs alone, and its stages empty the buffers one after another.
ShutdownAlone ==
  /\ run \in {"flush", "drain", "skipping", "notify"} =>
       collected /\ worker = "exited" /\ sender = "exited"
  /\ run \in {"skipping", "notify"} => handoffs = <<>> /\ spill = <<>> /\ pinned = {}

\* The entry the sender copied is still queued.
HeadIsSent == sender = "sending" => queue # <<>>

\* Notices are left to push only while somebody pushes them.
BatchIsPushed == batch # {} => sender = "flushing" \/ run = "skipping"

ControlInv ==
  OneAtATime /\ LoopDispatched /\ CollectorEmpty /\ ShutdownAlone /\ BatchIsPushed /\ HeadIsSent

\* A staged cycle is decided by its notice, whatever becomes of the worker.
StagedIsHeld == worker = "staged" => \A c \in unresolved : Elsewhere(c) \/ c \in covered

\* UnresolvedIsHeld, cycle by cycle.
EachIsHeld == \A c \in unresolved : Elsewhere(c) \/ c \in held \/ c \in covered

\* The last save leaves nothing undecided.
SaveDecides == run = "notify" => unresolved = {}

HeldInv == StagedIsHeld /\ EachIsHeld /\ SaveDecides

\* A covered cycle's notice has been queued or is still to be.
CoveredIsAnnounced == covered \subseteq announced \union UNION batch

\* A cycle that would be saved as handed has an outcome or a queued notice.
HandedHasOutcome ==
  \A c \in Cycles : tracker[c] = "handed" /\ c \notin unresolved => c \in reached \union announced

\* So has one in the snapshot a tick took and is about to save.
SnapHasOutcome ==
  \A s \in snap : \A c \in Cycles : s[c] = "handed" => c \in reached \union announced

OutcomeInv ==
  CoveredIsAnnounced /\ HandedHasOutcome /\ SnapHasOutcome /\ SavedHandedHasOutcome

HandoffInv == TypeOK /\ ControlInv /\ HeldInv /\ OutcomeInv

-----------------------------------------------------------------------------
(* Lemmas about what the actions compute *)

\* What absorb of an error can leave: only a cycle it hands off is newly closed.
LEMMA AbsorbedShape ==
  ASSUME TypeOK, NEW a \in Absorbed \union {NothingAbsorbed}
  PROVE  /\ a.tracker \in [Cycles -> CycleStates]
         /\ a.hand \in SUBSET Cycles
         /\ a.notes \in {0, 1}
         /\ \A c \in Cycles : a.tracker[c] = "handed" => tracker[c] = "handed" \/ c \in a.hand
<1> USE DEF TypeOK, CycleStates
<1>1. CASE a = NothingAbsorbed
  BY <1>1 DEF NothingAbsorbed
<1>2. CASE a \in Absorbed
  <2> DEFINE Opened == \E c \in Cycles, n \in 0 .. 1 : a = Outcome(c, "open", {}, n)
             Closed == \E c \in Cycles : a = Outcome(c, "handed", {c}, 0)
             Replaced == \E c \in Cycles, n \in 0 .. 1 :
                           a = Outcome(c, "gone", {c}, n) \/ a = Outcome(c, "gone", {}, n)
  <2>1. Opened \/ Closed \/ Replaced
    <3>1. \A s : InState(s) \subseteq Cycles
      BY DEF InState
    <3>2. CASE a \in Opening
      BY ONLY <3>1, <3>2 DEF Opening
    <3>3. CASE a \in Closing
      BY ONLY <3>1, <3>3 DEF Closing
    <3>4. CASE a \in ClosingForNew
      BY ONLY <3>1, <3>4 DEF ClosingForNew
    <3>5. CASE a \in Renewing
      BY ONLY <3>1, <3>5 DEF Renewing
    <3> QED BY ONLY <1>2, <3>2, <3>3, <3>4, <3>5 DEF Absorbed
  <2>2. CASE Opened
    BY <2>2 DEF Outcome
  <2>3. CASE Closed
    BY <2>3 DEF Outcome
  <2>4. CASE Replaced
    BY <2>4 DEF Outcome
  <2> QED BY <2>1, <2>2, <2>3, <2>4
<1> QED BY <1>1, <1>2

\* A snapshot has a state for each cycle, and calls handed only what is.
LEMMA SnapshotShape ==
  ASSUME NEW cycles \in [Cycles -> CycleStates], NEW undecided
  PROVE  /\ Snapshot(cycles, undecided) \in Snapshots
         /\ \A c \in Cycles : Snapshot(cycles, undecided)[c] = "handed" =>
              cycles[c] = "handed" /\ c \notin undecided
BY DEF Snapshot, Snapshots, CycleStates

\* What a producer's outbox is once an alert or a cycle is taken from it.
LEMMA OutboxTaken ==
  ASSUME outbox \in [Producers -> Outbox], NEW p \in Producers
  PROVE  /\ outbox[p].notes > 0 => [outbox EXCEPT ![p].notes = @ - 1] \in [Producers -> Outbox]
         /\ \A c : [outbox EXCEPT ![p].hand = @ \ {c}] \in [Producers -> Outbox]
<1>1. outbox[p] \in Outbox
  OBVIOUS
<1>2. outbox[p].notes > 0 => [outbox[p] EXCEPT !.notes = @ - 1] \in Outbox
  BY <1>1 DEF Outbox
<1>3. \A c : [outbox[p] EXCEPT !.hand = @ \ {c}] \in Outbox
  BY <1>1 DEF Outbox
<1>4. \A o \in Outbox : [outbox EXCEPT ![p] = o] \in [Producers -> Outbox]
  OBVIOUS
<1>5. /\ [outbox EXCEPT ![p].notes = @ - 1]
           = [outbox EXCEPT ![p] = [outbox[p] EXCEPT !.notes = @ - 1]]
      /\ \A c : [outbox EXCEPT ![p].hand = @ \ {c}]
           = [outbox EXCEPT ![p] = [outbox[p] EXCEPT !.hand = @ \ {c}]]
  OBVIOUS
<1> QED BY <1>2, <1>3, <1>4, <1>5

\* The notices of a batch tell of exactly its cycles.
LEMMA NoticesShape ==
  ASSUME NEW cycles \in SUBSET Cycles
  PROVE  Notices(cycles) \in SUBSET (SUBSET Cycles) /\ UNION Notices(cycles) = cycles
BY DEF Notices

\* The empty list has no entries.
LEMMA NoEntries == ToSet(<<>>) = {}
BY DEF ToSet

\* Appending an entry adds it to the entries of a list.
LEMMA EntryAdded ==
  ASSUME NEW S, NEW s \in Seq(S), NEW e \in S
  PROVE  /\ Append(s, e) \in Seq(S) /\ Len(Append(s, e)) = Len(s) + 1
         /\ ToSet(Append(s, e)) = ToSet(s) \union {e}
<1> DEFINE r == Append(s, e)
<1>1. /\ r \in Seq(S) /\ Len(r) = Len(s) + 1 /\ Len(s) \in Nat
      /\ \A i \in 1 .. Len(s) : r[i] = s[i]
      /\ r[Len(s) + 1] = e
  OBVIOUS
<1>2. ToSet(r) = {r[i] : i \in 1 .. Len(s) + 1} /\ ToSet(s) = {s[i] : i \in 1 .. Len(s)}
  BY <1>1 DEF ToSet
<1>3. \A i \in 1 .. Len(s) + 1 : i \in 1 .. Len(s) \/ i = Len(s) + 1
  BY <1>1
<1>4. ToSet(r) \subseteq ToSet(s) \union {e}
  BY <1>1, <1>2, <1>3
<1>5. ToSet(s) \union {e} \subseteq ToSet(r)
  BY <1>1, <1>2
<1> QED BY <1>1, <1>4, <1>5

\* The entries of a list are its head and those of its tail.
LEMMA HeadTaken ==
  ASSUME NEW S, NEW s \in Seq(S), s # <<>>
  PROVE  ToSet(s) = ToSet(Tail(s)) \union {s[1]}
<1> DEFINE r == Tail(s)
<1>1. /\ r \in Seq(S) /\ Len(r) = Len(s) - 1 /\ Len(s) \in Nat /\ Len(s) >= 1
      /\ \A i \in 1 .. Len(s) - 1 : r[i] = s[i + 1]
      /\ DOMAIN r = 1 .. Len(s) - 1 /\ DOMAIN s = 1 .. Len(s)
  OBVIOUS
<1>2. ToSet(r) = {r[i] : i \in 1 .. Len(s) - 1} /\ ToSet(s) = {s[i] : i \in 1 .. Len(s)}
  BY <1>1 DEF ToSet
<1>3. \A i \in 2 .. Len(s) : i - 1 \in 1 .. Len(s) - 1 /\ r[i - 1] = s[i]
  BY <1>1
<1>4. ToSet(s) \subseteq ToSet(r) \union {s[1]}
  BY <1>1, <1>2, <1>3
<1>5. ToSet(r) \union {s[1]} \subseteq ToSet(s)
  BY <1>1, <1>2
<1> QED BY <1>4, <1>5

\* A queue of two entries or more never refuses an arrival.
LEMMA RoomForArrival ==
  ASSUME NEW S, NEW s \in Seq(S), NEW busy \in BOOLEAN, NEW n \in Nat \ {0, 1}
  PROVE  KeepsArrival(s, busy, n)
BY DEF KeepsArrival, Droppable

\* A Push on the list alone keeps the list within its limit.
LEMMA PushedFacts ==
  ASSUME NEW S, NEW s \in Seq(S), NEW busy \in BOOLEAN, NEW n \in Nat,
         Len(s) <= n, NEW e \in S
  PROVE  /\ Pushed(s, busy, n, e) \in Seq(S) /\ Len(Pushed(s, busy, n, e)) <= n
         /\ KeepsArrival(s, busy, n) => Pushed(s, busy, n, e) # <<>>
<1>1. CASE ~KeepsArrival(s, busy, n)
  BY <1>1 DEF Pushed
<1>2. CASE KeepsArrival(s, busy, n)
  <2> DEFINE r == RoomMade(s, busy, n)
  <2>1. r \in Seq(S) /\ Len(r) < n
    <3>1. \A k \in 1 .. Len(s) : RemoveEntry(s, k) \in Seq(S) /\ Len(RemoveEntry(s, k)) = Len(s) - 1
      BY DEF RemoveEntry
    <3>2. n > 0 /\ Len(s) \in Nat
      BY <1>2 DEF KeepsArrival
    <3>3. CASE Len(s) < n
      BY <3>2, <3>3 DEF RoomMade
    <3>4. CASE Len(s) = n
      <4>1. Droppable(s, busy) \in 1 .. Len(s)
        BY <1>2, <3>2, <3>4 DEF KeepsArrival, Droppable
      <4>2. r = RemoveEntry(s, Droppable(s, busy))
        BY <3>2, <3>4 DEF RoomMade
      <4> QED BY <3>1, <3>2, <3>4, <4>1, <4>2
    <3> QED BY <3>2, <3>3, <3>4
  <2>2. Pushed(s, busy, n, e) = Append(r, e)
    BY <1>2 DEF Pushed
  <2>3. \A t \in Seq(S) : Append(t, e) \in Seq(S) /\ Len(Append(t, e)) = Len(t) + 1 /\ Len(t) \in Nat
                     /\ Append(t, e) # <<>>
    OBVIOUS
  <2> HIDE DEF r
  <2> QED BY <2>1, <2>2, <2>3
<1> QED BY <1>1, <1>2

\* The lists of cycles: what adding one at the end leaves.
LEMMA CyclesAdded ==
  ASSUME NEW s \in Seq(Cycles), NEW c \in Cycles
  PROVE  /\ Append(s, c) \in Seq(Cycles) /\ Len(Append(s, c)) = Len(s) + 1
         /\ ToSet(Append(s, c)) = ToSet(s) \union {c}
BY EntryAdded

\* And what taking the first leaves.
LEMMA CyclesTaken ==
  ASSUME NEW s \in Seq(Cycles), s # <<>>
  PROVE  /\ Head(s) \in Cycles
         /\ Tail(s) \in Seq(Cycles) /\ Len(Tail(s)) = Len(s) - 1 /\ Len(s) >= 1
         /\ ToSet(s) = ToSet(Tail(s)) \union {Head(s)}
<1>1. Head(s) = s[1] /\ Head(s) \in Cycles /\ Len(s) >= 1
  OBVIOUS
<1>2. /\ Tail(s) \in Seq(Cycles) /\ Len(Tail(s)) = Len(s) - 1
      /\ ToSet(s) = ToSet(Tail(s)) \union {s[1]}
  BY HeadTaken
<1> QED BY <1>1, <1>2

\* The same of the queue.
LEMMA NotificationTaken ==
  ASSUME NEW s \in Seq(SUBSET Cycles), s # <<>>
  PROVE  /\ Head(s) \in SUBSET Cycles
         /\ Tail(s) \in Seq(SUBSET Cycles) /\ Len(Tail(s)) <= Len(s)
OBVIOUS

\* A list of cycles has only cycles.
LEMMA CyclesListed ==
  ASSUME NEW s \in Seq(Cycles)
  PROVE  ToSet(s) \in SUBSET Cycles
BY DEF ToSet

\* Every notice the sender or the shutdown pushes is accepted into the queue.
LEMMA PushAnnounces ==
  ASSUME TypeOK, NEW e \in SUBSET Cycles, Push(e)
  PROVE  /\ queue' \in Seq(SUBSET Cycles) /\ Len(queue') <= QueueSize /\ queue' # <<>>
         /\ announced' = announced \union e
<1>1. queue \in Seq(SUBSET Cycles) /\ Len(queue) <= QueueSize
  BY DEF TypeOK
<1>2. QueueSize \in Nat \ {0, 1} /\ QueueSize \in Nat
  BY CapacityAssumption
<1> DEFINE h == (sender = "sending")
<1>3. h \in BOOLEAN
  OBVIOUS
<1>4. /\ queue' = Pushed(queue, h, QueueSize, e)
      /\ announced' = announced \union (IF KeepsArrival(queue, h, QueueSize) THEN e ELSE {})
  BY DEF Push
<1> HIDE DEF h
<1>5. KeepsArrival(queue, h, QueueSize)
  BY ONLY <1>1, <1>2, <1>3, RoomForArrival
<1>6. /\ Pushed(queue, h, QueueSize, e) \in Seq(SUBSET Cycles)
      /\ Len(Pushed(queue, h, QueueSize, e)) <= QueueSize
      /\ Pushed(queue, h, QueueSize, e) # <<>>
  BY ONLY <1>1, <1>2, <1>3, <1>5, PushedFacts
<1> QED BY <1>4, <1>5, <1>6
\* What route leaves: the outbox of p and the marks.
Routed(p) ==
  /\ alerts' \in 0 .. MaxAlerts
  /\ outbox' \in [Producers -> Outbox]
  /\ unresolved' \in SUBSET Cycles

LEMMA RouteShape ==
  ASSUME TypeOK, NEW p \in Producers, NEW hand \in SUBSET Cycles, NEW n \in Nat,
         Route(p, hand, n)
  PROVE  Routed(p)
<1>1. [notes |-> n, hand |-> hand] \in Outbox
  BY DEF Outbox
<1>2. alerts' \in 0 .. MaxAlerts
  BY HandoffBoundsAssumption DEF Route, TypeOK
<1> QED BY <1>1, <1>2 DEF Routed, Route, TypeOK

\* What a tick leaves: only cycles it hands off are newly closed, and each of
\* its own is in the loop's outbox.
LEMMA TickShape ==
  ASSUME TypeOK, Tick
  PROVE  /\ tracker' \in [Cycles -> CycleStates]
         /\ alerts' \in 0 .. MaxAlerts
         /\ snap' \in SUBSET Snapshots
         /\ \E notes \in Nat, hand \in SUBSET Cycles :
              /\ outbox' = [outbox EXCEPT !["loop"] = [notes |-> notes, hand |-> hand]]
              /\ unresolved' \subseteq unresolved \union hand
              /\ \A c \in Cycles : tracker'[c] = "handed" /\ c \notin unresolved' =>
                   tracker[c] = "handed" /\ c \notin unresolved
              /\ \A s \in snap' : \A c \in Cycles : s[c] = "handed" =>
                   tracker[c] = "handed" /\ c \notin unresolved
<1>1. PICK a \in Absorbed \union {NothingAbsorbed}, overflow \in 0 .. 1, saves \in BOOLEAN :
      \E due \in SUBSET {c \in Cycles : a.tracker[c] = "open"} :
       LET closed == [c \in Cycles |-> IF c \in due THEN "handed" ELSE a.tracker[c]]
           undecided == unresolved \union a.hand \union due
       IN  \E idle \in Droppables(closed) :
             LET kept == [c \in Cycles |-> IF c \in idle THEN "gone" ELSE closed[c]]
             IN  /\ alerts + a.notes + overflow <= MaxAlerts
                 /\ alerts' = alerts + a.notes + overflow
                 /\ tracker' = kept
                 /\ outbox' = [outbox EXCEPT !["loop"] =
                                 [notes |-> a.notes + overflow, hand |-> a.hand \union due]]
                 /\ unresolved' = IF saves THEN Pruned(kept, undecided) ELSE undecided
                 /\ snap' = IF saves THEN {Snapshot(kept, undecided)} ELSE {}
  BY DEF Tick
<1>2. PICK due \in SUBSET {c \in Cycles : a.tracker[c] = "open"} :
       LET closed == [c \in Cycles |-> IF c \in due THEN "handed" ELSE a.tracker[c]]
           undecided == unresolved \union a.hand \union due
       IN  \E idle \in Droppables(closed) :
             LET kept == [c \in Cycles |-> IF c \in idle THEN "gone" ELSE closed[c]]
             IN  /\ alerts + a.notes + overflow <= MaxAlerts
                 /\ alerts' = alerts + a.notes + overflow
                 /\ tracker' = kept
                 /\ outbox' = [outbox EXCEPT !["loop"] =
                                 [notes |-> a.notes + overflow, hand |-> a.hand \union due]]
                 /\ unresolved' = IF saves THEN Pruned(kept, undecided) ELSE undecided
                 /\ snap' = IF saves THEN {Snapshot(kept, undecided)} ELSE {}
  BY <1>1
<1> DEFINE closed == [c \in Cycles |-> IF c \in due THEN "handed" ELSE a.tracker[c]]
           undecided == unresolved \union a.hand \union due
           hand == a.hand \union due
<1>3. PICK idle \in Droppables(closed) :
        /\ alerts + a.notes + overflow <= MaxAlerts
        /\ alerts' = alerts + a.notes + overflow
        /\ tracker' = [c \in Cycles |-> IF c \in idle THEN "gone" ELSE closed[c]]
        /\ outbox' = [outbox EXCEPT !["loop"] = [notes |-> a.notes + overflow, hand |-> hand]]
        /\ unresolved' = IF saves THEN Pruned(tracker', undecided) ELSE undecided
        /\ snap' = IF saves THEN {Snapshot(tracker', undecided)} ELSE {}
  BY <1>2
<1>4. /\ a.tracker \in [Cycles -> CycleStates] /\ a.hand \in SUBSET Cycles /\ a.notes \in {0, 1}
      /\ \A c \in Cycles : a.tracker[c] = "handed" => tracker[c] = "handed" \/ c \in a.hand
  BY AbsorbedShape
<1>5. closed \in [Cycles -> CycleStates] /\ hand \in SUBSET Cycles /\ a.notes + overflow \in Nat
  BY <1>4 DEF CycleStates
<1>6. tracker' \in [Cycles -> CycleStates]
  BY <1>3, <1>5 DEF CycleStates
<1>7. alerts' \in 0 .. MaxAlerts
  BY <1>3, <1>4, HandoffBoundsAssumption DEF TypeOK
<1>8. \A c \in Cycles : tracker'[c] = "handed" =>
        closed[c] = "handed" /\ (tracker[c] = "handed" \/ c \in hand)
  BY <1>3, <1>4
<1> HIDE DEF closed
<1>9. unresolved' \subseteq unresolved \union hand
  BY <1>3 DEF Pruned
<1>10. \A c \in Cycles : tracker'[c] = "handed" /\ c \notin unresolved' => c \notin undecided
  BY <1>3 DEF Pruned
<1>11. \A c \in Cycles : tracker'[c] = "handed" /\ c \notin undecided =>
         tracker[c] = "handed" /\ c \notin unresolved
  BY <1>8
<1>12. /\ Snapshot(tracker', undecided) \in Snapshots
       /\ \A c \in Cycles : Snapshot(tracker', undecided)[c] = "handed" =>
            tracker'[c] = "handed" /\ c \notin undecided
  BY ONLY <1>6, SnapshotShape
<1> HIDE DEF undecided, hand
<1> QED BY <1>3, <1>5, <1>6, <1>7, <1>9, <1>10, <1>11, <1>12

-----------------------------------------------------------------------------
(* Type correctness *)

LEMMA TypeInit == Init => TypeOK
<1> SUFFICES ASSUME Init PROVE TypeOK
  OBVIOUS
<1>1. alerts \in 0 .. MaxAlerts /\ starts \in 0 .. MaxStarts
  BY HandoffBoundsAssumption DEF Init
<1>2. /\ Len(handoffs) <= HandoffQueue /\ Len(queue) <= QueueSize
      /\ Len(spill) <= HandoffOverflow + (IF worker = "exited" THEN 1 ELSE 0)
  BY CapacityAssumption DEF Init
<1>3. outbox \in [Producers -> Outbox] /\ refused \in [Producers -> SUBSET Cycles]
  BY DEF Init, Nothing, Outbox
<1>4. /\ tracker \in [Cycles -> CycleStates] /\ persisted \in Snapshots
      /\ handoffs \in Seq(Cycles) /\ spill \in Seq(Cycles) /\ queue \in Seq(SUBSET Cycles)
  BY DEF Init, CycleStates, Snapshots
<1> QED BY <1>1, <1>2, <1>3, <1>4
        DEF Init, TypeOK, WorkerStages, SenderStages, RunStages

\* A process that ended, or starts, is well typed.
LEMMA TypeFromStateFile ==
  ASSUME TypeOK, FromStateFile, UNCHANGED <<persisted, alerts, historyVars>>,
         up' \in BOOLEAN, starts' \in 0 .. MaxStarts
  PROVE  TypeOK'
<1>1. /\ Len(handoffs') <= HandoffQueue /\ Len(queue') <= QueueSize
      /\ Len(spill') <= HandoffOverflow + (IF worker' = "exited" THEN 1 ELSE 0)
  BY CapacityAssumption DEF FromStateFile
<1>2. outbox' \in [Producers -> Outbox] /\ refused' \in [Producers -> SUBSET Cycles]
  BY DEF FromStateFile, Nothing, Outbox
<1>3. /\ tracker' \in [Cycles -> CycleStates] /\ persisted' \in Snapshots
      /\ handoffs' \in Seq(Cycles) /\ spill' \in Seq(Cycles) /\ queue' \in Seq(SUBSET Cycles)
  BY DEF FromStateFile, TypeOK, CycleStates, Snapshots
<1> QED BY <1>1, <1>2, <1>3
        DEF FromStateFile, TypeOK, WorkerStages, SenderStages, RunStages, historyVars

\* The steps of a producer.
LEMMA TypeDispatch ==
  ASSUME TypeOK, NEW p \in Producers, Dispatch(p)
  PROVE  TypeOK'
<1> USE DEF TypeOK, skipVars, producerVars, workerVars,
            senderVars, loopVars, processVars, historyVars, bufferVars
<1>1. CASE PushAlert(p)
  <2>1. Push({}) /\ {} \in SUBSET Cycles
    BY <1>1 DEF PushAlert
  <2>2. queue' \in Seq(SUBSET Cycles) /\ Len(queue') <= QueueSize /\ announced' = announced
    BY <2>1, PushAnnounces
  <2>3. outbox' \in [Producers -> Outbox]
    BY <1>1, OutboxTaken DEF PushAlert
  <2> QED BY <1>1, <2>2, <2>3 DEF PushAlert
<1>2. CASE EnqueueHandoff(p)
  <2>1. PICK c \in outbox[p].hand :
          /\ outbox' = [outbox EXCEPT ![p].hand = @ \ {c}]
          /\ IF Len(handoffs) < HandoffQueue
               THEN handoffs' = Append(handoffs, c) /\ UNCHANGED refused
               ELSE refused' = [refused EXCEPT ![p] = {c}] /\ UNCHANGED handoffs
    BY <1>2 DEF EnqueueHandoff
  <2>2. c \in Cycles /\ outbox' \in [Producers -> Outbox]
    BY <2>1, OutboxTaken DEF Outbox
  <2>3. handoffs' \in Seq(Cycles) /\ Len(handoffs') <= HandoffQueue
    <3>1. /\ Append(handoffs, c) \in Seq(Cycles)
          /\ Len(Append(handoffs, c)) = Len(handoffs) + 1 /\ Len(handoffs) \in Nat
      BY <2>2, CyclesAdded
    <3>2. HandoffQueue \in Nat
      BY CapacityAssumption
    <3>3. CASE Len(handoffs) < HandoffQueue
      BY ONLY <2>1, <3>1, <3>2, <3>3
    <3>4. CASE ~(Len(handoffs) < HandoffQueue)
      BY <2>1, <3>4
    <3> QED BY <3>3, <3>4
  <2>4. refused' \in [Producers -> SUBSET Cycles]
    BY <2>1, <2>2
  <2> QED BY <1>2, <2>2, <2>3, <2>4 DEF EnqueueHandoff
<1>3. CASE Spill(p)
  <2>1. PICK c \in refused[p] : spill' = Append(spill, c)
    BY <1>3 DEF Spill
  <2>2. c \in Cycles
    BY <2>1
  <2>3. /\ spill' \in Seq(Cycles) /\ Len(spill') = Len(spill) + 1
        /\ Len(spill) < HandoffOverflow /\ HandoffOverflow \in Nat
    BY <1>3, <2>1, <2>2, CyclesAdded, CapacityAssumption DEF Spill
  <2>4. Len(spill') <= HandoffOverflow + (IF worker' = "exited" THEN 1 ELSE 0)
    BY <2>3
  <2> QED BY <1>3, <2>3, <2>4 DEF Spill
<1>4. CASE Refuse(p)
  BY <1>4 DEF Refuse
<1> QED BY <1>1, <1>2, <1>3, <1>4 DEF Dispatch

\* The steps of the worker.
LEMMA TypeWorker ==
  ASSUME TypeOK, WorkerStep
  PROVE  TypeOK'
<1> USE DEF TypeOK, WorkerStages, skipVars, producerVars, workerVars,
            senderVars, loopVars, processVars, historyVars, bufferVars
<1>1. HandoffOverflow \in Nat /\ HandoffQueue \in Nat
  BY CapacityAssumption
<1>2. /\ spill # <<>> => /\ Head(spill) \in Cycles /\ Tail(spill) \in Seq(Cycles)
                         /\ Len(Tail(spill)) = Len(spill) - 1
      /\ handoffs # <<>> => /\ Head(handoffs) \in Cycles /\ Tail(handoffs) \in Seq(Cycles)
                            /\ Len(Tail(handoffs)) = Len(handoffs) - 1
  BY CyclesTaken
<1>3. CASE WorkerHead
  <2>1. /\ worker # "exited" /\ worker' \in WorkerStages /\ held' \in SUBSET Cycles
        /\ spill' = spill \/ (spill # <<>> /\ spill' = Tail(spill))
    BY <1>2, <1>3 DEF WorkerHead
  <2>2. spill' \in Seq(Cycles) /\ Len(spill') <= HandoffOverflow
    <3>1. spill \in Seq(Cycles) /\ Len(spill) <= HandoffOverflow /\ Len(spill) \in Nat
      BY <1>1, <2>1
    <3> QED BY ONLY <1>1, <1>2, <2>1, <3>1
  <2>3. Len(spill') <= HandoffOverflow + (IF worker' = "exited" THEN 1 ELSE 0)
    BY <1>1, <2>2
  <2>4. UNCHANGED <<tracker, unresolved, pinned, covered, handoffs, handoffWake, queue, outbox, refused,
                 collected, sender, batch, run, snap, up, persisted, ctxDone, starts, alerts,
                 announced, reached>>
    BY <1>3 DEF WorkerHead
  <2> QED BY <2>1, <2>2, <2>3, <2>4
<1>4. CASE WorkerSelect
  <2>1. /\ worker # "exited" /\ worker' \in WorkerStages /\ held' \in SUBSET Cycles
        /\ handoffWake' \in BOOLEAN
        /\ handoffs' = handoffs \/ (handoffs # <<>> /\ handoffs' = Tail(handoffs))
    BY <1>2, <1>4 DEF WorkerSelect
  <2>2. handoffs' \in Seq(Cycles) /\ Len(handoffs') <= HandoffQueue
    <3>1. handoffs \in Seq(Cycles) /\ Len(handoffs) <= HandoffQueue /\ Len(handoffs) \in Nat
      BY <1>1
    <3> QED BY ONLY <1>1, <1>2, <2>1, <3>1
  <2>3. Len(spill) <= HandoffOverflow + (IF worker' = "exited" THEN 1 ELSE 0)
    BY <1>1, <2>1
  <2>4. UNCHANGED <<tracker, unresolved, pinned, covered, spill, queue, outbox, refused,
                 collected, sender, batch, run, snap, up, persisted, ctxDone, starts, alerts,
                 announced, reached>>
    BY <1>4 DEF WorkerSelect
  <2> QED BY <2>1, <2>2, <2>3, <2>4
<1>5. CASE PostAccepted
  BY <1>1, <1>5 DEF PostAccepted
<1>6. CASE PostFailed
  BY <1>1, <1>6 DEF PostFailed
<1>7. CASE Requeue
  <2>1. PICK c \in held : spill' = Append(spill, c)
    BY <1>7 DEF Requeue
  <2>2. c \in Cycles
    BY <2>1
  <2>3. spill' \in Seq(Cycles) /\ Len(spill') = Len(spill) + 1
    BY <2>1, <2>2, CyclesAdded
  <2>4. worker # "exited" /\ worker' = "exited"
    BY <1>7 DEF Requeue
  <2> QED BY <1>1, <1>7, <2>3, <2>4 DEF Requeue
<1>8. CASE KeepGoing
  BY <1>1, <1>8 DEF KeepGoing
<1> QED BY <1>3, <1>4, <1>5, <1>6, <1>7, <1>8 DEF WorkerStep

\* The steps of the sender.
LEMMA TypeSender ==
  ASSUME TypeOK, HeadIsSent, SenderPass \/ SenderExits
  PROVE  TypeOK'
<1> USE DEF TypeOK, SenderStages, skipVars, producerVars, workerVars,
            senderVars, loopVars, processVars, historyVars, bufferVars
<1>1. CASE FlushSkips
  <2>1. batch' \in SUBSET (SUBSET Cycles)
    BY <1>1, NoticesShape DEF FlushSkips, TakePinned
  <2> QED BY <1>1, <2>1 DEF FlushSkips, TakePinned
<1>2. CASE PushNotice
  <2>1. PICK e \in batch : Push(e) /\ batch' = batch \ {e}
    BY <1>2 DEF PushNotice
  <2>2. /\ queue' \in Seq(SUBSET Cycles) /\ Len(queue') <= QueueSize
        /\ announced' = announced \union e
    BY <2>1, PushAnnounces
  <2> QED BY <1>2, <2>1, <2>2 DEF PushNotice
<1>3. CASE FlushEnds \/ DrainSends \/ DrainStops \/ SenderExits
  BY <1>3 DEF FlushEnds, DrainSends, DrainStops, SenderExits
<1>4. CASE DrainSent
  <2>1. Head(queue) \in SUBSET Cycles /\ Tail(queue) \in Seq(SUBSET Cycles)
        /\ Len(Tail(queue)) <= Len(queue)
    BY <1>4, NotificationTaken DEF DrainSent, HeadIsSent
  <2> QED BY <1>4, <2>1, CapacityAssumption DEF DrainSent
<1>5. CASE AfterDrain
  BY <1>5 DEF AfterDrain, Settle
<1> QED BY <1>1, <1>2, <1>3, <1>4, <1>5 DEF SenderPass

\* The steps of the collector and the loop before a shutdown.
LEMMA TypeLoop ==
  ASSUME TypeOK, Crash \/ Start \/ Cancel \/ Ingest \/ CollectEnds \/ Tick \/ TickSaves
  PROVE  TypeOK'
<1> USE DEF skipVars, producerVars, workerVars, senderVars, loopVars,
            processVars, historyVars, bufferVars
<1>1. MaxAlerts \in Nat /\ MaxStarts \in Nat
  BY HandoffBoundsAssumption
<1>2. CASE Crash
  BY <1>2, TypeFromStateFile DEF Crash, ProcessEnds, TypeOK
<1>3. CASE Start
  <2>1. starts' \in 0 .. MaxStarts /\ up' \in BOOLEAN
    BY <1>1, <1>3 DEF Start, TypeOK
  <2> QED BY <1>3, <2>1, TypeFromStateFile DEF Start
<1>4. CASE Cancel \/ CollectEnds
  BY <1>4 DEF Cancel, CollectEnds, TypeOK
<1>5. CASE Ingest
  <2>1. PICK a \in Absorbed : tracker' = a.tracker /\ Route("collector", a.hand, a.notes)
    BY <1>5 DEF Ingest
  <2>2. /\ a.tracker \in [Cycles -> CycleStates]
        /\ a.hand \in SUBSET Cycles /\ a.notes \in {0, 1}
    BY <2>1, AbsorbedShape
  <2>3. Routed("collector")
    BY <2>1, <2>2, RouteShape DEF Producers
  <2> QED BY <1>5, <2>1, <2>2, <2>3 DEF Ingest, TypeOK, Routed
<1>6. CASE Tick
  <2>1. PICK notes \in Nat, hand \in SUBSET Cycles :
          /\ outbox' = [outbox EXCEPT !["loop"] = [notes |-> notes, hand |-> hand]]
          /\ unresolved' \subseteq unresolved \union hand
    BY <1>6, TickShape
  <2>2. /\ tracker' \in [Cycles -> CycleStates] /\ alerts' \in 0 .. MaxAlerts
        /\ snap' \in SUBSET Snapshots
    BY <1>6, TickShape
  <2>3. [notes |-> notes, hand |-> hand] \in Outbox
    BY DEF Outbox
  <2>4. outbox' \in [Producers -> Outbox] /\ unresolved' \in SUBSET Cycles
    BY <2>1, <2>3 DEF TypeOK
  <2>5. /\ run' = "tick"
        /\ UNCHANGED <<pinned, covered, bufferVars, queue, refused, collected, workerVars,
                       senderVars, processVars, historyVars>>
    BY <1>6 DEF Tick
  <2> QED BY <2>2, <2>4, <2>5 DEF TypeOK, RunStages
<1>7. CASE TickSaves
  BY <1>7 DEF TickSaves, TypeOK, RunStages
<1> QED BY <1>2, <1>3, <1>4, <1>5, <1>6, <1>7

\* The steps of a shutdown.
LEMMA TypeShutdown ==
  ASSUME TypeOK, ShutdownStep
  PROVE  TypeOK'
<1> USE DEF skipVars, producerVars, workerVars, senderVars, loopVars,
            processVars, historyVars, bufferVars
<1>1. CASE RunStops \/ ShutdownDispatched
  BY <1>1 DEF RunStops, ShutdownDispatched, TypeOK, RunStages
<1>2. CASE Shutdown
  <2>1. PICK a \in Absorbed \union {NothingAbsorbed}, overflow \in 0 .. 1 :
          tracker' = a.tracker /\ Route("loop", a.hand, a.notes + overflow)
    BY <1>2 DEF Shutdown
  <2>2. /\ a.tracker \in [Cycles -> CycleStates]
        /\ a.hand \in SUBSET Cycles /\ a.notes + overflow \in Nat
    BY <2>1, AbsorbedShape
  <2>3. Routed("loop")
    BY <2>1, <2>2, RouteShape DEF Producers
  <2> QED BY <1>2, <2>1, <2>2, <2>3 DEF Shutdown, TypeOK, Routed, RunStages
<1>3. CASE DrainHandoff
  <2>1. PICK c \in Cycles : TakeHandoffNow(c)
    BY <1>3 DEF DrainHandoff
  <2>2. /\ spill' \in Seq(Cycles) /\ handoffs' \in Seq(Cycles)
        /\ Len(spill') <= Len(spill) /\ Len(handoffs') <= Len(handoffs)
        /\ Len(spill') \in Nat /\ Len(handoffs') \in Nat /\ Len(spill) \in Nat /\ Len(handoffs) \in Nat
    <3>1. /\ spill \in Seq(Cycles) /\ handoffs \in Seq(Cycles)
          /\ Len(spill) \in Nat /\ Len(handoffs) \in Nat
      BY DEF TypeOK
    <3>2. \/ handoffs' = handoffs /\ spill # <<>> /\ spill' = Tail(spill)
          \/ spill' = spill /\ handoffs # <<>> /\ handoffs' = Tail(handoffs)
      BY <2>1 DEF TakeHandoffNow
    <3>3. \A s \in Seq(Cycles) : s # <<>> =>
            Tail(s) \in Seq(Cycles) /\ Len(Tail(s)) = Len(s) - 1 /\ Len(s) >= 1
      BY CyclesTaken
    <3>4. CASE handoffs' = handoffs /\ spill # <<>> /\ spill' = Tail(spill)
      BY ONLY <3>1, <3>3, <3>4
    <3>5. CASE spill' = spill /\ handoffs # <<>> /\ handoffs' = Tail(handoffs)
      BY ONLY <3>1, <3>3, <3>5
    <3> QED BY ONLY <3>2, <3>4, <3>5
  <2>3. /\ Len(handoffs') <= HandoffQueue
        /\ Len(spill') <= HandoffOverflow + (IF worker' = "exited" THEN 1 ELSE 0)
    <3>1. /\ Len(handoffs) <= HandoffQueue
          /\ Len(spill) <= HandoffOverflow + (IF worker = "exited" THEN 1 ELSE 0)
          /\ worker' = worker
      BY <1>3 DEF DrainHandoff, TypeOK
    <3> QED BY ONLY <2>2, <3>1, CapacityAssumption
  <2> QED BY <1>3, <2>2, <2>3 DEF DrainHandoff, TypeOK
<1>4. CASE DrainCutShort
  <2>1. ToSet(handoffs) \in SUBSET Cycles /\ ToSet(spill) \in SUBSET Cycles
    BY CyclesListed DEF TypeOK
  <2>2. /\ Len(handoffs') <= HandoffQueue
        /\ Len(spill') <= HandoffOverflow + (IF worker' = "exited" THEN 1 ELSE 0)
    BY <1>4, CapacityAssumption DEF DrainCutShort
  <2> QED BY <1>4, <2>1, <2>2 DEF DrainCutShort, TypeOK
<1>5. CASE ShutdownFlushes
  <2>1. batch' \in SUBSET (SUBSET Cycles)
    BY <1>5, NoticesShape DEF ShutdownFlushes, TakePinned, TypeOK
  <2> QED BY <1>5, <2>1 DEF ShutdownFlushes, TakePinned, TypeOK, RunStages
<1>6. CASE FinalSave
  <2>1. Snapshot(tracker, unresolved \ covered) \in Snapshots
    BY SnapshotShape DEF TypeOK
  <2> QED BY <1>6, <2>1 DEF FinalSave, Pruned, TypeOK, RunStages
<1>7. CASE FinalSend
  <2>1. /\ Head(queue) \in SUBSET Cycles /\ Tail(queue) \in Seq(SUBSET Cycles)
        /\ Len(Tail(queue)) <= QueueSize
    <3>1. queue \in Seq(SUBSET Cycles) /\ Len(queue) <= QueueSize /\ Len(queue) \in Nat
      BY DEF TypeOK
    <3>2. queue # <<>>
      BY <1>7 DEF FinalSend
    <3> QED BY ONLY <3>1, <3>2, NotificationTaken, CapacityAssumption
  <2> QED BY <1>7, <2>1 DEF FinalSend, TypeOK
<1>8. CASE Exit
  BY <1>8, TypeFromStateFile DEF Exit, ProcessEnds, TypeOK
<1> QED BY <1>1, <1>2, <1>3, <1>4, <1>5, <1>6, <1>7, <1>8 DEF ShutdownStep

-----------------------------------------------------------------------------
(* Control *)

LEMMA ControlInit == Init => ControlInv
BY DEF Init, Producers, ControlInv, OneAtATime, LoopDispatched, CollectorEmpty, ShutdownAlone,
       HeadIsSent, BatchIsPushed

LEMMA ControlFromStateFile == FromStateFile => ControlInv'
BY DEF FromStateFile, Producers, ControlInv, OneAtATime, LoopDispatched, CollectorEmpty, ShutdownAlone,
       HeadIsSent, BatchIsPushed

\* The steps of a producer.
LEMMA ControlDispatch ==
  ASSUME TypeOK, ControlInv, NEW p \in Producers, Dispatch(p)
  PROVE  ControlInv'
<1> USE DEF skipVars, bufferVars, producerVars, workerVars, senderVars, loopVars
<1>1. /\ Dispatching(p)
      /\ UNCHANGED <<collected, worker, held, sender, run>>
      /\ p = "collector" => outbox["loop"]' = outbox["loop"] /\ refused["loop"]' = refused["loop"]
      /\ p = "loop" => /\ outbox["collector"]' = outbox["collector"]
                       /\ refused["collector"]' = refused["collector"]
  BY DEF Dispatch, PushAlert, EnqueueHandoff, Spill, Refuse, TypeOK, Producers
<1>2. outbox[p] # Nothing \/ refused[p] # {}
  BY DEF Dispatch, PushAlert, EnqueueHandoff, Spill, Refuse, TypeOK, Nothing
<1>3. ~(p = "collector" /\ collected)
  BY <1>2 DEF ControlInv, CollectorEmpty
<1>4. LoopDispatched' /\ CollectorEmpty'
  BY <1>1, <1>3 DEF ControlInv, LoopDispatched, CollectorEmpty, Dispatching, Producers
<1>5. OneAtATime'
  <2>1. \A q \in Producers : \A c, d \in refused[q]' : c = d
    BY DEF Dispatch, PushAlert, EnqueueHandoff, Spill, Refuse, TypeOK, ControlInv, OneAtATime
  <2> QED BY <1>1, <2>1 DEF ControlInv, OneAtATime
<1>6. ShutdownAlone' /\ BatchIsPushed'
  <2>1. run \notin {"skipping", "notify"}
    BY <1>1, <1>3 DEF Dispatching, ControlInv, ShutdownAlone, Producers
  <2>2. UNCHANGED batch
    BY DEF Dispatch, PushAlert, EnqueueHandoff, Spill, Refuse
  <2> QED BY <1>1, <2>1, <2>2 DEF ControlInv, ShutdownAlone, BatchIsPushed
<1>7. HeadIsSent'
  <2>1. CASE PushAlert(p)
    <3>1. Push({}) /\ {} \in SUBSET Cycles
      BY <2>1 DEF PushAlert
    <3> QED BY <3>1, PushAnnounces DEF HeadIsSent
  <2>2. CASE EnqueueHandoff(p) \/ Spill(p) \/ Refuse(p)
    BY <2>2 DEF EnqueueHandoff, Spill, Refuse, ControlInv, HeadIsSent
  <2> QED BY <2>1, <2>2 DEF Dispatch
<1> QED BY <1>4, <1>5, <1>6, <1>7 DEF ControlInv

\* A step that pushes a notice, of the sender or of the shutdown.
LEMMA ControlPush ==
  ASSUME TypeOK, ControlInv, PushNotice
  PROVE  ControlInv'
<1>1. PICK e \in batch : Push(e) /\ batch' = batch \ {e}
  BY DEF PushNotice
<1>2. queue' # <<>>
  BY <1>1, PushAnnounces DEF TypeOK
<1> QED BY <1>1, <1>2 DEF PushNotice, ControlInv, OneAtATime, LoopDispatched, CollectorEmpty,
       ShutdownAlone, HeadIsSent, BatchIsPushed, skipVars, bufferVars, producerVars,
       workerVars, loopVars

\* The steps that touch neither the queue nor a producer.
LEMMA ControlWorker ==
  ASSUME TypeOK, ControlInv, WorkerStep
  PROVE  ControlInv'
<1> USE DEF ControlInv, OneAtATime, LoopDispatched, CollectorEmpty, ShutdownAlone, HeadIsSent,
            BatchIsPushed, skipVars, producerVars, workerVars, senderVars, loopVars, bufferVars
<1>1. worker # "exited"
  BY DEF WorkerStep, WorkerHead, WorkerSelect, PostAccepted, PostFailed, Requeue, KeepGoing
<1>2. CASE WorkerHead
  BY <1>1, <1>2 DEF WorkerHead
<1>3. CASE WorkerSelect
  BY <1>1, <1>3 DEF WorkerSelect
<1>4. CASE PostAccepted
  BY <1>1, <1>4 DEF PostAccepted
<1>5. CASE PostFailed
  BY <1>1, <1>5 DEF PostFailed
<1>6. CASE Requeue
  BY <1>1, <1>6 DEF Requeue
<1>7. CASE KeepGoing
  BY <1>1, <1>7 DEF KeepGoing
<1> QED BY <1>2, <1>3, <1>4, <1>5, <1>6, <1>7 DEF WorkerStep

LEMMA ControlSender ==
  ASSUME TypeOK, ControlInv, SenderPass \/ SenderExits, ~PushNotice
  PROVE  ControlInv'
<1> USE DEF ControlInv, OneAtATime, LoopDispatched, CollectorEmpty, ShutdownAlone, HeadIsSent,
            BatchIsPushed, skipVars, producerVars, workerVars, loopVars, bufferVars
<1>1. CASE FlushSkips
  BY <1>1 DEF FlushSkips, TakePinned
<1>2. CASE FlushEnds \/ DrainSends \/ DrainStops
  BY <1>2 DEF FlushEnds, DrainSends, DrainStops
<1>3. CASE DrainSent
  BY <1>3 DEF DrainSent
<1>4. CASE AfterDrain
  BY <1>4 DEF AfterDrain
<1>5. CASE SenderExits
  BY <1>5 DEF SenderExits
<1> QED BY <1>1, <1>2, <1>3, <1>4, <1>5 DEF SenderPass

LEMMA ControlLoop ==
  ASSUME TypeOK, ControlInv,
         Crash \/ Start \/ Cancel \/ Ingest \/ CollectEnds \/ Tick \/ TickSaves
  PROVE  ControlInv'
<1> USE DEF skipVars, producerVars, workerVars, senderVars, loopVars, bufferVars
<1>1. CASE Crash \/ Start
  BY <1>1, ControlFromStateFile DEF Crash, Start, ProcessEnds
<1> USE DEF ControlInv, OneAtATime, LoopDispatched, CollectorEmpty, ShutdownAlone, HeadIsSent,
            BatchIsPushed
<1>2. CASE Cancel \/ CollectEnds
  BY <1>2 DEF Cancel, CollectEnds
<1>3. CASE Ingest
  <2>1. /\ ~collected
        /\ outbox["loop"]' = outbox["loop"]
        /\ UNCHANGED <<refused, collected, worker, held, run, sender, batch, queue, handoffs,
                       spill, pinned>>
    BY <1>3 DEF Ingest, Route, TypeOK, Producers
  <2> QED BY <2>1
<1>4. CASE Tick
  <2>1. /\ run = "select" /\ run' = "tick"
        /\ outbox["collector"]' = outbox["collector"]
        /\ UNCHANGED <<refused, collected, worker, held, sender, batch, queue>>
    <3>1. outbox["collector"]' = outbox["collector"]
      BY <1>4, TickShape DEF TypeOK, Producers
    <3> QED BY <1>4, <3>1 DEF Tick
  <2> QED BY <2>1
<1>5. CASE TickSaves
  BY <1>5 DEF TickSaves
<1> QED BY <1>1, <1>2, <1>3, <1>4, <1>5

LEMMA ControlShutdown ==
  ASSUME TypeOK, ControlInv, ShutdownStep
  PROVE  ControlInv'
<1> USE DEF skipVars, producerVars, workerVars, senderVars, loopVars, bufferVars
<1>1. CASE Exit
  BY <1>1, ControlFromStateFile DEF Exit, ProcessEnds
<1> USE DEF ControlInv, OneAtATime, LoopDispatched, CollectorEmpty, ShutdownAlone, HeadIsSent,
            BatchIsPushed
<1>2. CASE RunStops \/ ShutdownDispatched
  BY <1>2 DEF RunStops, ShutdownDispatched
<1>3. CASE Shutdown
  <2>1. /\ run = "wait" /\ run' = "flush" /\ collected /\ worker = "exited" /\ sender = "exited"
        /\ outbox["collector"]' = outbox["collector"]
        /\ UNCHANGED <<refused, collected, worker, held, sender, batch, queue>>
    BY <1>3 DEF Shutdown, Route, TypeOK, Producers
  <2> QED BY <2>1
<1>4. CASE DrainHandoff
  BY <1>4 DEF DrainHandoff
<1>5. CASE DrainCutShort
  BY <1>5 DEF DrainCutShort
<1>6. CASE ShutdownFlushes
  BY <1>6 DEF ShutdownFlushes, TakePinned
<1>7. CASE FinalSave
  BY <1>7 DEF FinalSave
<1>8. CASE FinalSend
  BY <1>8 DEF FinalSend
<1> QED BY <1>1, <1>2, <1>3, <1>4, <1>5, <1>6, <1>7, <1>8 DEF ShutdownStep

-----------------------------------------------------------------------------
(* No undecided cycle leaves everyone's hands *)

LEMMA HeldInit == Init => HeldInv
BY DEF Init, HeldInv, StagedIsHeld, EachIsHeld, SaveDecides

\* A step that moves no undecided cycle out of the buffers, takes none from the
\* worker and does not reach the last stage keeps the invariant.
LEMMA HeldKept ==
  ASSUME HeldInv, unresolved' \subseteq unresolved, run' = "notify" => run = "notify",
         held' = held, worker' = worker,
         \A c \in unresolved' :
           /\ Elsewhere(c) => Elsewhere(c)' \/ c \in covered'
           /\ c \in covered => c \in covered'
  PROVE  HeldInv'
<1>1. SaveDecides'
  BY DEF HeldInv, SaveDecides
<1>2. StagedIsHeld' /\ EachIsHeld'
  BY DEF HeldInv, StagedIsHeld, EachIsHeld
<1> QED BY <1>1, <1>2 DEF HeldInv

LEMMA HeldDispatch ==
  ASSUME TypeOK, ControlInv, HeldInv, NEW p \in Producers, Dispatch(p)
  PROVE  HeldInv'
<1> USE DEF skipVars, bufferVars, producerVars, workerVars, senderVars, loopVars
<1>1. UNCHANGED <<unresolved, covered, held, worker, run>>
  BY DEF Dispatch, PushAlert, EnqueueHandoff, Spill, Refuse
<1>2. \A c : Elsewhere(c) => Elsewhere(c)'
  <2>1. CASE PushAlert(p)
    <3>1. \A q \in Producers : outbox'[q].hand = outbox[q].hand
      BY <2>1 DEF PushAlert, TypeOK, Outbox
    <3> QED BY <2>1, <3>1 DEF PushAlert, Elsewhere
  <2>2. CASE EnqueueHandoff(p)
    <3>1. PICK d \in outbox[p].hand :
            /\ outbox' = [outbox EXCEPT ![p].hand = @ \ {d}]
            /\ \/ handoffs' = Append(handoffs, d) /\ UNCHANGED refused
               \/ refused' = [refused EXCEPT ![p] = {d}] /\ UNCHANGED handoffs
      BY <2>2 DEF EnqueueHandoff
    <3>2. d \in Cycles /\ refused[p] = {}
      BY <2>2, <3>1 DEF EnqueueHandoff, TypeOK, Outbox
    <3>3. \A q \in Producers : outbox[q].hand \subseteq outbox'[q].hand \union {d}
      BY <3>1 DEF TypeOK, Outbox
    <3>4. \A q \in Producers : refused[q] \subseteq refused'[q]
      BY <3>1, <3>2 DEF TypeOK
    <3>5. /\ ToSet(handoffs) \subseteq ToSet(handoffs')
          /\ d \in ToSet(handoffs') \/ d \in refused'[p]
      <4>1. ToSet(Append(handoffs, d)) = ToSet(handoffs) \union {d}
        BY <3>2, CyclesAdded DEF TypeOK
      <4> QED BY <3>1, <4>1 DEF TypeOK
    <3>6. UNCHANGED <<spill, pinned>>
      BY <2>2 DEF EnqueueHandoff
    <3> QED BY <3>3, <3>4, <3>5, <3>6 DEF Elsewhere
  <2>3. CASE Spill(p)
    <3>1. PICK d \in refused[p] : spill' = Append(spill, d)
      BY <2>3 DEF Spill
    <3>2. d \in Cycles /\ refused[p] = {d}
      BY <3>1 DEF TypeOK, ControlInv, OneAtATime
    <3>3. ToSet(spill') = ToSet(spill) \union {d}
      BY <3>1, <3>2, CyclesAdded DEF TypeOK
    <3>4. \A q \in Producers : refused[q] \subseteq refused'[q] \union {d}
      BY <2>3, <3>2 DEF Spill, TypeOK
    <3>5. UNCHANGED <<outbox, handoffs, pinned>>
      BY <2>3 DEF Spill
    <3> QED BY <3>3, <3>4, <3>5 DEF Elsewhere
  <2>4. CASE Refuse(p)
    <3>1. \A q \in Producers : refused[q] \subseteq refused'[q] \union pinned'
      BY <2>4 DEF Refuse, TypeOK
    <3>2. pinned \subseteq pinned' /\ UNCHANGED <<outbox, handoffs, spill>>
      BY <2>4 DEF Refuse
    <3> QED BY <3>1, <3>2 DEF Elsewhere
  <2> QED BY <2>1, <2>2, <2>3, <2>4 DEF Dispatch
<1> QED BY <1>1, <1>2, HeldKept

LEMMA HeldWorker ==
  ASSUME TypeOK, ControlInv, HeldInv, WorkerStep
  PROVE  HeldInv'
<1> USE DEF skipVars, bufferVars, producerVars, workerVars, senderVars, loopVars
<1>1. run' # "notify" /\ unresolved' \subseteq unresolved /\ UNCHANGED <<covered, outbox, refused>>
  BY DEF WorkerStep, WorkerHead, WorkerSelect, PostAccepted, PostFailed, Requeue, KeepGoing,
         ControlInv, ShutdownAlone
<1>2. SaveDecides'
  BY <1>1 DEF SaveDecides
<1>3. CASE WorkerHead
  <2>1. held = {} /\ worker' # "staged" /\ UNCHANGED <<unresolved, handoffs, pinned>>
    BY <1>3 DEF WorkerHead, ControlInv, OneAtATime
  <2>2. ToSet(spill) \subseteq ToSet(spill') \union held'
    <3>1. CASE spill' = spill
      BY <3>1
    <3>2. CASE spill # <<>> /\ held' = {Head(spill)} /\ spill' = Tail(spill)
      BY <3>2, CyclesTaken DEF TypeOK
    <3> QED BY <1>3, <3>1, <3>2 DEF WorkerHead
  <2>3. \A c : Elsewhere(c) => Elsewhere(c)' \/ c \in held'
    BY <1>1, <2>1, <2>2 DEF Elsewhere
  <2> QED BY <1>1, <1>2, <2>1, <2>3 DEF HeldInv, StagedIsHeld, EachIsHeld
<1>4. CASE WorkerSelect
  <2>1. held = {} /\ worker' # "staged" /\ UNCHANGED <<unresolved, spill, pinned>>
    BY <1>4 DEF WorkerSelect, ControlInv, OneAtATime
  <2>2. ToSet(handoffs) \subseteq ToSet(handoffs') \union held'
    <3>1. CASE handoffs' = handoffs
      BY <3>1
    <3>2. CASE handoffs # <<>> /\ held' = {Head(handoffs)} /\ handoffs' = Tail(handoffs)
      BY <3>2, CyclesTaken DEF TypeOK
    <3> QED BY <1>4, <3>1, <3>2 DEF WorkerSelect
  <2>3. \A c : Elsewhere(c) => Elsewhere(c)' \/ c \in held'
    BY <1>1, <2>1, <2>2 DEF Elsewhere
  <2> QED BY <1>1, <1>2, <2>1, <2>3 DEF HeldInv, StagedIsHeld, EachIsHeld
<1>5. CASE PostAccepted
  <2>1. /\ unresolved' = unresolved \ held /\ worker' # "staged"
        /\ UNCHANGED <<handoffs, spill, pinned>>
    BY <1>5 DEF PostAccepted
  <2>2. \A c : Elsewhere(c) => Elsewhere(c)'
    BY <1>1, <2>1 DEF Elsewhere
  <2> QED BY <1>1, <1>2, <2>1, <2>2 DEF HeldInv, StagedIsHeld, EachIsHeld
<1>6. CASE PostFailed
  <2>1. /\ pinned' = pinned \union held
        /\ UNCHANGED <<handoffs, spill, held, unresolved>>
    BY <1>6 DEF PostFailed
  <2>2. \A c : Elsewhere(c) \/ c \in held => Elsewhere(c)'
    BY <1>1, <2>1 DEF Elsewhere
  <2> QED BY <1>1, <1>2, <2>1, <2>2 DEF HeldInv, StagedIsHeld, EachIsHeld
<1>7. CASE Requeue
  <2>1. PICK d \in held : spill' = Append(spill, d)
    BY <1>7 DEF Requeue
  <2>2. d \in Cycles /\ held = {d}
    BY <2>1 DEF TypeOK, ControlInv, OneAtATime
  <2>3. ToSet(spill') = ToSet(spill) \union {d}
    BY <2>1, <2>2, CyclesAdded DEF TypeOK
  <2>4. worker' # "staged" /\ UNCHANGED <<handoffs, pinned, unresolved>>
    BY <1>7 DEF Requeue
  <2>5. \A c : Elsewhere(c) \/ c \in held => Elsewhere(c)'
    BY <1>1, <2>2, <2>3, <2>4 DEF Elsewhere
  <2> QED BY <1>1, <1>2, <2>4, <2>5 DEF HeldInv, StagedIsHeld, EachIsHeld
<1>8. CASE KeepGoing
  <2>1. /\ worker = "staged" /\ worker' # "staged"
        /\ UNCHANGED <<handoffs, spill, pinned, unresolved>>
    BY <1>8 DEF KeepGoing
  <2>2. \A c : Elsewhere(c) => Elsewhere(c)'
    BY <1>1, <2>1 DEF Elsewhere
  <2> QED BY <1>1, <1>2, <2>1, <2>2 DEF HeldInv, StagedIsHeld, EachIsHeld
<1> QED BY <1>3, <1>4, <1>5, <1>6, <1>7, <1>8 DEF WorkerStep

\* The sender turns pinned into covered, and covered into decided.
LEMMA HeldSender ==
  ASSUME TypeOK, ControlInv, HeldInv, SenderPass \/ SenderExits
  PROVE  HeldInv'
<1> USE DEF skipVars, bufferVars, producerVars, workerVars, senderVars, loopVars
<1>1. UNCHANGED <<held, worker, run, outbox, refused, handoffs, spill>>
  BY DEF SenderPass, FlushSkips, PushNotice, FlushEnds, DrainSends, DrainSent, DrainStops,
         AfterDrain, SenderExits
<1>2. \/ UNCHANGED <<unresolved, pinned, covered>>
      \/ pinned' = {} /\ covered' = covered \union pinned /\ UNCHANGED unresolved
      \/ pinned' = pinned /\ unresolved' = unresolved \ covered
  BY DEF SenderPass, FlushSkips, PushNotice, FlushEnds, DrainSends, DrainSent, DrainStops,
         AfterDrain, SenderExits, TakePinned, Settle
<1>3. \A c \in unresolved' : Elsewhere(c) => Elsewhere(c)' \/ c \in covered'
  BY <1>1, <1>2 DEF Elsewhere
<1>4. \A c \in unresolved' : c \in covered => c \in covered'
  BY <1>2
<1> QED BY <1>1, <1>2, <1>3, <1>4, HeldKept

\* A producer that closes cycles puts them in its outbox with the mark.
LEMMA HeldRoute ==
  ASSUME TypeOK, HeldInv, NEW p \in Producers, outbox[p] = Nothing,
         NEW hand \in SUBSET Cycles, NEW notes \in Nat,
         outbox' = [outbox EXCEPT ![p] = [notes |-> notes, hand |-> hand]],
         unresolved' \subseteq unresolved \union hand, run' # "notify",
         UNCHANGED <<refused, bufferVars, pinned, covered, held, worker>>
  PROVE  HeldInv'
<1>1. outbox'[p].hand = hand /\ \A q \in Producers : outbox[q].hand \subseteq outbox'[q].hand
  BY DEF TypeOK, Nothing
<1>2. \A c : Elsewhere(c) \/ c \in hand => Elsewhere(c)'
  BY <1>1 DEF Elsewhere, bufferVars
<1>3. StagedIsHeld' /\ EachIsHeld'
  BY <1>2 DEF HeldInv, StagedIsHeld, EachIsHeld
<1>4. SaveDecides'
  BY DEF SaveDecides
<1> QED BY <1>3, <1>4 DEF HeldInv

LEMMA HeldLoop ==
  ASSUME TypeOK, ControlInv, HeldInv,
         Crash \/ Start \/ Cancel \/ Ingest \/ CollectEnds \/ Tick \/ TickSaves
  PROVE  HeldInv'
<1> USE DEF skipVars, bufferVars, producerVars, workerVars, senderVars, loopVars
<1>1. CASE Crash \/ Start
  BY <1>1 DEF Crash, Start, ProcessEnds, FromStateFile, HeldInv, StagedIsHeld, EachIsHeld,
     SaveDecides
<1>2. CASE Cancel \/ CollectEnds \/ TickSaves
  <2>1. /\ UNCHANGED <<unresolved, covered, held, worker, outbox, refused, handoffs, spill, pinned>>
        /\ run' = "notify" => run = "notify"
    BY <1>2 DEF Cancel, CollectEnds, TickSaves
  <2>2. \A c : Elsewhere(c) => Elsewhere(c)'
    BY <2>1 DEF Elsewhere
  <2> QED BY <2>1, <2>2, HeldKept
<1>3. CASE Ingest
  <2>1. PICK a \in Absorbed : Route("collector", a.hand, a.notes)
    BY <1>3 DEF Ingest
  <2>2. a.hand \in SUBSET Cycles /\ a.notes \in Nat
    BY <2>1, AbsorbedShape
  <2>3. run' # "notify" /\ outbox["collector"] = Nothing
    BY <1>3 DEF Ingest, ControlInv, ShutdownAlone
  <2>4. /\ outbox' = [outbox EXCEPT !["collector"] = [notes |-> a.notes, hand |-> a.hand]]
        /\ unresolved' \subseteq unresolved \union a.hand
    BY <2>1 DEF Route
  <2>5. UNCHANGED <<refused, bufferVars, pinned, covered, held, worker>>
    BY <1>3 DEF Ingest
  <2>6. "collector" \in Producers
    BY DEF Producers
  <2> HIDE DEF bufferVars
  <2> QED BY <2>2, <2>3, <2>4, <2>5, <2>6, HeldRoute
<1>4. CASE Tick
  <2>1. PICK notes \in Nat, hand \in SUBSET Cycles :
          /\ outbox' = [outbox EXCEPT !["loop"] = [notes |-> notes, hand |-> hand]]
          /\ unresolved' \subseteq unresolved \union hand
    BY <1>4, TickShape
  <2>2. run' # "notify" /\ outbox["loop"] = Nothing
    BY <1>4 DEF Tick, ControlInv, LoopDispatched
  <2>3. UNCHANGED <<refused, bufferVars, pinned, covered, held, worker>>
    BY <1>4 DEF Tick
  <2>4. "loop" \in Producers
    BY DEF Producers
  <2> HIDE DEF bufferVars
  <2> QED BY <2>1, <2>2, <2>3, <2>4, HeldRoute
<1> QED BY <1>1, <1>2, <1>3, <1>4

\* The drain of a shutdown decides or pins, its flush covers, its save settles.
LEMMA HeldShutdown ==
  ASSUME TypeOK, ControlInv, HeldInv, ShutdownStep
  PROVE  HeldInv'
<1> USE DEF skipVars, bufferVars, producerVars, workerVars, senderVars, loopVars
<1>1. CASE RunStops \/ ShutdownDispatched \/ FinalSend
  <2>1. /\ UNCHANGED <<unresolved, covered, held, worker, outbox, refused, handoffs, spill, pinned>>
        /\ run' = "notify" => run = "notify"
    BY <1>1 DEF RunStops, ShutdownDispatched, FinalSend
  <2>2. \A c : Elsewhere(c) => Elsewhere(c)'
    BY <2>1 DEF Elsewhere
  <2> QED BY <2>1, <2>2, HeldKept
<1>2. CASE Shutdown
  <2>1. PICK a \in Absorbed \union {NothingAbsorbed}, overflow \in 0 .. 1 :
          Route("loop", a.hand, a.notes + overflow)
    BY <1>2 DEF Shutdown
  <2>2. a.hand \in SUBSET Cycles /\ a.notes + overflow \in Nat
    BY <2>1, AbsorbedShape
  <2>3. run' # "notify" /\ outbox["loop"] = Nothing
    BY <1>2 DEF Shutdown, ControlInv, LoopDispatched
  <2>4. /\ outbox' = [outbox EXCEPT !["loop"] = [notes |-> a.notes + overflow, hand |-> a.hand]]
        /\ unresolved' \subseteq unresolved \union a.hand
    BY <2>1 DEF Route
  <2>5. UNCHANGED <<refused, bufferVars, pinned, covered, held, worker>>
    BY <1>2 DEF Shutdown
  <2>6. "loop" \in Producers
    BY DEF Producers
  <2> HIDE DEF bufferVars
  <2> QED BY <2>2, <2>3, <2>4, <2>5, <2>6, HeldRoute
<1>3. CASE DrainHandoff
  <2>1. PICK d \in Cycles :
          /\ TakeHandoffNow(d)
          /\ \/ unresolved' = unresolved \ {d} /\ UNCHANGED pinned
             \/ pinned' = pinned \union {d} /\ UNCHANGED unresolved
    BY <1>3 DEF DrainHandoff
  <2>2. /\ ToSet(spill) \subseteq ToSet(spill') \union {d}
        /\ ToSet(handoffs) \subseteq ToSet(handoffs') \union {d}
    <3>1. CASE spill # <<>> /\ d = Head(spill) /\ spill' = Tail(spill) /\ handoffs' = handoffs
      BY <3>1, CyclesTaken DEF TypeOK
    <3>2. CASE handoffs # <<>> /\ d = Head(handoffs) /\ handoffs' = Tail(handoffs) /\ spill' = spill
      BY <3>2, CyclesTaken DEF TypeOK
    <3> QED BY <2>1, <3>1, <3>2 DEF TakeHandoffNow
  <2>3. UNCHANGED <<covered, held, worker, run, outbox, refused>>
    BY <1>3 DEF DrainHandoff
  <2>4. \A c \in unresolved' : Elsewhere(c) => Elsewhere(c)'
    BY <2>1, <2>2, <2>3 DEF Elsewhere
  <2> QED BY <2>1, <2>3, <2>4, HeldKept
<1>4. CASE DrainCutShort
  <2>1. /\ pinned' = pinned \union ToSet(handoffs) \union ToSet(spill)
        /\ UNCHANGED <<unresolved, covered, held, worker, run, outbox, refused>>
    BY <1>4 DEF DrainCutShort
  <2>2. \A c : Elsewhere(c) => Elsewhere(c)'
    BY <2>1 DEF Elsewhere
  <2> QED BY <2>1, <2>2, HeldKept
<1>5. CASE ShutdownFlushes
  <2>1. /\ covered' = covered \union pinned /\ run' # "notify"
        /\ UNCHANGED <<unresolved, held, worker, outbox, refused, handoffs, spill>>
    BY <1>5 DEF ShutdownFlushes, TakePinned
  <2>2. \A c : Elsewhere(c) => Elsewhere(c)' \/ c \in covered'
    BY <2>1 DEF Elsewhere
  <2> QED BY <2>1, <2>2, HeldKept
<1>6. CASE FinalSave
  <2>1. /\ outbox["loop"] = Nothing /\ refused["loop"] = {}
        /\ outbox["collector"] = Nothing /\ refused["collector"] = {}
        /\ handoffs = <<>> /\ spill = <<>> /\ pinned = {} /\ held = {}
    BY <1>6 DEF FinalSave, ControlInv, LoopDispatched, CollectorEmpty, ShutdownAlone, OneAtATime
  <2>2. \A c : ~Elsewhere(c)
    BY <2>1, NoEntries DEF Elsewhere, Producers, Nothing
  <2>3. unresolved \subseteq covered
    BY <2>1, <2>2 DEF HeldInv, EachIsHeld
  <2>4. unresolved' = {}
    BY <1>6, <2>3 DEF FinalSave, Pruned
  <2> QED BY <2>4 DEF HeldInv, StagedIsHeld, EachIsHeld, SaveDecides
<1>7. CASE Exit
  BY <1>7 DEF Exit, ProcessEnds, FromStateFile, HeldInv, StagedIsHeld, EachIsHeld, SaveDecides
<1> QED BY <1>1, <1>2, <1>3, <1>4, <1>5, <1>6, <1>7 DEF ShutdownStep

-----------------------------------------------------------------------------
(* The state file tells the truth *)

LEMMA OutcomeInit == Init => OutcomeInv
BY DEF Init, OutcomeInv, CoveredIsAnnounced, HandedHasOutcome, SnapHasOutcome,
       SavedHandedHasOutcome

\* A process that starts takes the state file's word, which is true.
LEMMA OutcomeFromStateFile ==
  ASSUME OutcomeInv, FromStateFile, UNCHANGED <<persisted, historyVars>>
  PROVE  OutcomeInv'
BY DEF FromStateFile, historyVars, OutcomeInv, CoveredIsAnnounced, HandedHasOutcome,
       SnapHasOutcome, SavedHandedHasOutcome

\* A step that closes and decides nothing keeps it.
LEMMA OutcomeKept ==
  ASSUME OutcomeInv, UNCHANGED <<tracker, persisted>>, snap' \subseteq snap,
         unresolved \subseteq unresolved', reached \subseteq reached',
         announced \subseteq announced', CoveredIsAnnounced'
  PROVE  OutcomeInv'
BY DEF OutcomeInv, HandedHasOutcome, SnapHasOutcome, SavedHandedHasOutcome

\* A step that decides only what has an outcome keeps it.
LEMMA OutcomeDecided ==
  ASSUME OutcomeInv, UNCHANGED <<tracker, persisted>>, snap' = snap,
         unresolved \subseteq unresolved' \union reached' \union announced',
         reached \subseteq reached', announced \subseteq announced', CoveredIsAnnounced'
  PROVE  OutcomeInv'
BY DEF OutcomeInv, HandedHasOutcome, SnapHasOutcome, SavedHandedHasOutcome

LEMMA OutcomeDispatch ==
  ASSUME TypeOK, OutcomeInv, NEW p \in Producers, Dispatch(p)
  PROVE  OutcomeInv'
<1>1. UNCHANGED <<tracker, persisted, snap, unresolved, reached, covered, batch>>
  BY DEF Dispatch, PushAlert, EnqueueHandoff, Spill, Refuse, skipVars, senderVars, loopVars,
         processVars, historyVars
<1>2. announced' = announced
  <2>1. CASE PushAlert(p)
    <3>1. Push({}) /\ {} \in SUBSET Cycles
      BY <2>1 DEF PushAlert
    <3> QED BY <3>1, PushAnnounces
  <2>2. CASE EnqueueHandoff(p) \/ Spill(p) \/ Refuse(p)
    BY <2>2 DEF EnqueueHandoff, Spill, Refuse, historyVars
  <2> QED BY <2>1, <2>2 DEF Dispatch
<1> QED BY <1>1, <1>2, OutcomeKept DEF OutcomeInv, CoveredIsAnnounced

LEMMA OutcomeWorker ==
  ASSUME TypeOK, OutcomeInv, WorkerStep
  PROVE  OutcomeInv'
<1>1. /\ UNCHANGED <<tracker, persisted, snap, announced, covered, batch>>
      /\ reached \subseteq reached' /\ unresolved \subseteq unresolved' \union reached'
  BY DEF WorkerStep, WorkerHead, WorkerSelect, PostAccepted, PostFailed, Requeue, KeepGoing,
         skipVars, senderVars, loopVars, processVars, historyVars
<1> QED BY <1>1, OutcomeDecided DEF OutcomeInv, CoveredIsAnnounced

LEMMA OutcomeSender ==
  ASSUME TypeOK, ControlInv, OutcomeInv, SenderPass \/ SenderExits
  PROVE  OutcomeInv'
<1> USE DEF skipVars, senderVars, loopVars, processVars, historyVars
<1>1. UNCHANGED <<tracker, persisted, snap>> /\ reached \subseteq reached'
  BY DEF SenderPass, FlushSkips, PushNotice, FlushEnds, DrainSends, DrainSent, DrainStops,
         AfterDrain, SenderExits
<1>2. CASE FlushSkips
  <2>1. UNION batch' = pinned /\ batch = {}
    BY <1>2, NoticesShape DEF FlushSkips, TakePinned, TypeOK, ControlInv, BatchIsPushed,
       ShutdownAlone
  <2>2. UNION batch = {}
    BY <2>1
  <2> QED BY <1>1, <1>2, <2>1, <2>2, OutcomeKept
      DEF FlushSkips, TakePinned, OutcomeInv, CoveredIsAnnounced
<1>3. CASE PushNotice
  <2>1. PICK e \in batch : Push(e) /\ batch' = batch \ {e}
    BY <1>3 DEF PushNotice
  <2>2. announced' = announced \union e
    BY <2>1, PushAnnounces DEF TypeOK
  <2>3. UNION batch \subseteq (UNION batch') \union e
    <3>1. ASSUME NEW f \in batch PROVE f \subseteq (UNION batch') \union e
      <4>1. CASE f = e
        BY <4>1
      <4>2. CASE f # e
        <5>1. f \in batch'
          BY <2>1, <4>2
        <5> QED BY <5>1
      <4> QED BY <4>1, <4>2
    <3> QED BY <3>1
  <2>4. UNCHANGED <<covered, unresolved>>
    BY <1>3 DEF PushNotice
  <2>5. CoveredIsAnnounced'
    <3>1. covered \subseteq announced \union UNION batch
      BY DEF OutcomeInv, CoveredIsAnnounced
    <3> QED BY <2>2, <2>3, <2>4, <3>1 DEF CoveredIsAnnounced
  <2> QED BY <1>1, <2>2, <2>4, <2>5, OutcomeKept
<1>4. CASE FlushEnds \/ DrainSends \/ DrainSent \/ DrainStops \/ SenderExits
  <2>1. UNCHANGED <<covered, unresolved, batch, announced>>
    BY <1>4 DEF FlushEnds, DrainSends, DrainSent, DrainStops, SenderExits
  <2> QED BY <1>1, <2>1, OutcomeKept DEF OutcomeInv, CoveredIsAnnounced
<1>5. CASE AfterDrain
  <2>1. batch = {} /\ UNCHANGED <<batch, announced>>
    BY <1>5 DEF AfterDrain, ControlInv, BatchIsPushed, ShutdownAlone
  <2>2. covered \subseteq announced
    BY <2>1 DEF OutcomeInv, CoveredIsAnnounced
  <2>3. unresolved \subseteq unresolved' \union covered /\ covered' \subseteq covered
    BY <1>5 DEF AfterDrain, Settle
  <2> QED BY <1>1, <2>1, <2>2, <2>3, OutcomeDecided DEF CoveredIsAnnounced
<1> QED BY <1>2, <1>3, <1>4, <1>5 DEF SenderPass

LEMMA OutcomeLoop ==
  ASSUME TypeOK, OutcomeInv,
         Crash \/ Start \/ Cancel \/ Ingest \/ CollectEnds \/ Tick \/ TickSaves
  PROVE  OutcomeInv'
<1> USE DEF skipVars, senderVars, loopVars, processVars, historyVars
<1>1. CASE Crash \/ Start
  BY <1>1, OutcomeFromStateFile DEF Crash, Start, ProcessEnds
<1>2. CASE Cancel \/ CollectEnds
  BY <1>2, OutcomeKept DEF Cancel, CollectEnds, OutcomeInv, CoveredIsAnnounced
<1>3. CASE Ingest
  <2>1. PICK a \in Absorbed : tracker' = a.tracker /\ Route("collector", a.hand, a.notes)
    BY <1>3 DEF Ingest
  <2>2. \A c \in Cycles : a.tracker[c] = "handed" => tracker[c] = "handed" \/ c \in a.hand
    BY <2>1, AbsorbedShape
  <2>3. /\ unresolved' = unresolved \union a.hand
        /\ UNCHANGED <<persisted, snap, reached, announced, covered, batch>>
    BY <1>3, <2>1 DEF Ingest, Route
  <2> QED BY <2>1, <2>2, <2>3 DEF OutcomeInv, CoveredIsAnnounced, HandedHasOutcome,
             SnapHasOutcome, SavedHandedHasOutcome
<1>4. CASE Tick
  <2>1. /\ \A c \in Cycles : tracker'[c] = "handed" /\ c \notin unresolved' =>
             tracker[c] = "handed" /\ c \notin unresolved
        /\ \A s \in snap' : \A c \in Cycles : s[c] = "handed" =>
             tracker[c] = "handed" /\ c \notin unresolved
    BY <1>4, TickShape
  <2>2. UNCHANGED <<persisted, reached, announced, covered, batch>>
    BY <1>4 DEF Tick
  <2> QED BY <2>1, <2>2 DEF OutcomeInv, CoveredIsAnnounced, HandedHasOutcome,
             SnapHasOutcome, SavedHandedHasOutcome
<1>5. CASE TickSaves
  BY <1>5 DEF TickSaves, OutcomeInv, CoveredIsAnnounced, HandedHasOutcome,
     SnapHasOutcome, SavedHandedHasOutcome
<1> QED BY <1>1, <1>2, <1>3, <1>4, <1>5

LEMMA OutcomeShutdown ==
  ASSUME TypeOK, ControlInv, OutcomeInv, ShutdownStep
  PROVE  OutcomeInv'
<1> USE DEF skipVars, senderVars, loopVars, processVars, historyVars
<1>1. CASE RunStops \/ ShutdownDispatched \/ DrainHandoff \/ DrainCutShort \/ FinalSend
  <2>1. /\ UNCHANGED <<tracker, persisted, snap, announced, covered, batch>>
        /\ reached \subseteq reached' /\ unresolved \subseteq unresolved' \union reached'
    BY <1>1 DEF RunStops, ShutdownDispatched, DrainHandoff, DrainCutShort, FinalSend
  <2> QED BY <2>1, OutcomeDecided DEF OutcomeInv, CoveredIsAnnounced
<1>2. CASE Shutdown
  <2>1. PICK a \in Absorbed \union {NothingAbsorbed}, overflow \in 0 .. 1 :
          tracker' = a.tracker /\ Route("loop", a.hand, a.notes + overflow)
    BY <1>2 DEF Shutdown
  <2>2. \A c \in Cycles : a.tracker[c] = "handed" => tracker[c] = "handed" \/ c \in a.hand
    BY <2>1, AbsorbedShape
  <2>3. /\ unresolved' = unresolved \union a.hand
        /\ UNCHANGED <<persisted, snap, reached, announced, covered, batch>>
    BY <1>2, <2>1 DEF Shutdown, Route
  <2> QED BY <2>1, <2>2, <2>3 DEF OutcomeInv, CoveredIsAnnounced, HandedHasOutcome,
             SnapHasOutcome, SavedHandedHasOutcome
<1>3. CASE ShutdownFlushes
  <2>1. UNION batch' = pinned /\ batch = {}
    BY <1>3, NoticesShape DEF ShutdownFlushes, TakePinned, TypeOK, ControlInv, BatchIsPushed,
       ShutdownAlone
  <2>2. UNION batch = {}
    BY <2>1
  <2> QED BY <1>3, <2>1, <2>2, OutcomeKept
      DEF ShutdownFlushes, TakePinned, OutcomeInv, CoveredIsAnnounced
<1>4. CASE FinalSave
  <2> DEFINE undecided == unresolved \ covered
  <2>1. covered \subseteq announced /\ batch = {}
    BY <1>4 DEF FinalSave, OutcomeInv, CoveredIsAnnounced
  <2>2. /\ unresolved' = Pruned(tracker, undecided)
        /\ persisted' \in {persisted, Snapshot(tracker, undecided)}
        /\ covered' = {} /\ UNCHANGED <<tracker, snap, reached, announced>>
    BY <1>4 DEF FinalSave
  <2>3. \A c \in Cycles : Snapshot(tracker, undecided)[c] = "handed" =>
          tracker[c] = "handed" /\ c \notin undecided
    BY SnapshotShape DEF TypeOK
  <2>4. \A c \in Cycles : tracker[c] = "handed" /\ c \notin undecided =>
          c \in reached \union announced
    BY <2>1 DEF OutcomeInv, HandedHasOutcome
  <2>5. \A c \in Cycles : tracker[c] = "handed" /\ c \notin unresolved' => c \notin undecided
    BY <2>2 DEF Pruned
  <2> HIDE DEF undecided
  <2>6. HandedHasOutcome' /\ SnapHasOutcome' /\ CoveredIsAnnounced'
    BY <2>2, <2>4, <2>5 DEF OutcomeInv, HandedHasOutcome, SnapHasOutcome, CoveredIsAnnounced
  <2>7. SavedHandedHasOutcome'
    BY <2>2, <2>3, <2>4 DEF OutcomeInv, SavedHandedHasOutcome
  <2> QED BY <2>6, <2>7 DEF OutcomeInv
<1>5. CASE Exit
  BY <1>5, OutcomeFromStateFile DEF Exit, ProcessEnds
<1> QED BY <1>1, <1>2, <1>3, <1>4, <1>5 DEF ShutdownStep

-----------------------------------------------------------------------------
(* The invariant, and the theorems *)

LEMMA HandoffInit == Init => HandoffInv
BY TypeInit, ControlInit, HeldInit, OutcomeInit DEF HandoffInv

LEMMA HandoffStep == HandoffInv /\ [Next]_vars => HandoffInv'
<1> SUFFICES ASSUME TypeOK, ControlInv, HeldInv, OutcomeInv, [Next]_vars
             PROVE  TypeOK' /\ ControlInv' /\ HeldInv' /\ OutcomeInv'
  BY DEF HandoffInv
<1>1. CASE Crash \/ Start \/ Cancel \/ Ingest \/ CollectEnds \/ Tick \/ TickSaves
  BY <1>1, TypeLoop, ControlLoop, HeldLoop, OutcomeLoop
<1>2. ASSUME NEW p \in Producers, Dispatch(p)
      PROVE  TypeOK' /\ ControlInv' /\ HeldInv' /\ OutcomeInv'
  BY <1>2, TypeDispatch, ControlDispatch, HeldDispatch, OutcomeDispatch
<1>3. CASE WorkerStep
  BY <1>3, TypeWorker, ControlWorker, HeldWorker, OutcomeWorker
<1>4. CASE SenderPass \/ SenderExits
  <2>1. TypeOK' /\ HeldInv' /\ OutcomeInv'
    BY <1>4, TypeSender, HeldSender, OutcomeSender DEF ControlInv
  <2>2. ControlInv'
    BY <1>4, ControlSender, ControlPush
  <2> QED BY <2>1, <2>2
<1>5. CASE ShutdownStep
  BY <1>5, TypeShutdown, ControlShutdown, HeldShutdown, OutcomeShutdown
<1>6. CASE UNCHANGED vars
  <2> USE <1>6 DEF vars, skipVars, bufferVars, producerVars, workerVars, senderVars, loopVars,
                   processVars, historyVars
  <2>1. TypeOK' /\ ControlInv'
    BY DEF TypeOK, ControlInv, OneAtATime, LoopDispatched, CollectorEmpty, ShutdownAlone,
           HeadIsSent, BatchIsPushed
  <2>2. HeldInv' /\ OutcomeInv'
    BY DEF HeldInv, StagedIsHeld, EachIsHeld, SaveDecides, Elsewhere, OutcomeInv,
           CoveredIsAnnounced, HandedHasOutcome, SnapHasOutcome, SavedHandedHasOutcome
  <2> QED BY <2>1, <2>2
<1> QED BY <1>1, <1>2, <1>3, <1>4, <1>5, <1>6 DEF Next

\* The invariant holds in every behaviour, whatever is killed and restarted.
THEOREM HandoffInvariant == Spec => []HandoffInv
BY HandoffInit, HandoffStep, PTL DEF Spec

\* Type correctness, with the bounds of the channel, the spill list and the
\* queue, for every capacity (enqueueHandoff, detector.go:668-697).
THEOREM HandoffTypeCorrect == Spec => []TypeOK
<1>1. HandoffInv => TypeOK
  BY DEF HandoffInv
<1> QED BY <1>1, HandoffInvariant, PTL

\* No closed cycle without an outcome is ever out of every goroutine's hands,
\* for any number of cycles and any capacities (detector.go:826-833).
THEOREM NothingUndecidedIsLost == Spec => []UnresolvedIsHeld
<1>1. HandoffInv => UnresolvedIsHeld
  <2> SUFFICES ASSUME EachIsHeld, NEW c \in unresolved PROVE c \in Buffered \union covered
    BY DEF HandoffInv, HeldInv, UnresolvedIsHeld
  <2>1. Elsewhere(c) \/ c \in held => c \in Buffered
    <3>1. CASE \E p \in Producers : c \in outbox[p].hand \/ c \in refused[p]
      <4>1. PICK p \in Producers : c \in outbox[p].hand \union refused[p]
        BY <3>1
      <4>2. c \in UNION {outbox[q].hand \union refused[q] : q \in Producers}
        BY <4>1
      <4> QED BY <4>2 DEF Buffered
    <3>2. CASE c \in ToSet(handoffs) \/ c \in ToSet(spill) \/ c \in pinned \/ c \in held
      BY <3>2 DEF Buffered
    <3> QED BY <3>1, <3>2 DEF Elsewhere
  <2> QED BY <2>1 DEF EachIsHeld
<1> QED BY <1>1, HandoffInvariant, PTL

\* The state file never calls a cycle handed off that has neither been
\* investigated nor had its notice queued, however often the detector is
\* killed (saveState, snapshotGroups, detector.go:1095-1122).
THEOREM StateFileTellsTheTruth == Spec => []SavedHandedHasOutcome
<1>1. HandoffInv => SavedHandedHasOutcome
  BY DEF HandoffInv, OutcomeInv
<1> QED BY <1>1, HandoffInvariant, PTL

\* The save of a shutdown finds every buffer empty and every cycle decided
\* (drainHandoffs and shutdown, detector.go:776-824, 1031-1073).
THEOREM ShutdownLeavesNothing == Spec => []ShutdownDecidesAll
<1>1. HandoffInv => ShutdownDecidesAll
  <2> SUFFICES ASSUME HandoffInv, run = "notify"
               PROVE  unresolved = {} /\ Buffered = {} /\ batch = {}
    BY DEF ShutdownDecidesAll
  <2>1. unresolved = {}
    BY DEF HandoffInv, HeldInv, SaveDecides
  <2>2. batch = {} /\ held = {}
    BY DEF HandoffInv, ControlInv, BatchIsPushed, ShutdownAlone, OneAtATime
  <2>3. handoffs = <<>> /\ spill = <<>> /\ pinned = {}
    BY DEF HandoffInv, ControlInv, ShutdownAlone
  <2>4. \A p \in Producers : outbox[p] = Nothing /\ refused[p] = {}
    BY DEF HandoffInv, ControlInv, ShutdownAlone, LoopDispatched, CollectorEmpty, Producers
  <2>5. UNION {outbox[p].hand \union refused[p] : p \in Producers} = {}
    BY <2>4 DEF Nothing
  <2>6. Buffered = {}
    BY <2>2, <2>3, <2>5, NoEntries DEF Buffered
  <2> QED BY <2>1, <2>2, <2>6
<1> QED BY <1>1, HandoffInvariant, PTL
=============================================================================
