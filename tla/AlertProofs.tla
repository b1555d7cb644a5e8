----------------------------- MODULE AlertProofs -----------------------------
(***************************************************************************)
(* Alerts on their way out of the detector. First notify.Queue, for every  *)
(* limit, every number of draining goroutines, pushes and calls, with the  *)
(* refinement of the lossy FIFO. Then the error groups and the burst cap   *)
(* that decide which alerts there are, for every set of fingerprints, all  *)
(* durations and every lag between reading the clock and applying it that  *)
(* the retention covers twice.                                             *)
(***************************************************************************)
EXTENDS NotifyQueue, ErrorGroups, FiniteSetTheorems, SequenceTheorems, TLAPS

-----------------------------------------------------------------------------
(* What the list surgery of the queue leaves of a list, for every list.     *)

\* removeLocked keeps every other entry, in order.
LEMMA RemoveEntryFacts ==
  ASSUME NEW S, NEW s \in Seq(S), NEW k \in 1 .. Len(s)
  PROVE  /\ RemoveEntry(s, k) \in Seq(S)
         /\ Len(RemoveEntry(s, k)) = Len(s) - 1
         /\ \A j \in 1 .. Len(s) - 1 :
              RemoveEntry(s, k)[j] = IF j < k THEN s[j] ELSE s[j + 1]
         /\ ToSet(s) = ToSet(RemoveEntry(s, k)) \union {s[k]}
<1> DEFINE r == RemoveEntry(s, k)
<1>1. Len(s) \in Nat /\ Len(s) >= 1 /\ \A i \in 1 .. Len(s) : s[i] \in S
  OBVIOUS
<1>2. /\ r \in Seq(S)
      /\ Len(r) = Len(s) - 1
      /\ \A j \in 1 .. Len(s) - 1 : r[j] = IF j < k THEN s[j] ELSE s[j + 1]
  BY <1>1 DEF RemoveEntry
<1>3. ASSUME NEW i \in 1 .. Len(s)
      PROVE  s[i] \in ToSet(r) \union {s[k]}
  <2>1. CASE i < k
    BY <2>1, <1>1, <1>2, i \in 1 .. Len(r), r[i] = s[i] DEF ToSet
  <2>2. CASE i = k
    BY <2>2
  <2>3. CASE i > k
    BY <2>3, <1>1, <1>2, i - 1 \in 1 .. Len(r), r[i - 1] = s[i] DEF ToSet
  <2> QED BY <2>1, <2>2, <2>3
<1>4. ASSUME NEW j \in 1 .. Len(r)
      PROVE  r[j] \in ToSet(s)
  BY <1>1, <1>2 DEF ToSet
<1> QED
  <2>1. ToSet(s) \subseteq ToSet(r) \union {s[k]}
    BY <1>3 DEF ToSet
  <2>2. ToSet(r) \union {s[k]} \subseteq ToSet(s)
    BY <1>1, <1>2, <1>4 DEF ToSet
  <2> QED BY <1>2, <2>1, <2>2

\* Appending an entry adds it behind the others.
LEMMA AppendFacts ==
  ASSUME NEW S, NEW s \in Seq(S), NEW e \in S
  PROVE  /\ Append(s, e) \in Seq(S)
         /\ Len(Append(s, e)) = Len(s) + 1
         /\ \A i \in 1 .. Len(s) : Append(s, e)[i] = s[i]
         /\ Append(s, e)[Len(s) + 1] = e
         /\ ToSet(Append(s, e)) = ToSet(s) \union {e}
<1> DEFINE r == Append(s, e)
<1>1. /\ r \in Seq(S) /\ Len(r) = Len(s) + 1 /\ Len(s) \in Nat
      /\ \A i \in 1 .. Len(s) : r[i] = s[i]
      /\ r[Len(s) + 1] = e
  OBVIOUS
<1>2. ToSet(r) = {r[i] : i \in 1 .. Len(s) + 1} /\ ToSet(s) = {s[i] : i \in 1 .. Len(s)}
  BY <1>1 DEF ToSet
<1>3. \A i \in 1 .. Len(s) + 1 : i \in 1 .. Len(s) \/ i = Len(s) + 1
  BY <1>1
<1>4. ToSet(r) \subseteq ToSet(s) \union {e}
  BY <1>1, <1>2, <1>3
<1>5. ToSet(s) \union {e} \subseteq ToSet(r)
  BY <1>1, <1>2
<1> QED BY <1>1, <1>4, <1>5

\* Taking the head off leaves the entries behind it.
LEMMA TailFacts ==
  ASSUME NEW S, NEW s \in Seq(S), s # <<>>
  PROVE  /\ Tail(s) \in Seq(S)
         /\ Len(Tail(s)) = Len(s) - 1
         /\ \A i \in 1 .. Len(s) - 1 : Tail(s)[i] = s[i + 1]
         /\ SubSeq(s, 2, Len(s)) = Tail(s)
         /\ ToSet(s) = ToSet(Tail(s)) \union {s[1]}
<1> DEFINE r == Tail(s)
<1>1. /\ r \in Seq(S) /\ Len(r) = Len(s) - 1 /\ Len(s) \in Nat /\ Len(s) >= 1
      /\ \A i \in 1 .. Len(s) - 1 : r[i] = s[i + 1]
      /\ DOMAIN r = 1 .. Len(s) - 1 /\ DOMAIN s = 1 .. Len(s)
  OBVIOUS
<1>2. SubSeq(s, 2, Len(s)) = r
  BY <1>1
<1>3. ToSet(r) = {r[i] : i \in 1 .. Len(s) - 1} /\ ToSet(s) = {s[i] : i \in 1 .. Len(s)}
  BY <1>1 DEF ToSet
<1>4. ASSUME NEW i \in 1 .. Len(s)
      PROVE  s[i] \in ToSet(r) \union {s[1]}
  <2>1. CASE i = 1
    BY <2>1
  <2>2. CASE i > 1
    BY <1>1, <1>3, <2>2, i - 1 \in 1 .. Len(s) - 1, r[i - 1] = s[i]
  <2> QED BY <2>1, <2>2
<1>5. ToSet(s) \subseteq ToSet(r) \union {s[1]}
  BY <1>3, <1>4
<1>6. ToSet(r) \union {s[1]} \subseteq ToSet(s)
  BY <1>1, <1>3
<1> QED BY <1>1, <1>2, <1>5, <1>6

\* A Push that keeps its arrival drops nothing while there is room, and else
\* exactly one entry, which is not the head while a send holds it.
LEMMA PushShape ==
  ASSUME NEW S, NEW s \in Seq(S), NEW held \in BOOLEAN, NEW n \in Nat,
         Len(s) <= n, KeepsArrival(s, held, n)
  PROVE  \/ /\ Len(s) < n
            /\ RoomMade(s, held, n) = s
            /\ Evicted(s, held, n) = {}
         \/ \E k \in 1 .. Len(s) :
              /\ held => k = 2
              /\ Len(s) = n
              /\ RoomMade(s, held, n) = RemoveEntry(s, k)
              /\ Evicted(s, held, n) = {s[k]}
<1>1. Len(s) \in Nat
  OBVIOUS
<1>2. CASE Len(s) < n
  BY <1>1, <1>2 DEF RoomMade, Evicted
<1>3. CASE Len(s) = n
  <2> DEFINE k == Droppable(s, held)
  <2>1. s # <<>> /\ n > 0
    BY <1>1, <1>3 DEF KeepsArrival
  <2>2. k \in 1 .. Len(s) /\ (held => k = 2)
    BY <1>1, <1>3, <2>1 DEF KeepsArrival, Droppable
  <2>3. RoomMade(s, held, n) = RemoveEntry(s, k)
    BY <1>1, <1>3 DEF RoomMade
  <2>4. Evicted(s, held, n) = {s[k]}
    BY <1>1, <1>3, <2>2 DEF Evicted
  <2> QED BY <1>3, <2>2, <2>3, <2>4
<1> QED BY <1>1, <1>2, <1>3

-----------------------------------------------------------------------------
(* The inductive invariant.                                                 *)

\* The queue is in Push order.
ItemsSorted ==
  \A i, j \in DOMAIN items : i < j => items[i] < items[j]

\* q.inflight is 0 between sends.
NoStaleInflight ==
  (\A d \in Drainers : pc[d] \notin Holding) => inflight = 0

\* Only the head of an acknowledged send is accepted and still queued: every
\* accepted entry is older than the rest of the queue.
AcceptedBeforeQueued ==
  \A i \in DOMAIN accepted, j \in DOMAIN items :
    \/ accepted[i] < items[j]
    \/ /\ j = 1
       /\ accepted[i] = items[1]
       /\ \E d \in Drainers : pc[d] = "sent"

\* A send that was acknowledged was accepted.
SentIsAccepted ==
  \A d \in Drainers : pc[d] = "sent" => head[d] \in ToSet(accepted)

\* A dropped entry is gone.
DroppedGone ==
  /\ \A j \in DOMAIN items : items[j] \notin dropped
  /\ \A i \in DOMAIN accepted : accepted[i] \notin dropped

\* Nothing vanishes.
NothingVanishes == 1 .. seq \subseteq ToSet(items) \union ToSet(accepted) \union dropped

\* A pass that ends clean has emptied the queue, and one that failed is not
\* clean.
CleanEnd ==
  \A d \in Drainers :
    /\ pc[d] \in {"ending", "idle"} /\ clean[d] =>
         owed[d] \subseteq ToSet(accepted) \union dropped
    /\ pc[d] = "failed" => ~clean[d]

QueueInv ==
  /\ TypeOK
  /\ OnePass
  /\ InFlightStaysQueued
  /\ ItemsSorted
  /\ NoStaleInflight
  /\ AcceptedInOrder
  /\ AcceptedBeforeQueued
  /\ SentIsAccepted
  /\ DroppedGone
  /\ NothingVanishes
  /\ CleanEnd

\* In a sorted queue dropThrough of the head takes the head and nothing else.
LEMMA ThroughHead ==
  ASSUME NEW s \in Seq(Nat), s # <<>>,
         \A i, j \in DOMAIN s : i < j => s[i] < s[j]
  PROVE  Through(s, s[1]) = 1
<1> DEFINE P(n) == /\ \A i \in 1 .. n : s[i] <= s[1]
                   /\ n < Len(s) => s[n + 1] > s[1]
<1>1. Len(s) \in Nat /\ Len(s) >= 1 /\ \A i \in 1 .. Len(s) : s[i] \in Nat
  OBVIOUS
<1>2. P(1)
  BY <1>1
<1>3. ASSUME NEW n \in 0 .. Len(s), P(n)
      PROVE  n = 1
  <2>1. n # 0
    BY <1>1, <1>3
  <2>2. ~(n > 1)
    <3>1. SUFFICES ASSUME n > 1 PROVE FALSE
      OBVIOUS
    <3>2. s[1] < s[2] /\ s[2] <= s[1]
      BY <1>1, <1>3, <3>1
    <3> QED BY <1>1, <3>1, <3>2
  <2> QED BY <1>3, <2>1, <2>2
<1> QED BY <1>1, <1>2, <1>3 DEF Through

LEMMA QueueInit == Init => QueueInv
<1> SUFFICES ASSUME Init PROVE QueueInv
  OBVIOUS
<1> USE DEF Init, Stages, InPass, Holding, ToSet
<1>1. TypeOK
  <2>1. /\ limit \in Limits /\ Len(items) <= limit
        /\ items \in Seq(1 .. seq) /\ accepted \in Seq(1 .. seq)
    BY LimitsAssumption
  <2>2. dropped \in SUBSET (1 .. seq) /\ owed \in [Drainers -> SUBSET (1 .. seq)]
    OBVIOUS
  <2>3. /\ head \in [Drainers -> 0 .. seq] /\ pc \in [Drainers -> Stages]
        /\ calls \in [Drainers -> Nat]
        /\ cancelled \in [Drainers -> BOOLEAN] /\ clean \in [Drainers -> BOOLEAN]
    OBVIOUS
  <2>4. seq \in Nat /\ refused \in Nat /\ inflight \in 0 .. seq
    OBVIOUS
  <2> QED BY <2>1, <2>2, <2>3, <2>4 DEF TypeOK
<1>2. OnePass /\ InFlightStaysQueued /\ NoStaleInflight /\ SentIsAccepted /\ CleanEnd
  BY DEF OnePass, InFlightStaysQueued, NoStaleInflight, SentIsAccepted, CleanEnd
<1>3. ItemsSorted /\ AcceptedInOrder /\ AcceptedBeforeQueued /\ DroppedGone
  BY DEF ItemsSorted, AcceptedInOrder, AcceptedBeforeQueued, DroppedGone
<1>4. NothingVanishes
  BY DEF NothingVanishes
<1> QED BY <1>1, <1>2, <1>3, <1>4 DEF QueueInv

\* The steps of a Drain call that leave the list and the history alone.
LEMMA QuietStep ==
  ASSUME QueueInv, NEW d \in Drainers,
         \/ Call(d) \/ ContextDone(d) \/ BeginPass(d) \/ BeginWait(d) \/ GiveUp(d)
         \/ StopCancelled(d) \/ StopEmpty(d) \/ CopyHead(d) \/ SendFailed(d)
         \/ SettleFailed(d) \/ EndPass(d)
  PROVE  QueueInv'
<1> USE DEF QueueInv, Stages, InPass, Holding, vars, queueVars, callVars, historyVars
<1>1. UNCHANGED <<items, limit, seq, refused, accepted, dropped>>
  BY DEF Call, ContextDone, BeginPass, BeginWait, GiveUp, StopCancelled, StopEmpty,
         CopyHead, SendFailed, SettleFailed, EndPass
<1>2. TypeOK'
  <2>1. CASE Call(d)
    BY <1>1, <2>1 DEF Call, TypeOK, ToSet
  <2>2. CASE ContextDone(d)
    BY <1>1, <2>2 DEF ContextDone, TypeOK, ToSet
  <2>3. CASE BeginPass(d)
    BY <1>1, <2>3 DEF BeginPass, TypeOK, ToSet
  <2>4. CASE BeginWait(d)
    BY <1>1, <2>4 DEF BeginWait, TypeOK, ToSet
  <2>5. CASE GiveUp(d)
    BY <1>1, <2>5 DEF GiveUp, TypeOK, ToSet
  <2>6. CASE StopCancelled(d)
    BY <1>1, <2>6 DEF StopCancelled, TypeOK, ToSet
  <2>7. CASE StopEmpty(d)
    BY <1>1, <2>7 DEF StopEmpty, TypeOK, ToSet
  <2>8. CASE CopyHead(d)
    BY <1>1, <2>8 DEF CopyHead, TypeOK, ToSet
  <2>9. CASE SendFailed(d)
    BY <1>1, <2>9 DEF SendFailed, TypeOK, ToSet
  <2>10. CASE SettleFailed(d)
    BY <1>1, <2>10 DEF SettleFailed, TypeOK, ToSet
  <2>11. CASE EndPass(d)
    BY <1>1, <2>11 DEF EndPass, TypeOK, ToSet
  <2> QED BY <2>1, <2>2, <2>3, <2>4, <2>5, <2>6, <2>7, <2>8, <2>9, <2>10, <2>11
<1>3. OnePass'
  <2>1. CASE Call(d)
    BY <1>1, <2>1 DEF Call, TypeOK, OnePass
  <2>2. CASE ContextDone(d)
    BY <1>1, <2>2 DEF ContextDone, TypeOK, OnePass
  <2>3. CASE BeginPass(d)
    BY <1>1, <2>3 DEF BeginPass, TypeOK, OnePass
  <2>4. CASE BeginWait(d)
    BY <1>1, <2>4 DEF BeginWait, TypeOK, OnePass
  <2>5. CASE GiveUp(d)
    BY <1>1, <2>5 DEF GiveUp, TypeOK, OnePass
  <2>6. CASE StopCancelled(d)
    BY <1>1, <2>6 DEF StopCancelled, TypeOK, OnePass
  <2>7. CASE StopEmpty(d)
    BY <1>1, <2>7 DEF StopEmpty, TypeOK, OnePass
  <2>8. CASE CopyHead(d)
    BY <1>1, <2>8 DEF CopyHead, TypeOK, OnePass
  <2>9. CASE SendFailed(d)
    BY <1>1, <2>9 DEF SendFailed, TypeOK, OnePass
  <2>10. CASE SettleFailed(d)
    BY <1>1, <2>10 DEF SettleFailed, TypeOK, OnePass
  <2>11. CASE EndPass(d)
    BY <1>1, <2>11 DEF EndPass, TypeOK, OnePass
  <2> QED BY <2>1, <2>2, <2>3, <2>4, <2>5, <2>6, <2>7, <2>8, <2>9, <2>10, <2>11
<1>4. InFlightStaysQueued' /\ NoStaleInflight'
  BY <1>1 DEF TypeOK, OnePass, InFlightStaysQueued, NoStaleInflight, Call, ContextDone,
         BeginPass, BeginWait, GiveUp, StopCancelled,
         StopEmpty, CopyHead, SendFailed, SettleFailed, EndPass
<1>5. ItemsSorted' /\ AcceptedInOrder' /\ DroppedGone' /\ NothingVanishes'
  BY <1>1 DEF ItemsSorted, AcceptedInOrder, DroppedGone, NothingVanishes
<1>6. AcceptedBeforeQueued' /\ SentIsAccepted'
  BY <1>1 DEF TypeOK, AcceptedBeforeQueued, SentIsAccepted, Call, ContextDone,
         BeginPass, BeginWait, GiveUp, StopCancelled,
         StopEmpty, CopyHead, SendFailed, SettleFailed, EndPass
<1>7. CleanEnd'
  <2>1. CASE Call(d)
    BY <1>1, <2>1 DEF Call, TypeOK, CleanEnd, NothingVanishes, ToSet
  <2>2. CASE ContextDone(d)
    BY <1>1, <2>2 DEF ContextDone, TypeOK, CleanEnd, NothingVanishes, ToSet
  <2>3. CASE BeginPass(d)
    BY <1>1, <2>3 DEF BeginPass, TypeOK, CleanEnd, NothingVanishes, ToSet
  <2>4. CASE BeginWait(d)
    BY <1>1, <2>4 DEF BeginWait, TypeOK, CleanEnd, NothingVanishes, ToSet
  <2>5. CASE GiveUp(d)
    BY <1>1, <2>5 DEF GiveUp, TypeOK, CleanEnd, NothingVanishes, ToSet
  <2>6. CASE StopCancelled(d)
    BY <1>1, <2>6 DEF StopCancelled, TypeOK, CleanEnd, NothingVanishes, ToSet
  <2>7. CASE StopEmpty(d)
    BY <1>1, <2>7 DEF StopEmpty, TypeOK, CleanEnd, NothingVanishes, ToSet
  <2>8. CASE CopyHead(d)
    BY <1>1, <2>8 DEF CopyHead, TypeOK, CleanEnd, NothingVanishes, ToSet
  <2>9. CASE SendFailed(d)
    BY <1>1, <2>9 DEF SendFailed, TypeOK, CleanEnd, NothingVanishes, ToSet
  <2>10. CASE SettleFailed(d)
    BY <1>1, <2>10 DEF SettleFailed, TypeOK, CleanEnd, NothingVanishes, ToSet
  <2>11. CASE EndPass(d)
    BY <1>1, <2>11 DEF EndPass, TypeOK, CleanEnd, NothingVanishes, ToSet
  <2> QED BY <2>1, <2>2, <2>3, <2>4, <2>5, <2>6, <2>7, <2>8, <2>9, <2>10, <2>11
<1> QED BY <1>2, <1>3, <1>4, <1>5, <1>6, <1>7

\* A send the proxy accepted is the youngest accepted entry and still heads
\* the queue.
LEMMA SendAcceptedStep ==
  ASSUME QueueInv, NEW d \in Drainers, SendAccepted(d)
  PROVE  QueueInv'
<1> USE DEF QueueInv, Stages, InPass, Holding, queueVars
<1>1. /\ items \in Seq(1 .. seq) /\ accepted \in Seq(1 .. seq) /\ seq \in Nat
      /\ Len(items) \in Nat /\ Len(accepted) \in Nat
      /\ pc \in [Drainers -> Stages]
      /\ items # <<>> /\ 1 \in DOMAIN items /\ head[d] = items[1] /\ inflight = items[1]
  BY DEF TypeOK, SendAccepted, InFlightStaysQueued
<1>2. /\ UNCHANGED <<limit, items, seq, refused, draining, inflight, head, dropped, owed, clean>>
      /\ accepted' = Append(accepted, items[1])
      /\ pc' = [pc EXCEPT ![d] = "sent"] /\ pc[d] = "sending"
  BY <1>1 DEF SendAccepted
<1>3. /\ Len(accepted') = Len(accepted) + 1
      /\ accepted'[Len(accepted) + 1] = items[1]
      /\ \A i \in 1 .. Len(accepted) : accepted'[i] = accepted[i]
      /\ accepted' \in Seq(1 .. seq)
      /\ items[1] \in 1 .. seq
      /\ ToSet(accepted') = ToSet(accepted) \union {items[1]}
      /\ DOMAIN accepted = 1 .. Len(accepted) /\ DOMAIN items = 1 .. Len(items)
  <2>1. items[1] \in 1 .. seq
    BY <1>1
  <2> QED BY <1>1, <1>2, <2>1, AppendFacts
<1>4. ToSet(accepted) \subseteq ToSet(accepted') /\ items[1] \in ToSet(accepted')
  BY <1>3
<1>5. \A e \in Drainers : pc[e] # "sent"
  BY <1>1, <1>2 DEF OnePass
<1>6. \A i \in 1 .. Len(accepted) : accepted[i] < items[1]
  BY <1>1, <1>3, <1>5 DEF AcceptedBeforeQueued
<1>7. TypeOK'
  BY <1>2, <1>3 DEF TypeOK, SendAccepted
<1>8. OnePass' /\ InFlightStaysQueued' /\ NoStaleInflight' /\ SentIsAccepted'
  BY <1>1, <1>2, <1>4 DEF OnePass, InFlightStaysQueued, NoStaleInflight, SentIsAccepted
<1>9. ItemsSorted' /\ NothingVanishes'
  BY <1>2, <1>4 DEF ItemsSorted, NothingVanishes
<1>9a. \A i \in 1 .. Len(accepted') : i \in 1 .. Len(accepted) \/ i = Len(accepted) + 1
  <2>1. Len(accepted) \in Nat /\ Len(accepted') = Len(accepted) + 1
    BY <1>1, <1>3
  <2> QED BY <2>1
<1>10. AcceptedInOrder'
  <2> SUFFICES ASSUME NEW i \in 1 .. Len(accepted'), NEW j \in 1 .. Len(accepted'), i < j
               PROVE  accepted'[i] < accepted'[j]
    <3>1. DOMAIN accepted' = 1 .. Len(accepted')
      BY <1>3
    <3> QED BY <3>1 DEF AcceptedInOrder
  <2>1. i \in 1 .. Len(accepted)
    BY <1>1, <1>3
  <2>2. CASE j \in 1 .. Len(accepted)
    BY <1>1, <1>3, <2>1, <2>2 DEF AcceptedInOrder
  <2>3. CASE j = Len(accepted) + 1
    BY <1>3, <1>6, <2>1, <2>3
  <2>4. j \in 1 .. Len(accepted) \/ j = Len(accepted) + 1
    BY <1>9a
  <2> QED BY <2>2, <2>3, <2>4
<1>11. AcceptedBeforeQueued'
  <2> SUFFICES ASSUME NEW i \in 1 .. Len(accepted'), NEW j \in 1 .. Len(items)
               PROVE  \/ accepted'[i] < items[j]
                      \/ /\ j = 1 /\ accepted'[i] = items[1]
                         /\ \E e \in Drainers : pc'[e] = "sent"
    BY <1>1, <1>2, <1>3 DEF AcceptedBeforeQueued
  <2>1. CASE i \in 1 .. Len(accepted)
    BY <1>1, <1>3, <1>5, <2>1 DEF AcceptedBeforeQueued
  <2>2. CASE i = Len(accepted) + 1
    <3>1. items[1] < items[j] \/ j = 1
      <4>1. 1 \in DOMAIN items /\ j \in DOMAIN items /\ (1 < j \/ j = 1)
        BY <1>1, <1>3
      <4> QED BY <4>1 DEF ItemsSorted
    <3>2. pc'[d] = "sent" /\ accepted'[i] = items[1]
      BY <1>1, <1>2, <1>3, <2>2
    <3> QED BY <3>1, <3>2
  <2>3. i \in 1 .. Len(accepted) \/ i = Len(accepted) + 1
    BY <1>9a
  <2> QED BY <2>1, <2>2, <2>3
<1>12. DroppedGone'
  <2>1. ASSUME NEW i \in 1 .. Len(accepted')
        PROVE  accepted'[i] \notin dropped
    <3>1. CASE i \in 1 .. Len(accepted)
      BY <1>3, <3>1 DEF DroppedGone
    <3>2. CASE i = Len(accepted) + 1
      BY <1>1, <1>3, <3>2 DEF DroppedGone
    <3>3. i \in 1 .. Len(accepted) \/ i = Len(accepted) + 1
      BY <1>9a
    <3> QED BY <3>1, <3>2, <3>3
  <2>2. DOMAIN accepted' = 1 .. Len(accepted')
    BY <1>3
  <2> QED BY <1>2, <2>1, <2>2 DEF DroppedGone
<1>13. CleanEnd'
  BY <1>1, <1>2, <1>4 DEF CleanEnd
<1> QED BY <1>7, <1>8, <1>9, <1>10, <1>11, <1>12, <1>13

\* Settling an accepted send takes exactly the head off the queue.
LEMMA SettleSentStep ==
  ASSUME QueueInv, NEW d \in Drainers, SettleSent(d)
  PROVE  QueueInv'
<1> USE DEF QueueInv, Stages, InPass, Holding, historyVars
<1>1. /\ items \in Seq(1 .. seq) /\ accepted \in Seq(1 .. seq) /\ seq \in Nat
      /\ Len(items) \in Nat /\ Len(accepted) \in Nat
      /\ pc \in [Drainers -> Stages]
      /\ items # <<>> /\ 1 \in DOMAIN items /\ head[d] = items[1] /\ inflight = items[1]
  BY DEF TypeOK, SettleSent, InFlightStaysQueued
<1>2. /\ UNCHANGED <<limit, seq, refused, draining, head, cancelled, calls,
                      accepted, dropped, owed, clean>>
      /\ inflight' = 0
      /\ pc' = [pc EXCEPT ![d] = "loop"] /\ pc[d] = "sent"
  BY DEF SettleSent
<1>3. items' = Tail(items)
  <2>1. items \in Seq(Nat)
    BY <1>1
  <2>2. Through(items, items[1]) = 1
    BY <1>1, <2>1, ThroughHead DEF ItemsSorted
  <2>3. items' = SubSeq(items, 2, Len(items))
    BY <1>1, <2>2 DEF SettleSent
  <2> QED BY <1>1, <2>3, TailFacts
<1>4. /\ items' \in Seq(1 .. seq)
      /\ Len(items') = Len(items) - 1
      /\ \A j \in 1 .. Len(items') : items'[j] = items[j + 1]
      /\ ToSet(items) = ToSet(items') \union {items[1]}
      /\ DOMAIN accepted = 1 .. Len(accepted) /\ DOMAIN items = 1 .. Len(items)
      /\ DOMAIN items' = 1 .. Len(items')
  BY <1>1, <1>3, TailFacts
<1>5. items[1] \in ToSet(accepted)
  BY <1>1, <1>2 DEF SentIsAccepted
<1>6. \A e \in Drainers : e # d => pc[e] \notin InPass
  BY <1>2 DEF OnePass
<1>7. TypeOK'
  <2>1. Len(items') <= limit
    BY <1>1, <1>4, LimitsAssumption DEF TypeOK
  <2>2. pc' \in [Drainers -> Stages] /\ inflight' \in 0 .. seq
    BY <1>1, <1>2
  <2> QED BY <1>2, <1>4, <2>1, <2>2 DEF TypeOK
<1>8. OnePass' /\ InFlightStaysQueued' /\ NoStaleInflight' /\ SentIsAccepted'
  BY <1>1, <1>2, <1>6 DEF OnePass, InFlightStaysQueued, NoStaleInflight, SentIsAccepted
<1>9. \A j \in DOMAIN items' : j \in 1 .. Len(items) /\ j + 1 \in 1 .. Len(items)
  BY <1>1, <1>4, SMTT(30)
<1>10. ItemsSorted'
  <2> SUFFICES ASSUME NEW i \in DOMAIN items', NEW j \in DOMAIN items', i < j
               PROVE  items'[i] < items'[j]
    BY DEF ItemsSorted
  <2>1. i + 1 < j + 1 /\ i + 1 \in DOMAIN items /\ j + 1 \in DOMAIN items
    BY <1>4, <1>9
  <2>2. items'[i] = items[i + 1] /\ items'[j] = items[j + 1]
    BY <1>4
  <2> QED BY <2>1, <2>2 DEF ItemsSorted
<1>11. AcceptedInOrder'
  BY <1>2 DEF AcceptedInOrder
<1>12. AcceptedBeforeQueued'
  <2> SUFFICES ASSUME NEW i \in DOMAIN accepted, NEW j \in DOMAIN items'
               PROVE  accepted[i] < items'[j]
    BY <1>2 DEF AcceptedBeforeQueued
  <2>1. j + 1 # 1 /\ j + 1 \in DOMAIN items /\ items'[j] = items[j + 1]
    BY <1>4, <1>9
  <2> QED BY <2>1 DEF AcceptedBeforeQueued
<1>13. DroppedGone'
  <2>1. ASSUME NEW j \in DOMAIN items'
        PROVE  items'[j] \notin dropped
    BY <1>4, <1>9 DEF DroppedGone
  <2> QED BY <1>2, <2>1 DEF DroppedGone
<1>14. NothingVanishes'
  BY <1>2, <1>4, <1>5 DEF NothingVanishes
<1>15. CleanEnd'
  BY <1>1, <1>2 DEF CleanEnd
<1> QED BY <1>7, <1>8, <1>10, <1>11, <1>12, <1>13, <1>14, <1>15

\* What making room for an arrival must leave of the queue, r, having evicted
\* the entries e: an ordered, short enough list without e, whose head is the
\* one a send holds; e was never accepted.
RoomLeft(r, e) ==
  /\ r \in Seq(1 .. seq) /\ Len(r) < limit
  /\ \A i, j \in 1 .. Len(r) : i < j => r[i] < r[j]
  /\ ToSet(items) = ToSet(r) \union e
  /\ \A j \in 1 .. Len(r) : r[j] \notin e
  /\ HeadHeld => Len(r) >= 1 /\ r[1] = items[1]
  /\ \A i \in DOMAIN accepted, j \in 1 .. Len(r) :
       \/ accepted[i] < r[j]
       \/ /\ j = 1 /\ accepted[i] = r[1]
          /\ \E d \in Drainers : pc[d] = "sent"
  /\ \A i \in DOMAIN accepted : accepted[i] \notin e

LEMMA RoomFacts ==
  ASSUME QueueInv, KeepsArrival(items, HeadHeld, limit)
  PROVE  RoomLeft(RoomMade(items, HeadHeld, limit), Evicted(items, HeadHeld, limit))
<1> DEFINE r == RoomMade(items, HeadHeld, limit)
           e == Evicted(items, HeadHeld, limit)
<1> USE DEF QueueInv
<1>1. /\ items \in Seq(1 .. seq) /\ seq \in Nat /\ Len(items) \in Nat
      /\ DOMAIN items = 1 .. Len(items) /\ Len(items) <= limit /\ limit \in Nat
      /\ HeadHeld \in BOOLEAN
      /\ accepted \in Seq(1 .. seq) /\ DOMAIN accepted = 1 .. Len(accepted)
  BY LimitsAssumption DEF TypeOK, HeadHeld
<1>2. \A i, j \in 1 .. Len(items) : i < j => items[i] < items[j]
  BY <1>1 DEF ItemsSorted
<1>3. \A i \in DOMAIN accepted, j \in 1 .. Len(items) :
        \/ accepted[i] < items[j]
        \/ /\ j = 1 /\ accepted[i] = items[1]
           /\ \E d \in Drainers : pc[d] = "sent"
  BY <1>1 DEF AcceptedBeforeQueued
<1>4. ASSUME Len(items) < limit, r = items, e = {}
      PROVE  RoomLeft(r, e)
  <2> HIDE DEF r, e
  <2>1. HeadHeld => Len(items) >= 1
    BY <1>1 DEF HeadHeld
  <2>2. ToSet(items) = ToSet(items) \union e
    BY <1>4
  <2> QED BY <1>1, <1>2, <1>3, <1>4, <2>1, <2>2 DEF RoomLeft
<1>5. ASSUME NEW k \in 1 .. Len(items),
             HeadHeld => k = 2, Len(items) = limit,
             r = RemoveEntry(items, k), e = {items[k]}
      PROVE  RoomLeft(r, e)
  <2> HIDE DEF r, e
  <2>1. /\ r \in Seq(1 .. seq)
        /\ Len(r) = Len(items) - 1
        /\ \A j \in 1 .. Len(items) - 1 : r[j] = IF j < k THEN items[j] ELSE items[j + 1]
        /\ ToSet(items) = ToSet(r) \union e
    <3>1. items \in Seq(1 .. seq) /\ k \in 1 .. Len(items)
      BY <1>1
    <3>2. /\ RemoveEntry(items, k) \in Seq(1 .. seq)
          /\ Len(RemoveEntry(items, k)) = Len(items) - 1
          /\ \A j \in 1 .. Len(items) - 1 :
               RemoveEntry(items, k)[j] = IF j < k THEN items[j] ELSE items[j + 1]
          /\ ToSet(items) = ToSet(RemoveEntry(items, k)) \union {items[k]}
      <4> HIDE DEF QueueInv
      <4> QED BY ONLY <3>1, RemoveEntryFacts
    <3> QED BY <1>5, <3>2
  <2> DEFINE at(j) == IF j < k THEN j ELSE j + 1
  <2>2. \A j \in 1 .. Len(r) : /\ at(j) \in 1 .. Len(items) /\ at(j) # k
                              /\ r[j] = items[at(j)]
    BY <1>1, <2>1, SMTT(30)
  <2>3. \A i, j \in 1 .. Len(r) : i < j => at(i) < at(j)
    BY <1>1, <2>1, SMTT(30)
  <2>4. \A i, j \in 1 .. Len(items) : items[i] \in Nat /\ (i # j => items[i] # items[j])
    BY <1>1, <1>2
  <2>5. HeadHeld => Len(r) >= 1 /\ at(1) = 1
    BY <1>1, <1>5, <2>1
  <2>6. \A j \in 1 .. Len(r) : at(j) = 1 => j = 1
    BY <1>1, <2>1
  <2>7. (\E d \in Drainers : pc[d] = "sent") => k = 2
    BY <1>5 DEF InFlightStaysQueued, Holding, HeadHeld
  <2> HIDE DEF at
  <2>8. \A i, j \in 1 .. Len(r) : i < j => r[i] < r[j]
    BY <1>2, <2>2, <2>3
  <2>9. \A j \in 1 .. Len(r) : r[j] \notin e
    BY <1>5, <2>2, <2>4
  <2>10. HeadHeld => Len(r) >= 1 /\ r[1] = items[1]
    <3>1. HeadHeld => 1 \in 1 .. Len(r)
      BY <1>1, <2>1, <2>5
    <3> QED BY <2>2, <2>5, <3>1
  <2>11. ASSUME NEW i \in DOMAIN accepted, NEW j \in 1 .. Len(r)
         PROVE  \/ accepted[i] < r[j]
                \/ /\ j = 1 /\ accepted[i] = r[1]
                   /\ \E d \in Drainers : pc[d] = "sent"
    BY <1>3, <2>2, <2>6
  <2>12. ASSUME NEW i \in DOMAIN accepted
         PROVE  accepted[i] # items[k]
    <3>1. accepted[i] \in Nat /\ items[k] \in Nat
      BY <1>1, <2>4
    <3> QED BY <1>3, <2>7, <3>1
  <2>13. Len(r) < limit
    BY <1>1, <1>5, <2>1
  <2>14. \A i \in DOMAIN accepted : accepted[i] \notin e
    BY <1>5, <2>12
  <2> QED BY <2>1, <2>8, <2>9, <2>10, <2>11, <2>13, <2>14 DEF RoomLeft
<1>6. \/ Len(items) < limit /\ r = items /\ e = {}
      \/ \E k \in 1 .. Len(items) :
           /\ HeadHeld => k = 2
           /\ Len(items) = limit
           /\ r = RemoveEntry(items, k)
           /\ e = {items[k]}
  <2>1. Len(items) <= limit /\ items \in Seq(1 .. seq) /\ limit \in Nat /\ HeadHeld \in BOOLEAN
    BY <1>1
  <2> HIDE DEF QueueInv
  <2> QED BY <2>1, PushShape
<1> HIDE DEF r, e
<1>7. RoomLeft(r, e)
  BY <1>4, <1>5, <1>6
<1> QED BY <1>7 DEF r, e

\* Push numbers and queues its arrival, or refuses it.
LEMMA PushKeptStep ==
  ASSUME QueueInv, PushKept
  PROVE  QueueInv'
<1> DEFINE r == RoomMade(items, HeadHeld, limit)
           e == Evicted(items, HeadHeld, limit)
           n == seq + 1
<1> USE DEF QueueInv, callVars
<1>1. /\ items \in Seq(1 .. seq) /\ accepted \in Seq(1 .. seq)
      /\ seq \in Nat /\ limit \in Nat /\ limit \in Limits
      /\ DOMAIN items = 1 .. Len(items) /\ DOMAIN accepted = 1 .. Len(accepted)
      /\ dropped \subseteq 1 .. seq /\ ToSet(accepted) \subseteq 1 .. seq
  <2>1. accepted \in Seq(1 .. seq) /\ \A i \in DOMAIN accepted : accepted[i] \in 1 .. seq
    BY DEF TypeOK
  <2> QED BY <2>1, LimitsAssumption DEF TypeOK, ToSet
<1>2. /\ items' = Append(r, n) /\ seq' = n /\ dropped' = dropped \union e
      /\ UNCHANGED <<limit, refused, draining, inflight, pc, head, cancelled, calls,
                     accepted, owed, clean>>
      /\ KeepsArrival(items, HeadHeld, limit)
  BY DEF PushKept
<1>3. RoomLeft(r, e)
  BY <1>2, RoomFacts
<1> HIDE DEF r, e
<1>4. /\ r \in Seq(1 .. n) /\ Len(r) \in Nat /\ Len(r) + 1 <= limit
      /\ \A j \in 1 .. Len(r) : r[j] \in 1 .. seq
  <2>1. r \in Seq(1 .. seq) /\ Len(r) < limit
    BY <1>3 DEF RoomLeft
  <2> QED BY <1>1, <2>1
<1>5. /\ items' \in Seq(1 .. n) /\ Len(items') = Len(r) + 1
      /\ \A j \in 1 .. Len(r) : items'[j] = r[j]
      /\ items'[Len(r) + 1] = n
      /\ ToSet(items') = ToSet(r) \union {n}
  <2>1. r \in Seq(1 .. n) /\ n \in 1 .. n
    BY <1>1, <1>4
  <2> HIDE DEF n
  <2> QED BY <1>2, <2>1, AppendFacts
<1>6. /\ DOMAIN items' = 1 .. Len(r) + 1
      /\ \A j \in DOMAIN items' : j \in 1 .. Len(r) \/ j = Len(r) + 1
  BY <1>4, <1>5
<1>7. e \subseteq 1 .. seq
  <2>1. ToSet(items) \subseteq 1 .. seq
    BY <1>1 DEF ToSet
  <2> QED BY <1>3, <2>1 DEF RoomLeft
<1>8. TypeOK'
  <2>1. Len(items') <= limit
    BY <1>4, <1>5
  <2>2. accepted \in Seq(1 .. n) /\ n \in Nat
    BY <1>1
  <2>3. dropped' \in SUBSET (1 .. n) /\ inflight \in 0 .. n
    BY <1>1, <1>2, <1>7 DEF TypeOK
  <2>4. head \in [Drainers -> 0 .. n] /\ owed \in [Drainers -> SUBSET (1 .. n)]
    BY <1>1 DEF TypeOK
  <2> HIDE DEF n
  <2> QED BY <1>2, <1>5, <2>1, <2>2, <2>3, <2>4 DEF TypeOK
<1>9. OnePass' /\ NoStaleInflight' /\ SentIsAccepted' /\ AcceptedInOrder'
  BY <1>2 DEF OnePass, NoStaleInflight, SentIsAccepted, AcceptedInOrder
<1>10. InFlightStaysQueued'
  <2> SUFFICES ASSUME NEW d \in Drainers, pc[d] \in Holding
               PROVE  items' # <<>> /\ items'[1] = head[d] /\ inflight = head[d]
    BY <1>2 DEF InFlightStaysQueued
  <2>1. HeadHeld /\ items[1] = head[d] /\ inflight = head[d]
    BY DEF InFlightStaysQueued, HeadHeld
  <2>2. 1 \in 1 .. Len(r) /\ r[1] = items[1]
    BY <1>3, <1>4, <2>1 DEF RoomLeft
  <2> QED BY <1>4, <1>5, <2>1, <2>2
<1>11. ItemsSorted'
  <2> SUFFICES ASSUME NEW i \in DOMAIN items', NEW j \in DOMAIN items', i < j
               PROVE  items'[i] < items'[j]
    BY DEF ItemsSorted
  <2>1. i \in 1 .. Len(r)
    BY <1>4, <1>6
  <2>2. CASE j \in 1 .. Len(r)
    BY <1>3, <1>5, <2>1, <2>2 DEF RoomLeft
  <2>3. CASE j = Len(r) + 1
    <3>1. r[i] < n
      BY <1>1, <1>4, <2>1
    <3> QED BY <1>5, <2>1, <2>3, <3>1
  <2> QED BY <1>6, <2>2, <2>3
<1>12. AcceptedBeforeQueued'
  <2> SUFFICES ASSUME NEW i \in DOMAIN accepted, NEW j \in DOMAIN items'
               PROVE  \/ accepted[i] < items'[j]
                      \/ /\ j = 1 /\ accepted[i] = items'[1]
                         /\ \E d \in Drainers : pc[d] = "sent"
    BY <1>2 DEF AcceptedBeforeQueued
  <2>1. CASE j \in 1 .. Len(r)
    BY <1>3, <1>5, <2>1 DEF RoomLeft
  <2>2. CASE j = Len(r) + 1
    <3>1. accepted[i] \in 1 .. seq
      BY <1>1
    <3>2. accepted[i] < n
      BY <1>1, <3>1
    <3> QED BY <1>5, <2>2, <3>2
  <2> QED BY <1>6, <2>1, <2>2
<1>13. DroppedGone'
  <2>1. ASSUME NEW j \in DOMAIN items'
        PROVE  items'[j] \notin dropped \union e
    <3>1. CASE j \in 1 .. Len(r)
      <4>1. r[j] \in ToSet(items)
        BY <1>3, <1>4, <3>1 DEF RoomLeft, ToSet
      <4>2. r[j] \notin dropped
        BY <4>1 DEF DroppedGone, ToSet
      <4> QED BY <1>3, <1>5, <3>1, <4>2 DEF RoomLeft
    <3>2. CASE j = Len(r) + 1
      <4>1. n \notin 1 .. seq
        BY <1>1
      <4> QED BY <1>1, <1>5, <1>7, <3>2, <4>1
    <3> QED BY <1>6, <3>1, <3>2
  <2>2. ASSUME NEW i \in DOMAIN accepted
        PROVE  accepted[i] \notin dropped \union e
    BY <1>3 DEF RoomLeft, DroppedGone
  <2> QED BY <1>2, <2>1, <2>2 DEF DroppedGone
<1>14. NothingVanishes'
  <2>1. 1 .. n = (1 .. seq) \union {n}
    BY <1>1
  <2>2. ToSet(items) = ToSet(r) \union e
    BY <1>3 DEF RoomLeft
  <2> HIDE DEF n
  <2> QED BY <1>2, <1>5, <2>1, <2>2 DEF NothingVanishes
<1>15. CleanEnd'
  BY <1>2 DEF CleanEnd
<1> QED BY <1>8, <1>9, <1>10, <1>11, <1>12, <1>13, <1>14, <1>15

LEMMA PushRefusedStep ==
  ASSUME QueueInv, PushRefused
  PROVE  QueueInv'
BY DEF QueueInv, PushRefused, callVars, historyVars, TypeOK, OnePass, InFlightStaysQueued,
       ItemsSorted, NoStaleInflight, AcceptedInOrder, AcceptedBeforeQueued, SentIsAccepted,
       DroppedGone, NothingVanishes, CleanEnd

\* QueueInv is inductive.
LEMMA QueueStep == QueueInv /\ [Next]_vars => QueueInv'
<1> SUFFICES ASSUME QueueInv, [Next]_vars PROVE QueueInv'
  OBVIOUS
<1>1. CASE PushKept
  BY <1>1, PushKeptStep
<1>2. CASE PushRefused
  BY <1>2, PushRefusedStep
<1>3. ASSUME NEW d \in Drainers, Call(d) \/ ContextDone(d) \/ DrainStep(d)
      PROVE  QueueInv'
  <2>1. CASE SendAccepted(d)
    BY <2>1, SendAcceptedStep
  <2>2. CASE SettleSent(d)
    BY <2>2, SettleSentStep
  <2> QED BY <1>3, <2>1, <2>2, QuietStep DEF DrainStep
<1>4. CASE UNCHANGED vars
  BY <1>4 DEF vars, queueVars, callVars, historyVars, QueueInv, TypeOK, OnePass,
       InFlightStaysQueued, ItemsSorted, NoStaleInflight, AcceptedInOrder,
       AcceptedBeforeQueued, SentIsAccepted, DroppedGone, NothingVanishes, CleanEnd
<1> QED BY <1>1, <1>2, <1>3, <1>4 DEF Next

THEOREM QueueInvariant == Spec => []QueueInv
<1>1. Init /\ [][Next]_vars => []QueueInv
  BY QueueInit, QueueStep, PTL
<1> QED BY <1>1, PTL DEF Spec

-----------------------------------------------------------------------------
(* The theorems. *)

\* Type correctness, with the bound: no push ever makes the queue longer than
\* the limit NewQueue was given (Push, queue.go:63-91).
THEOREM TypeCorrect == Spec => []TypeOK
<1>1. QueueInv => TypeOK
  BY DEF QueueInv
<1> QED BY <1>1, QueueInvariant, PTL

\* Two Drain passes never overlap (begin and end, queue.go:140-172).
THEOREM PassesNeverOverlap == Spec => []OnePass
<1>1. QueueInv => OnePass
  BY DEF QueueInv
<1> QED BY <1>1, QueueInvariant, PTL

\* No push drops the entry a send is in flight for (queue.go:58-91).
THEOREM InFlightNeverDropped == Spec => []InFlightStaysQueued
<1>1. QueueInv => InFlightStaysQueued
  BY DEF QueueInv
<1> QED BY <1>1, QueueInvariant, PTL

\* Whatever the proxy accepts, it accepts in Push order and once
\* (Drain, queue.go:100-138).
THEOREM AcceptedOnceInOrder == Spec => []AcceptedInOrder
<1>1. QueueInv => AcceptedInOrder
  BY DEF QueueInv
<1> QED BY <1>1, QueueInvariant, PTL

\* A notification reported dropped is never delivered, and none disappears
\* without being reported (Push, queue.go:58-91).
THEOREM DropsAreReported == Spec => []DropLineIsTrue
<1>1. QueueInv => DropLineIsTrue
  <2> SUFFICES ASSUME QueueInv PROVE DropLineIsTrue
    OBVIOUS
  <2>1. dropped \intersect (ToSet(accepted) \union ToSet(items)) = {}
    BY DEF QueueInv, DroppedGone, ToSet
  <2>2. ToSet(items) \subseteq 1 .. seq /\ ToSet(accepted) \subseteq 1 .. seq
    <3>1. ASSUME NEW s \in Seq(1 .. seq) PROVE ToSet(s) \subseteq 1 .. seq
      <4>1. \A i \in DOMAIN s : s[i] \in 1 .. seq
        <5>1. DOMAIN s = 1 .. Len(s)
          BY LenProperties
        <5> QED BY <5>1, ElementOfSeq
      <4> QED BY <4>1 DEF ToSet
    <3> QED BY <3>1 DEF QueueInv, TypeOK
  <2>3. dropped \subseteq 1 .. seq /\ NothingVanishes
    BY DEF QueueInv, TypeOK
  <2> QED BY <2>1, <2>2, <2>3 DEF DropLineIsTrue, NothingVanishes
<1> QED BY <1>1, QueueInvariant, PTL

\* A Drain that saw no cancelled context and no failed send has emptied what
\* was queued when it was called, even when it overlapped another pass
\* (Drain, queue.go:100-103).
THEOREM OverlappingDrainDelivers == Spec => []DrainNotSwallowed
<1>1. QueueInv => DrainNotSwallowed
  BY DEF QueueInv, CleanEnd, DrainNotSwallowed
<1> QED BY <1>1, QueueInvariant, PTL

-----------------------------------------------------------------------------
(* notify.Queue implements the lossy FIFO (LossyFifo): every critical       *)
(* section of the code is a step of the abstract queue or leaves it alone.  *)

\* What still waits, from the abstract queue's point of view.
Waiting == ToSet(items) \ ToSet(accepted)

\* An ordered list has as many entries as positions.
LEMMA OrderedListCardinality ==
  ASSUME NEW s \in Seq(Nat), \A i, j \in 1 .. Len(s) : i < j => s[i] < s[j]
  PROVE  IsFiniteSet(ToSet(s)) /\ Cardinality(ToSet(s)) = Len(s)
<1> DEFINE f == [i \in 1 .. Len(s) |-> s[i]]
<1>1. Len(s) \in Nat /\ DOMAIN s = 1 .. Len(s) /\ \A i \in 1 .. Len(s) : s[i] \in Nat
  OBVIOUS
<1>2. ToSet(s) = {s[i] : i \in 1 .. Len(s)}
  BY <1>1 DEF ToSet
<1>3. f \in Surjection(1 .. Len(s), ToSet(s))
  <2>1. f \in [1 .. Len(s) -> ToSet(s)]
    BY <1>2
  <2>2. \A t \in ToSet(s) : \E i \in 1 .. Len(s) : f[i] = t
    BY <1>2
  <2> HIDE DEF f
  <2> QED BY <2>1, <2>2 DEF Surjection
<1>4. f \in Injection(1 .. Len(s), ToSet(s))
  <2>1. \A i, j \in 1 .. Len(s) : i # j => s[i] # s[j]
    BY <1>1
  <2>2. f \in [1 .. Len(s) -> ToSet(s)] /\ \A i \in 1 .. Len(s) : f[i] = s[i]
    BY <1>2
  <2> HIDE DEF f
  <2> QED BY <2>1, <2>2 DEF Injection, IsInjective
<1>5. IsFiniteSet(1 .. Len(s)) /\ Cardinality(1 .. Len(s)) = Len(s)
  <2> DEFINE n == Len(s)
  <2>1. n \in Int /\ 1 \in Int
    BY <1>1
  <2> HIDE DEF n
  <2>2. /\ IsFiniteSet(1 .. n)
        /\ Cardinality(1 .. n) = IF 1 > n THEN 0 ELSE n - 1 + 1
    BY ONLY <2>1, FS_Interval, Zenon
  <2>3. (IF 1 > n THEN 0 ELSE n - 1 + 1) = n
    BY <1>1 DEF n
  <2> QED BY ONLY <2>2, <2>3 DEF n
<1> QED BY <1>3, <1>4, <1>5, FS_Surjection

\* At most the head of the queue no longer waits.
LEMMA WaitingSize ==
  ASSUME QueueInv
  PROVE  /\ IsFiniteSet(Waiting)
         /\ Cardinality(Waiting) \in Nat
         /\ Cardinality(Waiting) <= Len(items)
         /\ Len(items) <= Cardinality(Waiting) + 1
<1>1. /\ items \in Seq(Nat) /\ Len(items) \in Nat /\ DOMAIN items = 1 .. Len(items)
      /\ DOMAIN accepted = 1 .. Len(accepted)
      /\ \A j \in 1 .. Len(items) : items[j] \in Nat
  BY DEF QueueInv, TypeOK
<1>2. IsFiniteSet(ToSet(items)) /\ Cardinality(ToSet(items)) = Len(items)
  BY <1>1, OrderedListCardinality DEF QueueInv, ItemsSorted
<1>3. IsFiniteSet(Waiting) /\ Cardinality(Waiting) <= Len(items)
  BY <1>2, FS_Subset DEF Waiting
<1>4. Cardinality(Waiting) \in Nat
  BY <1>3, FS_CardinalityType
<1>5. ToSet(items) \subseteq Waiting \union {items[1]}
  <2> SUFFICES ASSUME NEW j \in 1 .. Len(items), items[j] \in ToSet(accepted)
               PROVE  items[j] = items[1]
    BY <1>1 DEF ToSet, Waiting
  <2>1. PICK i \in DOMAIN accepted : accepted[i] = items[j]
    BY DEF ToSet
  <2>2. ~(items[j] < items[j])
    BY <1>1
  <2> QED BY <1>1, <2>1, <2>2 DEF QueueInv, AcceptedBeforeQueued
<1>6. /\ IsFiniteSet(Waiting \union {items[1]})
      /\ Cardinality(Waiting \union {items[1]}) <= Cardinality(Waiting) + 1
  BY <1>3, <1>4, FS_AddElement
<1>7. Len(items) <= Cardinality(Waiting \union {items[1]})
  BY <1>2, <1>5, <1>6, FS_Subset
<1>8. Cardinality(Waiting \union {items[1]}) \in Nat
  BY <1>6, FS_CardinalityType
<1> QED BY <1>1, <1>3, <1>4, <1>6, <1>7, <1>8

\* The abstract queue counts with the same Cardinality.
LEMMA SameCardinality == \A S : Fifo!Cardinality(S) = Cardinality(S)
BY DEF Cardinality, Fifo!Cardinality

LEMMA RefinesInit == Init => Fifo!Init
BY LimitsAssumption DEF Init, Fifo!Init, ToSet

\* A push that is kept is an arrival, for another entry when the list is full.
LEMMA RefinesPush ==
  ASSUME QueueInv, PushKept
  PROVE  Fifo!Arrive \/ Fifo!ArriveForAnother
<1> DEFINE r == RoomMade(items, HeadHeld, limit)
           e == Evicted(items, HeadHeld, limit)
<1>1. /\ items' = Append(r, seq + 1) /\ seq' = seq + 1 /\ dropped' = dropped \union e
      /\ UNCHANGED <<limit, accepted>> /\ KeepsArrival(items, HeadHeld, limit)
  BY DEF PushKept
<1>2. RoomLeft(r, e)
  BY <1>1, RoomFacts
<1>3. /\ items \in Seq(1 .. seq) /\ seq \in Nat /\ limit \in Nat /\ Len(items) \in Nat
      /\ HeadHeld \in BOOLEAN /\ Len(items) <= limit
      /\ ToSet(accepted) \subseteq 1 .. seq /\ ToSet(items) \subseteq 1 .. seq
  <2>1. ASSUME NEW s \in Seq(1 .. seq) PROVE ToSet(s) \subseteq 1 .. seq
    <3>1. DOMAIN s = 1 .. Len(s)
      BY LenProperties
    <3>2. \A i \in DOMAIN s : s[i] \in 1 .. seq
      BY <3>1, ElementOfSeq
    <3> QED BY <3>2 DEF ToSet
  <2> QED BY <2>1, LimitsAssumption DEF QueueInv, TypeOK, HeadHeld
<1>4. \/ Len(items) < limit /\ r = items /\ e = {}
      \/ \E k \in 1 .. Len(items) : Len(items) = limit /\ e = {items[k]}
  BY <1>1, <1>3, PushShape
<1> HIDE DEF r, e
<1>5. ToSet(items') = ToSet(r) \union {seq + 1}
  <2>1. r \in Seq(1 .. seq + 1) /\ seq + 1 \in 1 .. seq + 1
    BY <1>2, <1>3 DEF RoomLeft
  <2> QED BY <1>1, <2>1, AppendFacts
<1>6. seq + 1 \notin ToSet(accepted)
  BY <1>3
<1>7. ToSet(items) = ToSet(r) \union e /\ ToSet(r) \intersect e = {}
  <2>1. ToSet(r) = {r[j] : j \in 1 .. Len(r)}
    BY <1>2, LenProperties DEF RoomLeft, ToSet
  <2> QED BY <1>2, <2>1 DEF RoomLeft
<1>8. e \intersect ToSet(accepted) = {}
  BY <1>2 DEF RoomLeft, ToSet
<1>9. Waiting' = (Waiting \ e) \union {seq + 1}
  BY <1>1, <1>5, <1>6, <1>7 DEF Waiting
<1> DEFINE w == ToSet(items) \ ToSet(accepted)
           v == ToSet(items') \ ToSet(accepted')
<1>10. Waiting = w /\ Waiting' = v
  BY DEF Waiting
<1>11. CASE Len(items) < limit /\ r = items /\ e = {}
  <2>1. Cardinality(w) < limit
    BY <1>3, <1>11, <1>10, WaitingSize
  <2>2. v = w \union {seq + 1}
    BY <1>9, <1>11, <1>10
  <2>3. dropped' = dropped
    BY <1>1, <1>11
  <2> QED BY <1>1, <2>1, <2>2, <2>3, SameCardinality DEF Fifo!Arrive
<1>12. ASSUME NEW k \in 1 .. Len(items), Len(items) = limit, e = {items[k]}
       PROVE  Fifo!ArriveForAnother
  <2>1. Cardinality(w) + 1 >= limit
    BY <1>3, <1>12, <1>10, WaitingSize
  <2>2. items[k] \in w
    BY <1>7, <1>8, <1>12
  <2>3. v = (w \ {items[k]}) \union {seq + 1} /\ dropped' = dropped \union {items[k]}
    BY <1>1, <1>9, <1>12, <1>10
  <2> QED BY <1>1, <2>1, <2>2, <2>3, SameCardinality DEF Fifo!ArriveForAnother
<1> QED BY <1>4, <1>11, <1>12

\* An acknowledged send delivers the oldest entry that waits.
LEMMA RefinesAccept ==
  ASSUME QueueInv, NEW d \in Drainers, SendAccepted(d)
  PROVE  Fifo!Deliver
<1>1. /\ items # <<>> /\ items[1] = head[d] /\ pc[d] = "sending"
      /\ items \in Seq(1 .. seq) /\ DOMAIN items = 1 .. Len(items) /\ 1 \in DOMAIN items
      /\ accepted \in Seq(1 .. seq)
      /\ \A j \in DOMAIN items : items[j] \in Nat
  BY DEF QueueInv, TypeOK, InFlightStaysQueued, SendAccepted, Holding
<1>2. /\ accepted' = Append(accepted, items[1])
      /\ UNCHANGED <<limit, items, seq, dropped>>
  BY <1>1 DEF SendAccepted, queueVars
<1>3. \A c \in Drainers : pc[c] # "sent"
  BY <1>1 DEF QueueInv, OnePass, InPass
<1>4. items[1] \in Waiting
  <2>1. ASSUME NEW i \in DOMAIN accepted PROVE accepted[i] # items[1]
    BY <1>1, <1>3 DEF QueueInv, AcceptedBeforeQueued
  <2> QED BY <1>1, <2>1 DEF Waiting, ToSet
<1>5. ASSUME NEW n \in Waiting PROVE items[1] <= n
  <2>1. PICK j \in DOMAIN items : n = items[j]
    BY DEF Waiting, ToSet
  <2>2. j = 1 \/ 1 < j
    BY <1>1
  <2> QED BY <1>1, <2>1, <2>2 DEF QueueInv, ItemsSorted
<1>6. Waiting' = Waiting \ {items[1]}
  <2>1. ToSet(accepted') = ToSet(accepted) \union {items[1]}
    BY <1>1, <1>2, AppendFacts
  <2> QED BY <1>2, <2>1 DEF Waiting
<1> QED BY <1>2, <1>4, <1>5, <1>6 DEF Fifo!Deliver, Waiting

\* Taking a settled entry off the list changes nothing the abstract queue sees.
LEMMA RefinesSettle ==
  ASSUME QueueInv, NEW d \in Drainers, SettleSent(d)
  PROVE  UNCHANGED Fifo!vars
<1>1. /\ items # <<>> /\ items[1] = head[d] /\ items[1] \in ToSet(accepted)
      /\ items \in Seq(Nat) /\ Len(items) \in Nat
  BY DEF QueueInv, TypeOK, InFlightStaysQueued, SentIsAccepted, SettleSent, Holding
<1>2. items' = Tail(items)
  <2>1. Through(items, items[1]) = 1
    BY <1>1, ThroughHead DEF QueueInv, ItemsSorted
  <2>2. items' = SubSeq(items, 2, Len(items))
    BY <1>1, <2>1 DEF SettleSent
  <2> QED BY <1>1, <2>2, TailFacts
<1>3. ToSet(items) = ToSet(items') \union {items[1]}
  BY <1>1, <1>2, TailFacts
<1>4. Waiting' = Waiting
  BY <1>1, <1>3 DEF Waiting, SettleSent, historyVars
<1> QED BY <1>4 DEF Fifo!vars, Waiting, SettleSent, historyVars

LEMMA RefinesNext == QueueInv /\ [Next]_vars => [Fifo!Next]_(Fifo!vars)
<1> SUFFICES ASSUME QueueInv, [Next]_vars
             PROVE  Fifo!Next \/ UNCHANGED Fifo!vars
  OBVIOUS
<1>1. CASE PushKept
  BY <1>1, RefinesPush DEF Fifo!Next
<1>2. CASE PushRefused
  BY <1>2 DEF PushRefused, historyVars, Fifo!vars
<1>3. ASSUME NEW d \in Drainers, Call(d) \/ ContextDone(d) \/ DrainStep(d)
      PROVE  Fifo!Next \/ UNCHANGED Fifo!vars
  <2>1. CASE SendAccepted(d)
    BY <2>1, RefinesAccept DEF Fifo!Next
  <2>2. CASE SettleSent(d)
    BY <2>2, RefinesSettle
  <2>3. CASE \/ Call(d) \/ ContextDone(d) \/ BeginPass(d) \/ BeginWait(d) \/ GiveUp(d)
             \/ StopCancelled(d) \/ StopEmpty(d) \/ CopyHead(d) \/ SendFailed(d)
             \/ SettleFailed(d) \/ EndPass(d)
    <3>1. UNCHANGED <<limit, items, seq, accepted, dropped>>
      BY <2>3 DEF Call, ContextDone, BeginPass, BeginWait, GiveUp, StopCancelled, StopEmpty,
             CopyHead, SendFailed, SettleFailed, EndPass, queueVars, historyVars
    <3> QED BY <3>1 DEF Fifo!vars
  <2> QED BY <1>3, <2>1, <2>2, <2>3 DEF DrainStep
<1>4. CASE UNCHANGED vars
  BY <1>4 DEF vars, queueVars, historyVars, Fifo!vars
<1> QED BY <1>1, <1>2, <1>3, <1>4 DEF Next

\* The notification queue implements the lossy FIFO, for every limit and any
\* number of goroutines draining it (notify/queue.go).
THEOREM QueueImplementsFifo == Spec => ImplementsFifo
<1>1. Init /\ [][Next]_vars /\ []QueueInv => Fifo!Init /\ [][Fifo!Next]_(Fifo!vars)
  BY RefinesInit, RefinesNext, PTL
<1> QED BY <1>1, QueueInvariant, PTL DEF Spec, ImplementsFifo, Fifo!Spec

-----------------------------------------------------------------------------
(* The error groups and the burst cap.                                      *)

(* The inductive invariant.                                                 *)

\* A time a goroutine may apply: it was read, and not too long ago.
Fresh(t) == t \in 1 .. clock /\ clock <= t + MaxLag

Readers == ticking \union ingesting

ReadersAreFresh == \A r \in Readers : Fresh(r.at)

\* A group begins with the alert of its fingerprint, and its last occurrence is
\* at most one lag older than that. Once it was dropped, no goroutine
\* holds a time at which the cooldown of that alert had not ended.
Dated(f) ==
  /\ groups[f].state # "none" =>
       /\ groups[f].first = past[f].alerted
       /\ groups[f].first \in 1 .. clock /\ groups[f].last \in 1 .. clock
       /\ groups[f].first <= groups[f].last + MaxLag
  /\ groups[f].state = "none" /\ past[f].alerted > 0 =>
       /\ past[f].alerted + Window + Cooldown <= clock
       /\ \A r \in Readers : past[f].alerted + Window + Cooldown <= r.at

\* An open group that is no retry has counted its window.
Counted(f) ==
  groups[f].state = "open" /\ ~past[f].retried => groups[f].count = past[f].inWindow

\* The detector's burst window is the limiter's, and before the first alert
\* nothing was refused.
InStep == burstSince = limiter.start /\ (burstSince = 0 => limiter.overflow = 0)

GroupsInv ==
  /\ GroupsTypeOK
  /\ ReadersAreFresh
  /\ \A f \in Fingerprints : Dated(f) /\ Counted(f)
  /\ EveryCycleHandedOff
  /\ InStep
  /\ RefusalsAccounted

-----------------------------------------------------------------------------
(* What observing an error does to a group g and its history h.             *)

\* An alert starts a cycle, and hands off the last one if that is still open.
LEMMA ObserveAlerts ==
  ASSUME NEW g \in Group, NEW h \in History, NEW t \in Times, Alerts(g, t),
         NEW x, x = Observe(g, t), NEW y, y = AfterObserve(h, g, t)
  PROVE  /\ g.state # "none" => t >= g.first + Window + Cooldown
         /\ x \in Group /\ x.state = "open" /\ x.first = t /\ x.last = t /\ x.count = 1
         /\ y \in History /\ y.alerted = t /\ y.cycles = h.cycles + 1
         /\ y.retries = h.retries /\ y.inWindow = 1 /\ ~y.retried
         /\ \/ /\ g.state = "open"
               /\ y.handoffs = h.handoffs + 1 /\ y.carried = g.count
            \/ /\ g.state # "open"
               /\ y.handoffs = h.handoffs
<1> DEFINE s == Settled(g, t)
<1>1. t \in 0 .. MaxClock /\ t \in Nat /\ g.count \in Nat
  BY GroupBoundsAssumption DEF Times, Group
<1>2. x = [state |-> "open", first |-> t, last |-> t, count |-> 1, since |-> 0]
  BY DEF Observe, StartCycle
<1>3. x \in Group /\ x.state = "open" /\ x.first = t /\ x.last = t /\ x.count = 1
  BY <1>1, <1>2 DEF Group
<1>4. CASE Due(g, t)
  <2>1. s = [g EXCEPT !.state = "handed"] /\ g.state = "open"
    BY <1>4 DEF Settled, Close, Due
  <2>2. s # g /\ s.state = "handed" /\ s.first = g.first
    BY <2>1 DEF Group
  <2>3. t >= g.first + Window + Cooldown
    BY <2>2 DEF Alerts, CooldownUntil, WindowEnd
  <2>4. y = [AfterClose(h, g) EXCEPT !.alerted = t, !.cycles = @ + 1,
                                     !.inWindow = 1, !.retried = FALSE]
    BY <2>2 DEF AfterObserve
  <2>5. y = [h EXCEPT !.handoffs = h.handoffs + 1, !.carried = g.count, !.alerted = t,
                      !.cycles = h.cycles + 1, !.inWindow = 1, !.retried = FALSE]
    BY <2>4 DEF AfterClose, History
  <2>7. y \in History
    <3> DEFINE n == h.cycles + 1
               m == h.handoffs + 1
    <3>1. n \in Nat /\ m \in Nat
      BY DEF History
    <3>2. y = [h EXCEPT !.handoffs = m, !.carried = g.count, !.alerted = t, !.cycles = n,
                        !.inWindow = 1, !.retried = FALSE]
      BY <2>5
    <3> HIDE DEF n, m
    <3> QED BY ONLY <1>1, <3>1, <3>2, h \in History DEF History
  <2>6. /\ y.alerted = t /\ y.cycles = h.cycles + 1 /\ y.retries = h.retries
        /\ y.handoffs = h.handoffs + 1 /\ y.carried = g.count
        /\ y.inWindow = 1 /\ ~y.retried
    BY <2>5 DEF History
  <2> QED BY <1>3, <2>1, <2>3, <2>6, <2>7
<1>5. CASE ~Due(g, t)
  <2>1. s = g
    BY <1>5 DEF Settled
  <2>2. g.state # "open" /\ (g.state # "none" => t >= g.first + Window + Cooldown)
    BY <2>1 DEF Alerts, CooldownUntil, WindowEnd
  <2>3. y = [h EXCEPT !.alerted = t, !.cycles = h.cycles + 1, !.inWindow = 1, !.retried = FALSE]
    BY <2>1 DEF AfterObserve
  <2>5. y \in History
    <3> DEFINE n == h.cycles + 1
    <3>1. n \in Nat
      BY DEF History
    <3>2. y = [h EXCEPT !.alerted = t, !.cycles = n, !.inWindow = 1, !.retried = FALSE]
      BY <2>3
    <3> HIDE DEF n
    <3> QED BY ONLY <1>1, <3>1, <3>2, h \in History DEF History
  <2>4. /\ y.alerted = t /\ y.cycles = h.cycles + 1 /\ y.retries = h.retries
        /\ y.handoffs = h.handoffs /\ y.carried = h.carried
        /\ y.inWindow = 1 /\ ~y.retried
    BY <2>3 DEF History
  <2> QED BY <1>3, <2>2, <2>4, <2>5
<1> QED BY <1>4, <1>5

\* Any other error counts: in the window, or after a handoff that carries none of it.
LEMMA ObserveCounts ==
  ASSUME NEW g \in Group, NEW h \in History, NEW t \in Times, ~Alerts(g, t),
         NEW x, x = Observe(g, t), NEW y, y = AfterObserve(h, g, t)
  PROVE  /\ g.state # "none"
         /\ x \in Group /\ x.first = g.first /\ x.last = t
         /\ y \in History /\ y.alerted = h.alerted /\ y.cycles = h.cycles
         /\ y.retries = h.retries /\ y.retried = h.retried
         /\ \/ /\ g.state = "open" /\ x.state = "open"
               /\ x.count = g.count + 1 /\ y.inWindow = h.inWindow + 1
               /\ y.handoffs = h.handoffs
            \/ /\ g.state = "open" /\ x.state = "handed"
               /\ y.handoffs = h.handoffs + 1 /\ y.carried = g.count
            \/ /\ g.state = "handed" /\ x.state = "handed"
               /\ y.handoffs = h.handoffs
<1> DEFINE s == Settled(g, t)
<1>1. /\ g.count + 1 \in Nat /\ g.since \in Nat /\ g.since + 1 \in Nat /\ g.count \in Nat
      /\ t \in 0 .. MaxClock
  BY GroupBoundsAssumption DEF Group, Times
<1>2. h.inWindow \in Nat /\ h.inWindow + 1 \in Nat /\ h.handoffs + 1 \in Nat
  BY DEF History
<1>3. CASE Due(g, t)
  <2>1. s = [g EXCEPT !.state = "handed"] /\ g.state = "open" /\ t >= WindowEnd(g)
    BY <1>3 DEF Settled, Close, Due
  <2>2. s # g /\ s.state = "handed" /\ s.count = g.count /\ s.since = g.since
    BY <2>1 DEF Group
  <2>3. x = [s EXCEPT !.count = @ + 1, !.since = @ + 1, !.last = t]
    BY <2>2 DEF Observe
  <2>4. x = [g EXCEPT !.state = "handed", !.count = g.count + 1, !.since = g.since + 1, !.last = t]
    BY <2>1, <2>3 DEF Group
  <2>5. /\ x \in Group /\ x.first = g.first /\ x.last = t /\ x.state = "handed"
    BY <1>1, <2>4 DEF Group
  <2>6. ~(t < WindowEnd(g))
    BY <2>1, TimingAssumption, GroupBoundsAssumption DEF WindowEnd, Group, Times
  <2>7. y = [AfterClose(h, g) EXCEPT !.inWindow = @ + 0]
    BY <2>2, <2>6 DEF AfterObserve
  <2>8. AfterClose(h, g) = [h EXCEPT !.handoffs = h.handoffs + 1, !.carried = g.count]
    BY DEF AfterClose
  <2>9. AfterClose(h, g) \in History
    BY <1>1, <1>2, <2>8 DEF History
  <2>10. y = AfterClose(h, g)
    BY <2>7, <2>9 DEF History
  <2>11. /\ y.alerted = h.alerted /\ y.cycles = h.cycles
         /\ y.retries = h.retries /\ y.retried = h.retried
         /\ y.handoffs = h.handoffs + 1 /\ y.carried = g.count
    BY <2>8, <2>10 DEF History
  <2> QED BY <2>1, <2>5, <2>9, <2>10, <2>11
<1>4. CASE ~Due(g, t)
  <2>1. s = g
    BY <1>4 DEF Settled
  <2>2. PICK n \in {0, 1} :
          /\ y = [h EXCEPT !.inWindow = h.inWindow + n]
          /\ n = IF t < WindowEnd(g) THEN 1 ELSE 0
    BY <2>1 DEF AfterObserve
  <2>3. h.inWindow + n \in Nat
    BY <1>2
  <2>4. /\ y \in History /\ y.alerted = h.alerted /\ y.cycles = h.cycles
        /\ y.retries = h.retries /\ y.retried = h.retried
        /\ y.handoffs = h.handoffs /\ y.inWindow = h.inWindow + n
    BY <2>2, <2>3 DEF History
  <2>5. CASE g.state = "open"
    <3>1. n = 1
      BY <1>4, <2>2, <2>5, TimingAssumption, GroupBoundsAssumption DEF Due, WindowEnd, Group, Times
    <3>2. x = [g EXCEPT !.count = @ + 1, !.last = t]
      BY <2>1, <2>5 DEF Observe
    <3>3. x = [g EXCEPT !.state = "open", !.count = g.count + 1, !.since = g.since, !.last = t]
      BY <2>5, <3>2 DEF Group
    <3>4. /\ x \in Group /\ x.first = g.first /\ x.last = t /\ x.state = "open"
          /\ x.count = g.count + 1
      BY <1>1, <3>3 DEF Group
    <3> QED BY <2>4, <2>5, <3>1, <3>4
  <2>6. CASE g.state # "open"
    <3>1. g.state = "handed"
      BY <2>1, <2>6 DEF Alerts, Group
    <3>2. x = [g EXCEPT !.count = @ + 1, !.since = @ + 1, !.last = t]
      BY <2>1, <2>6 DEF Observe
    <3>3. x = [g EXCEPT !.state = "handed", !.count = g.count + 1, !.since = g.since + 1, !.last = t]
      BY <3>1, <3>2 DEF Group
    <3>4. x \in Group /\ x.first = g.first /\ x.last = t /\ x.state = "handed"
      BY <1>1, <3>3 DEF Group
    <3> QED BY <2>4, <3>1, <3>4
  <2> QED BY <2>5, <2>6
<1> QED BY <1>3, <1>4

-----------------------------------------------------------------------------
(* One fingerprint's part of the invariant and of the action properties.    *)

HandedOff(f) ==
  past[f].handoffs =
    past[f].cycles + past[f].retries - (IF groups[f].state = "open" THEN 1 ELSE 0)

CooldownKept(f) ==
  past[f].alerted > 0 /\ past'[f].alerted # past[f].alerted =>
    past'[f].alerted >= past[f].alerted + Window + Cooldown

WindowCarried(f) ==
  past'[f].handoffs > past[f].handoffs /\ ~past[f].retried =>
    past'[f].carried = past[f].inWindow

GroupGood(f) ==
  /\ groups'[f] \in Group /\ past'[f] \in History
  /\ Dated(f)' /\ Counted(f)' /\ HandedOff(f)'
  /\ CooldownKept(f) /\ WindowCarried(f)

\* No goroutine holds a time it did not hold before.
NoNewTimes == \A r \in Readers' : \E q \in Readers : r.at = q.at

LEMMA ObservedIsGood ==
  ASSUME GroupsInv, NEW f \in Fingerprints, NEW t, \E k \in Readers : k.at = t,
         groups'[f] = Observe(groups[f], t),
         past'[f] = AfterObserve(past[f], groups[f], t),
         clock' = clock
  PROVE  GroupGood(f)
<1>1. groups[f] \in Group /\ past[f] \in History /\ clock \in Times
  BY DEF GroupsInv, GroupsTypeOK
<1>2. t \in 1 .. clock /\ clock <= t + MaxLag /\ t \in Times /\ clock \in Nat /\ MaxLag \in Nat
  BY <1>1, TimingAssumption, GroupBoundsAssumption DEF GroupsInv, ReadersAreFresh, Fresh, Times
<1>3. Dated(f) /\ Counted(f) /\ HandedOff(f)
  BY DEF GroupsInv, EveryCycleHandedOff, HandedOff
<1>4. past[f].handoffs \in Nat /\ past[f].cycles \in Nat /\ past[f].retries \in Nat
      /\ past[f].alerted \in Nat
  BY <1>1 DEF History
<1>7. groups'[f] = Observe(groups[f], t) /\ past'[f] = AfterObserve(past[f], groups[f], t)
  OBVIOUS
<1>5. CASE Alerts(groups[f], t)
  <2>1. /\ groups[f].state # "none" => t >= groups[f].first + Window + Cooldown
        /\ groups'[f] \in Group /\ groups'[f].state = "open"
        /\ groups'[f].first = t /\ groups'[f].last = t /\ groups'[f].count = 1
        /\ past'[f] \in History /\ past'[f].alerted = t /\ past'[f].cycles = past[f].cycles + 1
        /\ past'[f].retries = past[f].retries /\ past'[f].inWindow = 1 /\ ~past'[f].retried
        /\ \/ /\ groups[f].state = "open"
              /\ past'[f].handoffs = past[f].handoffs + 1 /\ past'[f].carried = groups[f].count
           \/ /\ groups[f].state # "open"
              /\ past'[f].handoffs = past[f].handoffs
    BY ONLY <1>1, <1>2, <1>5, <1>7, ObserveAlerts
  <2>2. Dated(f)' /\ Counted(f)'
    BY <1>2, <2>1 DEF Dated, Counted
  <2>3. HandedOff(f)'
    BY <1>3, <1>4, <2>1 DEF HandedOff
  <2>4. CooldownKept(f)
    BY <1>3, <2>1 DEF CooldownKept, Dated
  <2>5. WindowCarried(f)
    BY <1>3, <1>4, <2>1 DEF WindowCarried, Counted
  <2> QED BY <2>1, <2>2, <2>3, <2>4, <2>5 DEF GroupGood
<1>6. CASE ~Alerts(groups[f], t)
  <2>1. /\ groups[f].state # "none"
        /\ groups'[f] \in Group /\ groups'[f].first = groups[f].first /\ groups'[f].last = t
        /\ past'[f] \in History /\ past'[f].alerted = past[f].alerted
        /\ past'[f].cycles = past[f].cycles
        /\ past'[f].retries = past[f].retries /\ past'[f].retried = past[f].retried
        /\ \/ /\ groups[f].state = "open" /\ groups'[f].state = "open"
              /\ groups'[f].count = groups[f].count + 1
              /\ past'[f].inWindow = past[f].inWindow + 1
              /\ past'[f].handoffs = past[f].handoffs
           \/ /\ groups[f].state = "open" /\ groups'[f].state = "handed"
              /\ past'[f].handoffs = past[f].handoffs + 1 /\ past'[f].carried = groups[f].count
           \/ /\ groups[f].state = "handed" /\ groups'[f].state = "handed"
              /\ past'[f].handoffs = past[f].handoffs
    BY ONLY <1>1, <1>2, <1>6, <1>7, ObserveCounts
  <2>2. Dated(f)'
    <3>1. groups[f].first \in Nat
      BY <1>1 DEF Group
    <3> QED BY <1>2, <1>3, <2>1, <3>1 DEF Dated
  <2>3. Counted(f)'
    BY <1>3, <2>1 DEF Counted
  <2>4. HandedOff(f)'
    BY <1>3, <1>4, <2>1 DEF HandedOff
  <2>5. CooldownKept(f) /\ WindowCarried(f)
    BY <1>3, <1>4, <2>1 DEF CooldownKept, WindowCarried, Counted
  <2> QED BY <2>1, <2>2, <2>3, <2>4, <2>5 DEF GroupGood
<1> QED BY <1>5, <1>6

\* A fingerprint a step leaves alone.
LEMMA UntouchedIsGood ==
  ASSUME GroupsInv, NEW f \in Fingerprints,
         groups'[f] = groups[f], past'[f] = past[f], clock' = clock, NoNewTimes
  PROVE  GroupGood(f)
<1>1. groups[f] \in Group /\ past[f] \in History
  BY DEF GroupsInv, GroupsTypeOK
<1>2. Dated(f)'
  BY DEF GroupsInv, Dated, NoNewTimes
<1>3. Counted(f)' /\ HandedOff(f)'
  BY DEF GroupsInv, Counted, HandedOff, EveryCycleHandedOff
<1>4. CooldownKept(f) /\ WindowCarried(f)
  BY <1>1 DEF CooldownKept, WindowCarried, History
<1> QED BY <1>1, <1>2, <1>3, <1>4 DEF GroupGood

-----------------------------------------------------------------------------
(* The burst cap.                                                           *)

\* The cap's part of the type invariant, and its accounts.
CapInv ==
  /\ limiter \in [start : 0 .. MaxClock, count : 0 .. PerMinute, overflow : Nat]
  /\ burstSince \in 0 .. MaxClock
  /\ refusals \in [Times -> Nat] /\ reported \in [Times -> Nat]
  /\ InStep
  /\ RefusalsAccounted

\* Telling the refusals of the window that is open settles its account.
LEMMA ReportSettles ==
  ASSUME CapInv, NEW t \in Times, NEW force \in BOOLEAN, Harvests(burstSince, t, force),
         IF limiter.overflow > 0 THEN Report(burstSince, limiter.overflow) ELSE UNCHANGED reported
  PROVE  reported' = refusals
<1>1. burstSince \in Times /\ limiter.overflow \in Nat
  BY GroupBoundsAssumption DEF CapInv, Harvests, Times
<1>2. refusals \in [Times -> Nat] /\ reported \in [Times -> Nat]
  BY DEF CapInv
<1>3. \A w \in Times : refusals[w] = reported[w] + (IF w = burstSince THEN limiter.overflow ELSE 0)
  BY DEF CapInv, RefusalsAccounted
<1>4. reported' \in [Times -> Nat] /\ \A w \in Times : reported'[w] = refusals[w]
  <2>1. CASE limiter.overflow > 0
    BY <1>1, <1>2, <1>3, <2>1 DEF Report
  <2>2. CASE limiter.overflow = 0
    BY <1>1, <1>2, <1>3, <2>2
  <2> QED BY <1>1, <2>1, <2>2
<1> QED BY <1>2, <1>4
LimiterType == [start : 0 .. MaxClock, count : 0 .. PerMinute, overflow : Nat]

\* Limiter.Allow of a limiter l that is in step: it starts a window at t with
\* one alert, takes a token of the window it has, or counts a refusal there.
LEMMA AllowFacts ==
  ASSUME NEW l \in LimiterType, NEW t \in Times, NEW x, x = Allow(l, t)
  PROVE  /\ x \in LimiterType
         /\ \/ /\ Rolls(l.start, t) /\ Allowed(l, t)
               /\ x.start = t /\ x.overflow = l.overflow
            \/ /\ ~Rolls(l.start, t) /\ Allowed(l, t)
               /\ x.start = l.start /\ x.overflow = l.overflow
            \/ /\ ~Rolls(l.start, t) /\ ~Allowed(l, t)
               /\ x.start = l.start /\ x.overflow = l.overflow + 1
<1>1. /\ t \in 0 .. MaxClock /\ 1 \in 0 .. PerMinute /\ 0 \in 0 .. PerMinute
      /\ l.overflow + 1 \in Nat
  BY TimingAssumption, GroupBoundsAssumption DEF Times, LimiterType
<1>2. CASE Rolls(l.start, t)
  <2>1. Allowed(l, t)
    BY <1>2 DEF Allowed
  <2>2. PICK y : y = [l EXCEPT !.start = t, !.count = 0] /\ x = [y EXCEPT !.count = @ + 1]
    BY <1>2, <2>1 DEF Allow
  <2>3. /\ y \in LimiterType /\ y.start = t /\ y.count = 0 /\ y.overflow = l.overflow
    BY ONLY <1>1, <2>2, l \in LimiterType DEF LimiterType
  <2>5. x = [y EXCEPT !.count = 1]
    BY <2>2, <2>3
  <2>4. x \in LimiterType /\ x.start = t /\ x.overflow = l.overflow
    BY ONLY <1>1, <2>3, <2>5 DEF LimiterType
  <2> QED BY <1>2, <2>1, <2>4
<1>3. CASE ~Rolls(l.start, t) /\ Allowed(l, t)
  <2>1. x = [l EXCEPT !.count = l.count + 1]
    BY <1>3 DEF Allow
  <2>2. l.count + 1 \in 0 .. PerMinute
    BY <1>3, TimingAssumption DEF Allowed, LimiterType
  <2>3. x \in LimiterType /\ x.start = l.start /\ x.overflow = l.overflow
    BY ONLY <2>1, <2>2, l \in LimiterType DEF LimiterType
  <2> QED BY <1>3, <2>3
<1>4. CASE ~Rolls(l.start, t) /\ ~Allowed(l, t)
  <2>1. x = [l EXCEPT !.overflow = l.overflow + 1]
    BY <1>4 DEF Allow
  <2>2. x \in LimiterType /\ x.start = l.start /\ x.overflow = l.overflow + 1
    BY ONLY <1>1, <2>1, l \in LimiterType DEF LimiterType
  <2> QED BY <1>4, <2>2
<1> QED BY <1>2, <1>3, <1>4 DEF Allowed

\* An alert takes a token, or is refused in the window it falls in.
LEMMA AllowBurstKeeps ==
  ASSUME CapInv, NEW t \in Times, AllowBurst(t)
  PROVE  CapInv'
<1>1. /\ limiter \in LimiterType
      /\ burstSince \in 0 .. MaxClock
      /\ refusals \in [Times -> Nat] /\ reported \in [Times -> Nat]
      /\ burstSince = limiter.start /\ (burstSince = 0 => limiter.overflow = 0)
  BY DEF CapInv, InStep, LimiterType
<1>2. \A v \in Times :
        refusals[v] = reported[v] + (IF v = burstSince THEN limiter.overflow ELSE 0)
  BY DEF CapInv, RefusalsAccounted
<1>3. burstSince' = (IF Rolls(burstSince, t) THEN t ELSE burstSince) /\ HarvestOnRoll(t)
  BY DEF AllowBurst
<1>4. PICK l :
        /\ l = IF Harvests(burstSince, t, FALSE) THEN TakeOverflow(limiter) ELSE limiter
        /\ limiter' = Allow(l, t)
        /\ refusals' = [refusals EXCEPT ![limiter'.start] =
                          @ + (IF Allowed(l, t) THEN 0 ELSE 1)]
  BY DEF AllowBurst
<1>5. l \in LimiterType /\ l.start = burstSince
  BY <1>1, <1>4 DEF TakeOverflow, LimiterType
<1>6. t \in 0 .. MaxClock /\ t # 0
  BY GroupBoundsAssumption DEF Times
<1>7. CASE Rolls(burstSince, t)
  <2>1. reported' = refusals
    <3>1. CASE burstSince = 0
      <4>1. reported' = reported
        BY <1>3, <3>1 DEF HarvestOnRoll, Harvests
      <4>2. refusals = reported
        <5>1. \A v \in Times : refusals[v] = reported[v]
          BY ONLY <1>1, <1>2, <3>1
        <5> QED BY ONLY <1>1, <5>1
      <4> QED BY <4>1, <4>2
    <3>2. CASE burstSince # 0
      <4>1. Harvests(burstSince, t, FALSE)
        BY <1>7, <3>2 DEF Rolls, Harvests
      <4>2. IF limiter.overflow > 0 THEN Report(burstSince, limiter.overflow) ELSE UNCHANGED reported
        BY <1>3, <4>1 DEF HarvestOnRoll
      <4> QED BY <4>1, <4>2, ReportSettles
    <3> QED BY <3>1, <3>2
  <2>2. l.overflow = 0
    BY <1>1, <1>4, <1>7 DEF TakeOverflow, LimiterType, Rolls, Harvests
  <2>3. limiter' \in LimiterType /\ limiter'.start = t /\ limiter'.overflow = 0 /\ Allowed(l, t)
    BY <1>4, <1>5, <1>7, <2>2, AllowFacts
  <2>4. refusals' = [refusals EXCEPT ![t] = @ + 0]
    BY <1>4, <2>3
  <2>5. refusals' = refusals
    BY ONLY <1>1, <2>4
  <2>6. burstSince' = t
    BY <1>3, <1>7
  <2> QED BY <1>1, <1>6, <2>1, <2>3, <2>5, <2>6 DEF CapInv, InStep, RefusalsAccounted, LimiterType
<1>8. CASE ~Rolls(burstSince, t)
  <2>1. burstSince \in Times /\ ~Harvests(burstSince, t, FALSE)
    BY <1>1, <1>8, GroupBoundsAssumption DEF Rolls, Harvests, Times
  <2>2. l = limiter /\ reported' = reported /\ burstSince' = burstSince
    BY <1>3, <1>4, <1>8, <2>1 DEF HarvestOnRoll
  <2>3. PICK n \in {0, 1} :
          /\ limiter' \in LimiterType /\ limiter'.start = burstSince
          /\ limiter'.overflow = limiter.overflow + n
          /\ refusals' = [refusals EXCEPT ![burstSince] = @ + n]
    <3>1. CASE Allowed(l, t)
      <4>1. limiter' \in LimiterType /\ limiter'.start = burstSince
            /\ limiter'.overflow = limiter.overflow
        BY <1>4, <1>5, <1>8, <2>2, <3>1, AllowFacts
      <4>2. limiter'.overflow = limiter.overflow + 0
        BY ONLY <1>1, <4>1 DEF LimiterType
      <4>3. refusals' = [refusals EXCEPT ![burstSince] = @ + 0]
        BY <1>4, <3>1, <4>1
      <4> QED BY <4>1, <4>2, <4>3
    <3>2. CASE ~Allowed(l, t)
      <4>1. limiter' \in LimiterType /\ limiter'.start = burstSince
            /\ limiter'.overflow = limiter.overflow + 1
        BY <1>4, <1>5, <1>8, <2>2, <3>2, AllowFacts
      <4>2. refusals' = [refusals EXCEPT ![burstSince] = @ + 1]
        BY <1>4, <3>2, <4>1
      <4> QED BY <4>1, <4>2
    <3> QED BY <3>1, <3>2
  <2>4. /\ refusals' \in [Times -> Nat]
        /\ \A v \in Times : refusals'[v] = IF v = burstSince THEN refusals[v] + n ELSE refusals[v]
    BY ONLY <1>1, <2>1, <2>3
  <2>5. \A v \in Times :
          refusals'[v] = reported'[v] + (IF v = burstSince' THEN limiter'.overflow ELSE 0)
    BY ONLY <1>1, <1>2, <2>2, <2>3, <2>4 DEF LimiterType
  <2> QED BY <1>1, <2>1, <2>2, <2>3, <2>4, <2>5 DEF CapInv, InStep, RefusalsAccounted, LimiterType, Times
<1> QED BY <1>7, <1>8

\* Tick tells what a window that ended refused.
LEMMA TickHarvestKeeps ==
  ASSUME CapInv, NEW t \in Times, UNCHANGED <<burstSince, refusals>>,
         IF Harvests(burstSince, t, FALSE) /\ limiter.overflow > 0
           THEN Report(burstSince, limiter.overflow) /\ limiter' = TakeOverflow(limiter)
           ELSE UNCHANGED <<reported, limiter>>
  PROVE  CapInv'
<1>1. CASE Harvests(burstSince, t, FALSE) /\ limiter.overflow > 0
  <2>1. reported' = refusals
    BY <1>1, ReportSettles
  <2>2. limiter' = [limiter EXCEPT !.overflow = 0]
    BY <1>1 DEF TakeOverflow
  <2>3. /\ limiter' \in [start : 0 .. MaxClock, count : 0 .. PerMinute, overflow : Nat]
        /\ limiter'.start = limiter.start /\ limiter'.overflow = 0
    BY <2>2 DEF CapInv
  <2> QED BY <2>1, <2>3 DEF CapInv, InStep, RefusalsAccounted
<1>2. CASE ~(Harvests(burstSince, t, FALSE) /\ limiter.overflow > 0)
  BY <1>2 DEF CapInv, InStep, RefusalsAccounted
<1> QED BY <1>1, <1>2

\* A shutdown tells what the window it cuts short refused.
LEMMA RestartHarvestKeeps ==
  ASSUME CapInv, clock \in Times, limiter' = NewLimiter, burstSince' = 0, UNCHANGED refusals,
         IF Harvests(burstSince, clock, TRUE) /\ limiter.overflow > 0
           THEN Report(burstSince, limiter.overflow)
           ELSE UNCHANGED reported
  PROVE  CapInv'
<1>1. reported' = refusals
  <2>1. CASE burstSince = 0
    <3>1. reported' = reported
      BY <2>1 DEF Harvests
    <3>2. /\ refusals \in [Times -> Nat] /\ reported \in [Times -> Nat]
          /\ \A v \in Times : refusals[v] = reported[v]
      BY <2>1 DEF CapInv, RefusalsAccounted, InStep
    <3> QED BY <3>1, <3>2
  <2>2. CASE burstSince # 0
    <3>1. Harvests(burstSince, clock, TRUE)
      BY <2>2 DEF Harvests
    <3> QED BY <3>1, ReportSettles
  <2> QED BY <2>1, <2>2
<1>2. /\ limiter' \in [start : 0 .. MaxClock, count : 0 .. PerMinute, overflow : Nat]
      /\ limiter'.start = 0 /\ limiter'.overflow = 0
  BY TimingAssumption, GroupBoundsAssumption DEF NewLimiter
<1>3. 0 \in 0 .. MaxClock
  BY GroupBoundsAssumption
<1> QED BY <1>1, <1>2, <1>3 DEF CapInv, InStep, RefusalsAccounted

-----------------------------------------------------------------------------
(* The steps.                                                               *)

\* What a step has to establish.
StepGood == GroupsInv' /\ \A f \in Fingerprints : CooldownKept(f) /\ WindowCarried(f)

GroupsAreFunctions ==
  /\ groups = [f \in Fingerprints |-> groups[f]]
  /\ past = [f \in Fingerprints |-> past[f]]

CountersTyped ==
  /\ clock \in Times
  /\ ingesting \in SUBSET [fingerprint : Fingerprints, at : Times]
  /\ ticking \in SUBSET [at : Times, flushed : BOOLEAN]
  /\ errors \in 0 .. MaxErrors /\ restarts \in 0 .. MaxRestarts


\* The invariant in parts, and from its parts.
LEMMA Parts == GroupsInv => GroupsAreFunctions /\ CountersTyped /\ CapInv
<1> SUFFICES ASSUME GroupsInv
             PROVE  GroupsAreFunctions /\ CountersTyped /\ CapInv
  OBVIOUS
<1>1. GroupsAreFunctions
  BY DEF GroupsInv, GroupsTypeOK, GroupsAreFunctions
<1>2. CountersTyped
  BY DEF GroupsInv, GroupsTypeOK, CountersTyped
<1>3. CapInv
  BY DEF GroupsInv, GroupsTypeOK, CapInv
<1> QED BY <1>1, <1>2, <1>3

LEMMA Assembled ==
  ASSUME GroupsAreFunctions', CountersTyped', CapInv', ReadersAreFresh',
         \A f \in Fingerprints : GroupGood(f)
  PROVE  StepGood
<1>1. groups' \in [Fingerprints -> Group] /\ past' \in [Fingerprints -> History]
  BY DEF GroupsAreFunctions, GroupGood
<1>2. GroupsTypeOK'
  BY <1>1 DEF GroupsTypeOK, CountersTyped, CapInv
<1>3. EveryCycleHandedOff'
  BY DEF GroupGood, HandedOff, EveryCycleHandedOff
<1>4. \A f \in Fingerprints : Dated(f)' /\ Counted(f)'
  BY DEF GroupGood
<1>5. GroupsInv'
  BY <1>2, <1>3, <1>4 DEF GroupsInv, CapInv
<1> QED BY <1>5 DEF StepGood, GroupGood

\* A step that leaves the clock and takes no new time from it.
LEMMA StillFresh ==
  ASSUME ReadersAreFresh, NoNewTimes, clock' = clock
  PROVE  ReadersAreFresh'
BY DEF ReadersAreFresh, NoNewTimes, Fresh

\* absorb of one error with a time a goroutine holds.
LEMMA AbsorbKeeps ==
  ASSUME GroupsInv, NEW f \in Fingerprints, NEW t, \E k \in Readers : k.at = t,
         Absorb(f, t), clock' = clock, NoNewTimes
  PROVE  GroupsAreFunctions' /\ CapInv' /\ \A e \in Fingerprints : GroupGood(e)
<1>1. GroupsAreFunctions /\ CountersTyped /\ CapInv
  BY Parts
<1>2. t \in Times
  BY <1>1 DEF Readers, CountersTyped
<1>3. /\ groups' = [groups EXCEPT ![f] = Observe(groups[f], t)]
      /\ past' = [past EXCEPT ![f] = AfterObserve(past[f], groups[f], t)]
      /\ IF Alerts(groups[f], t)
           THEN AllowBurst(t)
           ELSE UNCHANGED <<limiter, burstSince, refusals, reported>>
  BY DEF Absorb
<1>4. /\ DOMAIN groups = Fingerprints /\ DOMAIN past = Fingerprints
  BY <1>1 DEF GroupsAreFunctions
<1>5. GroupsAreFunctions'
  BY <1>1, <1>3 DEF GroupsAreFunctions
<1>6. CapInv'
  <2>1. CASE Alerts(groups[f], t)
    BY <1>1, <1>2, <1>3, <2>1, AllowBurstKeeps
  <2>2. CASE ~Alerts(groups[f], t)
    BY <1>1, <1>3, <2>2 DEF CapInv, InStep, RefusalsAccounted
  <2> QED BY <2>1, <2>2
<1>7. ASSUME NEW e \in Fingerprints
      PROVE  GroupGood(e)
  <2>1. CASE e = f
    <3>1. groups'[f] = Observe(groups[f], t) /\ past'[f] = AfterObserve(past[f], groups[f], t)
      BY <1>1, <1>3 DEF GroupsAreFunctions
    <3> QED BY <2>1, <3>1, ObservedIsGood
  <2>2. CASE e # f
    <3>1. groups'[e] = groups[e] /\ past'[e] = past[e]
      BY <1>1, <1>3, <2>2 DEF GroupsAreFunctions
    <3> QED BY <3>1, UntouchedIsGood
  <2> QED BY <2>1, <2>2
<1> QED BY <1>5, <1>6, <1>7

LEMMA IngestStep ==
  ASSUME GroupsInv, Ingest
  PROVE  StepGood
<1>1. GroupsAreFunctions /\ CountersTyped /\ CapInv
  BY Parts
<1>2. PICK i \in ingesting : Absorb(i.fingerprint, i.at)
  BY DEF Ingest
<1>3. /\ ingesting' = {}
      /\ clock' = clock /\ ticking' = ticking /\ errors' = errors /\ restarts' = restarts
  BY DEF Ingest
<1>4. NoNewTimes
  BY <1>3 DEF NoNewTimes, Readers
<1>5. GroupsAreFunctions' /\ CapInv' /\ \A e \in Fingerprints : GroupGood(e)
  <2>1. i.fingerprint \in Fingerprints /\ i \in Readers
    BY <1>1, <1>2 DEF CountersTyped, Readers
  <2> QED BY <1>2, <1>3, <1>4, <2>1, AbsorbKeeps
<1>6. CountersTyped'
  BY <1>1, <1>3 DEF CountersTyped
<1>7. ReadersAreFresh'
  BY <1>3, <1>4, StillFresh DEF GroupsInv
<1> QED BY <1>5, <1>6, <1>7, Assembled

LEMMA TickFlushesStep ==
  ASSUME GroupsInv, NEW f \in Fingerprints, TickFlushes(f)
  PROVE  StepGood
<1>1. GroupsAreFunctions /\ CountersTyped /\ CapInv
  BY Parts
<1>2. PICK k \in ticking : Absorb(f, k.at) /\ ticking' = {[k EXCEPT !.flushed = TRUE]}
  BY DEF TickFlushes
<1>3. /\ errors < MaxErrors /\ errors' = errors + 1
      /\ clock' = clock /\ ingesting' = ingesting /\ restarts' = restarts
  BY DEF TickFlushes
<1>4. [k EXCEPT !.flushed = TRUE] \in [at : Times, flushed : BOOLEAN]
      /\ [k EXCEPT !.flushed = TRUE].at = k.at
  BY <1>1 DEF CountersTyped
<1>5. NoNewTimes
  BY <1>2, <1>3, <1>4 DEF NoNewTimes, Readers
<1>6. GroupsAreFunctions' /\ CapInv' /\ \A e \in Fingerprints : GroupGood(e)
  BY <1>2, <1>3, <1>5, AbsorbKeeps DEF Readers
<1>7. CountersTyped'
  BY <1>1, <1>2, <1>3, <1>4, GroupBoundsAssumption DEF CountersTyped
<1>8. ReadersAreFresh'
  BY <1>3, <1>5, StillFresh DEF GroupsInv
<1> QED BY <1>6, <1>7, <1>8, Assembled

\* A step that leaves the groups, the cap and the clock.
LEMMA GroupsAloneStep ==
  ASSUME GroupsInv, UNCHANGED <<clock, groups, limiter, burstSince, past, refusals, reported>>,
         CountersTyped', ReadersAreFresh',
         \A r \in Readers' : r.at = clock \/ \E q \in Readers : r.at = q.at
  PROVE  StepGood
<1>1. GroupsAreFunctions /\ CapInv
  BY Parts
<1>2. GroupsAreFunctions' /\ CapInv'
  BY <1>1 DEF GroupsAreFunctions, CapInv, InStep, RefusalsAccounted
<1>3. ASSUME NEW f \in Fingerprints
      PROVE  GroupGood(f)
  <2>1. groups'[f] \in Group /\ past'[f] \in History
    BY DEF GroupsInv, GroupsTypeOK
  <2>2. Dated(f)'
    BY DEF GroupsInv, Dated
  <2>3. Counted(f)' /\ HandedOff(f)'
    BY DEF GroupsInv, Counted, HandedOff, EveryCycleHandedOff
  <2>4. CooldownKept(f) /\ WindowCarried(f)
    BY <2>1 DEF CooldownKept, WindowCarried, History
  <2> QED BY <2>1, <2>2, <2>3, <2>4 DEF GroupGood
<1> QED BY <1>2, <1>3, Assembled

LEMMA IngestReadsStep ==
  ASSUME GroupsInv, NEW f \in Fingerprints, IngestReads(f)
  PROVE  StepGood
<1>1. CountersTyped
  BY Parts
<1>2. /\ ingesting' = {[fingerprint |-> f, at |-> clock]} /\ ticking' = ticking
      /\ errors < MaxErrors /\ errors' = errors + 1 /\ restarts' = restarts
      /\ UNCHANGED <<clock, groups, limiter, burstSince, past, refusals, reported>>
  BY DEF IngestReads
<1>3. CountersTyped'
  BY <1>1, <1>2, GroupBoundsAssumption DEF CountersTyped
<1>4. \A r \in Readers' : r.at = clock \/ \E q \in Readers : r.at = q.at
  BY <1>2 DEF Readers
<1>5. ReadersAreFresh'
  BY <1>1, <1>2, <1>4, TimingAssumption, GroupBoundsAssumption
     DEF GroupsInv, ReadersAreFresh, Fresh, CountersTyped, Times
<1> QED BY <1>2, <1>3, <1>4, <1>5, GroupsAloneStep

LEMMA TickReadsStep ==
  ASSUME GroupsInv, TickReads
  PROVE  StepGood
<1>1. CountersTyped
  BY Parts
<1>2. /\ ticking' = {[at |-> clock, flushed |-> FALSE]} /\ ingesting' = ingesting
      /\ errors' = errors /\ restarts' = restarts
      /\ UNCHANGED <<clock, groups, limiter, burstSince, past, refusals, reported>>
  BY DEF TickReads
<1>3. CountersTyped'
  BY <1>1, <1>2 DEF CountersTyped
<1>4. \A r \in Readers' : r.at = clock \/ \E q \in Readers : r.at = q.at
  BY <1>2 DEF Readers
<1>5. ReadersAreFresh'
  BY <1>1, <1>2, <1>4, TimingAssumption, GroupBoundsAssumption
     DEF GroupsInv, ReadersAreFresh, Fresh, CountersTyped, Times
<1> QED BY <1>2, <1>3, <1>4, <1>5, GroupsAloneStep

\* Time passes: what a goroutine holds stays fresh, what ended has ended.
LEMMA AdvanceStep ==
  ASSUME GroupsInv, Advance
  PROVE  StepGood
<1>1. GroupsAreFunctions /\ CountersTyped /\ CapInv
  BY Parts
<1>2. /\ clock < MaxClock /\ clock' = clock + 1
      /\ \A r \in Readers : clock < r.at + MaxLag
      /\ Readers' = Readers
      /\ UNCHANGED <<groups, limiter, burstSince, ingesting, ticking, errors, restarts,
                     past, refusals, reported>>
  BY DEF Advance, Readers
<1>3. clock \in Nat /\ MaxLag \in Nat /\ clock' \in Times
  BY <1>1, <1>2, TimingAssumption, GroupBoundsAssumption DEF CountersTyped, Times
<1>4. GroupsAreFunctions' /\ CapInv' /\ CountersTyped'
  BY <1>1, <1>2, <1>3 DEF GroupsAreFunctions, CapInv, InStep, RefusalsAccounted, CountersTyped
<1>5. ReadersAreFresh'
  BY <1>2, <1>3 DEF GroupsInv, ReadersAreFresh, Fresh
<1>6. ASSUME NEW f \in Fingerprints
      PROVE  GroupGood(f)
  <2>1. /\ groups'[f] = groups[f] /\ past'[f] = past[f]
        /\ groups[f] \in Group /\ past[f] \in History
    BY <1>2 DEF GroupsInv, GroupsTypeOK
  <2>2. past[f].alerted \in Nat /\ Window \in Nat /\ Cooldown \in Nat
    BY <2>1, TimingAssumption, GroupBoundsAssumption DEF History
  <2>3. Dated(f)'
    <3>1. Dated(f)
      BY DEF GroupsInv
    <3> QED BY <1>2, <1>3, <2>2, <3>1 DEF Dated
  <2>4. Counted(f)' /\ HandedOff(f)'
    BY <1>2 DEF GroupsInv, Counted, HandedOff, EveryCycleHandedOff
  <2>5. CooldownKept(f) /\ WindowCarried(f)
    BY <2>1 DEF CooldownKept, WindowCarried, History
  <2> QED BY <2>1, <2>3, <2>4, <2>5 DEF GroupGood
<1> QED BY <1>4, <1>5, <1>6, Assembled

\* tick closes a window with what it counted, and drops a group only when no
\* goroutine holds a time at which its cooldown ran: the retention covers the
\* lag of the last occurrence and that of the reader.
LEMMA TickedIsGood ==
  ASSUME GroupsInv, NEW f \in Fingerprints, NEW t, \E k \in Readers : k.at = t,
         NEW c, c = (IF Due(groups[f], t) THEN Close(groups[f]) ELSE groups[f]),
         groups'[f] = (IF Idle(c, t) THEN NoGroup ELSE c),
         past'[f] = (IF Due(groups[f], t) THEN AfterClose(past[f], groups[f]) ELSE past[f]),
         clock' = clock, NoNewTimes
  PROVE  GroupGood(f)
<1>1. /\ groups[f] \in Group /\ past[f] \in History /\ clock \in Times
      /\ Dated(f) /\ Counted(f) /\ HandedOff(f)
  BY DEF GroupsInv, GroupsTypeOK, HandedOff, EveryCycleHandedOff
<1>2. /\ t \in 1 .. clock /\ clock \in Nat /\ MaxLag \in Nat
      /\ \A r \in Readers' : \E q \in Readers : r.at = q.at /\ clock <= q.at + MaxLag /\ q.at \in Nat
  BY <1>1, TimingAssumption, GroupBoundsAssumption
     DEF GroupsInv, ReadersAreFresh, Fresh, Times, NoNewTimes
<1>3. /\ past[f].handoffs \in Nat /\ past[f].cycles \in Nat /\ past[f].retries \in Nat
      /\ past[f].alerted \in Nat /\ groups[f].count \in Nat
      /\ groups[f].first \in Nat /\ groups[f].last \in Nat
  BY <1>1 DEF History, Group
<1>4. /\ c \in Group /\ c.first = groups[f].first /\ c.last = groups[f].last
      /\ c.count = groups[f].count
      /\ past'[f] \in History /\ past'[f].alerted = past[f].alerted
      /\ past'[f].cycles = past[f].cycles /\ past'[f].retries = past[f].retries
      /\ past'[f].retried = past[f].retried /\ past'[f].inWindow = past[f].inWindow
      /\ \/ /\ groups[f].state = "open" /\ c.state = "handed"
            /\ past'[f].handoffs = past[f].handoffs + 1
            /\ past'[f].carried = groups[f].count
         \/ /\ c.state = groups[f].state /\ past'[f].handoffs = past[f].handoffs
  <2>1. CASE Due(groups[f], t)
    <3>1. c = [groups[f] EXCEPT !.state = "handed"] /\ groups[f].state = "open"
      BY <2>1 DEF Close, Due
    <3>2. past'[f] = [past[f] EXCEPT !.handoffs = past[f].handoffs + 1,
                                     !.carried = groups[f].count]
      BY <2>1 DEF AfterClose
    <3>3. past[f].handoffs + 1 \in Nat
      BY <1>3
    <3>4. /\ c \in Group /\ c.first = groups[f].first /\ c.last = groups[f].last
          /\ c.count = groups[f].count /\ c.state = "handed"
      BY ONLY <1>1, <3>1 DEF Group
    <3>5. /\ past'[f] \in History /\ past'[f].alerted = past[f].alerted
          /\ past'[f].cycles = past[f].cycles /\ past'[f].retries = past[f].retries
          /\ past'[f].retried = past[f].retried /\ past'[f].inWindow = past[f].inWindow
          /\ past'[f].handoffs = past[f].handoffs + 1 /\ past'[f].carried = groups[f].count
      BY ONLY <1>1, <1>3, <3>2, <3>3 DEF History
    <3> QED BY <3>1, <3>4, <3>5
  <2>2. CASE ~Due(groups[f], t)
    BY <1>1, <2>2
  <2> QED BY <2>1, <2>2
<1>5. CooldownKept(f) /\ WindowCarried(f)
  BY <1>1, <1>3, <1>4 DEF CooldownKept, WindowCarried, Counted
<1>6. CASE Idle(c, t)
  <2>1. groups'[f].state = "none" /\ groups'[f] \in Group
    BY <1>6, GroupBoundsAssumption DEF NoGroup, Group
  <2>2. c.state = "handed" /\ groups[f].last + Retention < t
    BY <1>4, <1>6 DEF Idle
  <2>3. past[f].alerted + Window + Cooldown + MaxLag <= clock
    <3>1. past[f].alerted <= groups[f].last + MaxLag
      BY <1>1, <1>4, <2>2 DEF Dated
    <3> QED BY <1>2, <1>3, <2>2, <3>1, TimingAssumption
  <2>4. Dated(f)'
    BY <1>2, <1>3, <1>4, <2>1, <2>3, TimingAssumption DEF Dated
  <2>5. Counted(f)' /\ HandedOff(f)'
    BY <1>1, <1>3, <1>4, <2>1, <2>2 DEF Counted, HandedOff
  <2> QED BY <1>4, <1>5, <2>1, <2>4, <2>5 DEF GroupGood
<1>7. CASE ~Idle(c, t)
  <2>1. groups'[f] = c
    BY <1>7
  <2>2. Dated(f)'
    <3>1. \A r \in Readers' : \E q \in Readers : r.at = q.at
      BY DEF NoNewTimes
    <3> QED BY <1>1, <1>4, <2>1, <3>1 DEF Dated
  <2>3. Counted(f)' /\ HandedOff(f)'
    BY <1>1, <1>3, <1>4, <2>1 DEF Counted, HandedOff
  <2> QED BY <1>4, <1>5, <2>1, <2>2, <2>3 DEF GroupGood
<1> QED BY <1>6, <1>7

LEMMA TickStep ==
  ASSUME GroupsInv, Tick
  PROVE  StepGood
<1>1. GroupsAreFunctions /\ CountersTyped /\ CapInv
  BY Parts
<1>2. PICK k \in ticking :
        /\ groups' = [f \in Fingerprints |->
             IF Idle(IF Due(groups[f], k.at) THEN Close(groups[f]) ELSE groups[f], k.at)
               THEN NoGroup
               ELSE IF Due(groups[f], k.at) THEN Close(groups[f]) ELSE groups[f]]
        /\ past' = [f \in Fingerprints |->
             IF Due(groups[f], k.at) THEN AfterClose(past[f], groups[f]) ELSE past[f]]
        /\ IF Harvests(burstSince, k.at, FALSE) /\ limiter.overflow > 0
             THEN Report(burstSince, limiter.overflow) /\ limiter' = TakeOverflow(limiter)
             ELSE UNCHANGED <<reported, limiter>>
  BY DEF Tick
<1>3. /\ ticking' = {} /\ ingesting' = ingesting
      /\ UNCHANGED <<clock, burstSince, errors, restarts, refusals>>
  BY DEF Tick
<1>4. NoNewTimes
  BY <1>3 DEF NoNewTimes, Readers
<1>5. GroupsAreFunctions' /\ CountersTyped'
  BY <1>1, <1>2, <1>3 DEF GroupsAreFunctions, CountersTyped
<1>6. CapInv'
  <2>1. k.at \in Times
    BY <1>1 DEF CountersTyped
  <2> QED BY <1>1, <1>2, <1>3, <2>1, TickHarvestKeeps
<1>7. ReadersAreFresh'
  BY <1>3, <1>4, StillFresh DEF GroupsInv
<1>8. ASSUME NEW f \in Fingerprints
      PROVE  GroupGood(f)
  <2>1. PICK c : c = IF Due(groups[f], k.at) THEN Close(groups[f]) ELSE groups[f]
    OBVIOUS
  <2>2. /\ groups'[f] = (IF Idle(c, k.at) THEN NoGroup ELSE c)
        /\ past'[f] = (IF Due(groups[f], k.at) THEN AfterClose(past[f], groups[f]) ELSE past[f])
    BY <1>2, <2>1
  <2>3. \E q \in Readers : q.at = k.at
    BY DEF Readers
  <2> QED BY <1>3, <1>4, <2>1, <2>2, <2>3, TickedIsGood
<1> QED BY <1>5, <1>6, <1>7, <1>8, Assembled

\* A restart opens the groups whose handoff the shutdown left undecided.
LEMMA RestartedIsGood ==
  ASSUME GroupsInv, NEW f \in Fingerprints, groups[f].state = "handed",
         groups'[f] = [groups[f] EXCEPT !.state = "open"],
         past'[f] = [past[f] EXCEPT !.retries = @ + 1, !.retried = TRUE],
         clock' = clock
  PROVE  GroupGood(f)
<1>1. /\ groups[f] \in Group /\ past[f] \in History /\ groups[f].state = "handed"
      /\ groups'[f] = [groups[f] EXCEPT !.state = "open"]
      /\ past'[f] = [past[f] EXCEPT !.retries = past[f].retries + 1, !.retried = TRUE]
      /\ Dated(f) /\ HandedOff(f)
  BY DEF GroupsInv, GroupsTypeOK, HandedOff, EveryCycleHandedOff
<1>2. past[f].retries + 1 \in Nat /\ past[f].cycles \in Nat /\ past[f].retries \in Nat
      /\ past[f].handoffs \in Nat
  BY <1>1 DEF History
<1>3. /\ groups'[f] \in Group /\ groups'[f].state = "open"
      /\ groups'[f].first = groups[f].first /\ groups'[f].last = groups[f].last
  BY ONLY <1>1 DEF Group
<1>4. /\ past'[f] \in History /\ past'[f].alerted = past[f].alerted /\ past'[f].retried
      /\ past'[f].cycles = past[f].cycles /\ past'[f].retries = past[f].retries + 1
      /\ past'[f].handoffs = past[f].handoffs
  BY ONLY <1>1, <1>2 DEF History
<1>5. Dated(f)' /\ Counted(f)'
  BY <1>1, <1>3, <1>4 DEF Dated, Counted
<1>6. HandedOff(f)'
  BY <1>1, <1>2, <1>3, <1>4 DEF HandedOff
<1>7. CooldownKept(f) /\ WindowCarried(f)
  BY <1>2, <1>4 DEF CooldownKept, WindowCarried
<1> QED BY <1>3, <1>4, <1>5, <1>6, <1>7 DEF GroupGood

LEMMA RestartStep ==
  ASSUME GroupsInv, Restart
  PROVE  StepGood
<1>1. GroupsAreFunctions /\ CountersTyped /\ CapInv
  BY Parts
<1>2. PICK undecided \in SUBSET {f \in Fingerprints : groups[f].state = "handed"} :
        /\ groups' = [f \in Fingerprints |->
             IF f \in undecided THEN [groups[f] EXCEPT !.state = "open"] ELSE groups[f]]
        /\ past' = [f \in Fingerprints |->
             IF f \in undecided
               THEN [past[f] EXCEPT !.retries = @ + 1, !.retried = TRUE]
               ELSE past[f]]
  BY DEF Restart
<1>3. /\ restarts < MaxRestarts /\ restarts' = restarts + 1
      /\ ingesting' = {} /\ ticking' = {} /\ errors' = errors /\ clock' = clock
  BY DEF Restart
<1>4. NoNewTimes
  BY <1>3 DEF NoNewTimes, Readers
<1>5. GroupsAreFunctions' /\ CountersTyped'
  <2>1. GroupsAreFunctions'
    BY <1>2 DEF GroupsAreFunctions
  <2>2. CountersTyped'
    BY <1>1, <1>3, GroupBoundsAssumption DEF CountersTyped
  <2> QED BY <2>1, <2>2
<1>6. CapInv'
  BY <1>1, RestartHarvestKeeps DEF Restart, CountersTyped
<1>7. ReadersAreFresh'
  BY <1>3, <1>4, StillFresh DEF GroupsInv
<1>8. ASSUME NEW f \in Fingerprints
      PROVE  GroupGood(f)
  <2>1. CASE f \in undecided
    BY <1>2, <1>3, <2>1, RestartedIsGood
  <2>2. CASE f \notin undecided
    BY <1>2, <1>3, <1>4, <2>2, UntouchedIsGood
  <2> QED BY <2>1, <2>2
<1> QED BY <1>5, <1>6, <1>7, <1>8, Assembled

-----------------------------------------------------------------------------
(* The theorems.                                                            *)

LEMMA InitGood == GroupsInit => GroupsInv
<1> SUFFICES ASSUME GroupsInit
             PROVE  GroupsInv
  OBVIOUS
<1> USE TimingAssumption, GroupBoundsAssumption
<1>1. NoGroup \in Group /\ NoPast \in History
  BY DEF NoGroup, Group, NoPast, History
<1>2. CapInv
  BY DEF GroupsInit, NewLimiter, CapInv, InStep, RefusalsAccounted
<1>3. CountersTyped
  BY DEF GroupsInit, CountersTyped, Times
<1>4. GroupsTypeOK
  BY <1>1, <1>2, <1>3 DEF GroupsInit, GroupsTypeOK, CapInv, CountersTyped
<1>5. ASSUME NEW f \in Fingerprints
      PROVE  Dated(f) /\ Counted(f) /\ HandedOff(f)
  <2>1. /\ groups[f].state = "none" /\ past[f].alerted = 0
        /\ past[f].handoffs = 0 /\ past[f].cycles = 0 /\ past[f].retries = 0
    BY DEF GroupsInit, NoGroup, NoPast
  <2>2. ~(past[f].alerted > 0) /\ HandedOff(f)
    BY <2>1 DEF HandedOff
  <2> QED BY <2>1, <2>2 DEF Dated, Counted
<1>6. EveryCycleHandedOff
  BY <1>5 DEF EveryCycleHandedOff, HandedOff
<1>7. ReadersAreFresh
  BY DEF GroupsInit, ReadersAreFresh, Readers
<1> QED BY <1>2, <1>4, <1>5, <1>6, <1>7 DEF GroupsInv, CapInv

LEMMA StepsAreGood ==
  ASSUME GroupsInv, [GroupsNext]_groupsVars
  PROVE  StepGood
<1>1. CASE GroupsNext
  BY <1>1, AdvanceStep, TickReadsStep, IngestStep, TickStep, RestartStep,
     IngestReadsStep, TickFlushesStep DEF GroupsNext
<1>2. CASE UNCHANGED groupsVars
  <2>1. CountersTyped
    BY Parts
  <2>2. UNCHANGED <<clock, groups, limiter, burstSince, ingesting, ticking, errors, restarts,
                    past, refusals, reported>>
    BY <1>2 DEF groupsVars
  <2>3. CountersTyped' /\ ReadersAreFresh' /\ Readers' = Readers
    BY <2>1, <2>2 DEF CountersTyped, GroupsInv, ReadersAreFresh, Readers, Fresh
  <2> QED BY <2>2, <2>3, GroupsAloneStep
<1> QED BY <1>1, <1>2

LEMMA GroupsInvariant == GroupsSpec => []GroupsInv
<1>1. GroupsInv /\ [GroupsNext]_groupsVars => GroupsInv'
  BY StepsAreGood DEF StepGood
<1> QED BY <1>1, InitGood, PTL DEF GroupsSpec

\* The state of the error groups and of the burst cap keeps its types, and a
\* burst window never grants more than the cap (Limiter.Allow, queue.go).
THEOREM GroupsTyped == GroupsSpec => []GroupsTypeOK
<1>1. GroupsInv => GroupsTypeOK
  BY DEF GroupsInv
<1> QED BY <1>1, GroupsInvariant, PTL

\* Every cycle is handed off exactly once, and again only after a restart that
\* saved it undecided, whichever of Observe and Tick closes it (group.go).
THEOREM CyclesAreHandedOff == GroupsSpec => []EveryCycleHandedOff
<1>1. GroupsInv => EveryCycleHandedOff
  BY DEF GroupsInv
<1> QED BY <1>1, GroupsInvariant, PTL

\* No refused alert is lost or told for another burst window, whichever of
\* allowBurst, tick and shutdown takes it (detector.go).
THEOREM RefusalsAreTold == GroupsSpec => []RefusalsAccounted
<1>1. GroupsInv => RefusalsAccounted
  BY DEF GroupsInv
<1> QED BY <1>1, GroupsInvariant, PTL

\* No fingerprint alerts twice within a window and cooldown, also when a
\* retention drop, a restart or a goroutine with an older time comes between.
THEOREM AlertsRespectCooldown == GroupsSpec => CooldownHolds
<1>1. GroupsInv /\ [GroupsNext]_groupsVars =>
        [\A f \in Fingerprints :
           past[f].alerted > 0 /\ past'[f].alerted # past[f].alerted =>
             past'[f].alerted >= past[f].alerted + Window + Cooldown]_groupsVars
  BY StepsAreGood DEF StepGood, CooldownKept
<1> QED BY <1>1, GroupsInvariant, PTL DEF GroupsSpec, CooldownHolds

\* The first handoff of a cycle carries what was counted in its window, whoever
\* closes it and however late (Observe, Tick in group.go).
THEOREM HandoffsCarryTheWindow == GroupsSpec => HandoffIsTheWindow
<1>1. GroupsInv /\ [GroupsNext]_groupsVars =>
        [\A f \in Fingerprints :
           past'[f].handoffs > past[f].handoffs /\ ~past[f].retried =>
             past'[f].carried = past[f].inWindow]_groupsVars
  BY StepsAreGood DEF StepGood, WindowCarried
<1> QED BY <1>1, GroupsInvariant, PTL DEF GroupsSpec, HandoffIsTheWindow
=============================================================================
