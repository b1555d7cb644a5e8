------------------------- MODULE RecordStreamProofs -------------------------
(***************************************************************************)
(* The promises of the record stream, for every set of keys, all delays    *)
(* and any number of records, failures and restarts: no error behind the   *)
(* cursor is forgotten, the state file is one moment of the detector, and  *)
(* a tail that keeps up loses no line of a stack.                          *)
(***************************************************************************)
EXTENDS RecordStream, FiniteSetTheorems, SequenceTheorems, TLAPS

-----------------------------------------------------------------------------
(* The inductive invariant.                                                 *)

Record == [at : 1 .. clock, kind : Kinds, key : Keys]

\* The store keeps the log in time order.
InTimeOrder == \A i, j \in Logged : i < j => log[i].at <= log[j].at

ClockAndLog ==
  /\ clock \in 1 .. MaxClock
  /\ log \in Seq(Record) /\ Len(log) <= MaxRecords
  /\ InTimeOrder

Controls ==
  /\ ends \in 0 .. MaxEnds /\ starts \in 0 .. MaxStarts
  /\ up \in BOOLEAN /\ ctxDone \in BOOLEAN
  /\ run \in RunStages

\* collect never points past the end of the log.
Reading ==
  /\ collector \in Collecting
  /\ since \in 0 .. clock /\ next \in 1 .. MaxRecords + 1 /\ upto \in 0 .. MaxRecords
  /\ upto <= Len(log)
  /\ collector \in {"reading", "tailing"} => next <= Len(log) + 1
  /\ collector = "idle" => upto = 0

Crashes == [sig : {0} \union Ids, last : 0 .. clock, count : 0 .. MaxLines - 1]
Flushes == [last : 0 .. clock, live : BOOLEAN]
Cuts == [gap : Int, live : BOOLEAN]

\* An open crash has a signature, so that no two states of a key look the same.
Assembly ==
  /\ open \in [Keys -> Crashes]
  /\ \A k \in Keys : open[k] # Closed => open[k].sig \in Ids
  /\ groups \in SUBSET Ids
  /\ flushed \in [Keys -> Flushes]
  /\ cut \in SUBSET Cuts
  /\ TailKeepsStacks

Saved == [cursor : 0 .. clock, groups : SUBSET Ids, opened : SUBSET Ids]

\* No snapshot is older than the file or newer than the cursor.
Saves ==
  /\ cursor \in 0 .. clock
  /\ \A s \in snap \union {file} :
       s \in Saved /\ file.cursor <= s.cursor /\ s.cursor <= cursor

\* What the tail has yet to deliver is no older than its offset and its lag,
\* and while something reads, a crash that silence ended is older than that.
InTime ==
  /\ collector = "tailing" =>
       \A i \in Logged : next <= i => clock <= log[i].at + TailOffset + MaxTailLag
  /\ collector # "done" =>
       \A k \in Keys : flushed[k].live => flushed[k].last + CrashSilence + TailOffset <= clock

\* What became of an error: counted, in a stack that is read, or given up.
Handled == groups \union Opened \union skipped \union unsaved

\* Everything before the place of collect is handled, in each of its stages.
ReadSoFar ==
  /\ collector \in {"reading", "tailing"} =>
       \A i \in Logged : IsError(i) /\ i < next => i \in Handled
  /\ collector = "reading" => \A i \in Logged : log[i].at < since => i <= upto
  /\ collector = "connecting" =>
       \A i \in Logged : IsError(i) /\ (log[i].at < since \/ i <= upto) => i \in Handled

\* A snapshot, like the file, is one moment of the detector.
Moment(s) ==
  \A i \in Logged : IsError(i) /\ log[i].at < s.cursor =>
    i \in s.groups \union s.opened \union skipped \union unsaved

Known ==
  /\ ReadSoFar
  /\ ErrorsBehindCursor
  /\ \A s \in snap \union {file} : Moment(s)

StreamInv ==
  ClockAndLog /\ Controls /\ Reading /\ Assembly /\ Saves /\ InTime /\ Known

-----------------------------------------------------------------------------
(* The log.                                                                 *)

LEMMA LogFacts ==
  ASSUME ClockAndLog
  PROVE  /\ Len(log) \in Nat /\ Logged = 1 .. Len(log) /\ Logged \subseteq Ids
         /\ \A i \in Logged : /\ log[i] \in Record /\ log[i].at \in 1 .. clock
                              /\ log[i].key \in Keys /\ i \in Nat
         /\ clock \in Nat
<1>1. log \in Seq(Record) /\ Len(log) <= MaxRecords /\ clock \in Nat
  BY StreamBoundsAssumption DEF ClockAndLog
<1>2. Len(log) \in Nat /\ Logged = 1 .. Len(log)
  BY <1>1, LenProperties DEF Logged
<1>3. \A i \in Logged : log[i] \in Record
  BY <1>1, <1>2, ElementOfSeq
<1>4. \A i \in Logged : log[i].at \in 1 .. clock /\ log[i].key \in Keys
  BY <1>3 DEF Record
<1> QED BY <1>1, <1>2, <1>3, <1>4, StreamBoundsAssumption DEF Ids

LEMMA FirstOnes ==
  ASSUME NEW n \in Nat
  PROVE  IsFiniteSet(1 .. n) /\ Cardinality(1 .. n) = n
<1>1. /\ IsFiniteSet(1 .. n)
      /\ Cardinality(1 .. n) = IF 1 > n THEN 0 ELSE n - 1 + 1
  BY FS_Interval
<1> QED BY <1>1

\* In a log in time order, the records before an instant are its first ones.
LEMMA BeforeFacts ==
  ASSUME ClockAndLog, NEW t \in Int
  PROVE  /\ Before(t) \in 0 .. Len(log)
         /\ \A i \in Logged : i <= Before(t) <=> log[i].at < t
<1> DEFINE S == {i \in Logged : log[i].at < t}
<1>1. /\ Len(log) \in Nat /\ Logged = 1 .. Len(log)
      /\ \A i \in Logged : log[i].at \in Nat /\ i \in Nat
  BY LogFacts
<1>2. /\ IsFiniteSet(S) /\ Cardinality(S) <= Len(log) /\ Cardinality(S) \in Nat
  <2>1. IsFiniteSet(Logged) /\ Cardinality(Logged) = Len(log)
    BY <1>1, FirstOnes
  <2>2. S \in SUBSET Logged
    OBVIOUS
  <2>3. IsFiniteSet(S) /\ Cardinality(S) <= Cardinality(Logged)
    BY <2>1, <2>2, FS_Subset
  <2> QED BY <2>1, <2>3, FS_CardinalityType
<1>3. Before(t) = Cardinality(S)
  BY DEF Before
<1>4. \A i, j \in Logged : i <= j => log[i].at <= log[j].at
  BY <1>1 DEF ClockAndLog, InTimeOrder
<1>5. ASSUME NEW i \in Logged
      PROVE  i <= Cardinality(S) <=> log[i].at < t
  <2>1. CASE log[i].at < t
    <3>1. (1 .. i) \in SUBSET S
      BY <1>1, <1>4, <2>1
    <3>2. Cardinality(1 .. i) <= Cardinality(S)
      BY <1>2, <3>1, FS_Subset
    <3>3. Cardinality(1 .. i) = i
      BY <1>1, FirstOnes
    <3> QED BY <2>1, <3>2, <3>3
  <2>2. CASE ~(log[i].at < t)
    <3>1. S \in SUBSET (1 .. i - 1)
      BY <1>1, <1>4, <2>2
    <3>2. IsFiniteSet(1 .. i - 1) /\ Cardinality(1 .. i - 1) = i - 1
      <4>1. i - 1 \in Nat
        BY <1>1
      <4> QED BY <4>1, FirstOnes
    <3>3. Cardinality(S) <= i - 1
      BY <3>1, <3>2, FS_Subset
    <3> QED BY <1>1, <1>2, <2>2, <3>3
  <2> QED BY <2>1, <2>2
<1> HIDE DEF S
<1> QED BY <1>1, <1>2, <1>3, <1>5

\* The signatures of the open crashes, key by key.
LEMMA OpenedIs == \A i : i \in Opened <=> \E k \in Keys : open[k] # Closed /\ open[k].sig = i
BY DEF Opened

-----------------------------------------------------------------------------
(* The assembler.                                                           *)

Counted == groups \union Opened

\* What silence ended is older than the offset of the tail.
FlushedInTime ==
  \A k \in Keys : flushed[k].live => flushed[k].last + CrashSilence + TailOffset <= clock

LEMMA ClosedFacts ==
  ASSUME ClockAndLog
  PROVE  /\ Closed \in Crashes /\ Closed.sig \notin Ids
         /\ NotFlushed \in Flushes /\ ~NotFlushed.live
<1>1. 0 \in 0 .. MaxLines - 1 /\ 0 \in 0 .. clock
  BY LogFacts, StreamAssumption
<1> QED BY <1>1 DEF Closed, NotFlushed, Crashes, Flushes, Ids

\* A plain line joins the open crash of its key, or is dropped; a line dropped
\* behind a crash that silence ended is as late as the tail allows.
LEMMA FeedPlainKeeps ==
  ASSUME ClockAndLog, Assembly, FlushedInTime, NEW i \in Logged, NEW tailed \in BOOLEAN,
         tailed => clock <= log[i].at + TailOffset + MaxTailLag,
         FeedPlain(i, tailed), UNCHANGED storeVars
  PROVE  Assembly' /\ Counted \subseteq Counted' /\ FlushedInTime'
<1> DEFINE key == log[i].key
           before == flushed[key]
<1>1. /\ key \in Keys /\ log[i].at \in 1 .. clock /\ clock \in Nat
      /\ clock' = clock /\ log' = log
  BY LogFacts DEF storeVars
<1>2. /\ open \in [Keys -> Crashes] /\ groups \in SUBSET Ids
      /\ \A k \in Keys : open[k] # Closed => open[k].sig \in Ids
      /\ flushed \in [Keys -> Flushes] /\ cut \in SUBSET Cuts
      /\ \A c \in cut : c.live => c.gap + MaxTailLag >= CrashSilence
  BY DEF Assembly, TailKeepsStacks
<1>3. before \in Flushes
  BY <1>1, <1>2
<1>6. Crashes' = Crashes /\ Flushes' = Flushes
  BY <1>1 DEF Crashes, Flushes
<1>4. CASE open[key] = Closed
  <2>1. /\ flushed' = [flushed EXCEPT ![key] = NotFlushed]
        /\ UNCHANGED <<open, groups, live>>
        /\ \/ cut' = cut
           \/ cut' = cut \union {[gap |-> log[i].at - before.last, live |-> before.live /\ tailed]}
    BY <1>4 DEF FeedPlain
  <2>2. flushed' \in [Keys -> Flushes] /\ FlushedInTime'
    BY <1>1, <1>2, <2>1, ClosedFacts DEF FlushedInTime
  <2>3. /\ cut' \in SUBSET Cuts
        /\ \A c \in cut' : c.live => c.gap + MaxTailLag >= CrashSilence
    <3>1. PICK c : c = [gap |-> log[i].at - before.last, live |-> before.live /\ tailed]
      OBVIOUS
    <3>2. log[i].at - before.last \in Int
      BY <1>1, <1>3 DEF Flushes
    <3>3. c \in Cuts
      BY <3>1, <3>2 DEF Cuts
    <3>4. ASSUME c.live
          PROVE  c.gap + MaxTailLag >= CrashSilence
      <4>1. before.live /\ tailed /\ c.gap = log[i].at - before.last
        BY <3>1, <3>4
      <4>2. before.last + CrashSilence + TailOffset <= clock
        BY <1>1, <4>1 DEF FlushedInTime
      <4>3. clock <= log[i].at + TailOffset + MaxTailLag
        BY <4>1
      <4>4. before.last \in Nat
        BY <1>1, <1>3 DEF Flushes
      <4> HIDE DEF before
      <4> QED BY <1>1, <4>1, <4>2, <4>3, <4>4, StreamAssumption
    <3> QED BY <1>2, <2>1, <3>1, <3>3, <3>4
  <2>4. Counted' = Counted
    BY <2>1 DEF Counted, Opened
  <2>5. Assembly'
    BY <1>2, <1>6, <2>1, <2>2, <2>3 DEF Assembly, TailKeepsStacks
  <2> QED BY <2>2, <2>4, <2>5
<1>5. CASE open[key] # Closed
  <2>1. PICK c : /\ c = [open[key] EXCEPT !.count = @ + 1, !.last = log[i].at]
                 /\ open' = [open EXCEPT ![key] = IF Full(c) THEN Closed ELSE c]
                 /\ groups' = IF Full(c) THEN groups \union {open[key].sig} ELSE groups
                 /\ UNCHANGED <<flushed, cut>>
    BY <1>5 DEF FeedPlain, Close
  <2>2. open[key] \in Crashes /\ open[key].sig \in Ids
    BY <1>1, <1>2, <1>5
  <2>3. c.sig = open[key].sig /\ (~Full(c) => c \in Crashes)
    <3>1. open[key].count + 1 \in Nat /\ log[i].at \in 0 .. clock
      BY <1>1, <2>2 DEF Crashes
    <3>2. c.sig = open[key].sig /\ c.count = open[key].count + 1 /\ c.last = log[i].at
      BY <2>1, <2>2 DEF Crashes
    <3>3. ASSUME ~Full(c) PROVE c.count \in 0 .. MaxLines - 1
      BY <3>1, <3>2, <3>3, StreamAssumption DEF Full
    <3>4. c = [open[key] EXCEPT !.count = c.count, !.last = c.last]
      BY <2>1, <3>2
    <3> QED BY ONLY <2>2, <3>1, <3>2, <3>3, <3>4 DEF Crashes
  <2>4. c # Closed
    BY <1>1, <2>2, <2>3, ClosedFacts
  <2>5. /\ open' \in [Keys -> Crashes] /\ groups' \in SUBSET Ids
        /\ \A k \in Keys : open'[k] # Closed => open'[k].sig \in Ids
    BY <1>1, <1>2, <2>1, <2>2, <2>3, ClosedFacts
  <2>6. Assembly'
    BY <1>2, <1>6, <2>1, <2>5 DEF Assembly, TailKeepsStacks
  <2>7. Counted \subseteq Counted'
    <3> SUFFICES ASSUME NEW e \in Opened
                 PROVE  e \in groups' \union Opened'
      BY <2>1 DEF Counted
    <3>1. PICK k \in Keys : open[k] # Closed /\ open[k].sig = e
      BY OpenedIs
    <3>2. CASE k = key /\ Full(c)
      BY <2>1, <3>1, <3>2
    <3>3. CASE k = key /\ ~Full(c)
      <4>1. open'[k] = c
        BY <1>1, <1>2, <2>1, <3>3
      <4> QED BY <2>3, <2>4, <3>1, <3>3, <4>1 DEF Opened
    <3>4. CASE k # key
      <4>1. open'[k] = open[k]
        BY <1>1, <1>2, <2>1, <3>1, <3>4
      <4> QED BY <3>1, <4>1 DEF Opened
    <3> QED BY <3>2, <3>3, <3>4
  <2> QED BY <1>1, <2>1, <2>6, <2>7 DEF FlushedInTime
<1> QED BY <1>4, <1>5

\* close of a key, which counts its open crash.
LEMMA CloseFacts ==
  ASSUME Assembly, NEW k \in Keys
  PROVE  /\ Close(k) \in SUBSET Ids
         /\ open[k] # Closed => Close(k) = {open[k].sig}
BY DEF Assembly, Close

\* Any other line counts the open crash of its key, and itself if it is an
\* error, as an event or as the signature of the crash it opens.
LEMMA FeedOtherKeeps ==
  ASSUME ClockAndLog, Assembly, FlushedInTime, NEW i \in Logged, NEW tailed \in BOOLEAN,
         FeedOther(i, tailed), UNCHANGED storeVars
  PROVE  Assembly' /\ Counted \subseteq Counted' /\ FlushedInTime'
         /\ (IsError(i) => i \in Counted')
<1> DEFINE key == log[i].key
           new == [sig |-> i, last |-> log[i].at, count |-> 0]
<1>1. /\ key \in Keys /\ log[i].at \in 1 .. clock /\ clock \in Nat /\ i \in Ids
      /\ clock' = clock /\ log' = log
  BY LogFacts DEF storeVars
<1>2. /\ open \in [Keys -> Crashes] /\ groups \in SUBSET Ids
      /\ \A k \in Keys : open[k] # Closed => open[k].sig \in Ids
      /\ flushed \in [Keys -> Flushes] /\ cut \in SUBSET Cuts
      /\ \A c \in cut : c.live => c.gap + MaxTailLag >= CrashSilence
  BY DEF Assembly, TailKeepsStacks
<1>3. Crashes' = Crashes /\ Flushes' = Flushes
  BY <1>1 DEF Crashes, Flushes
<1>4. new \in Crashes /\ new.sig = i /\ new # Closed
  <2>1. 0 \in 0 .. MaxLines - 1 /\ log[i].at \in 0 .. clock
    BY <1>1, StreamAssumption
  <2> QED BY <1>1, <2>1, ClosedFacts DEF Crashes
<1>5. /\ open' = [open EXCEPT ![key] = IF log[i].kind = "start" THEN new ELSE Closed]
      /\ groups' = groups \union Close(key) \union (IF log[i].kind = "error" THEN {i} ELSE {})
      /\ flushed' = [flushed EXCEPT ![key] = NotFlushed]
      /\ cut' = cut
  BY DEF FeedOther
<1> HIDE DEF new
<1>6. flushed' \in [Keys -> Flushes] /\ FlushedInTime'
  BY <1>1, <1>2, <1>5, ClosedFacts DEF FlushedInTime
<1>7. /\ open' \in [Keys -> Crashes] /\ groups' \in SUBSET Ids
      /\ \A k \in Keys : open'[k] # Closed => open'[k].sig \in Ids
  BY <1>1, <1>2, <1>4, <1>5, ClosedFacts, CloseFacts
<1>8. Assembly'
  BY <1>2, <1>3, <1>5, <1>6, <1>7 DEF Assembly, TailKeepsStacks
<1>9. Counted \subseteq Counted'
  <2> SUFFICES ASSUME NEW e \in Opened
               PROVE  e \in groups' \union Opened'
    BY <1>5 DEF Counted
  <2>1. PICK k \in Keys : open[k] # Closed /\ open[k].sig = e
    BY OpenedIs
  <2>2. CASE k = key
    <3>1. Close(key) = {e}
      BY <2>1, <2>2, CloseFacts
    <3> QED BY <1>5, <3>1
  <2>3. CASE k # key
    <3>1. open'[k] = open[k]
      BY <1>1, <1>2, <1>5, <2>1, <2>3
    <3> QED BY <2>1, <3>1 DEF Opened
  <2> QED BY <2>2, <2>3
<1>10. ASSUME IsError(i) PROVE i \in Counted'
  <2>1. CASE log[i].kind = "start"
    <3>1. open'[key] = new
      BY <1>1, <1>2, <1>5, <2>1
    <3> QED BY <1>1, <1>4, <3>1 DEF Counted, Opened
  <2>2. CASE log[i].kind = "error"
    BY <1>5, <2>2 DEF Counted
  <2> QED BY <1>10, <2>1, <2>2 DEF IsError
<1> QED BY <1>6, <1>8, <1>9, <1>10

\* ingest: nothing counted or open is lost, and an error is one of both.
LEMMA IngestKeeps ==
  ASSUME ClockAndLog, Assembly, FlushedInTime, NEW i \in Logged, NEW tailed \in BOOLEAN,
         tailed => clock <= log[i].at + TailOffset + MaxTailLag,
         Ingest(i, tailed), UNCHANGED storeVars
  PROVE  Assembly' /\ Counted \subseteq Counted' /\ FlushedInTime'
         /\ (IsError(i) => i \in Counted')
         /\ cursor' = (IF log[i].at > cursor THEN log[i].at ELSE cursor)
<1>1. cursor' = (IF log[i].at > cursor THEN log[i].at ELSE cursor)
  BY DEF Ingest, CursorMoves
<1>2. CASE log[i].kind = "plain"
  <2>1. ~IsError(i)
    BY <1>2 DEF IsError
  <2>2. FeedPlain(i, tailed)
    BY <1>2 DEF Ingest
  <2> QED BY <1>1, <2>1, <2>2, FeedPlainKeeps
<1>3. CASE log[i].kind # "plain"
  <2>1. FeedOther(i, tailed)
    BY <1>3 DEF Ingest
  <2> QED BY <1>1, <2>1, FeedOtherKeeps
<1> QED BY <1>2, <1>3

\* Flush counts the crashes it closes; with the watermark of tick what it
\* closes is older than what the tail delivers.
LEMMA FlushKeeps ==
  ASSUME ClockAndLog, Assembly, NEW t \in Int, Flush(t), UNCHANGED storeVars
  PROVE  /\ Assembly' /\ Counted \subseteq Counted'
         /\ FlushedInTime /\ t + TailOffset <= clock => FlushedInTime'
<1>1. /\ open' = [k \in Keys |-> IF k \in Silent(t) THEN Closed ELSE open[k]]
      /\ groups' = groups \union UNION {Close(k) : k \in Silent(t)}
      /\ flushed' = [k \in Keys |->
           IF k \in Silent(t) THEN [last |-> open[k].last, live |-> k \in live] ELSE flushed[k]]
      /\ cut' = cut
      /\ clock' = clock
  BY DEF Flush, storeVars
<1>2. /\ open \in [Keys -> Crashes] /\ groups \in SUBSET Ids
      /\ \A k \in Keys : open[k] # Closed => open[k].sig \in Ids
      /\ flushed \in [Keys -> Flushes] /\ cut \in SUBSET Cuts
      /\ \A c \in cut : c.live => c.gap + MaxTailLag >= CrashSilence
  BY DEF Assembly, TailKeepsStacks
<1>3. Crashes' = Crashes /\ Flushes' = Flushes
  BY <1>1 DEF Crashes, Flushes
<1>4. \A k \in Silent(t) : k \in Keys /\ open[k] # Closed /\ open[k].last <= t - CrashSilence
  BY DEF Silent
<1>5. \A k \in Keys : open[k].last \in 0 .. clock
  BY <1>2 DEF Crashes
<1>6. groups' \in SUBSET Ids
  BY <1>1, <1>2, <1>4, CloseFacts
<1>7. /\ open' \in [Keys -> Crashes]
      /\ \A k \in Keys : open'[k] # Closed => open'[k].sig \in Ids
  BY <1>1, <1>2, ClosedFacts
<1>8. flushed' \in [Keys -> Flushes]
  <2> SUFFICES ASSUME NEW k \in Keys
               PROVE  flushed'[k] \in Flushes
    BY <1>1
  <2>1. CASE k \in Silent(t)
    BY <1>1, <1>5, <2>1 DEF Flushes
  <2>2. CASE k \notin Silent(t)
    BY <1>1, <1>2, <2>2
  <2> QED BY <2>1, <2>2
<1>9. Assembly'
  BY <1>1, <1>2, <1>3, <1>6, <1>7, <1>8 DEF Assembly, TailKeepsStacks
<1>10. Counted \subseteq Counted'
  <2> SUFFICES ASSUME NEW e \in Opened
               PROVE  e \in groups' \union Opened'
    BY <1>1 DEF Counted
  <2>1. PICK k \in Keys : open[k] # Closed /\ open[k].sig = e
    BY OpenedIs
  <2>2. CASE k \in Silent(t)
    <3>1. Close(k) = {e}
      BY <2>1, CloseFacts
    <3> QED BY <1>1, <2>2, <3>1
  <2>3. CASE k \notin Silent(t)
    <3>1. open'[k] = open[k]
      BY <1>1, <2>3
    <3> QED BY <2>1, <3>1 DEF Opened
  <2> QED BY <2>2, <2>3
<1>11. ASSUME FlushedInTime, t + TailOffset <= clock
       PROVE  FlushedInTime'
  <2> SUFFICES ASSUME NEW k \in Keys, flushed'[k].live
               PROVE  flushed'[k].last + CrashSilence + TailOffset <= clock
    BY <1>1 DEF FlushedInTime
  <2>1. CASE k \in Silent(t)
    <3>1. flushed'[k].last = open[k].last /\ open[k].last <= t - CrashSilence
      BY <1>1, <1>4, <2>1
    <3>2. clock \in Nat
      BY LogFacts
    <3> QED BY <1>5, <1>11, <3>1, <3>2, StreamAssumption
  <2>2. CASE k \notin Silent(t)
    BY <1>1, <1>11, <2>2 DEF FlushedInTime
  <2> QED BY <2>1, <2>2
<1> QED BY <1>9, <1>10, <1>11

-----------------------------------------------------------------------------
(* The steps. What most of them leave alone.                                *)

LEMMA StoreStays == ClockAndLog /\ UNCHANGED storeVars => ClockAndLog'
BY DEF storeVars, ClockAndLog, Record, InTimeOrder, Logged

LEMMA AssemblyStays ==
  Assembly /\ UNCHANGED <<clock, open, groups, flushed, cut>> =>
    Assembly' /\ Counted' = Counted /\ (FlushedInTime => FlushedInTime')
BY DEF Assembly, Crashes, Flushes, TailKeepsStacks, Counted, Opened, FlushedInTime

\* What is given up or handled only grows, so a moment stays one.
LEMMA MomentStays ==
  ASSUME NEW s, Moment(s), log' = log, skipped \subseteq skipped', unsaved \subseteq unsaved'
  PROVE  \A i \in Logged' : IsError(i)' /\ log'[i].at < s.cursor =>
           i \in s.groups \union s.opened \union skipped' \union unsaved'
BY DEF Moment, Logged, IsError

\* A process that starts from a state s of the file or a snapshot: what is
\* behind its cursor was counted, or was open and is no more.
LEMMA FromStateKeeps ==
  ASSUME StreamInv, NEW s \in snap \union {file}, FromState(s), file' = s,
         UNCHANGED <<storeVars, skipped, cut>>, unsaved \subseteq unsaved',
         up' => \A i \in s.opened : i \in Logged /\ log[i].at < s.cursor => i \in unsaved',
         up' \in BOOLEAN, ends' \in 0 .. MaxEnds, starts' \in 0 .. MaxStarts
  PROVE  StreamInv'
<1>1. /\ ClockAndLog /\ Assembly /\ s \in Saved /\ Moment(s)
  BY DEF StreamInv, Saves, Known
<1>2. /\ clock' = clock /\ log' = log /\ clock \in Nat /\ s.cursor \in 0 .. clock
      /\ Len(log) \in Nat /\ Logged' = Logged /\ \A i \in Logged : log[i].at \in Nat
  BY <1>1, LogFacts DEF storeVars, Saved, Logged
<1>3. /\ ctxDone' = FALSE
      /\ collector' = "idle" /\ since' = 0 /\ next' = 1 /\ upto' = 0
      /\ cursor' = s.cursor /\ groups' = s.groups
      /\ open' = [k \in Keys |-> Closed]
      /\ flushed' = [k \in Keys |-> NotFlushed]
      /\ run' = "select" /\ snap' = {} /\ file' = s
      /\ skipped' = skipped /\ cut' = cut
  BY DEF FromState
<1>4. ClockAndLog'
  BY <1>1, StoreStays
<1>5. Controls'
  BY <1>3 DEF Controls, RunStages
<1>6. Reading'
  <2>1. 0 \in 0 .. clock' /\ 1 \in 1 .. MaxRecords + 1 /\ 0 \in 0 .. MaxRecords /\ 0 <= Len(log')
    BY <1>2, StreamBoundsAssumption
  <2> QED BY <1>3, <2>1 DEF Reading, Collecting
<1>7. Assembly'
  <2>1. Crashes' = Crashes /\ Flushes' = Flushes
    BY <1>2 DEF Crashes, Flushes
  <2>2. open' \in [Keys -> Crashes] /\ \A k \in Keys : open'[k] = Closed
    BY <1>1, <1>3, ClosedFacts
  <2>3. flushed' \in [Keys -> Flushes] /\ groups' \in SUBSET Ids
    BY <1>1, <1>3, ClosedFacts DEF Saved
  <2> QED BY <1>1, <1>3, <2>1, <2>2, <2>3 DEF Assembly, TailKeepsStacks
<1>8. Saves'
  BY <1>1, <1>2, <1>3 DEF Saves, Saved
<1>9. InTime'
  <2>1. \A k \in Keys : ~flushed'[k].live
    BY <1>1, <1>3, ClosedFacts
  <2> QED BY <1>3, <2>1 DEF InTime
<1>10. Known'
  <2>1. ReadSoFar'
    BY <1>3 DEF ReadSoFar
  <2>2. \A q \in (snap \union {file})' : Moment(q)'
    BY <1>1, <1>2, <1>3, MomentStays DEF Moment, IsError
  <2>3. ErrorsBehindCursor'
    <3> SUFFICES ASSUME up', NEW i \in Logged, IsError(i), log[i].at < s.cursor
                 PROVE  i \in groups' \union skipped' \union unsaved'
      BY <1>2, <1>3 DEF ErrorsBehindCursor, IsError
    <3>1. i \in s.groups \union s.opened \union skipped \union unsaved
      BY <1>1 DEF Moment
    <3> QED BY <1>3, <3>1
  <2> QED BY <2>1, <2>2, <2>3 DEF Known
<1> QED BY <1>4, <1>5, <1>6, <1>7, <1>8, <1>9, <1>10 DEF StreamInv

\* A step of collect that reads no record.
LEMMA CollectKeeps ==
  ASSUME StreamInv,
         UNCHANGED <<storeVars, starts, cursor, open, groups, flushed, cut, loopVars,
                     processVars, file, unsaved>>,
         skipped \subseteq skipped', ends' \in 0 .. MaxEnds,
         Reading', ReadSoFar', InTime'
  PROVE  StreamInv'
<1>1. /\ ClockAndLog /\ Assembly /\ Saves /\ Known /\ Controls
  BY DEF StreamInv
<1>2. /\ clock' = clock /\ log' = log /\ Logged' = Logged /\ up' = up /\ cursor' = cursor
      /\ file' = file /\ snap' = snap /\ unsaved' = unsaved
  BY DEF storeVars, processVars, loopVars, Logged
<1>3. ClockAndLog'
  BY <1>1, StoreStays
<1>4. Assembly' /\ Counted' = Counted
  BY <1>1, <1>2, AssemblyStays
<1>5. Controls'
  BY <1>1 DEF Controls, loopVars, processVars
<1>6. Saves'
  BY <1>1, <1>2 DEF Saves, Saved
<1>7. Known'
  <2>1. \A q \in (snap \union {file})' : Moment(q)'
    BY <1>1, <1>2, MomentStays DEF Moment, IsError, Known
  <2>2. ErrorsBehindCursor'
    BY <1>1, <1>2, <1>4 DEF ErrorsBehindCursor, IsError, Known, Counted
  <2> QED BY <2>1, <2>2 DEF Known
<1> QED BY <1>3, <1>4, <1>5, <1>6, <1>7 DEF StreamInv

\* A new line has the time of the clock, and neither the cursor nor a catch-up
\* is beyond that.
LEMMA WriteStep ==
  ASSUME StreamInv, Write
  PROVE  StreamInv'
<1>1. /\ ClockAndLog /\ Controls /\ Reading /\ Assembly /\ Saves /\ InTime /\ Known
  BY DEF StreamInv
<1>2. PICK r \in [at : {clock}, kind : Kinds, key : Keys] : log' = Append(log, r)
  BY DEF Write
<1>3. /\ Len(log) < MaxRecords
      /\ UNCHANGED <<clock, boundVars, readVars, cursor, assemblyVars, loopVars,
                     processVars, file, skipped, unsaved>>
  BY DEF Write
<1>4. /\ Len(log) \in Nat /\ Logged = 1 .. Len(log) /\ clock \in 1 .. MaxClock /\ clock \in Nat
      /\ log \in Seq(Record) /\ \A i \in Logged : log[i].at \in 1 .. clock
  BY <1>1, LogFacts DEF ClockAndLog
<1>5. r \in Record /\ r.at = clock
  <2>1. clock \in 1 .. clock
    BY <1>4
  <2> QED BY <2>1 DEF Record
<1>6. /\ log' \in Seq(Record) /\ Len(log') = Len(log) + 1 /\ Logged' = 1 .. Len(log) + 1
      /\ \A i \in Logged : log'[i] = log[i]
      /\ log'[Len(log) + 1] = r
  <2>1. /\ log' \in Seq(Record) /\ Len(log') = Len(log) + 1
        /\ \A i \in 1 .. Len(log) : log'[i] = log[i]
        /\ log'[Len(log) + 1] = r
    BY <1>2, <1>4, <1>5, AppendProperties
  <2>2. DOMAIN log' = 1 .. Len(log')
    BY <2>1, LenProperties
  <2> QED BY <1>4, <2>1, <2>2 DEF Logged
<1>7. \A i \in Logged' : (i \in Logged /\ log'[i] = log[i]) \/ (i = Len(log) + 1 /\ log'[i].at = clock)
  BY <1>4, <1>5, <1>6
<1>8. ClockAndLog'
  <2>1. InTimeOrder'
    <3> SUFFICES ASSUME NEW i \in Logged', NEW j \in Logged', i < j
                 PROVE  log'[i].at <= log'[j].at
      BY DEF InTimeOrder
    <3>1. i \in Logged /\ log'[i] = log[i]
      BY <1>4, <1>6
    <3>2. CASE j \in Logged
      BY <1>1, <1>6, <3>1, <3>2 DEF ClockAndLog, InTimeOrder
    <3>3. CASE j \notin Logged
      BY <1>4, <1>7, <3>1, <3>3
    <3> QED BY <3>2, <3>3
  <2>2. Record' = Record
    BY <1>3 DEF Record
  <2>3. Len(log') <= MaxRecords
    BY <1>3, <1>4, <1>6, StreamBoundsAssumption
  <2> QED BY <1>3, <1>4, <1>6, <2>1, <2>2, <2>3 DEF ClockAndLog
<1>9. Controls'
  BY <1>1, <1>3 DEF Controls, boundVars, loopVars, processVars
<1>10. Reading'
  BY <1>1, <1>3, <1>4, <1>6, StreamBoundsAssumption DEF Reading, readVars
<1>11. Assembly' /\ Counted' = Counted /\ Handled' = Handled
  <2>1. Assembly' /\ Counted' = Counted
    BY <1>1, <1>3, AssemblyStays DEF assemblyVars
  <2> QED BY <1>3, <2>1 DEF Counted, Handled
<1>12. Saves'
  BY <1>1, <1>3 DEF Saves, Saved, loopVars
<1>13. InTime'
  <2>1. ASSUME collector' = "tailing", NEW i \in Logged', next' <= i
        PROVE  clock' <= log'[i].at + TailOffset + MaxTailLag
    <3>1. CASE i \in Logged
      BY <1>1, <1>3, <1>6, <2>1, <3>1 DEF InTime, readVars
    <3>2. CASE i \notin Logged
      BY <1>3, <1>4, <1>7, <3>2, StreamAssumption
    <3> QED BY <3>1, <3>2
  <2> QED BY <1>1, <1>3, <2>1 DEF InTime, readVars, assemblyVars
<1>14. Known'
  <2>1. \A i \in Logged' : i \notin Logged =>
          /\ \A t \in 0 .. clock : ~(log'[i].at < t)
          /\ ~(i <= Len(log))
    BY <1>4, <1>7
  <2>2. \A i \in Logged' : i \in Logged => log'[i] = log[i] /\ (IsError(i)' <=> IsError(i))
    BY <1>6 DEF IsError
  <2>3. cursor \in 0 .. clock /\ \A s \in snap \union {file} : s.cursor \in 0 .. clock
    BY <1>1 DEF Saves, Saved
  <2>4. ErrorsBehindCursor'
    <3>1. up' = up /\ cursor' = cursor
      BY <1>3 DEF processVars
    <3>2. \A i \in Logged : up /\ IsError(i) /\ log[i].at < cursor => i \in Handled
      BY <1>1 DEF Known, ErrorsBehindCursor, Handled
    <3>3. \A i \in Logged' : up' /\ IsError(i)' /\ log'[i].at < cursor' => i \in Handled'
      BY <1>11, <2>1, <2>2, <2>3, <3>1, <3>2
    <3> QED BY <3>3 DEF ErrorsBehindCursor, Handled
  <2>5. ASSUME NEW s \in (snap \union {file})'
        PROVE  Moment(s)'
    <3>1. s \in snap \union {file} /\ skipped' = skipped /\ unsaved' = unsaved
      BY <1>3 DEF loopVars
    <3> QED BY <1>1, <2>1, <2>2, <2>3, <3>1 DEF Known, Moment
  <2>6. ReadSoFar'
    <3>1. /\ collector' = collector /\ since' = since /\ next' = next /\ upto' = upto
          /\ since \in 0 .. clock /\ upto <= Len(log) /\ upto \in Nat /\ next \in Nat
          /\ (collector \in {"reading", "tailing"} => next <= Len(log) + 1)
      BY <1>1, <1>3, StreamBoundsAssumption DEF Reading, readVars
    <3>2. ReadSoFar
      BY <1>1 DEF Known
    <3>3. ASSUME collector \in {"reading", "tailing"}, NEW i \in Logged', IsError(i)', i < next
          PROVE  i \in Handled'
      <4>1. i \in Logged
        BY <1>4, <1>6, <3>1, <3>3
      <4> QED BY <1>11, <2>2, <3>2, <3>3, <4>1 DEF ReadSoFar
    <3>4. ASSUME collector = "reading", NEW i \in Logged', log'[i].at < since
          PROVE  i <= upto
      BY <2>1, <2>2, <3>1, <3>2, <3>4 DEF ReadSoFar
    <3>5. ASSUME collector = "connecting", NEW i \in Logged', IsError(i)',
                 log'[i].at < since \/ i <= upto
          PROVE  i \in Handled'
      <4>1. i \in Logged
        BY <1>4, <1>6, <2>1, <3>1, <3>5
      <4> QED BY <1>11, <2>2, <3>2, <3>5, <4>1 DEF ReadSoFar
    <3> QED BY <3>1, <3>3, <3>4, <3>5 DEF ReadSoFar
  <2> QED BY <2>4, <2>5, <2>6 DEF Known
<1> QED BY <1>8, <1>9, <1>10, <1>11, <1>12, <1>13, <1>14 DEF StreamInv

\* Time passes, and an open tail has delivered what it could in time.
LEMMA AdvanceStep ==
  ASSUME StreamInv, Advance
  PROVE  StreamInv'
<1>1. /\ ClockAndLog /\ Controls /\ Reading /\ Assembly /\ Saves /\ InTime /\ Known
  BY DEF StreamInv
<1>2. /\ clock < MaxClock /\ clock' = clock + 1 /\ log' = log
      /\ collector = "tailing" /\ next \in Logged =>
           clock < log[next].at + TailOffset + MaxTailLag
      /\ UNCHANGED <<boundVars, readVars, cursor, assemblyVars, loopVars, processVars,
                     file, skipped, unsaved>>
  BY DEF Advance
<1>3. /\ clock \in Nat /\ clock \in 1 .. MaxClock /\ clock' \in 1 .. MaxClock
      /\ log \in Seq(Record) /\ Len(log) \in Nat
      /\ Logged = 1 .. Len(log) /\ Logged' = Logged
      /\ \A i \in Logged : log[i].at \in 1 .. clock
  BY <1>1, <1>2, LogFacts, StreamBoundsAssumption DEF ClockAndLog, Logged
<1>4. ClockAndLog'
  <2>1. Record \subseteq Record'
    BY <1>2, <1>3 DEF Record
  <2>2. log' \in Seq(Record')
    BY <1>2, <1>3, <2>1, SeqMonotonic
  <2>3. InTimeOrder'
    BY <1>1, <1>2, <1>3 DEF ClockAndLog, InTimeOrder
  <2> QED BY <1>1, <1>2, <1>3, <2>2, <2>3 DEF ClockAndLog
<1>5. Controls'
  BY <1>1, <1>2 DEF Controls, boundVars, loopVars, processVars
<1>6. Reading'
  BY <1>1, <1>2, <1>3 DEF Reading, readVars
<1>7. Assembly'
  <2>1. Crashes \subseteq Crashes' /\ Flushes \subseteq Flushes'
    BY <1>2, <1>3 DEF Crashes, Flushes
  <2>2. UNCHANGED <<open, groups, flushed, cut>>
    BY <1>2 DEF assemblyVars
  <2> QED BY <1>1, <2>1, <2>2 DEF Assembly, TailKeepsStacks
<1>8. Saves'
  <2>1. Saved \subseteq Saved'
    BY <1>2, <1>3 DEF Saved
  <2> QED BY <1>1, <1>2, <1>3, <2>1 DEF Saves, loopVars
<1>9. InTime'
  <2>1. collector' = collector /\ next' = next /\ flushed' = flushed /\ next \in Nat
    BY <1>1, <1>2, StreamBoundsAssumption DEF readVars, assemblyVars, Reading
  <2>2. ASSUME collector = "tailing", NEW i \in Logged, next <= i
        PROVE  clock' <= log[i].at + TailOffset + MaxTailLag
    <3>1. next \in Logged /\ log[next].at <= log[i].at
      <4>1. next \in Logged
        BY <1>1, <1>3, <2>1, <2>2 DEF Reading
      <4>2. next = i \/ next < i
        BY <1>3, <2>1, <2>2
      <4> QED BY <1>1, <1>3, <4>1, <4>2 DEF ClockAndLog, InTimeOrder
    <3>2. clock < log[next].at + TailOffset + MaxTailLag
      BY <1>2, <2>2, <3>1
    <3> QED BY <1>2, <1>3, <3>1, <3>2, StreamAssumption
  <2>3. ASSUME collector # "done", NEW k \in Keys, flushed[k].live
        PROVE  flushed[k].last + CrashSilence + TailOffset <= clock'
    <3>1. flushed[k].last + CrashSilence + TailOffset <= clock /\ flushed[k].last \in Nat
      BY <1>1, <1>3, <2>3 DEF InTime, Assembly, Flushes
    <3> QED BY <1>2, <1>3, <3>1, StreamAssumption
  <2> QED BY <1>2, <1>3, <2>1, <2>2, <2>3 DEF InTime
<1>10. Known'
  <2>1. /\ Handled' = Handled /\ skipped' = skipped /\ unsaved' = unsaved
        /\ \A i \in Logged : IsError(i)' <=> IsError(i)
    BY <1>2 DEF Handled, Opened, assemblyVars, IsError
  <2>2. ReadSoFar'
    BY <1>1, <1>2, <1>3, <2>1 DEF Known, ReadSoFar, readVars
  <2>3. ErrorsBehindCursor'
    BY <1>1, <1>2, <1>3, <2>1 DEF Known, ErrorsBehindCursor, Handled, processVars
  <2>4. \A s \in (snap \union {file})' : Moment(s)'
    BY <1>1, <1>2, <1>3, <2>1 DEF Known, Moment, loopVars
  <2> QED BY <2>2, <2>3, <2>4 DEF Known
<1> QED BY <1>4, <1>5, <1>6, <1>7, <1>8, <1>9, <1>10 DEF StreamInv

\* catchUp asks for everything from the cursor on, or gives up what is older
\* than its cap.
LEMMA CatchUpStep ==
  ASSUME StreamInv, CatchUp
  PROVE  StreamInv'
<1>1. /\ ClockAndLog /\ Controls /\ Reading /\ Assembly /\ Saves /\ InTime /\ Known
  BY DEF StreamInv
<1>2. /\ up /\ collector = "idle"
      /\ UNCHANGED <<storeVars, boundVars, cursor, assemblyVars, loopVars, processVars,
                     file, unsaved>>
  BY DEF CatchUp
<1>3. /\ clock \in Nat /\ Len(log) \in Nat /\ Logged = 1 .. Len(log) /\ Len(log) <= MaxRecords
      /\ \A i \in Logged : log[i].at \in 1 .. clock /\ i \in Nat
      /\ clock' = clock /\ log' = log /\ Logged' = Logged
      /\ cursor \in 0 .. clock /\ MaxRecords \in Nat
  BY <1>1, <1>2, LogFacts, StreamBoundsAssumption DEF ClockAndLog, storeVars, Logged, Saves
<1>4. \A i \in Logged : IsError(i) /\ log[i].at < cursor => i \in Handled
  BY <1>1, <1>2 DEF Known, ErrorsBehindCursor, Handled
<1>5. UNCHANGED <<open, groups, flushed, cut, ends, starts>>
  BY <1>2 DEF assemblyVars, boundVars
<1>6. Opened' = Opened /\ (\A i \in Logged : IsError(i)' <=> IsError(i))
  BY <1>3, <1>5 DEF Opened, IsError
<1>7. collector' # "tailing" => InTime'
  BY <1>1, <1>2, <1>3, <1>5 DEF InTime
<1>8. CASE cursor = 0 \/ CatchUpFrom >= clock
  <2>1. collector' = "connecting" /\ since' = cursor /\ UNCHANGED <<next, upto, skipped>>
    BY <1>8 DEF CatchUp
  <2>2. upto = 0
    BY <1>1, <1>2 DEF Reading
  <2>3. Reading'
    BY <1>1, <1>3, <2>1, <2>2 DEF Reading, Collecting
  <2>4. ReadSoFar'
    BY <1>2, <1>3, <1>4, <1>5, <1>6, <2>1, <2>2 DEF ReadSoFar, Handled
  <2> QED BY <1>1, <1>2, <1>5, <1>7, <2>1, <2>3, <2>4, CollectKeeps DEF Controls
<1>9. CASE ~(cursor = 0 \/ CatchUpFrom >= clock)
  <2> DEFINE from == CatchUpFrom
  <2>1. /\ collector' = "reading" /\ since' = clock
        /\ next' = Before(from) + 1 /\ upto' = Len(log)
        /\ skipped' = skipped \union Errors(Before(cursor) + 1 .. Before(from))
    BY <1>9 DEF CatchUp, FirstWanted
  <2>2. from \in Int
    BY <1>3, StreamAssumption DEF CatchUpFrom
  <2> HIDE DEF from
  <2>6. cursor \in Int
    BY <1>3
  <2>3. /\ Before(from) \in 0 .. Len(log) /\ Before(cursor) \in 0 .. Len(log)
        /\ \A i \in Logged : i <= Before(cursor) <=> log[i].at < cursor
    BY <1>1, <2>2, <2>6, BeforeFacts
  <2>4. Reading'
    <3>1. clock \in 0 .. clock
      BY <1>3
    <3> QED BY <1>3, <2>1, <2>3, <3>1 DEF Reading, Collecting
  <2>5. ReadSoFar'
    <3>1. ASSUME NEW i \in Logged, IsError(i), i <= Before(from)
          PROVE  i \in Handled'
      <4>1. CASE i <= Before(cursor)
        BY <1>2, <1>4, <1>5, <1>6, <2>1, <2>3, <3>1, <4>1 DEF Handled
      <4>2. CASE ~(i <= Before(cursor))
        <5>1. i \in Before(cursor) + 1 .. Before(from)
          BY <1>3, <2>3, <3>1, <4>2
        <5> QED BY <2>1, <3>1, <5>1 DEF Errors, Handled
      <4> QED BY <4>1, <4>2
    <3>2. \A i \in Logged : IsError(i) /\ i < next' => i \in Handled'
      BY <1>3, <2>1, <2>3, <3>1
    <3>3. \A i \in Logged : log[i].at < since' => i <= upto'
      BY <1>3, <2>1
    <3> QED BY <1>3, <1>6, <2>1, <3>2, <3>3 DEF ReadSoFar
  <2> QED BY <1>1, <1>2, <1>5, <1>7, <2>1, <2>4, <2>5, CollectKeeps DEF Controls
<1> QED BY <1>8, <1>9

LEMMA CatchUpEndsStep ==
  ASSUME StreamInv, CatchUpEnds
  PROVE  StreamInv'
<1>1. /\ ClockAndLog /\ Controls /\ Reading /\ Assembly /\ InTime /\ Known
  BY DEF StreamInv
<1>2. /\ collector = "reading" /\ next > upto /\ collector' = "connecting"
      /\ UNCHANGED <<storeVars, boundVars, since, next, upto, cursor, assemblyVars, loopVars,
                     processVars, file, skipped, unsaved>>
  BY DEF CatchUpEnds
<1>3. UNCHANGED <<clock, log, Logged, Opened, Handled, open, groups, flushed, cut, ends, starts>>
  BY <1>2 DEF storeVars, assemblyVars, boundVars, Logged, Opened, Handled
<1>4. /\ \A i \in Logged : i \in Nat /\ (IsError(i)' <=> IsError(i))
      /\ next \in Nat /\ upto \in Nat
  BY <1>1, <1>3, LogFacts, StreamBoundsAssumption DEF IsError, Reading
<1>5. Reading'
  BY <1>1, <1>2, <1>3 DEF Reading, Collecting
<1>6. ReadSoFar'
  BY <1>1, <1>2, <1>3, <1>4 DEF Known, ReadSoFar
<1>7. InTime'
  BY <1>1, <1>2, <1>3 DEF InTime
<1> QED BY <1>1, <1>2, <1>3, <1>5, <1>6, <1>7, CollectKeeps DEF Controls

\* "catch-up failed, tailing anyway": the rest of the request is given up.
LEMMA CatchUpFailsStep ==
  ASSUME StreamInv, CatchUpFails
  PROVE  StreamInv'
<1>1. /\ ClockAndLog /\ Controls /\ Reading /\ Assembly /\ InTime /\ Known
  BY DEF StreamInv
<1>2. /\ collector = "reading" /\ ends < MaxEnds /\ ends' = ends + 1
      /\ skipped' = skipped \union Errors(next .. upto)
      /\ collector' = "connecting"
      /\ UNCHANGED <<storeVars, starts, since, next, upto, cursor, assemblyVars, loopVars,
                     processVars, file, unsaved>>
  BY DEF CatchUpFails
<1>3. UNCHANGED <<clock, log, Logged, Opened, open, groups, flushed, cut>>
  BY <1>2 DEF storeVars, assemblyVars, Logged, Opened
<1>4. /\ \A i \in Logged : i \in Nat /\ (IsError(i)' <=> IsError(i))
      /\ next \in Nat /\ upto \in Nat
  BY <1>1, <1>3, LogFacts, StreamBoundsAssumption DEF IsError, Reading
<1>5. Reading'
  BY <1>1, <1>2, <1>3 DEF Reading, Collecting
<1>6. ReadSoFar'
  <2>1. \A i \in Logged : log[i].at < since => i <= upto
    BY <1>1, <1>2 DEF Known, ReadSoFar
  <2>2. ASSUME NEW i \in Logged, IsError(i), i <= upto
        PROVE  i \in Handled'
    <3>1. CASE i < next
      BY <1>1, <1>2, <1>3, <2>2, <3>1 DEF Known, ReadSoFar, Handled
    <3>2. CASE ~(i < next)
      <4>1. i \in next .. upto
        BY <1>4, <2>2, <3>2
      <4> QED BY <1>2, <2>2, <4>1 DEF Errors, Handled
    <3> QED BY <3>1, <3>2
  <2> QED BY <1>2, <1>3, <1>4, <2>1, <2>2 DEF ReadSoFar
<1>7. InTime'
  BY <1>1, <1>2, <1>3 DEF InTime
<1>8. ends' \in 0 .. MaxEnds
  BY <1>1, <1>2, StreamBoundsAssumption DEF Controls
<1> QED BY <1>1, <1>2, <1>3, <1>5, <1>6, <1>7, <1>8, CollectKeeps

\* What was logged since the catch-up and before the tail's offset is given up.
LEMMA TailOpensStep ==
  ASSUME StreamInv, TailOpens
  PROVE  StreamInv'
<1>1. /\ ClockAndLog /\ Controls /\ Reading /\ Assembly /\ InTime /\ Known
  BY DEF StreamInv
<1> DEFINE newer == clock - TailOffset + 1
<1>2. /\ collector = "connecting" /\ collector' = "tailing"
      /\ next' = Before(newer) + 1
      /\ skipped' = skipped \union Errors((Before(since) + 1 .. Before(newer)) \ 1 .. upto)
      /\ since' = 0 /\ upto' = 0
      /\ UNCHANGED <<storeVars, boundVars, cursor, open, groups, flushed, cut,
                     loopVars, processVars, file, unsaved>>
  BY DEF TailOpens
<1>3. UNCHANGED <<clock, log, Logged, Opened, ends, starts>>
  BY <1>2 DEF storeVars, boundVars, Logged, Opened
<1>4. /\ \A i \in Logged : i \in Nat /\ i >= 1 /\ log[i].at \in Nat /\ (IsError(i)' <=> IsError(i))
      /\ upto \in Nat /\ clock \in Nat /\ since \in Nat /\ Len(log) \in Nat
      /\ Len(log) <= MaxRecords /\ MaxRecords \in Nat /\ newer \in Int
  BY <1>1, <1>3, LogFacts, StreamAssumption, StreamBoundsAssumption
     DEF IsError, Reading, ClockAndLog
<1>9. newer = clock - TailOffset + 1 /\ newer \in Int /\ since \in Int
  BY <1>4
<1> HIDE DEF newer
<1>5. /\ Before(newer) \in 0 .. Len(log) /\ Before(since) \in 0 .. Len(log)
      /\ \A i \in Logged : i <= Before(since) <=> log[i].at < since
      /\ \A i \in Logged : i <= Before(newer) <=> log[i].at < newer
  BY <1>1, <1>9, BeforeFacts
<1>6. Reading'
  <2>1. 0 \in 0 .. clock' /\ next' \in 1 .. MaxRecords + 1 /\ next' <= Len(log) + 1
    BY <1>2, <1>3, <1>4, <1>5
  <2> QED BY <1>2, <1>3, <1>4, <2>1 DEF Reading, Collecting
<1>7. ReadSoFar'
  <2>1. ASSUME NEW i \in Logged, IsError(i), i <= Before(newer)
        PROVE  i \in Handled'
    <3>1. CASE log[i].at < since \/ i <= upto
      BY <1>1, <1>2, <1>3, <2>1, <3>1 DEF Known, ReadSoFar, Handled
    <3>2. CASE ~(log[i].at < since \/ i <= upto)
      <4>1. i \in (Before(since) + 1 .. Before(newer)) \ 1 .. upto
        BY <1>4, <1>5, <2>1, <3>2
      <4> QED BY <1>2, <2>1, <4>1 DEF Errors, Handled
    <3> QED BY <3>1, <3>2
  <2>2. \A i \in Logged : IsError(i) /\ i < next' => i \in Handled'
    BY <1>2, <1>4, <1>5, <2>1
  <2> QED BY <1>2, <1>3, <1>4, <2>2 DEF ReadSoFar
<1>8. InTime'
  <2>1. \A i \in Logged : next' <= i => clock <= log[i].at + TailOffset + MaxTailLag
    BY <1>2, <1>4, <1>5, <1>9, StreamAssumption
  <2> QED BY <1>1, <1>2, <1>3, <2>1 DEF InTime
<1> QED BY <1>1, <1>2, <1>3, <1>6, <1>7, <1>8, CollectKeeps DEF Controls

LEMMA TailEndsStep ==
  ASSUME StreamInv, TailEnds
  PROVE  StreamInv'
<1>1. /\ ClockAndLog /\ Controls /\ Assembly /\ InTime
  BY DEF StreamInv
<1>2. /\ ends < MaxEnds /\ ends' = ends + 1
      /\ collector \in {"connecting", "tailing"}
      /\ collector' = "idle" /\ since' = 0 /\ next' = 1 /\ upto' = 0
      /\ UNCHANGED <<storeVars, starts, cursor, assemblyVars, loopVars,
                     processVars, file, skipped, unsaved>>
  BY DEF TailEnds
<1>3. UNCHANGED <<clock, log, open, groups, flushed, cut>>
  BY <1>2 DEF storeVars, assemblyVars
<1>4. /\ ends' \in 0 .. MaxEnds /\ Len(log) \in Nat /\ clock \in Nat
  BY <1>1, <1>2, LogFacts, StreamBoundsAssumption DEF Controls
<1>5. Reading' /\ ReadSoFar' /\ InTime'
  <2>1. 0 \in 0 .. clock' /\ 1 \in 1 .. MaxRecords + 1 /\ 0 \in 0 .. MaxRecords /\ 0 <= Len(log')
    BY <1>3, <1>4, StreamBoundsAssumption
  <2>2. Reading'
    BY <1>2, <2>1 DEF Reading, Collecting
  <2> QED BY <1>1, <1>2, <1>3, <2>2 DEF ReadSoFar, InTime
<1> QED BY <1>2, <1>3, <1>4, <1>5, CollectKeeps

LEMMA CollectEndsStep ==
  ASSUME StreamInv, CollectEnds
  PROVE  StreamInv'
<1>1. /\ ClockAndLog /\ Controls /\ Assembly
  BY DEF StreamInv
<1>2. /\ collector' = "done" /\ since' = 0 /\ next' = 1 /\ upto' = 0
      /\ UNCHANGED <<storeVars, boundVars, cursor, assemblyVars, loopVars,
                     processVars, file, skipped, unsaved>>
  BY DEF CollectEnds, Collected
<1>3. UNCHANGED <<clock, log, open, groups, flushed, cut, ends, starts>>
  BY <1>2 DEF storeVars, assemblyVars, boundVars
<1>4. Reading' /\ ReadSoFar' /\ InTime'
  <2>1. 0 \in 0 .. clock' /\ 1 \in 1 .. MaxRecords + 1 /\ 0 \in 0 .. MaxRecords /\ 0 <= Len(log')
    BY <1>1, <1>3, LogFacts, StreamBoundsAssumption
  <2>2. Reading'
    BY <1>2, <2>1 DEF Reading, Collecting
  <2> QED BY <1>2, <2>2 DEF ReadSoFar, InTime
<1> QED BY <1>1, <1>2, <1>3, <1>4, CollectKeeps DEF Controls

\* ingest of the next record: the cursor moves behind it at most, and what is
\* older comes before it in the log.
LEMMA ReadKeeps ==
  ASSUME StreamInv, up, collector \in {"reading", "tailing"}, next \in Logged,
         NEW tailed \in BOOLEAN, tailed => collector = "tailing",
         Ingest(next, tailed), ReadOn,
         UNCHANGED <<storeVars, boundVars, loopVars, processVars, file, skipped, unsaved>>
  PROVE  StreamInv'
<1>1. /\ ClockAndLog /\ Controls /\ Reading /\ Assembly /\ Saves /\ InTime /\ Known
  BY DEF StreamInv
<1>2. UNCHANGED <<clock, log, ends, starts, run, snap, up, ctxDone, file, skipped, unsaved, Logged>>
  BY DEF storeVars, boundVars, loopVars, processVars, Logged
<1>3. /\ \A i \in Logged : /\ i \in Nat /\ log[i].at \in 1 .. clock
                           /\ (IsError(i)' <=> IsError(i))
      /\ next \in Nat /\ clock \in Nat /\ Len(log) \in Nat /\ Logged = 1 .. Len(log)
      /\ Len(log) <= MaxRecords /\ MaxRecords \in Nat
      /\ cursor \in 0 .. clock
  BY <1>1, <1>2, LogFacts, StreamBoundsAssumption DEF IsError, ClockAndLog, Saves
<1>4. FlushedInTime
  BY <1>1 DEF InTime, FlushedInTime
<1>5. tailed => clock <= log[next].at + TailOffset + MaxTailLag
  BY <1>1, <1>3 DEF InTime
<1>6. /\ Assembly' /\ Counted \subseteq Counted' /\ FlushedInTime'
      /\ (IsError(next) => next \in Counted')
      /\ cursor' = (IF log[next].at > cursor THEN log[next].at ELSE cursor)
  BY <1>1, <1>4, <1>5, IngestKeeps
<1>7. Handled \subseteq Handled' /\ (IsError(next) => next \in Handled')
  BY <1>2, <1>6 DEF Handled, Counted
<1>8. \/ collector' = "done" /\ since' = 0 /\ next' = 1 /\ upto' = 0
      \/ next' = next + 1 /\ UNCHANGED <<collector, since, upto>>
  BY DEF ReadOn, Collected
<1>9. ClockAndLog' /\ Controls'
  BY <1>1, <1>2, StoreStays DEF storeVars, Controls
<1>10. Reading'
  <2>1. /\ 0 \in 0 .. clock /\ 1 \in 1 .. MaxRecords + 1 /\ 0 \in 0 .. MaxRecords /\ 0 <= Len(log)
        /\ next + 1 \in 1 .. MaxRecords + 1 /\ next + 1 <= Len(log) + 1
    BY <1>3
  <2> QED BY <1>1, <1>2, <1>8, <2>1 DEF Reading, Collecting
<1>11. cursor <= cursor' /\ cursor' \in 0 .. clock /\ (cursor' = cursor \/ cursor' = log[next].at)
  BY <1>3, <1>6
<1>12. Saves'
  <2>1. \A s \in snap \union {file} : s.cursor \in 0 .. clock
    BY <1>1 DEF Saves, Saved
  <2> QED BY <1>1, <1>2, <1>3, <1>11, <2>1 DEF Saves, Saved
<1>13. InTime'
  <2>1. ASSUME collector' = "tailing", NEW i \in Logged, next' <= i
        PROVE  clock <= log[i].at + TailOffset + MaxTailLag
    <3>1. collector = "tailing" /\ next <= i
      BY <1>3, <1>8, <2>1
    <3> QED BY <1>1, <3>1 DEF InTime
  <2> QED BY <1>2, <1>6, <2>1 DEF InTime, FlushedInTime
<1>14. Known'
  <2>1. \A i \in Logged : IsError(i) /\ i <= next => i \in Handled'
    BY <1>1, <1>3, <1>7 DEF Known, ReadSoFar
  <2>2. ReadSoFar'
    <3>1. CASE collector' = "done"
      BY <3>1 DEF ReadSoFar
    <3>2. CASE next' = next + 1 /\ UNCHANGED <<collector, since, upto>>
      <4>1. \A i \in Logged : IsError(i) /\ i < next' => i \in Handled'
        BY <1>3, <2>1, <3>2
      <4> QED BY <1>1, <1>2, <1>3, <3>2, <4>1 DEF Known, ReadSoFar
    <3> QED BY <1>8, <3>1, <3>2
  <2>3. ASSUME NEW i \in Logged, IsError(i), log[i].at < cursor'
        PROVE  i \in Handled'
    <3>1. CASE log[i].at < cursor
      BY <1>1, <1>7, <2>3, <3>1 DEF Known, ErrorsBehindCursor, Handled
    <3>2. CASE log[i].at < log[next].at
      <4>1. ~(next < i) /\ next # i
        BY <1>1, <1>3, <3>2 DEF ClockAndLog, InTimeOrder
      <4> QED BY <1>3, <2>1, <2>3, <4>1
    <3> QED BY <1>11, <2>3, <3>1, <3>2
  <2>4. ErrorsBehindCursor'
    BY <1>2, <1>3, <2>3 DEF ErrorsBehindCursor, Handled
  <2>5. \A s \in (snap \union {file})' : Moment(s)'
    BY <1>1, <1>2, <1>3 DEF Known, Moment
  <2> QED BY <2>2, <2>4, <2>5 DEF Known
<1> QED BY <1>6, <1>9, <1>10, <1>12, <1>13, <1>14 DEF StreamInv

LEMMA CatchUpReadsStep ==
  ASSUME StreamInv, CatchUpReads
  PROVE  StreamInv'
<1>1. /\ up /\ collector = "reading" /\ next <= upto /\ Ingest(next, FALSE) /\ ReadOn
      /\ UNCHANGED <<storeVars, boundVars, loopVars, processVars, file, skipped, unsaved>>
  BY DEF CatchUpReads
<1>2. next \in Logged
  BY <1>1, LogFacts, StreamBoundsAssumption DEF StreamInv, Reading
<1> QED BY <1>1, <1>2, ReadKeeps

LEMMA TailReadsStep ==
  ASSUME StreamInv, TailReads
  PROVE  StreamInv'
<1>1. /\ up /\ collector = "tailing" /\ next \in Logged /\ Ingest(next, TRUE) /\ ReadOn
      /\ UNCHANGED <<storeVars, boundVars, loopVars, processVars, file, skipped, unsaved>>
  BY DEF TailReads
<1> QED BY <1>1, ReadKeeps

\* A flush of the control loop, and the snapshot it may take.
LEMMA LoopFlushKeeps ==
  ASSUME StreamInv, up, NEW t \in Int, Flush(t),
         collector # "done" => t + TailOffset <= clock,
         snap' = snap \/ snap' = {Snapshot}, run' \in RunStages,
         UNCHANGED <<storeVars, boundVars, readVars, cursor, processVars, file, skipped, unsaved>>
  PROVE  StreamInv'
<1>1. /\ ClockAndLog /\ Controls /\ Reading /\ Assembly /\ Saves /\ InTime /\ Known
  BY DEF StreamInv
<1>2. UNCHANGED <<clock, log, Logged, ends, starts, up, ctxDone, collector, since, next, upto,
                  cursor, file, skipped, unsaved>>
  BY DEF storeVars, boundVars, readVars, processVars, Logged
<1>3. /\ Assembly' /\ Counted \subseteq Counted'
      /\ FlushedInTime /\ t + TailOffset <= clock => FlushedInTime'
  BY <1>1, FlushKeeps
<1>4. Handled \subseteq Handled' /\ \A i \in Logged : IsError(i)' <=> IsError(i)
  BY <1>2, <1>3 DEF Handled, Counted, IsError
<1>5. ClockAndLog' /\ Controls' /\ Reading'
  BY <1>1, <1>2, StoreStays DEF Controls, Reading, storeVars
<1>6. InTime'
  BY <1>1, <1>2, <1>3 DEF InTime, FlushedInTime
<1>7. \A i \in Logged : IsError(i) /\ log[i].at < cursor => i \in Handled
  BY <1>1 DEF Known, ErrorsBehindCursor, Handled
<1>8. Snapshot = [cursor |-> cursor, groups |-> groups', opened |-> Opened']
  BY DEF Snapshot
<1>9. Saves'
  <2>1. groups' \in SUBSET Ids /\ Opened' \in SUBSET Ids
    BY <1>3 DEF Assembly, Opened
  <2>2. Snapshot \in Saved /\ Snapshot.cursor = cursor
    BY <1>1, <1>8, <2>1 DEF Saved, Saves
  <2>3. Saved' = Saved
    BY <1>2 DEF Saved
  <2>4. cursor <= cursor
    BY <1>1, LogFacts DEF Saves
  <2> HIDE DEF Snapshot
  <2> QED BY <1>1, <1>2, <2>2, <2>3, <2>4 DEF Saves
<1>10. Known'
  <2>1. ReadSoFar'
    BY <1>1, <1>2, <1>4 DEF Known, ReadSoFar
  <2>2. ErrorsBehindCursor'
    BY <1>2, <1>4, <1>7 DEF ErrorsBehindCursor, Handled
  <2>3. \A s \in snap \union {file} : Moment(s)'
    BY <1>1, <1>2, <1>4 DEF Known, Moment
  <2>4. ASSUME NEW s, s = Snapshot
        PROVE  Moment(s)'
    <3>1. s.cursor = cursor /\ s.groups = groups' /\ s.opened = Opened'
      BY <1>8, <2>4
    <3> QED BY <1>2, <1>4, <1>7, <3>1 DEF Moment, Handled
  <2> QED BY <1>2, <2>1, <2>2, <2>3, <2>4 DEF Known
<1> QED BY <1>3, <1>5, <1>6, <1>9, <1>10 DEF StreamInv

LEMMA TickStep ==
  ASSUME StreamInv, Tick
  PROVE  StreamInv'
<1>1. Watermark \in Int /\ Watermark + TailOffset <= clock
  BY LogFacts, StreamAssumption DEF Watermark, StreamInv
<1>2. run' \in RunStages /\ (snap' = snap \/ snap' = {Snapshot})
  BY DEF Tick, RunStages, loopVars
<1> QED BY <1>1, <1>2, LoopFlushKeeps DEF Tick

LEMMA ShutdownStep ==
  ASSUME StreamInv, Shutdown
  PROVE  StreamInv'
<1>1. clock \in Int
  BY LogFacts DEF StreamInv
<1>2. run' \in RunStages
  BY DEF Shutdown, RunStages
<1> QED BY <1>1, <1>2, LoopFlushKeeps DEF Shutdown

\* A step that leaves the reading alone, and may save the snapshot.
LEMMA QuietKeeps ==
  ASSUME StreamInv, UNCHANGED <<storeVars, boundVars, readVars, cursor, assemblyVars, up,
                                skipped, unsaved>>,
         \/ snap' = {} /\ file' \in {file} \union snap
         \/ snap' = snap /\ file' = file,
         run' \in RunStages, ctxDone' \in BOOLEAN
  PROVE  StreamInv'
<1>1. /\ ClockAndLog /\ Controls /\ Reading /\ Assembly /\ Saves /\ InTime /\ Known
  BY DEF StreamInv
<1>2. UNCHANGED <<clock, log, Logged, ends, starts, up, collector, since, next, upto,
                  cursor, open, groups, flushed, cut, Opened, Handled, skipped, unsaved>>
  BY DEF storeVars, boundVars, readVars, assemblyVars, Logged, Opened, Handled
<1>3. ClockAndLog' /\ Controls' /\ Reading'
  BY <1>1, <1>2, StoreStays DEF Controls, Reading, storeVars
<1>4. Assembly' /\ InTime'
  BY <1>1, <1>2, AssemblyStays DEF InTime
<1>5. Saves'
  <2>1. Saved' = Saved
    BY <1>2 DEF Saved
  <2>2. file'.cursor <= file'.cursor
    BY <1>1, LogFacts DEF Saves, Saved
  <2> QED BY <1>1, <1>2, <2>1, <2>2 DEF Saves
<1>6. Known'
  <2>1. \A i \in Logged : IsError(i)' <=> IsError(i)
    BY <1>2 DEF IsError
  <2>2. ReadSoFar' /\ ErrorsBehindCursor'
    BY <1>1, <1>2, <2>1 DEF Known, ReadSoFar, ErrorsBehindCursor
  <2>3. \A s \in snap \union {file} : Moment(s)'
    BY <1>1, <1>2, <2>1 DEF Known, Moment
  <2> QED BY <2>2, <2>3 DEF Known
<1> QED BY <1>3, <1>4, <1>5, <1>6 DEF StreamInv

-----------------------------------------------------------------------------
(* The theorems.                                                            *)

LEMMA InitGood == Init => StreamInv
<1> SUFFICES ASSUME Init
             PROVE  StreamInv
  OBVIOUS
<1> USE StreamAssumption, StreamBoundsAssumption
<1>1. /\ clock = 1 /\ log = <<>> /\ ends = 0 /\ starts = 0
      /\ up = TRUE /\ ctxDone = FALSE /\ run = "select" /\ snap = {}
      /\ collector = "idle" /\ since = 0 /\ next = 1 /\ upto = 0
      /\ cursor = file.cursor /\ groups = {}
      /\ open = [k \in Keys |-> Closed] /\ flushed = [k \in Keys |-> NotFlushed] /\ cut = {}
  BY DEF Init
<1>2. /\ log \in Seq(Record) /\ Len(log) = 0 /\ Logged = {}
  <2>1. log \in Seq(Record) /\ Len(log) = 0
    BY <1>1, EmptySeq
  <2> QED BY <2>1, LenProperties DEF Logged
<1>3. ClockAndLog
  BY <1>1, <1>2 DEF ClockAndLog, InTimeOrder
<1>4. Controls
  <2>1. 0 \in 0 .. MaxEnds /\ 0 \in 0 .. MaxStarts
    OBVIOUS
  <2>2. up \in BOOLEAN /\ ctxDone \in BOOLEAN
    BY <1>1
  <2> QED BY <1>1, <2>1, <2>2 DEF Controls, RunStages
<1>5. Reading
  BY <1>1, <1>2 DEF Reading, Collecting
<1>6. Assembly
  BY <1>1, <1>3, ClosedFacts DEF Assembly, TailKeepsStacks
<1>7. Saves
  <2>1. file \in Saved
    BY <1>1 DEF Init, EmptyFile, Saved
  <2>2. file.cursor \in 0 .. clock /\ file.cursor <= file.cursor
    BY <1>1, <2>1 DEF Saved
  <2> QED BY <1>1, <2>1, <2>2 DEF Saves
<1>8. InTime
  BY <1>1, <1>3, ClosedFacts DEF InTime
<1>9. Known
  BY <1>1, <1>2 DEF Known, ReadSoFar, ErrorsBehindCursor, Moment
<1> QED BY <1>3, <1>4, <1>5, <1>6, <1>7, <1>8, <1>9 DEF StreamInv

\* A kill, a start and the last save: what goes on is in the file.
LEMMA ProcessSteps ==
  ASSUME StreamInv, Crash \/ Start \/ FinalSave
  PROVE  StreamInv'
<1>1. /\ Controls
  BY DEF StreamInv
<1>2. CASE Crash
  BY <1>1, <1>2, FromStateKeeps DEF Crash, boundVars, Controls
<1>3. CASE Start
  <2>1. /\ FromState(file) /\ file' = file /\ up' = TRUE /\ ends' = ends /\ starts' = starts + 1
        /\ unsaved' = unsaved \union {i \in file.opened : log[i].at < file.cursor}
        /\ starts < MaxStarts /\ UNCHANGED <<storeVars, skipped, cut>>
    BY <1>3 DEF Start
  <2>2. starts' \in 0 .. MaxStarts
    BY <1>1, <2>1, StreamBoundsAssumption DEF Controls
  <2> QED BY <1>1, <2>1, <2>2, FromStateKeeps DEF Controls
<1>4. CASE FinalSave
  BY <1>1, <1>4, FromStateKeeps DEF FinalSave, Save, boundVars, Controls
<1> QED BY <1>2, <1>3, <1>4

LEMMA LoopSteps ==
  ASSUME StreamInv, TickSaves \/ RunStops \/ Cancel
  PROVE  StreamInv'
<1>1. Controls
  BY DEF StreamInv
<1>2. CASE TickSaves
  BY <1>1, <1>2, QuietKeeps DEF TickSaves, Save, processVars, RunStages, Controls
<1>3. CASE RunStops
  BY <1>1, <1>3, QuietKeeps DEF RunStops, processVars, RunStages, Controls
<1>4. CASE Cancel
  BY <1>1, <1>4, QuietKeeps DEF Cancel, loopVars, Controls
<1> QED BY <1>2, <1>3, <1>4

LEMMA StepsKeep ==
  ASSUME StreamInv, [Next]_vars
  PROVE  StreamInv'
<1>1. CASE CollectStep
  BY <1>1, CatchUpStep, CatchUpReadsStep, CatchUpEndsStep, CatchUpFailsStep, TailOpensStep,
     TailReadsStep, TailEndsStep, CollectEndsStep DEF CollectStep
<1>2. CASE Crash \/ Start \/ Cancel \/ Write \/ Advance \/ LoopStep
  BY <1>2, ProcessSteps, LoopSteps, WriteStep, AdvanceStep, TickStep, ShutdownStep DEF LoopStep
<1>3. CASE UNCHANGED vars
  BY <1>3, QuietKeeps DEF vars, loopVars, processVars, StreamInv, Controls
<1> QED BY <1>1, <1>2, <1>3 DEF Next

LEMMA StreamInvariant == Spec => []StreamInv
<1>1. StreamInv /\ [Next]_vars => StreamInv'
  BY StepsKeep
<1> QED BY <1>1, InitGood, PTL DEF Spec

\* Every variable of the record stream keeps its type, and an open stack has
\* room for a line (Assembler.append, Feed).
THEOREM StreamTyped == Spec => []TypeOK
<1>1. StreamInv => TypeOK
  BY DEF StreamInv, ClockAndLog, Controls, Reading, Assembly, Saves, TypeOK, Record, Crashes, Saved
<1> QED BY <1>1, StreamInvariant, PTL

\* No error behind the cursor is forgotten, in any process and through every
\* kill, failed request and reconnect (collect, catchUp, ingest).
THEOREM NoErrorForgotten == Spec => []ErrorsBehindCursor
<1>1. StreamInv => ErrorsBehindCursor
  BY DEF StreamInv, Known
<1> QED BY <1>1, StreamInvariant, PTL

\* The state file is one moment of the detector, whichever snapshot is saved
\* last and however late (tick, shutdown, saveState).
THEOREM FileIsAMoment == Spec => []FileIsOneMoment
<1>1. StreamInv => FileIsOneMoment
  BY DEF StreamInv, Known, Moment, FileIsOneMoment
<1> QED BY <1>1, StreamInvariant, PTL

\* A tail that lags by less than the silence loses no line of a stack to the
\* flush of tick, whose watermark trails the clock (tick).
THEOREM TailLosesNoLine == Spec => []TailKeepsStacks
<1>1. StreamInv => TailKeepsStacks
  BY DEF StreamInv, Assembly
<1> QED BY <1>1, StreamInvariant, PTL

\* The saved cursor never goes back: a snapshot is never older than the file
\* it replaces (ingest, saveState).
THEOREM SavedCursorNeverBack == Spec => CursorNeverBack
<1>1. StreamInv /\ [Next]_vars => [file'.cursor >= file.cursor]_vars
  <2> SUFFICES ASSUME StreamInv, [Next]_vars
               PROVE  file'.cursor >= file.cursor
    OBVIOUS
  <2>1. file' \in {file} \union snap
    BY DEF Next, vars, Crash, Start, Cancel, Write, Advance, CollectStep, CatchUp, CatchUpReads,
       CatchUpEnds, CatchUpFails, TailOpens, TailReads, TailEnds, CollectEnds, LoopStep, Tick,
       TickSaves, RunStops, Shutdown, FinalSave, Save
  <2>2. \A s \in snap \union {file} : file.cursor <= s.cursor /\ s.cursor \in Int
    BY LogFacts DEF StreamInv, Saves, Saved
  <2>3. PICK s \in snap \union {file} : file' = s
    BY <2>1
  <2> QED BY <2>2, <2>3
<1> QED BY <1>1, StreamInvariant, PTL DEF Spec, CursorNeverBack
=============================================================================
