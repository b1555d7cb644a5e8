---------------------------- MODULE RecordStream ----------------------------
(***************************************************************************)
(* How the error detector reads the log: catch-up from the saved cursor,   *)
(* then the live tail, the assembly of crash stacks, and what a restart    *)
(* reads again (collect, catchUp, ingest, tick and shutdown of             *)
(* services/error-pipeline/internal/detector/detector.go; classify/        *)
(* assembler.go; vlogs/vlogs.go).                                          *)
(*                                                                         *)
(* A record is its place in the log, which the log store keeps in time     *)
(* order. The group table is the set of errors it counted, a crash being   *)
(* its signature record; ErrorGroups says what becomes of them.            *)
(***************************************************************************)
EXTENDS Integers, Sequences, FiniteSets

CONSTANTS
  Keys,             \* pod/container pairs
  Kinds,            \* what a line may be: a crash signature, a plain line, a JSON
                    \* error, any other JSON line
  TailOffset,       \* how far the tail reads behind the clock (tailOffset, 5 s)
  CrashSilence,     \* silence that ends a stack (crashSilence, 2 s)
  CatchUpMax,       \* longest backfill (catchUpMax, 15 min)
  MaxLines,         \* lines that end a stack (defaultMaxLines, 200)
  MaxTailLag,       \* bound: how late the tail delivers what it may read
  MaxClock,         \* bound: the last instant
  MaxRecords,       \* bound: records logged
  MaxEnds,          \* bound: requests to the log store that fail
  MaxStarts         \* bound: starts of the detector after the first

ASSUME StreamAssumption ==
  /\ Kinds \subseteq {"start", "plain", "error", "info"}
  /\ TailOffset \in Nat /\ CrashSilence \in Nat /\ CatchUpMax \in Nat \ {0}
  /\ MaxLines \in Nat \ {0} /\ MaxTailLag \in Nat
ASSUME StreamBoundsAssumption ==
  MaxClock \in Nat \ {0} /\ MaxRecords \in Nat /\ MaxEnds \in Nat /\ MaxStarts \in Nat

VARIABLES
  clock,            \* wall clock; 0 is Go's zero time, never read
  log,              \* what the store holds
  ends, starts,     \* counted for the bounds
  up, ctxDone,      \* a detector process runs; Run's context is cancelled
  collector,        \* what collect is doing
  since,            \* the first instant no catch-up has read
  next, upto,       \* the record collect reads next, the last of a catch-up
  cursor,           \* d.cursor, 0 for none
  open,             \* the assembler's crash of each key
  groups,           \* the errors the tracker counted
  run, snap,        \* the control loop, and the snapshot it is about to save
  file,             \* the state file
  \* History, read by the properties only.
  skipped,          \* errors the design gives up: before the first start, older
                    \* than CatchUpMax, of a failed request, logged while connecting
  unsaved,          \* open crashes behind the cursor a new process loaded
  live,             \* keys whose open crash got its last line from this tail
  flushed,          \* per key, the crash silence ended and that no line followed
  cut               \* lines within the silence of a stack that silence had ended

storeVars == <<clock, log>>
boundVars == <<ends, starts>>
readVars == <<collector, since, next, upto>>
assemblyVars == <<open, groups, live, flushed, cut>>
loopVars == <<run, snap>>
processVars == <<up, ctxDone>>
vars == <<storeVars, boundVars, readVars, cursor, assemblyVars, loopVars, processVars,
          file, skipped, unsaved>>

Collecting == {"idle", "reading", "connecting", "tailing", "done"}
RunStages == {"select", "tick", "wait", "saving"}

Ids == 1 .. MaxRecords
Logged == DOMAIN log
IsError(i) == log[i].kind \in {"start", "error"}
Errors(ids) == {i \in ids : IsError(i)}

Closed == [sig |-> 0, last |-> 0, count |-> 0]
NotFlushed == [last |-> 0, live |-> FALSE]
EmptyFile == [cursor |-> 0, groups |-> {}, opened |-> {}]

\* The signatures of the open crashes.
Opened == {open[k].sig : k \in {q \in Keys : open[q] # Closed}}

-----------------------------------------------------------------------------
\* A process starts as New and loadState leave it, with state s.
FromState(s) ==
  /\ ctxDone' = FALSE
  /\ collector' = "idle" /\ since' = 0 /\ next' = 1 /\ upto' = 0
  /\ cursor' = s.cursor /\ groups' = s.groups
  /\ open' = [k \in Keys |-> Closed]
  /\ live' = {} /\ flushed' = [k \in Keys |-> NotFlushed]
  /\ run' = "select" /\ snap' = {}

\* A first start, or one with the cursor of an earlier process.
Init ==
  /\ clock = 1 /\ log = <<>>
  /\ ends = 0 /\ starts = 0
  /\ up = TRUE /\ ctxDone = FALSE
  /\ collector = "idle" /\ since = 0 /\ next = 1 /\ upto = 0
  /\ file \in {EmptyFile, [EmptyFile EXCEPT !.cursor = 1]}
  /\ cursor = file.cursor /\ groups = {}
  /\ open = [k \in Keys |-> Closed]
  /\ run = "select" /\ snap = {}
  /\ skipped = {} /\ unsaved = {} /\ live = {}
  /\ flushed = [k \in Keys |-> NotFlushed] /\ cut = {}

\* A kill, at any moment.
Crash ==
  /\ up
  /\ up' = FALSE
  /\ FromState(file)
  /\ UNCHANGED <<storeVars, boundVars, file, skipped, unsaved, cut>>

\* The next process loads the state file.
Start ==
  /\ ~up
  /\ starts < MaxStarts
  /\ up' = TRUE
  /\ starts' = starts + 1
  /\ FromState(file)
  /\ unsaved' = unsaved \union {i \in file.opened : log[i].at < file.cursor}
  /\ UNCHANGED <<storeVars, ends, file, skipped, cut>>

Cancel ==
  /\ up
  /\ ~ctxDone
  /\ ctxDone' = TRUE
  /\ UNCHANGED <<storeVars, boundVars, readVars, cursor, assemblyVars, loopVars, up,
                 file, skipped, unsaved>>

\* Bound: a behaviour is over once no process will run any more.
Watched == up \/ starts < MaxStarts

\* A container logs a line.
Write ==
  /\ Watched
  /\ Len(log) < MaxRecords
  /\ \E kind \in Kinds, k \in Keys :
       log' = Append(log, [at |-> clock, kind |-> kind, key |-> k])
  /\ UNCHANGED <<clock, boundVars, readVars, cursor, assemblyVars, loopVars,
                 processVars, file, skipped, unsaved>>

\* Time passes; an open tail delivers within the bound.
Advance ==
  /\ Watched
  /\ clock < MaxClock
  /\ collector = "tailing" /\ next \in Logged =>
       clock < log[next].at + TailOffset + MaxTailLag
  /\ clock' = clock + 1
  /\ UNCHANGED <<log, boundVars, readVars, cursor, assemblyVars, loopVars, processVars,
                 file, skipped, unsaved>>

-----------------------------------------------------------------------------
(* ingest: the cursor and the assembler *)

\* Mutation: the cursor is the time of the last record, whatever came before.
CursorFollows(i) == cursor' = log[i].at

\* ingest moves the cursor forward only.
CursorMoves(i) == cursor' = IF log[i].at > cursor THEN log[i].at ELSE cursor

\* Mutation: the stack ends on the line after the last one that fits.
FullLate(c) == c.count > MaxLines

\* append counted the last line a stack may have.
Full(c) == c.count >= MaxLines

\* close returns the crash of the key, if one is open.
Close(key) == IF open[key] = Closed THEN {} ELSE {open[key].sig}

\* Feed's plain line: the next one of an open crash, or dropped.
FeedPlain(i, tailed) ==
  LET r == log[i]
      c == [open[r.key] EXCEPT !.count = @ + 1, !.last = r.at]
      before == flushed[r.key]
  IN  IF open[r.key] = Closed
        THEN /\ cut' = IF before = NotFlushed \/ r.at - before.last >= CrashSilence THEN cut
                       ELSE cut \union {[gap |-> r.at - before.last, live |-> before.live /\ tailed]}
             /\ flushed' = [flushed EXCEPT ![r.key] = NotFlushed]
             /\ UNCHANGED <<open, groups, live>>
        ELSE /\ open' = [open EXCEPT ![r.key] = IF Full(c) THEN Closed ELSE c]
             /\ groups' = IF Full(c) THEN groups \union Close(r.key) ELSE groups
             /\ live' = IF tailed THEN live \union {r.key} ELSE live \ {r.key}
             /\ UNCHANGED <<flushed, cut>>

\* Feed's other lines close the open crash of their key; a signature opens one.
FeedOther(i, tailed) ==
  LET r == log[i]
      opens == r.kind = "start"
  IN  /\ open' = [open EXCEPT ![r.key] =
                    IF opens THEN [sig |-> i, last |-> r.at, count |-> 0] ELSE Closed]
      /\ groups' = groups \union Close(r.key) \union (IF r.kind = "error" THEN {i} ELSE {})
      /\ live' = IF opens /\ tailed THEN live \union {r.key} ELSE live \ {r.key}
      /\ flushed' = [flushed EXCEPT ![r.key] = NotFlushed]
      /\ UNCHANGED cut

\* ingest of record i, under d.mu.
Ingest(i, tailed) ==
  /\ CursorMoves(i)
  /\ IF log[i].kind = "plain" THEN FeedPlain(i, tailed) ELSE FeedOther(i, tailed)

\* Flush closes the crashes silent since CrashSilence before time t.
Silent(t) == {k \in Keys : open[k] # Closed /\ open[k].last <= t - CrashSilence}

Flush(t) ==
  /\ open' = [k \in Keys |-> IF k \in Silent(t) THEN Closed ELSE open[k]]
  /\ groups' = groups \union UNION {Close(k) : k \in Silent(t)}
  /\ flushed' = [k \in Keys |->
       IF k \in Silent(t) THEN [last |-> open[k].last, live |-> k \in live] ELSE flushed[k]]
  /\ live' = live \ Silent(t)
  /\ UNCHANGED cut

-----------------------------------------------------------------------------
(* collect *)

\* collect returned.
Collected == collector' = "done" /\ since' = 0 /\ next' = 1 /\ upto' = 0

\* stream goes on to the next record, unless the context is done.
ReadOn == IF ctxDone THEN Collected ELSE next' = next + 1 /\ UNCHANGED <<collector, since, upto>>

\* Where catch-up starts: the cursor, or as far back as the cap allows.
CatchUpFrom == IF cursor < clock - CatchUpMax THEN clock - CatchUpMax ELSE cursor

\* Records logged before instant t: the log is in time order.
Before(t) == Cardinality({i \in Logged : log[i].at < t})

\* Mutation: the record at the cursor was read, so reading starts behind it.
FirstWantedAfter == Before(CatchUpFrom + 1) + 1

\* The range of the request includes its first instant.
FirstWanted == Before(CatchUpFrom) + 1

\* catchUp sends its request, unless there is no cursor or nothing is behind it.
CatchUp ==
  /\ up /\ ~ctxDone
  /\ collector = "idle"
  /\ IF cursor = 0 \/ CatchUpFrom >= clock
       THEN /\ collector' = "connecting"
            /\ since' = cursor
            /\ UNCHANGED <<next, upto, skipped>>
       ELSE /\ collector' = "reading"
            /\ since' = clock
            /\ next' = FirstWanted /\ upto' = Len(log)
            /\ skipped' = skipped \union Errors(Before(cursor) + 1 .. Before(CatchUpFrom))
  /\ UNCHANGED <<storeVars, boundVars, cursor, assemblyVars, loopVars, processVars,
                 file, unsaved>>

CatchUpReads ==
  /\ up
  /\ collector = "reading"
  /\ next <= upto
  /\ Ingest(next, FALSE)
  /\ ReadOn
  /\ UNCHANGED <<storeVars, boundVars, loopVars, processVars, file, skipped, unsaved>>

CatchUpEnds ==
  /\ up
  /\ collector = "reading"
  /\ next > upto
  /\ collector' = "connecting"
  /\ UNCHANGED <<storeVars, boundVars, since, next, upto, cursor, assemblyVars, loopVars,
                 processVars, file, skipped, unsaved>>

\* "catch-up failed, tailing anyway".
CatchUpFails ==
  /\ up
  /\ collector = "reading"
  /\ ends < MaxEnds
  /\ ends' = ends + 1
  /\ skipped' = skipped \union Errors(next .. upto)
  /\ collector' = "connecting"
  /\ UNCHANGED <<storeVars, starts, since, next, upto, cursor, assemblyVars, loopVars,
                 processVars, file, unsaved>>

\* The store opens the tail: it delivers what is newer than its offset behind
\* the clock. What was logged between the catch-up and that is not read.
TailOpens ==
  /\ up /\ ~ctxDone
  /\ collector = "connecting"
  /\ collector' = "tailing"
  /\ LET newer == clock - TailOffset + 1
     IN  /\ next' = Before(newer) + 1
         /\ skipped' = skipped \union Errors((Before(since) + 1 .. Before(newer)) \ 1 .. upto)
  /\ since' = 0 /\ upto' = 0
  /\ live' = {}
  /\ UNCHANGED <<storeVars, boundVars, cursor, open, groups, flushed, cut,
                 loopVars, processVars, file, unsaved>>

TailReads ==
  /\ up
  /\ collector = "tailing"
  /\ next \in Logged
  /\ log[next].at + TailOffset <= clock
  /\ Ingest(next, TRUE)
  /\ ReadOn
  /\ UNCHANGED <<storeVars, boundVars, loopVars, processVars, file, skipped, unsaved>>

\* The tail ends or never opened: collect reconnects after its backoff.
TailEnds ==
  /\ up
  /\ collector \in {"connecting", "tailing"}
  /\ ends < MaxEnds
  /\ ends' = ends + 1
  /\ collector' = "idle"
  /\ since' = 0 /\ next' = 1 /\ upto' = 0
  /\ UNCHANGED <<storeVars, starts, cursor, assemblyVars, loopVars,
                 processVars, file, skipped, unsaved>>

\* Every read and every wait of collect ends with the context.
CollectEnds ==
  /\ up
  /\ ctxDone
  /\ collector # "done"
  /\ Collected
  /\ UNCHANGED <<storeVars, boundVars, cursor, assemblyVars, loopVars,
                 processVars, file, skipped, unsaved>>

-----------------------------------------------------------------------------
(* The control loop *)

\* Mutation: the wall clock itself.
WallClock == clock

\* The watermark of tick, in record time.
Watermark == clock - TailOffset

\* The snapshot of the state just written; opened is history.
Snapshot == [cursor |-> cursor, groups |-> groups', opened |-> Opened']

\* tick, under d.mu: flush the assembler, take a snapshot if one is due. The time
\* tick read may be older, which only flushes less.
Tick ==
  /\ up
  /\ run = "select"
  /\ Flush(Watermark)
  /\ \/ snap' = {Snapshot} /\ run' = "tick"
     \/ UNCHANGED loopVars
  /\ UNCHANGED <<storeVars, boundVars, readVars, cursor, processVars, file, skipped, unsaved>>

\* Mutation: the cursor saved is the one of the moment of the save.
SaveCursorNow ==
  file' \in {file} \union {[s EXCEPT !.cursor = cursor] : s \in snap}

\* saveState replaces the file whole, or fails.
Save == file' \in {file} \union snap

TickSaves ==
  /\ up
  /\ run = "tick"
  /\ Save
  /\ run' = "select" /\ snap' = {}
  /\ UNCHANGED <<storeVars, boundVars, readVars, cursor, assemblyVars, processVars,
                 skipped, unsaved>>

RunStops ==
  /\ up
  /\ run = "select"
  /\ ctxDone
  /\ run' = "wait"
  /\ UNCHANGED <<storeVars, boundVars, readVars, cursor, assemblyVars, snap, processVars,
                 file, skipped, unsaved>>

\* shutdown, once the collector returned: flush, then the last snapshot.
Shutdown ==
  /\ up
  /\ run = "wait"
  /\ collector = "done"
  /\ Flush(clock)
  /\ snap' = {Snapshot} /\ run' = "saving"
  /\ UNCHANGED <<storeVars, boundVars, readVars, cursor, processVars, file, skipped, unsaved>>

\* The last save, and the process ends.
FinalSave ==
  /\ up
  /\ run = "saving"
  /\ Save
  /\ up' = FALSE
  /\ FromState(file')
  /\ UNCHANGED <<storeVars, boundVars, skipped, unsaved, cut>>

-----------------------------------------------------------------------------
CollectStep ==
  CatchUp \/ CatchUpReads \/ CatchUpEnds \/ CatchUpFails \/ TailOpens \/ TailReads \/ TailEnds \/ CollectEnds

LoopStep == Tick \/ TickSaves \/ RunStops \/ Shutdown \/ FinalSave

Next == Crash \/ Start \/ Cancel \/ Write \/ Advance \/ CollectStep \/ LoopStep

Spec == Init /\ [][Next]_vars

-----------------------------------------------------------------------------
(* Properties *)

\* Every variable has its type; an open stack always has room for a line
\* (Assembler.append, Feed).
TypeOK ==
  /\ clock \in 1 .. MaxClock
  /\ log \in Seq([at : 1 .. clock, kind : Kinds, key : Keys]) /\ Len(log) <= MaxRecords
  /\ ends \in 0 .. MaxEnds /\ starts \in 0 .. MaxStarts
  /\ up \in BOOLEAN /\ ctxDone \in BOOLEAN
  /\ collector \in Collecting
  /\ since \in 0 .. clock /\ next \in 1 .. MaxRecords + 1 /\ upto \in 0 .. MaxRecords
  /\ cursor \in 0 .. clock
  /\ open \in [Keys -> [sig : {0} \union Ids, last : 0 .. clock, count : 0 .. MaxLines - 1]]
  /\ groups \in SUBSET Ids
  /\ run \in RunStages
  /\ \A s \in snap \union {file} :
       s \in [cursor : 0 .. clock, groups : SUBSET Ids, opened : SUBSET Ids]

\* No error behind the cursor is forgotten, in any process: it was counted, its
\* stack is still being read, or it is one the design gives up (collect,
\* catchUp: "a restart neither drops what was logged while the detector was
\* down", detector.go:488). Records that share the cursor's instant with one
\* already read are not behind it, and are read again.
ErrorsBehindCursor == up =>
  \A i \in Logged : IsError(i) /\ log[i].at < cursor =>
    i \in groups \union Opened \union skipped \union unsaved

\* The state file is one moment of the detector: each error behind its cursor is
\* in its groups, was still open, or is one given up (tick, shutdown, saveState).
FileIsOneMoment ==
  \A i \in Logged : IsError(i) /\ log[i].at < file.cursor =>
    i \in file.groups \union file.opened \union skipped \union unsaved

\* The saved cursor never goes back, through restarts and a tail that reads
\* again what the catch-up had read (ingest, detector.go:517-531).
CursorNeverBack == [][file'.cursor >= file.cursor]_vars

\* A tail loses no line of a stack to the flush of tick, as long as it lags by
\* less than the silence that ends a stack: the watermark trails the clock by
\* the offset of the tail (tick, detector.go:622-624).
TailKeepsStacks == \A c \in cut : c.live => c.gap + MaxTailLag >= CrashSilence

\* What Flush promises: "a crash is never cut short because the reader is behind"
\* (assembler.go:102-103), whatever it is reading.
NeverCutShort == cut = {}

\* What shutdown promises: "Nothing more will be read, so every open crash is
\* complete: flush them" (detector.go:1039-1040), so none is left open.
ShutdownFlushesAll == run = "saving" => Opened = {}
=============================================================================
