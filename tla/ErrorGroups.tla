---------------------------- MODULE ErrorGroups ----------------------------
(***************************************************************************)
(* The life of an error group and the burst cap on its alerts              *)
(* (services/error-pipeline/internal/group/group.go, notify.Limiter, and   *)
(* ingest, tick, allowBurst, takeOverflow of the detector). Two goroutines *)
(* read the clock before they take d.mu, so each applies a time that may   *)
(* be older than the other's.                                              *)
(*                                                                         *)
(* Pods and samples never decide anything and are left out; WindowEnd and  *)
(* CooldownUntil are functions of FirstSeen.                               *)
(***************************************************************************)
EXTENDS Integers

CONSTANTS
  Fingerprints,     \* the errors of a behaviour
  Window,           \* collection window, from the first occurrence (3 min)
  Cooldown,         \* quiet period after the window (6 h)
  Retention,        \* how long an idle closed group is kept (168 h)
  Minute,           \* length of a burst window
  PerMinute,        \* alerts allowed in it (burstPerMinute, 10)
  MaxClock,         \* bound: the last instant
  MaxLag,           \* bound: between reading the clock and using it
  MaxErrors,        \* bound: errors observed
  MaxRestarts       \* bound: shutdowns

ASSUME TimingAssumption ==
  /\ Window \in Nat \ {0} /\ Cooldown \in Nat \ {0} /\ Minute \in Nat \ {0}
  /\ PerMinute \in Nat \ {0}
  /\ MaxLag \in Nat
  /\ Retention \in Nat /\ Retention >= Window + Cooldown + 2 * MaxLag
ASSUME GroupBoundsAssumption ==
  MaxClock \in Nat \ {0} /\ MaxErrors \in Nat /\ MaxRestarts \in Nat

VARIABLES
  clock,            \* wall clock; 0 is Go's zero time, never read
  groups,           \* t.groups
  limiter,          \* notify.Limiter
  burstSince,       \* d.burstSince
  ingesting,        \* the error ingest holds with the time it read, if any
  ticking,          \* the time tick read, if it runs, and whether it has
                    \* flushed a crash, with d.mu held until its end
  errors, restarts, \* counted for the bounds
  \* History, read by the properties only.
  past,             \* per fingerprint, what its cycles added up to
  refusals,         \* alerts the cap refused, by the burst window they fell in
  reported          \* what the summaries said of each burst window

groupsVars == <<clock, groups, limiter, burstSince, ingesting, ticking, errors, restarts,
          past, refusals, reported>>

Times == 1 .. MaxClock

NoGroup == [state |-> "none", first |-> 0, last |-> 0, count |-> 0, since |-> 0]
NewLimiter == [start |-> 0, count |-> 0, overflow |-> 0]
NoPast == [alerted |-> 0, cycles |-> 0, handoffs |-> 0, retries |-> 0,
           inWindow |-> 0, carried |-> 0, retried |-> FALSE]

-----------------------------------------------------------------------------
(* group.Tracker *)

WindowEnd(g) == g.first + Window
CooldownUntil(g) == WindowEnd(g) + Cooldown

\* Mutation: a window that ended is closed however often it is looked at.
DueAgain(g, t) == g.state # "none" /\ t >= WindowEnd(g)

\* The window ran out and nothing closed it yet.
Due(g, t) == g.state = "open" /\ t >= WindowEnd(g)

\* close.
Close(g) == [g EXCEPT !.state = "handed"]

\* start, with record's first occurrence.
StartCycle(t) == [state |-> "open", first |-> t, last |-> t, count |-> 1, since |-> 0]

\* Mutation: Observe leaves closing to the next tick.
SettledByTickOnly(g, t) == g

\* Observe first closes a window that ran out.
Settled(g, t) == IF Due(g, t) THEN Close(g) ELSE g

\* Observe alerts for a new group and for one whose cooldown is over.
Alerts(g, t) ==
  LET h == Settled(g, t)
  IN  h.state = "none" \/ (h.state = "handed" /\ t >= CooldownUntil(h))

\* Observe: a new cycle, an occurrence in the open window or one in the
\* cooldown.
Observe(g, t) ==
  LET h == Settled(g, t)
  IN  IF Alerts(g, t) THEN StartCycle(t)
      ELSE IF h.state = "open" THEN [h EXCEPT !.count = @ + 1, !.last = t]
      ELSE [h EXCEPT !.count = @ + 1, !.since = @ + 1, !.last = t]

\* Mutation: idle is measured from the first occurrence and the window.
IdleTooSoon(g, t) == g.state = "handed" /\ WindowEnd(g) < t

\* Tick keeps a closed group until it has been idle for the retention.
Idle(g, t) == g.state = "handed" /\ g.last + Retention < t

-----------------------------------------------------------------------------
(* notify.Limiter and the detector's window around it *)

\* The limiter and the detector start a window at t.
Rolls(start, t) == start = 0 \/ t - start >= Minute

\* Mutation: one alert more than the cap.
AllowedOneMore(l, t) == Rolls(l.start, t) \/ l.count <= PerMinute

\* Limiter.Allow grants an alert at t.
Allowed(l, t) == Rolls(l.start, t) \/ l.count < PerMinute

\* Limiter.Allow.
Allow(l, t) ==
  LET w == IF Rolls(l.start, t) THEN [l EXCEPT !.start = t, !.count = 0] ELSE l
  IN  IF Allowed(l, t) THEN [w EXCEPT !.count = @ + 1] ELSE [w EXCEPT !.overflow = @ + 1]

\* Limiter.TakeOverflow.
TakeOverflow(l) == [l EXCEPT !.overflow = 0]

\* RenderOverflow tells of n refusals in the burst window since.
Report(since, n) == reported' = [reported EXCEPT ![since] = @ + n]

\* takeOverflow: the window ended, or shutdown reports a partial one.
Harvests(since, t, force) == since # 0 /\ (force \/ t - since >= Minute)

-----------------------------------------------------------------------------
GroupsInit ==
  /\ clock = 1
  /\ groups = [f \in Fingerprints |-> NoGroup]
  /\ limiter = NewLimiter
  /\ burstSince = 0
  /\ ingesting = {}
  /\ ticking = {}
  /\ errors = 0 /\ restarts = 0
  /\ past = [f \in Fingerprints |-> NoPast]
  /\ refusals = [w \in Times |-> 0]
  /\ reported = [w \in Times |-> 0]

\* Time passes; no goroutine sits on a time for longer than the bound.
Advance ==
  /\ clock < MaxClock
  /\ \A reader \in ticking \union ingesting : clock < reader.at + MaxLag
  /\ clock' = clock + 1
  /\ UNCHANGED <<groups, limiter, burstSince, ingesting, ticking, errors, restarts,
                 past, refusals, reported>>

\* ingest reads the clock for a record that completes an error.
IngestReads(f) ==
  /\ ingesting = {}
  /\ errors < MaxErrors
  /\ errors' = errors + 1
  /\ ingesting' = {[fingerprint |-> f, at |-> clock]}
  /\ UNCHANGED <<clock, groups, limiter, burstSince, ticking, restarts,
                 past, refusals, reported>>

\* tick reads the clock.
TickReads ==
  /\ ticking = {}
  /\ ticking' = {[at |-> clock, flushed |-> FALSE]}
  /\ UNCHANGED <<clock, groups, limiter, burstSince, ingesting, errors, restarts,
                 past, refusals, reported>>

\* What a handoff of f carries and how often, and what observing f at t adds.
AfterClose(h, g) == [h EXCEPT !.handoffs = @ + 1, !.carried = g.count]
AfterObserve(h, g, t) ==
  LET closed == IF Settled(g, t) # g THEN AfterClose(h, g) ELSE h
  IN  IF Alerts(g, t)
        THEN [closed EXCEPT !.alerted = t, !.cycles = @ + 1,
                            !.inWindow = 1, !.retried = FALSE]
        ELSE [closed EXCEPT !.inWindow = @ + (IF t < WindowEnd(g) THEN 1 ELSE 0)]

\* Mutation: burstSince moves on before the refusals of its window are taken.
HarvestOnRollLate(t) ==
  IF Harvests(burstSince, t, FALSE) /\ limiter.overflow > 0
    THEN Report(t, limiter.overflow)
    ELSE UNCHANGED reported

\* allowBurst reports the refusals of the window that ended before it moves on.
HarvestOnRoll(t) ==
  IF Harvests(burstSince, t, FALSE) /\ limiter.overflow > 0
    THEN Report(burstSince, limiter.overflow)
    ELSE UNCHANGED reported

\* allowBurst for an alert at t.
AllowBurst(t) ==
  LET rolled == Rolls(burstSince, t)
      l == IF Harvests(burstSince, t, FALSE) THEN TakeOverflow(limiter) ELSE limiter
  IN  /\ HarvestOnRoll(t)
      /\ burstSince' = IF rolled THEN t ELSE burstSince
      /\ limiter' = Allow(l, t)
      /\ refusals' = [refusals EXCEPT ![Allow(l, t).start] = @ + (IF Allowed(l, t) THEN 0 ELSE 1)]

\* absorb of one error: the tracker observes it and route takes its alert
\* through the burst cap. Only the collector and a tick that flushed a crash
\* call it, under d.mu.
Absorb(f, t) ==
  /\ groups' = [groups EXCEPT ![f] = Observe(@, t)]
  /\ past' = [past EXCEPT ![f] = AfterObserve(@, groups[f], t)]
  /\ IF Alerts(groups[f], t)
       THEN AllowBurst(t)
       ELSE UNCHANGED <<limiter, burstSince, refusals, reported>>

\* ingest under d.mu.
Ingest ==
  /\ \A k \in ticking : ~k.flushed
  /\ \E i \in ingesting : Absorb(i.fingerprint, i.at)
  /\ ingesting' = {}
  /\ UNCHANGED <<clock, ticking, errors, restarts>>

\* The first half of tick under d.mu, when the assembler flushes a crash. Tick
\* is the other half, and ingest waits for the lock in between.
TickFlushes(f) ==
  /\ errors < MaxErrors
  /\ errors' = errors + 1
  /\ \E k \in ticking :
       /\ ~k.flushed
       /\ Absorb(f, k.at)
       /\ ticking' = {[k EXCEPT !.flushed = TRUE]}
  /\ UNCHANGED <<clock, ingesting, restarts>>

\* The rest of tick: close every window that ended, drop what is idle past
\* the retention, report the refusals of a burst window that ended.
Tick ==
  /\ \E k \in ticking :
       LET t == k.at
           closed == [f \in Fingerprints |->
                       IF Due(groups[f], t) THEN Close(groups[f]) ELSE groups[f]]
       IN  /\ groups' = [f \in Fingerprints |->
                           IF Idle(closed[f], t) THEN NoGroup ELSE closed[f]]
           /\ past' = [f \in Fingerprints |->
                IF Due(groups[f], t) THEN AfterClose(past[f], groups[f]) ELSE past[f]]
           /\ IF Harvests(burstSince, t, FALSE) /\ limiter.overflow > 0
                THEN Report(burstSince, limiter.overflow) /\ limiter' = TakeOverflow(limiter)
                ELSE UNCHANGED <<reported, limiter>>
  /\ ticking' = {}
  /\ UNCHANGED <<clock, burstSince, ingesting, errors, restarts, refusals>>

\* shutdown with no crash open, then the next process: the groups survive in
\* the state file, a closed one with no outcome as not handed; the burst
\* window does not, so its refusals are reported first.
Restart ==
  /\ restarts < MaxRestarts
  /\ ingesting = {} /\ ticking = {}
  /\ restarts' = restarts + 1
  /\ \E undecided \in SUBSET {f \in Fingerprints : groups[f].state = "handed"} :
       /\ groups' = [f \in Fingerprints |->
                       IF f \in undecided THEN [groups[f] EXCEPT !.state = "open"] ELSE groups[f]]
       /\ past' = [f \in Fingerprints |->
                     IF f \in undecided
                       THEN [past[f] EXCEPT !.retries = @ + 1, !.retried = TRUE]
                       ELSE past[f]]
  /\ IF Harvests(burstSince, clock, TRUE) /\ limiter.overflow > 0
       THEN Report(burstSince, limiter.overflow)
       ELSE UNCHANGED reported
  /\ limiter' = NewLimiter
  /\ burstSince' = 0
  /\ UNCHANGED <<clock, ingesting, ticking, errors, refusals>>

GroupsNext ==
  \/ Advance \/ TickReads \/ Ingest \/ Tick \/ Restart
  \/ \E f \in Fingerprints : IngestReads(f) \/ TickFlushes(f)

GroupsSpec == GroupsInit /\ [][GroupsNext]_groupsVars

-----------------------------------------------------------------------------
(* Properties *)

Group == [state : {"none", "open", "handed"}, first : 0 .. MaxClock, last : 0 .. MaxClock,
          count : Nat, since : Nat]

History == [alerted : 0 .. MaxClock, cycles : Nat, handoffs : Nat, retries : Nat,
            inWindow : Nat, carried : Nat, retried : BOOLEAN]

\* Every variable has its type; the cap grants at most PerMinute alerts in a
\* burst window (Limiter.Allow, queue.go:244-261).
GroupsTypeOK ==
  /\ clock \in Times
  /\ groups \in [Fingerprints -> Group]
  /\ limiter \in [start : 0 .. MaxClock, count : 0 .. PerMinute, overflow : Nat]
  /\ burstSince \in 0 .. MaxClock
  /\ ingesting \in SUBSET [fingerprint : Fingerprints, at : Times]
  /\ ticking \in SUBSET [at : Times, flushed : BOOLEAN]
  /\ errors \in 0 .. MaxErrors /\ restarts \in 0 .. MaxRestarts
  /\ past \in [Fingerprints -> History]
  /\ refusals \in [Times -> Nat] /\ reported \in [Times -> Nat]

\* A fingerprint alerts once per window and cooldown, whichever goroutine
\* observes it, across a retention drop and a restart: "neither re-announces
\* known errors" (state.go:1-3; Observe, group.go:102-141).
CooldownHolds ==
  [][\A f \in Fingerprints :
       past[f].alerted > 0 /\ past'[f].alerted # past[f].alerted =>
         past'[f].alerted >= past[f].alerted + Window + Cooldown]_groupsVars

\* Every cycle is handed off exactly once, and again only after a restart that
\* saved it undecided: no window is lost by a retention drop, a recurrence or
\* a restart (Observe, Tick, snapshotGroups).
EveryCycleHandedOff ==
  \A f \in Fingerprints :
    past[f].handoffs =
      past[f].cycles + past[f].retries - (IF groups[f].state = "open" THEN 1 ELSE 0)

\* The first handoff of a cycle carries the occurrences of its window and no
\* later one, even when no tick closed it in time: "so the handoff does not
\* include this later occurrence" (group.go:119-122).
HandoffIsTheWindow ==
  [][\A f \in Fingerprints :
       past'[f].handoffs > past[f].handoffs /\ ~past[f].retried =>
         past'[f].carried = past[f].inWindow]_groupsVars

\* Each refused alert is told once, in the summary of the burst window it fell
\* in, or is still in the limiter: allowBurst "keeps its window in step with
\* the limiter's own" (detector.go:566-578).
RefusalsAccounted ==
  \A w \in Times :
    refusals[w] = reported[w] + (IF w = burstSince THEN limiter.overflow ELSE 0)
=============================================================================
