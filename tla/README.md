# Verification of nacfson_pipeline

TLA+ models of the platform repository `nacfson_pipeline`, the TLC runs that
check them on small instances and the TLAPS proofs that carry the most important
results over to every instance. Paths below are relative to the repository.

## 1. The system

The repository holds a single-operator Kubernetes platform: declarative cluster
layers, and a set of Go services and scripts that carry its own logic. The
services are small, but each has goroutines, timeouts and a little state that
must survive a restart.

| Component | State it keeps | Operations | Hard behaviour |
|---|---|---|---|
| Notification queue (`services/error-pipeline/internal/notify/queue.go`) | the list, its sequence numbers, the entry in flight, the pass in progress | `Push`, `Drain`, `Len` | the mutex is released around every send, so pushes evict and other `Drain` calls arrive meanwhile |
| Detector handoff and shutdown (`internal/detector/detector.go`) | the handoff channel, the spill list, the skip outbox (`unresolved`, `pinned`, `covered`), the state file | `dispatch`, `enqueueHandoff`, `handoffWorker`, `deliverSkips`, `tick`, `shutdown`, `saveState` | four goroutines, a shutdown that must wait for three of them, kills between any two steps |
| Error groups and burst cap (`internal/group/group.go`, `notify.Limiter`) | one group per fingerprint, the limiter and the detector's window around it | `Observe`, `Tick`, `Allow`, `TakeOverflow` | the clock is read before the lock is taken, so older times are applied after newer ones |
| Record stream, cursor, crash assembler (`internal/vlogs`, `internal/classify/assembler.go`) | the cursor, the assembler's open crash per container | `CatchUp`, `Tail`, `Feed`, `Flush` | duplicates at the cursor, records read but not yet saved |
| Classification, fingerprints, redaction, rendering | none | pure text functions | none that is temporal |
| Log contract checker (`cmd/logcheck`) | none between lines | one pass over a file | none |
| Sign-in gateway (`gateway/internal/auth`) | handoff tickets, sessions and their revocation | forward-auth, sign-in, callback, refresh, logout | single use against expiry and eviction, refresh racing logout |
| Project auth library (`gateway/pkg/projectauth`) | pickup codes | callback, session, bearer check | the same, for codes |
| AI proxy (`services/vault-proxies/cmd/ai-proxy`) | a switch and a daily quota per project, the upstream key; a copy in OpenBao | chat completion, the operator's changes, sync | checks made before a sync and not repeated after it; reads and writes of OpenBao outside the lock |
| Notify proxy (`cmd/notify-proxy`) | webhook cache | send with a retry ladder | a retry that outlives its caller |
| Database proxy, registry proxy, pod identity | bindings, pod lookups | one connection or request each | stale lookups |
| Image bump requests (`scripts/image-bump-request.py`) | open issues, each with a marker | `main`: validate, dry run, list, `plan`, open, close | receiver runs overlap and repeat; the plan is made on a list that goes stale; any call can fail |
| Project image update helper (`.agents/skills/update-project-images/scripts/update_project_images.py`) | workload files and the handbook of a worktree | `run_update`: resolve, inspect, compute, write file by file | one step of several failing, kills between files, repeats in a half-written tree |
| Image pin decisions (`scripts/image-pin.py`) | a marker per run, read by other runs | `check-request`, `dedupe`, `write-marker`, `newer-check`, `diff-check` | runs wait for approval up to 30 days and are approved in any order |
| Review cycle and commit hooks (`scripts/review-cycle.py`, `universal-agent-hook.py`, `check-arch-doc-sync.py`, `.githooks/pre-commit`) | a state file, a receipt, the git index | `verify`, `record-receipt`, `resolve`, `check-gate`, the two hooks | two files written without a lock, an index that moves between a check and its use |
| Image bump command gate, preflight, invariant renderer, session start | none of their own | predicates and one-shot commands | no protocol of their own |
| Vault scripts | none of their own | sequential commands | steps guarded by a server outside this repository |
| Cluster layers, bootstrap, log shipping filter | manifests, one Lua filter | reconciled by Flux, Ansible, fluent-bit | outside this repository |

How they interact: containers log, the log store (VictoriaLogs, outside) feeds
the detector's record stream; the collector goroutine assembles and classifies
records, groups them by fingerprint under `d.mu`, pushes alerts into the
notification queue and closed collection windows ("cycles" in the models) into
the handoff buffers. The handoff worker posts cycles to the investigator; the
sender goroutine drains the queue to the notify proxy, which posts to Discord.
The control loop ticks (closing windows, saving) and runs the shutdown. The
gateway and the proxies share no state with the pipeline.

A build in a project repository dispatches an image bump request or an image pin
request. Both dry-run the image update helper on `main`, and either a decision
session or the pin job later runs the helper for real and opens a pull request.
Every commit an agent makes in this repository passes the review gate: the
hook of the agent looks first, `.githooks/pre-commit` again when git runs.

What makes each part correct:

* queue: bounded; passes never overlap; a copied entry stays until its send
  settled; order; drops are logged truthfully; an overlapping `Drain` is not
  swallowed and every `Drain` returns;
* handoff: no closed cycle is ever out of every goroutine's hands; the state
  file never calls a cycle handed off whose outcome is not at least queued; a
  shutdown decides every cycle and ends; nothing is stranded behind a lost wake-up;
* groups: the cooldown holds and every window is handed off once with what it
  saw; each refused alert is told in the right summary;
* stream: an error behind the cursor has been counted or is still being
  assembled, in memory and in the state file; the saved cursor never goes back;
  a stack is not cut while the tail keeps up;
* gateway: a ticket or code is redeemed at most once, while it is valid; a
  revoked session does not come back through a refresh;
* AI proxy: a revoked project stays off through rollovers, syncs and quota
  changes; a spent quota stops the next call; memory and OpenBao agree;
* image requests: a request is closed only for a wider one, never in a circle,
  and a retry cleans up after the run that failed;
* image update: what lands on main is inspected, complete and told truthfully
  by the handbook, whatever died or was refused on the way;
* image pin: a request that ends quietly was really put to the operator, an
  older approval does not undo a newer one, a pull request is what was approved;
* review cycle: a commit has a passing receipt of exactly its diff, and a pass
  is earned: verified, with every blocking finding answered.

## 2. Modules

| Module | Models | Proved about in |
|---|---|---|
| `QueueOps` | the list surgery of `Push` (`removeLocked`, `droppableLocked`), shared by two models | `AlertProofs`, `HandoffProofs` |
| `NotifyQueue` | `Queue.Push` and `Queue.Drain` with overlapping callers | `AlertProofs` |
| `LossyFifo` | the abstract queue: waiting, delivered or lost, in order, at most once | `AlertProofs` |
| `Handoff` | the detector's goroutines around the handoff buffers, saves, shutdown, kills, restarts; composes `QueueOps` as the queue the sender drains | `HandoffProofs` |
| `ErrorGroups` | the tracker, the limiter and the times two goroutines apply | `AlertProofs` |
| `RecordStream` | catch-up and tail, the cursor, the crash assembler, the state file across kills and restarts | `RecordStreamProofs` |
| `AIProxy` | chat requests, the operator's requests and the sync of the AI proxy, against OpenBao | `AIProxyProofs` |
| `ImageRequests` | overlapping receiver runs and the issues they open and close | `ImageRequestsProofs` |
| `ImageUpdate` | one invocation after another of the image helper in a worktree, and what lands on main | `ImageUpdateProofs` |
| `ImagePin` | validate and pin jobs of many runs, their markers, branches and pull requests | `ImagePinProofs` |
| `ReviewCycle` | review processes around the state file and the receipt, the index, the hooks on git commit | `ReviewCycleProofs` |
| `MCNotifyQueue`, `MCHandoff`, `MCRecordStream`, `MCAIProxy`, `MCImageRequests`, `MCImageUpdate`, `MCImagePin`, `MCReviewCycle` | the instances TLC checks; the other runs instantiate their module in the .cfg | |

### NotifyQueue

Every critical section of `q.mu` is one action: `PushKept` and `PushRefused`
are the outcomes of `Push`; `BeginPass`, `BeginWait`, `GiveUp` are `begin`;
`CopyHead` is the first half of the loop and `SettleSent`, `SettleFailed` the
second; `EndPass` is `end`. The send between the halves is
`SendAccepted`/`SendFailed`, with the mutex free. An entry is its sequence
number: a payload never decides anything. `q.passDone` is not a variable: it is
open exactly while `draining` holds, and closing it is the move of all callers
from `waiting` to `woken` in `EndPass`. A context may end at any moment, and the
select of `begin` may take either ready case.

The abstract `LossyFifo` knows nothing of passes: an arrival waits, replaces a
waiting one when the queue is full, or the oldest is delivered. The refinement
maps `waiting` to the queued entries not yet accepted, so that the moment of
delivery is the return of the accepted send, not the later list surgery.
`ArriveForAnother` allows a replacement when one slot is still held by a
notification just accepted: the code evicts there too, since
the accepted entry still counts against the limit until `dropThrough`.

### Handoff

A cycle is one collection window of one error group. The clock is abstracted:
any open window may just have ended, and at most `MaxDropped` closed cycles may
run out of cooldown or retention (what the clock really allows is the matter of
`ErrorGroups`). A notification is the set of cycles its skip notice covers, and
`{}` for an alert.

| Code | Action |
|---|---|
| `ingest` under `d.mu` (absorb, route) | `Ingest` |
| `tick` under `d.mu` (flush, route, `Tracker.Tick`, overflow, snapshot) | `Tick`; its `saveState` is `TickSaves` |
| `dispatch`, `enqueueHandoff` of either producer | `PushAlert`, `EnqueueHandoff`, `Spill`, `Refuse` |
| `handoffWorker`, `deliverHandoff`, `deliverOne`, `requeueHandoff` | `WorkerHead`, `WorkerSelect`, `PostAccepted`, `PostFailed`, `Requeue`, `KeepGoing` |
| `deliverSkips`, `flushSkips`, `settleCovered`, `Queue.Drain` by the sender | `FlushSkips`, `PushNotice`, `FlushEnds`, `DrainSends`, `DrainSent`, `DrainStops`, `AfterDrain`, `SenderExits` |
| `Run` on a done context, `shutdown`, `drainHandoffs` | `RunStops`, `Shutdown`, `ShutdownDispatched`, `DrainHandoff`, `DrainCutShort`, `ShutdownFlushes`, `FinalSave`, `FinalSend`, `Exit` |
| a kill, the next process | `Crash`, `Start` |

`enqueueHandoff` is two actions, the channel and then the spill list, because
nothing protects the moment between them: the worker may empty the channel
there. `flushSkips` reads the queue length before it pushes, and other producers
push between its pushes, so the pushes are actions of their own.
`announced` and `reached` are history: cycles whose notice entered the queue,
and cycles the investigator or the proxy acknowledged.

### ErrorGroups

Instants are small integers. The retention covers a window, a cooldown and two
lags (section 4 says why two); the code has 3 minutes, 6 hours and 7 days.
`IngestReads`/`Ingest` and `TickReads`/`Tick` separate the reading of the clock
from its use under `d.mu`; `TickFlushes` is the half of `tick` that absorbs a
crash the assembler closed. `MaxLag` bounds how long a goroutine can sit on a
time it read. The specification is `GroupsSpec`, so that `AlertProofs` can extend
this module together with `NotifyQueue`.

### RecordStream

A record is its place in the log, its instant and the kind of its line; the
group table is the set of errors counted, a crash being its signature record.
`collector` is where `collect` stands, and every record is one `ingest` under
`d.mu`.

| Code | Action |
|---|---|
| `catchUp`, `Client.CatchUp`, `stream` | `CatchUp`, `CatchUpReads`, `CatchUpEnds`, `CatchUpFails` |
| `Client.Tail`, `stream`, the reconnect of `collect` | `TailOpens`, `TailReads`, `TailEnds`, `CollectEnds` |
| `ingest` with `Feed`, `append`, `close` | `Ingest` (`CursorMoves`, `FeedPlain`, `FeedOther`) |
| `tick` with `Flush`, `saveState` | `Tick`, `TickSaves` |
| `Run` on a done context, `shutdown` | `RunStops`, `Shutdown`, `FinalSave` |
| a kill, the next process | `Crash`, `Start` |
| the containers, the log store, time | `Write`, `Advance` (external) |

What is assumed of the log store: it keeps lines in time order and has a line as
soon as it is logged, a range request returns its first and last instant, and a
tail opened now delivers what is newer than its offset behind the clock.
The kind of a line stands for what `Line` and `EventFromRecord` decide.

History variables say what may be lost, so that the invariants can say that
nothing else is. `skipped` are the errors the code gives up knowingly: older
than `catchUpMax`, before the first start, of a catch-up that failed, or logged
between a catch-up and a tail that opened more than the offset later. `unsaved`
are the crashes that were being assembled when the state was saved: a restart
does not read their signatures again. `cut` notes each line that came
within the silence of a stack the silence had already ended, `flushed` and
`live` whether one tail had read all of it.

### AIProxy

A handler is one HTTP request: `at` is the place it has reached, `req` its local
variables. A critical section of `p.mu` is one action and so is each request to
OpenBao.

| Code | Action |
|---|---|
| `handleChatCompletions` | `ChatArrives` (the date is read), `ChatChecks` (405-486, up to the unlock for the sync when the key is missing), `ChatCharges` (465-486 after it) |
| `handleAdminRevoke`, `handleAdminEnable`, `handleAdminQuota` | `Revoke`, `Enable`, `Quota`, each with `Changes`; then `Persist` |
| `handleAdminSetKey`, `handleAdminReloadKey` | `SetKey`, `SetKeyWrites`, `SetKeyLoads`; `ReloadKey` |
| check 5 of `RunStartupSelfTest` | `Startup` |
| `syncFromOpenBao` | `Login`, `SyncReads`, `SyncApplies`, `SyncEnds` |
| the process is replaced; midnight | `Restart`, `NextDay` |

OpenBao (external) is a register per secret: a write that fails has not been
applied, a read fails or returns the last write. The upstream call changes no state
and is not an action; a model that is not allowed is a nondeterministic
refusal. `main` sets an OpenBao address and no initial key, so the branches
without the one or with the other are left out.

The code guards memory only, so memory and OpenBao can really differ: a write's
error is dropped, a sync can apply what it read before the operator's change, two
changes can be written in the other order. `torn` names the projects to which
one of these happened in this process; `MemoryIsStored` and `StopLasts` say that
there is no other way. `top` is the highest limit since the counter was
reset, which is what `OvershootIsBounded` measures against; one request per handler
besides the first is really reached, when all of them miss the key at once.

Two things a reader should know, which no comment in the code contradicts: a
quota trip that `Quota` writes as `enabled = false` outlives its day in OpenBao, and
between a restart and the first sync that succeeds every project is enabled.

### ImageRequests

| Code | Action |
|---|---|
| `main` up to `validate_request` | `Dispatch` (a rejected payload ends red) |
| `resolve`, the `changed` test of `main` | `Resolve` |
| `list_open_issues` and `plan` on what it returned | `List` |
| `open_issue` | `Open` (the run may die after gh created the issue) |
| `close_superseded`, one issue at a time | `Close`, `Finish` |
| any `RequestError` of `run_gh` | `Fail` |
| the decision session (external): the re-check and the pull request, or the refusal | `Allow`, `Disallow` |
| the pull request is merged, at any later time, or closed (external) | `Merge`, `Abandon` |

A commit stands for the digests of its images, and a role is pinned to a commit.
The listing has no fixed order, so any matching issue may be the duplicate. A
re-run is a run of its own with the same payload. `overlapped` and `repeated` are
history: projects two runs worked on at a time, and projects for which a run met
a duplicate. Both together allow the one thing `SupersedingEnds` excepts: D is
open for A; run B opens X, which covers D; a repeat of A finds D as its
duplicate and closes X; then B closes D, and both requests are gone.
`docs/image-bump-dispatch.md:107-111` knows that runs are not serialized.

### ImageUpdate

| Code | Action |
|---|---|
| `_parse_image_args`, `main` | `Start` |
| the loop of `run_update`: `discover_target`, `parse_link`, `resolve_link`, `validate_image` | `Resolve`, `ResolveRefused` |
| the computed handbook (`update_html(write=False)`) | `Compute` |
| `replace_image` of one role | `Write` |
| `update_html(write=True)` | `WriteHandbook` |
| the session (external): repeat, a new worktree, the merge, an edit of the handbook | `Again`, `Isolate`, `Land`, `EditHandbook` |
| a kill | `Crash` |

A container stands for its image line and an image for its digest; `Lines` are
all image lines of the files, those of init containers included. `replace_image`
does not look for a container: it takes the one line of the file whose whole
value is the old image, and refuses when none or several are. `Plain` are the
lines it can read; one with a comment behind the image, say, is not among them.
The properties that need the right line to be taken ask for `OwnLines`: the
repository of a container whose line is not plain occurs nowhere else in its file.
A deployment and a container name are taken to identify a container, as the
overrides of the pins table take them. The registry
may answer differently each time it is asked, since tags move; what a digest
holds does not change. The handbook is the pins table, the diagram and the
details, each a digest per container, because the code replaces them by
different rules: the table is rebuilt from every project's files, the diagram is
set, the details change only where they name the old digest. The second test for
the pins block in `WriteHandbook` stays in the model although no reachable state
fails it, as it stays in the code. `wrote` and `torn` are history.

### ImagePin

The verbs of the script are `CheckRequest`, `Dedupe`, `WriteMarker`,
`NewerCheck` and, inside `Apply`, `diff_check`. `image-pin.yaml`, which calls
them, is not in the repository; the other steps and their order are those of
sections 7.1, 7.2, 9 and 13 of
`docs/superpowers/specs/2026-10-31-image-pin-approval-design.md`. A branch is named after the
project and the commit, whatever the roles: a request for other roles of a commit with an
open pull request ends as a duplicate or as `pr_exists`.

Time is the number of runs requested so far. That keeps exactly the comparison the code
makes, marker time against request time, including its surprising outcomes.
A marker can be read as soon as its job wrote it; a lost artifact
(`read_marker` returning nothing) would only make the other run go on. The diff
is the set of image lines that moved, with the file of each, that of the handbook's
rows and that of its `Pinned @` badges. A badge is the commit its first eight
digits are of, and whether it has no others: the helper puts eight digits over
the first eight whatever they are, and the diff check knows tokens of eight or
of sixty-four digits only. The references in the handbook's detail texts, which
move as rows do, are left out, and each container has an image repository of its
own. `Honest` names the checkouts on which a pin must pass: no stale row of
another role, at most one line to move per file, and no longer badge on a moved
role. In the two last cases the script really refuses the helper's own edit.

### ReviewCycle

| Code | Action |
|---|---|
| `verify` | `run_domain_verification` |
| `record-receipt` up to its first write | `validate_and_record_receipt` |
| `resolve` up to its first write | `resolve_finding` |
| the two `write_text` calls | `WriteState`, `WriteReceipt` |
| a death before or in a write | `Crash` (the file is cut off, and a state file that cannot be read counts as none) |
| `universal-agent-hook.py` on a git commit | `PreToolUse` |
| `.githooks/pre-commit` | `Commit`, `CommitSkipped` |
| git add (external) | `Stage` |

A finding stands for its place and title, which is what
`_is_suppressed_by_state` compares. Which findings a reviewer reports is
nondeterministic, and so is which of them the payload itself gives another
status than open: the code keeps that status and such a finding does not block
(review-cycle.py:373-385), so `PassIsEarned` speaks of the findings reported as
open. Hashes, changed files and the policy's
lists are constants, so that two diffs may share a hash (`compute_diff_sha256` drops index
lines). The history variables `fixed` and `dismissed` and the receipt's `reported` field
record who answered for what; the code never reads them. The secret scan and
the static checks of the handbook can only refuse more and are left out.

## 3. Runs

| Run | Instance | Shows |
|---|---|---|
| `notify_queue` | two drainers (the sender twice, the shutdown once), three pushes, limits 0, 1, 2 | passes do not overlap, the entry in flight stays, drop lines are true, no `Drain` is swallowed or stuck, the queue implements the lossy FIFO |
| `handoff` | two cycles, every buffer with one slot, an alert against a queue of two, one restart, a kill at any moment | no undecided cycle leaves everyone's hands; a shutdown decides all of them; a saved "handed" has an investigation or a queued notice behind it, in any crash |
| `handoff_liveness` | two cycles, fairness | no cycle is stranded in a buffer; a cancelled detector ends |
| `handoff_eviction` | two cycles, two alerts | the comment of `shutdown` on queued notices does not hold (below) |
| `record_stream` | two containers, two lines, each of any kind, a tail that may lag by one, a stack of at most two lines, one failed request, one restart | errors behind the cursor are counted or being assembled, the file is one moment, the saved cursor never goes back, the tail cuts no stack |
| `ai_proxy` | two projects, two requests at once, three requests, two dates, one failed OpenBao request, one restart | a revoked project is off; the overshoot of a quota is bounded by the requests in progress; memory and OpenBao differ, and a stop is lost, only for the named reasons |
| `error_groups` | two fingerprints, four errors, eight instants, one restart, lag one | cooldown, one handoff per cycle with its window's occurrences, burst summaries |
| `image_requests` | three runs, two projects, two roles, two commits, one decision, merged or closed | a request is closed only for a wider one; no circle of closings but the named one; a run alone leaves nothing it covers |
| `image_update` | a web container with two names, alone in its file; in another file an api, its init container of the same repository and a job whose line is not plain; three kinds of image, up to two roles in an invocation | the table is the pins; a late refusal means lines that cannot be told apart or read; only inspected images are written; what lands is in step unless a run died |
| `review_cycle` | one process, an empty diff, a full one and one without the handbook, one blocking finding, one round, at most one finding resolved as fixed | a pass is earned; after the last round nothing starts over or passes, with the exceptions it names; a commit is reviewed and brings the handbook |
| `image_pin` | two runs, two projects, one with two files and two badges and one with two roles in a file, two commits, one edit by hand | duplicates were asked, pull requests are their requests, honest pins pass, the newest run wins |
| `image_pin_replaced` | two runs, one project | the docstring of `is_replaced` does not hold (below) |

Why the bounds are enough. Three pushes fill a queue of two and evict once
around a send in flight, and a limit of one makes the held head the only entry;
two drainers are the two goroutines that exist. Two cycles fill a channel and a
spill list of one slot each, which is what a lost wake-up and a refusal need (a
requeue after a failed post counts among them), and an alert competes with
their notices for a queue of two. Eight
instants hold a window, its cooldown, the next alert and a retention drop. A
signature and a second line make a stack that can be cut, and two records put one at
and one after a cursor. On the last of the five instants `tick` really flushes: a
stack of instant one has been silent for two behind the tail's offset of two, and
a tail that lags by one may still deliver its line of instant two, which is the
lag `TailKeepsStacks` allows for and no more; a tail that opens delivers again what is
older than the cursor. Three receiver runs are two that
overlap and a repeat; two pin runs and two commits are what it takes to be older
and newer. In the files of `image_update` are image lines that an update can make
alike, a line of no container, one that cannot be read and a container with two
names; its `Options` leave out `--skip-validation` (the proofs cover it). One
review process is enough for a death between the two writes, and the proofs of
`PassIsEarned` and `CommitIsReviewed` hold for any number of them. Two
handlers are what an overlap needs, and three requests a change, an overlapping
sync and a look at the result; a limit of one lets two requests overshoot. Every
bound is named `Max...`; the capacities are parameters with assumptions
as weak as the code's.

Deadlock checking is off in every run: the pushes, errors or starts of a
behaviour are bounded, and a detector that ended has no more steps. The
exception are the runs of `ReviewCycle`, where something can always be staged and deadlock
is checked.

Fairness. `NotifyQueue`: weak fairness of each caller's steps, because Go
schedules runnable goroutines and the detector gives every send a deadline
(`sendTimeout`). A waiting call needs no more: `end` wakes every waiter and the
bounded calls cannot overtake it for ever. `Handoff`: weak fairness of the
dispatches, the worker, the sender's pass and the shutdown (every request has a
deadline); strong fairness of `SenderExits` and `RunStops`, whose select has the
done context among other ready cases: Go picks among ready cases
uniformly, so the context is taken in the end. Ingest, tick, cancel, kills
and starts have no fairness. The sender's wake token is not modelled: its retry
ticker covers a lost token, and `FlushSkips` is enabled whenever there is work.

### Disagreements with comments

`handoff_eviction` checks what `shutdown` says of its save (detector.go:1028):
every group left handed has a notice in the queue at that moment. TLC finds a
counterexample. The sender flushes a notice, its drain stops because the context
ended, the alerts of the last records fill the queue and evict the notice, and
`settleCovered` still settles the group; it is saved as handed with neither an
investigation nor a notice left. `SavedHandedHasOutcome` is what does hold: the
notice was queued once, and its eviction is logged.

`image_pin_replaced` checks the docstring of `is_replaced` (image-pin.py:273).
The code compares when the other run wrote its marker with when this one was
requested, and a marker is written at the end of a validate job that takes
minutes. TLC finds an older run that was still validating when this one was
requested and so replaces it; when both validate jobs overlap, each can replace
the other and nothing is pinned. `NewestWins` is what does hold: an older run
never gets past a newer one.

Seven more configurations replay behaviour the code allows; TLC finds a
counterexample in each, and they are not part of the runs above:

* `MCRecordStreamBehind.cfg` (`NeverCutShort`, module `RecordStream`): the
  comment of `Flush` (assembler.go:101-103) says that no crash is cut short because
  the reader is behind. During a catch-up the reader is minutes behind the
  watermark of `tick`, which closes the crash between two of its lines. It is
  still counted, with a shorter stack. `TailKeepsStacks` is what does hold.
* `MCRecordStreamShutdown.cfg` (`ShutdownFlushesAll`): `shutdown` says that
  every open crash is complete and is flushed (detector.go:1039), but
  `Flush(now)` still subtracts the silence, and a crash opened by a catch-up in the last two
  seconds stays out of the saved state. `FileIsOneMoment` states what a save
  guarantees: such a crash, and nothing else, may be missing behind the cursor.
* `MCReviewCycleEdit.cfg` (`EditInvalidates`, module `MCReviewCycle`): the hash in
  a receipt is taken when it is recorded (review-cycle.py:1023), so an edit made
  between the verification and the recording is covered by the receipt unread.
* `MCReviewCycleFixed.cfg` (`FixedIsModified`): a blocking finding has to be
  fixed in the code and verified again, or resolved as no defect
  (`docs/superpowers/specs/2026-10-19-anthropic-review-cycle-design.md:141-143`).
  `resolve --resolution fixed` passes on the unchanged diff. `PassIsEarned` is what
  does hold, and suppression in later diffs ignores "fixed".
* `MCReviewCycleEscalation.cfg` (`EscalationSticks`): findings left in the last
  round block further rounds (line 137 of the same document). The rounds are counted
  in the state file, but `resolve` goes by the round of the receipt
  (review-cycle.py:515), and after a death between the two writes (436-439) the
  receipt is of an earlier one: resolving it passes, and the next diff starts at
  round one. `EscalationHolds` names this receipt (`LeftBehind`) as the only way.
* `MCImagePinOld.cfg` (`DifferencesMap`, module `MCImagePin`): every difference in
  the handbook maps an old digest to its approved new one
  (`docs/superpowers/specs/2026-10-31-image-pin-approval-design.md:185`; the
  docstring at image-pin.py:657). `_check_handbook` compares the new digest with
  the approved ones and the old one with nothing, so a row or a badge of a pinned
  role that was left behind passes. Line 187 of the document, that the check fails on a
  badge edited by hand, is true of badges of another length than eight digits
  only, and line 190, on a stale pin table, only of rows of other roles.
  `PrIsItsRequest` is what does hold.
* `MCImageUpdateLine.cfg` (`MovesItsContainer`, module `MCImageUpdate`): the new
  digest is on the container the role resolved to (line 184 of that document).
  The helper finds its line by the image it has, so a container whose own line
  carries a comment has its update written to another container's. The table then
  tells what was meant and not what is pinned; `TableTellsPins` excludes exactly
  this (`OwnLines`).

## 4. Proofs

`AlertProofs` has two parts, the queue and the groups whose alerts it carries.
The first proves, for every set of drainers, every limit and every
number of pushes and calls, `Spec => []QueueInv` and from it the queue's type
invariant and its safety properties (`TypeCorrect`, `PassesNeverOverlap`,
`InFlightNeverDropped`, `AcceptedOnceInOrder`, `DropsAreReported`,
`OverlappingDrainDelivers`). The properties are not inductive alone. `QueueInv`
adds that the list is strictly increasing, that everything accepted is below
every queued entry that has not been, that the head is the only entry that can
be queued and accepted at once (between `SendAccepted` and `SettleSent`), and
that what a call with a clean record owes is still queued, delivered or dropped.
The list surgery is proved first (`RemoveEntryFacts`, `TailFacts`, `PushShape`),
so that the step lemmas never open it. `QueueImplementsFifo`,
that every step of the queue is a step of `LossyFifo` or a stutter, follows from
the same invariant and a count of the waiting set.

`HandoffProofs` proves `Spec => []HandoffInv` for every set of cycles, every
capacity and any number of starts, and from it `HandoffTypeCorrect`,
`NothingUndecidedIsLost` (`UnresolvedIsHeld`), `StateFileTellsTheTruth`
(`SavedHandedHasOutcome`) and `ShutdownLeavesNothing` (`ShutdownDecidesAll`).
None of the four is inductive alone:

* `UnresolvedIsHeld` needs to know that what is staged is really somewhere
  (`StagedIsHeld`), that each producer and the worker hold at most the one cycle
  they are busy with (`OneAtATime`, `EachIsHeld`), and that the last save runs
  when only `covered` is left (`SaveDecides`).
* `ShutdownDecidesAll` needs the join of the shutdown: while it runs the other
  goroutines are gone and hold nothing (`ShutdownAlone`, `CollectorEmpty`,
  `LoopDispatched`).
* `SavedHandedHasOutcome` speaks of the file, and the file is written from a
  snapshot taken earlier, so the fact has to hold of the tracker
  (`HandedHasOutcome`: closed means undecided, investigated or noticed) and of
  the snapshot in the loop's hand (`SnapHasOutcome`). That a covered cycle counts
  as noticed (`CoveredIsAnnounced`) holds because the batch `flushSkips` took is
  pushed before anything settles (`BatchIsPushed`), and because a queue of at
  least two never refuses an arrival (`RoomForArrival`): at most one entry, the
  head in flight (`HeadIsSent`), is beyond eviction. This is where the assumption
  `QueueSize \in Nat \ {0, 1}` is used; the code's constant is 100.

The second part of `AlertProofs` proves the five properties of `error_groups` for
every set of fingerprints and all durations that satisfy `TimingAssumption`.
`GroupsInv` says that a time a goroutine still holds is at most one lag old (`ReadersAreFresh`),
that a group began with the alert of its fingerprint (`Dated`), that the count of
an open group is that of its window (`Counted`), and that the detector's burst
window is the limiter's (`InStep`). The hard conjunct is the second half of
`Dated`: after a retention drop nothing in the tracker remembers the alert, so
no goroutine may still hold a time inside its cooldown. The drop compares the
last occurrence, which may carry a time one lag older than the alert, with a
tick's time; a reader may hold one that is again one lag older. So the proof
needs a retention of a window, a cooldown and *two* lags, which
`TimingAssumption` asks for and the code's constants meet by six days.

`RecordStreamProofs` proves the five properties of `record_stream` for every
number of records, containers, failed requests and restarts. An error behind
the cursor being accounted for (`ErrorsBehindCursor`) is a fact about what
`collect` has read, so `StreamInv` says for each of its stages how far everything
is handled (`ReadSoFar`). The file is written from snapshots that overlap, so the
same fact is stated of every snapshot in flight (`Moment`), and `Saves` orders
file, snapshots and cursor, from which `CursorNeverBack` follows. For
`TailKeepsStacks` the invariant carries the timing (`InTime`): what the tail has
yet to deliver is no older than its offset and its lag, and a stack that silence
ended is older than silence and offset together.

`AIProxyProofs` proves the five properties of `ai_proxy` for every set of
projects and handlers. The overshoot is an invariant of the count together with
the requests between their check and their charge (`CountInv`). `MemoryIsStored`
and `StopLasts` compare memory with OpenBao while copies are under way in
both directions, so `CopyInv` says of every project that is not torn that the
one copy to be written is what memory has (`WriterInv`), that a copy to be applied
is what OpenBao has (`HolderInv`), that with no writer the two agree
(`LoadedInv`), and that a stop is in OpenBao with no enable on its way
(`StopInv`). None of the four is inductive without the others.

`ImageRequestsProofs` proves the properties of `image_requests` for every
allowlist and number of runs. For `SupersededByWider` the invariant `RequestInv` adds what a run knows between two
calls (`RunInv`): its issue carries its project and roles, and what it has still
to close is covered by them. Issues are never deleted and keep what they asked
(`IssuesStay`), so that stale knowledge stays true although the list it came
from is out of date. `SupersedingEnds` and `LeavesOneRequest` need `EndsInv`
besides. A loop of closings is excluded by two different arguments: where no run
met a duplicate, every comment names a newer issue (`NamesNewer`) and the
largest number of a loop has nowhere to point; where no two runs overlapped, the
issue a run closes for is never closed meanwhile (`CloserInv`), so that a
closing never completes a loop (`LoopsOverlap`). What a run alone on its project
has not closed of what it covers is in its plan (`LeftInv`), which gives
`LeavesOneRequest` when the plan is empty.

`ImageUpdateProofs` proves the four properties of `image_update` for all files,
registry contents and options. `UpdateInv` says that one run's updates are of
different containers (`Distinct`), that every move was inspected (`Inspected`),
and, of a run whose lines cannot be mistaken (`Sure`), that a pin still to be
written is the old one and a written one the new (`OldIsThere`, `NewIsThere`): the
one line that reads as the old image is then its own (`TakenLine`). It says besides
that the pins table on main is its image lines (`TellsPins`), and that the worktree's handbook follows its image lines,
but for the lines just written, while main's does and no run died
(`HandbookFollows`).

`ReviewCycleProofs` proves `PassIsEarned` and `CommitIsReviewed` for any number
of processes. `ReviewInv` says of every receipt, on disk or in the hand of a
process about to write it, that its gate is the one its findings have and that
each blocking finding reported as open is among them or was answered (`Honest`),
and of every state that its suppressions were given by somebody (`Faithful`).
Neither fact relates the two files to each other, which is why no lock is needed
for them. `EscalationHolds` does relate them, while one process runs at a time:
`RoundsInv` says that what the process is about to write either goes on from the
state file or answers the receipt on disk in the round of the state, and that
between its two writes the state is that of its receipt or the receipt is another
answer to the one on disk. `RiskNeverFalls` is about `classify_risk`
alone.

`ImagePinProofs` proves the properties of `image_pin` for any number of
runs. `PinInv` says which phases have a marker, that a marker was written after
its run was requested (`MarkerInv`), and that a run about to push passed the
diff check on its checkout (`ApplyInv`). `HonestPinsPass` needs only the
types of it: it holds of every checkout (`AppliedHandbook` says what the helper's edit of the
handbook looks like in the diff).

The proofs use only the named assumptions on the constants. Two kinds of property
stay with TLC: liveness (`DrainReturns`, `BuffersServed`, `ShutdownEnds`), since
fairness is beyond this prover, and that `EscalationSticks` and its like fail. The inductive
invariants of `ErrorGroups`, `RecordStream`,
`AIProxy` and `ImageRequests` were checked by TLC on the instances of their runs
before they were proved.

## 5. What is left

1. Gateway: the ticket store and pickup codes with the clock read before the
   lock; the session's refresh, logout and revocation.
2. Notify, database and registry proxies.
3. The composition of `RecordStream` with `ErrorGroups` (errors read twice after
   a restart), a log store that ingests late, and the attribution of the caller
   in `AIProxy`.
4. A refinement that ties `Handoff` to the windows of `ErrorGroups`, which it abstracts today.

Not modelled, and why: text functions (their tables are tested and no property
depends on the wording); the platform preflight, the bump command gate and the
renderers (independent predicates over text, with no state and no step order);
the vault scripts (shell around a server outside this repository); manifests and
playbooks (reconciled by programs outside this repository). Of the modelled
parts, the HTTP probes, logging, the wording of messages, issues and pull
requests, and the pods and samples of a group are left out, since no decision
reads them. A post to the investigator that timed out may be repeated
(detector.go:946) and the two shutdown budgets exceed the default grace period
(detector.go:109): the first cannot be told apart on this side, the second is
the kill at any moment that `Handoff` has.
