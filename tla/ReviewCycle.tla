---------------------------- MODULE ReviewCycle ----------------------------
(***************************************************************************)
(* review-cycle.py and the hooks around it. A code review verifies the     *)
(* staged diff, has it read, and records a receipt that is bound to a hash *)
(* of the diff; findings are resolved in the receipt; git commit is        *)
(* allowed by the agent's hook and by .githooks/pre-commit when the        *)
(* receipt passes. Rounds of review are counted in a state file.           *)
(*                                                                         *)
(* Each invocation is a process of its own. It loads its files, computes,  *)
(* and writes the state file and then the receipt, with no lock; it can    *)
(* die before or in either write, and the index can change at any time.    *)
(*                                                                         *)
(* A finding stands for its place (file, line, title). Nits and            *)
(* pre-existing findings never block and are left out, as are the noise    *)
(* statistics, which nothing reads.                                        *)
(***************************************************************************)
EXTENDS Naturals, FiniteSets

CONSTANTS Procs,
          Diffs,      \* what may be staged
          NoDiff,     \* the empty one
          Shas,
          Sha,        \* diff -> the hash of its normalised text
          Files,
          FilesOf,    \* diff -> the files it changes
          Path,       \* file -> the policy's list it is on
          Checked,    \* files whose change runs a domain check
          Watched,    \* files the handbook documents
          Handbook,
          Findings,   \* the Important and Security findings
          Pipelines,  \* what a payload may name as its pipeline
          Skipped,    \* those of style, without evidence, or in a skipped file
          MaxRounds,
          Offered,    \* bound: the resolutions given
          Claims      \* bound: what the breaker's file and payloads say

ASSUME DiffsAssumption ==
    /\ NoDiff \in Diffs
    /\ Sha \in [Diffs -> Shas]
    /\ FilesOf \in [Diffs -> SUBSET Files]
    /\ Path \in [Files -> {"skip", "low", "high", "other"}]
    /\ Skipped \subseteq Findings
ASSUME BoundsAssumption ==
    Claims \subseteq [cb_state : {"CLOSED", "OPEN"}, trusted : BOOLEAN, override : 0 .. 2]
ASSUME LimitsAssumption ==
    /\ MaxRounds \in Nat
    /\ Offered \subseteq {"fixed", "false_positive", "intentional", "wont_fix"}

CodeReview == "code-review"
Resolutions == {"fixed", "false_positive", "intentional", "wont_fix"}
Suppressing == Resolutions \ {"fixed"}
Gates == {"PASS", "BLOCKED", "ESCALATE_TO_HUMAN"}
NoGate == "no gate"
NoSha == "no sha"
ASSUME NoShaAssumption == NoSha \notin Shas

Missing == [gate |-> "missing"]       \* no receipt file
Unreadable == [gate |-> "unreadable"] \* cut off while it was written

VARIABLES staged,   \* the staged diff
          state,    \* state.json; Fresh when missing or cut off
          receipt,  \* receipt.json
          job,      \* process -> the invocation it is in
          granted,  \* the agent's hook has let a git commit through
          fixed,    \* history: <<finding, diff hash>> resolved as fixed
          dismissed \* history: findings resolved as no defect to fix

vars == <<staged, state, receipt, job, granted, fixed, dismissed>>
files == <<state, receipt>>

\* "settled" is any status but open that a payload gave a finding itself.
Statuses == {"open", "settled"} \cup Resolutions

(* findings: kept finding -> its status, or how it was resolved. reported is a
   history field: what the payload said was open, before any filter. *)
Receipts ==
    [sha : Shas, round : Nat, verified : BOOLEAN, reported : SUBSET Findings,
     findings : UNION {[kept -> Statuses] : kept \in SUBSET Findings},
     gate : Gates, pipeline : Pipelines, risk : 0 .. 2]

States == [round : Nat, last : Shas \cup {NoSha}, gate : Gates \cup {NoGate},
           resolved : SUBSET (Findings \X Resolutions)]
Fresh == [round |-> 0, last |-> NoSha, gate |-> NoGate, resolved |-> {}]

Jobs == [pc : {"idle"}]
        \cup [pc : {"review"}, verified : BOOLEAN, seen : Diffs]
        \cup [pc : {"state"}, state : States, receipt : Receipts]
        \cup [pc : {"receipt"}, receipt : Receipts]
Idle == [pc |-> "idle"]

---------------------------------------------------------------------------
(* classify_risk                                                           *)

Higher(a, b) == IF a < b THEN b ELSE a

\* Low 0, Medium 1, High 2; one file off the low list makes it Medium.
path_tier(changed) ==
    LET kept == {f \in changed : Path[f] # "skip"}
    IN  CASE \E f \in kept : Path[f] = "high" -> 2
          [] \A f \in kept : Path[f] = "low" -> 0
          [] OTHER -> 1

classify_risk(changed, cb_state, trusted, override) ==
    LET tier == path_tier(changed)
        breakerTier == IF cb_state = "OPEN" THEN 1 ELSE 0
        authorTier == IF trusted THEN 0 ELSE IF tier = 2 THEN 2 ELSE tier + 1
    IN  Higher(Higher(tier, breakerTier), Higher(authorTier, override))

Risks(diff) ==
    {classify_risk(FilesOf[diff], c.cb_state, c.trusted, c.override) : c \in Claims}

---------------------------------------------------------------------------
(* Receipts                                                                *)

_compute_gate_status(round, verified, open) ==
    IF round > MaxRounds \/ (round = MaxRounds /\ open) THEN "ESCALATE_TO_HUMAN"
    ELSE IF verified /\ ~open /\ round <= MaxRounds THEN "PASS"
    ELSE "BLOCKED"

Open(findings) == \E f \in DOMAIN findings : findings[f] = "open"

\* Mutation: a finding once fixed stays away like a false positive.
_is_suppressed_by_any(f, s) == \E e \in s.resolved : e[1] = f

_is_suppressed_by_state(f, s) == \E e \in s.resolved : e[1] = f /\ e[2] \in Suppressing

\* Bound: the rounds past the last are all alike and counted as one.
NextRound(round) == IF round > MaxRounds THEN round ELSE round + 1

\* Mutation: a diff starts over after an escalation too.
RoundAfterEscalation(s, sha) ==
    IF s.round = 0 \/ s.last = NoSha THEN 1
    ELSE IF s.last = sha THEN s.round
    ELSE IF s.gate # "BLOCKED" THEN 1
    ELSE NextRound(s.round)

\* A new diff starts over after a pass and is the next round otherwise.
Round(s, sha) ==
    IF s.round = 0 \/ s.last = NoSha THEN 1
    ELSE IF s.last = sha THEN s.round
    ELSE IF s.gate = "PASS" THEN 1
    ELSE NextRound(s.round)

\* The receipt of a review whose payload has findings open and settled: a
\* status of the payload is kept, and only open ones block.
Reviewed(diff, verified, reported, settled, pipeline, risk) ==
    LET round == Round(state, Sha[diff])
        kept == {f \in (reported \cup settled) \ Skipped : ~_is_suppressed_by_state(f, state)}
        found == [f \in kept |-> IF f \in reported THEN "open" ELSE "settled"]
    IN  [sha |-> Sha[diff], round |-> round, verified |-> verified,
         reported |-> reported, findings |-> found,
         gate |-> _compute_gate_status(round, verified, Open(found)),
         pipeline |-> pipeline, risk |-> risk]

\* The receipt with a finding resolved, in the round it was recorded in.
Resolved(r, f, resolution) ==
    LET found == [r.findings EXCEPT ![f] = resolution]
    IN  [r EXCEPT !.findings = found,
                  !.gate = _compute_gate_status(r.round, r.verified, Open(found))]

---------------------------------------------------------------------------
Init ==
    /\ staged = NoDiff
    /\ state = Fresh
    /\ receipt = Missing
    /\ job = [p \in Procs |-> Idle]
    /\ granted = FALSE
    /\ fixed = {}
    /\ dismissed = {}

Readable == receipt \notin {Missing, Unreadable}

(* git add, or its undoing, by anyone in the worktree. *)
Stage(diff) ==
    /\ staged' = diff
    /\ UNCHANGED <<files, job, granted, fixed, dismissed>>

(* verify: the checks of the changed files' domains, on the staged diff. The
   reviewers read the diff after it. *)
run_domain_verification(p) ==
    /\ job[p] = Idle
    /\ \E passed \in BOOLEAN :
          /\ passed \/ FilesOf[staged] \cap Checked # {}
          /\ job' = [job EXCEPT ![p] = [pc |-> "review", verified |-> passed,
                                         seen |-> staged]]
    /\ UNCHANGED <<staged, files, granted, fixed, dismissed>>

(* record-receipt: the hash is that of what is staged now. The payload carries
   the result of verify. *)
validate_and_record_receipt(p) ==
    /\ job[p].pc = "review"
    /\ \E reported \in SUBSET Findings, pipeline \in Pipelines, risk \in Risks(staged) :
       \E settled \in SUBSET (Findings \ reported) :
         LET r == Reviewed(staged, job[p].verified, reported, settled, pipeline, risk)
         IN  job' = [job EXCEPT ![p] =
                [pc |-> "state",
                 state |-> [round |-> r.round, last |-> r.sha, gate |-> r.gate,
                            resolved |-> state.resolved],
                 receipt |-> r]]
    /\ UNCHANGED <<staged, files, granted, fixed, dismissed>>

(* resolve: a finding of the receipt on disk, whatever is staged. (Ids are
   told apart here; of two findings with one id the code takes the first.) *)
resolve_finding(p) ==
    /\ job[p] = Idle
    /\ Readable
    /\ \E f \in DOMAIN receipt.findings, resolution \in Offered :
         LET r == Resolved(receipt, f, resolution)
         IN  /\ job' = [job EXCEPT ![p] =
                   [pc |-> "state",
                    state |-> [state EXCEPT !.gate = r.gate,
                                            !.resolved = @ \cup {<<f, resolution>>}],
                    receipt |-> r]]
             /\ fixed' = IF resolution = "fixed" THEN fixed \cup {<<f, r.sha>>} ELSE fixed
             /\ dismissed' = IF resolution \in Suppressing THEN dismissed \cup {f} ELSE dismissed
    /\ UNCHANGED <<staged, files, granted>>

WriteState(p) ==
    /\ job[p].pc = "state"
    /\ state' = job[p].state
    /\ job' = [job EXCEPT ![p] = [pc |-> "receipt", receipt |-> job[p].receipt]]
    /\ UNCHANGED <<staged, receipt, granted, fixed, dismissed>>

WriteReceipt(p) ==
    /\ job[p].pc = "receipt"
    /\ receipt' = job[p].receipt
    /\ job' = [job EXCEPT ![p] = Idle]
    /\ UNCHANGED <<staged, state, granted, fixed, dismissed>>

(* The process dies: before the next write, or in it, and then the file is
   cut off. A state file that cannot be read counts as none. *)
Crash(p) ==
    /\ job[p] # Idle
    /\ job' = [job EXCEPT ![p] = Idle]
    /\ \/ UNCHANGED files
       \/ job[p].pc = "state" /\ state' = Fresh /\ UNCHANGED receipt
       \/ job[p].pc = "receipt" /\ receipt' = Unreadable /\ UNCHANGED state
    /\ UNCHANGED <<staged, granted, fixed, dismissed>>

---------------------------------------------------------------------------
(* The gates on git commit                                                 *)

\* check-arch-doc-sync.py: no errors for these changed files.
check_git_co_update(changed) == changed \cap Watched = {} \/ Handbook \in changed

\* check_gate("staged", receipt, require_pipeline = "code-review").
check_gate(diff) ==
    \/ FilesOf[diff] = {}
    \/ Sha[diff] = Sha[NoDiff]
    \/ /\ Readable
       /\ receipt.sha = Sha[diff]
       /\ receipt.gate = "PASS"
       /\ receipt.pipeline = CodeReview

(* PreToolUse: the agent's git commit command is let through. The rest of
   the same command line may still change the index before git runs. *)
PreToolUse ==
    /\ ~granted
    /\ check_git_co_update(FilesOf[staged])
    /\ \E unstaged \in SUBSET Files : check_git_co_update(FilesOf[staged] \cup unstaged)
    /\ check_gate(staged)
    /\ granted' = TRUE
    /\ UNCHANGED <<staged, files, job, fixed, dismissed>>

\* Mutation: git trusts the agent's hook.
pre_commit_sync == check_git_co_update(FilesOf[staged])

\* Mutation: git checks the review only.
pre_commit_gate == check_gate(staged)

\* .githooks/pre-commit, on what is staged when git runs.
pre_commit ==
    /\ check_git_co_update(FilesOf[staged])
    /\ check_gate(staged)

\* The command's git commit: it succeeds, or the hook refuses it.
Commit ==
    /\ granted
    /\ granted' = FALSE
    /\ staged' = IF pre_commit THEN NoDiff ELSE staged
    /\ UNCHANGED <<files, job, fixed, dismissed>>

(* The user has the review skipped for one commit (SKIP_REVIEW_GATE=1). *)
CommitSkipped ==
    /\ ~granted
    /\ check_git_co_update(FilesOf[staged])
    /\ staged' = NoDiff
    /\ UNCHANGED <<files, job, granted, fixed, dismissed>>

Next ==
    \/ \E diff \in Diffs : Stage(diff)
    \/ \E p \in Procs :
          \/ run_domain_verification(p)
          \/ validate_and_record_receipt(p) \/ resolve_finding(p)
          \/ WriteState(p) \/ WriteReceipt(p) \/ Crash(p)
    \/ PreToolUse \/ Commit \/ CommitSkipped

Spec == Init /\ [][Next]_vars

---------------------------------------------------------------------------
(* Properties                                                              *)

\* TypeOK (ReviewCycle): the files and the invocations have their types.
TypeOK ==
    /\ staged \in Diffs
    /\ state \in States
    /\ receipt \in Receipts \cup {Missing, Unreadable}
    /\ job \in [Procs -> Jobs]
    /\ granted \in BOOLEAN
    /\ fixed \in SUBSET (Findings \X Shas)
    /\ dismissed \in SUBSET Findings

\* The resolve command answered for the finding: fixed, on this very diff, or,
\* on any diff, no defect to fix.
Answered(f, sha) == <<f, sha>> \in fixed \/ f \in dismissed

Earned(r) ==
    /\ r.verified
    /\ \A f \in r.reported \ Skipped : Answered(f, r.sha)

\* A receipt that passes was verified, and every blocking finding its payload
\* reported as open was answered by the resolve command, whichever invocations
\* overlapped, died between their two writes or worked on an older receipt
\* (_compute_gate_status, _is_suppressed_by_state). What the payload itself
\* calls settled does not block and needs no answer (review-cycle.py:373-385).
PassIsEarned == (Readable /\ receipt.gate = "PASS") => Earned(receipt)

\* A commit that is not skipped lands a diff with a passing, earned receipt
\* of that diff, and the handbook with the files it documents, although the
\* agent's hook looked at the index before the command ran (pre-commit).
CommitIsReviewed ==
    [][(granted /\ ~granted' /\ staged' # staged /\ FilesOf[staged] # {})
          => /\ Sha[staged] = Sha[NoDiff] \/
                (Readable /\ receipt.sha = Sha[staged] /\ Earned(receipt))
             /\ FilesOf[staged] \cap Watched # {} => Handbook \in FilesOf[staged]]_vars

OneProcess == \A p, q \in Procs : p = q
RoundsUsedUp == state.round >= MaxRounds /\ state.gate # "PASS"

\* A receipt of a round that may still pass, left by a death between the write
\* of the state and that of its own receipt.
LeftBehind == Readable /\ receipt.round <= MaxRounds

\* The last round is the last (Round, _compute_gate_status): while one process
\* runs at a time and the state file is not lost, no diff starts over after it.
\* The diff of the last round may still pass, by a new review or by resolving
\* what it found; another diff is past the limit.
LastRoundIsLast ==
    RoundsUsedUp => \/ state' = Fresh
                    \/ state'.round > MaxRounds
                    \/ state'.round = state.round /\ state'.last = state.last

\* Past the limit nothing passes, except a diff whose receipt was left behind:
\* resolve goes by the round of the receipt it finds.
NothingPassesAfter ==
    state.round > MaxRounds =>
        /\ (state.gate # "PASS" /\ state'.gate = "PASS") => LeftBehind
        /\ (receipt' # receipt /\ receipt'.gate = "PASS")
              => LeftBehind /\ receipt'.sha = receipt.sha

\* Once the rounds are used up a human has to step in, with the exceptions named
\* above: LastRoundIsLast and NothingPassesAfter.
EscalationHolds == [][OneProcess => LastRoundIsLast /\ NothingPassesAfter]_vars

\* "If round 3 still produces open Important or Security findings,
\* scripts/review-cycle.py sets status: "escalate_to_human" and blocks further
\* automated fix rounds" (docs/superpowers/specs/
\* 2026-10-19-anthropic-review-cycle-design.md:137): past the limit, no round
\* begins again unless the state file is lost.
EscalationSticks ==
    [][state.round > MaxRounds => state' = Fresh \/ state'.round > MaxRounds]_vars

\* "It blocks commit and merge until either: The code is modified and
\* re-verified as fixed, OR It is explicitly resolved via ... --resolution
\* <false_positive|intentional|wont_fix>" (the same document, :141-143): what the
\* review of the passing diff reported is no defect to fix.
FixedIsModified ==
    (Readable /\ receipt.gate = "PASS" /\ receipt.sha # Sha[NoDiff])
        => receipt.reported \ Skipped \subseteq dismissed

\* A passing receipt is of the diff that was verified and read: an edit in
\* between asks for a new review ("Any new edit or commit invalidates the
\* receipt and requires a diff-only re-verification",
\* docs/superpowers/specs/2026-10-19-anthropic-review-cycle-design.md:158).
EditInvalidates ==
    [][\A p \in Procs :
          (job[p].pc = "review" /\ job'[p].pc = "state" /\ FilesOf[job[p].seen] # {}
           /\ FilesOf[staged] # {})
              => job'[p].receipt.gate # "PASS"
                 \/ job'[p].receipt.sha = Sha[job[p].seen]]_vars

=============================================================================
