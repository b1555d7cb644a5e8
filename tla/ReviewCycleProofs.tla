------------------------- MODULE ReviewCycleProofs -------------------------
(***************************************************************************)
(* What a passing receipt and a commit mean, for every number of           *)
(* overlapping invocations, every diff and every number of rounds.         *)
(***************************************************************************)
EXTENDS ReviewCycle, TLAPS

-----------------------------------------------------------------------------
(* The inductive invariant.                                                 *)

\* A receipt, on disk or about to be written, tells the truth: its gate is the
\* one of its round and findings, every blocking finding reported as open is
\* listed or was dismissed, and a listed one is still open or was answered for.
Honest(r, fx, ds) ==
  /\ r.gate = _compute_gate_status(r.round, r.verified, Open(r.findings))
  /\ \A f \in r.reported \ Skipped : f \in DOMAIN r.findings \/ f \in ds
  /\ \A f \in DOMAIN r.findings \cap r.reported :
       r.findings[f] = "open" \/ <<f, r.sha>> \in fx \/ f \in ds

\* The state file suppresses only what was dismissed.
Faithful(s, ds) == \A e \in s.resolved : e[2] \in Suppressing => e[1] \in ds

HonestJob(j, fx, ds) ==
  /\ j.pc \in {"state", "receipt"} => Honest(j.receipt, fx, ds)
  /\ j.pc = "state" => Faithful(j.state, ds)

ReviewInv ==
  /\ TypeOK
  /\ Readable => Honest(receipt, fixed, dismissed)
  /\ Faithful(state, dismissed)
  /\ \A p \in Procs : HonestJob(job[p], fixed, dismissed)

-----------------------------------------------------------------------------
(* The operators.                                                           *)

LEMMA GateType ==
  ASSUME NEW round, NEW verified, NEW open
  PROVE  _compute_gate_status(round, verified, open) \in Gates
BY DEF _compute_gate_status, Gates

\* Only a verified receipt without an open finding passes.
LEMMA PassNeeds ==
  ASSUME NEW round, NEW verified, NEW open, _compute_gate_status(round, verified, open) = "PASS"
  PROVE  verified /\ ~open
BY DEF _compute_gate_status

LEMMA RoundType ==
  ASSUME NEW s \in States, NEW sha
  PROVE  Round(s, sha) \in Nat
BY LimitsAssumption DEF Round, NextRound, States

LEMMA RiskType ==
  ASSUME NEW diff \in Diffs
  PROVE  Risks(diff) \subseteq 0 .. 2
<1>1. \A changed : path_tier(changed) \in 0 .. 2
  BY DEF path_tier
<1>2. \A a, b \in 0 .. 2 : Higher(a, b) \in 0 .. 2
  BY DEF Higher
<1>3. ASSUME NEW c \in Claims
      PROVE  classify_risk(FilesOf[diff], c.cb_state, c.trusted, c.override) \in 0 .. 2
  <2>1. c.override \in 0 .. 2
    BY BoundsAssumption
  <2> DEFINE tier == path_tier(FilesOf[diff])
             author == IF c.trusted THEN 0 ELSE IF tier = 2 THEN 2 ELSE tier + 1
             breaker == IF c.cb_state = "OPEN" THEN 1 ELSE 0
  <2>2. tier \in 0 .. 2
    BY <1>1
  <2>3. author \in 0 .. 2 /\ breaker \in 0 .. 2
    BY <2>2
  <2>4. classify_risk(FilesOf[diff], c.cb_state, c.trusted, c.override)
          = Higher(Higher(tier, breaker), Higher(author, c.override))
    BY DEF classify_risk
  <2> HIDE DEF tier, author, breaker
  <2> QED
    BY <1>2, <2>1, <2>2, <2>3, <2>4
<1> QED
  BY <1>3 DEF Risks

\* classify_risk never falls when more files change, when the breaker opens,
\* when the author is not trusted or when a higher tier is asked for
\* (review-cycle.py:197-242).
THEOREM RiskNeverFalls ==
  ASSUME NEW less \in SUBSET Files, NEW more \in SUBSET Files, less \subseteq more,
         NEW cb \in {"CLOSED", "OPEN"}, NEW trusted \in BOOLEAN,
         NEW low \in 0 .. 2, NEW high \in 0 .. 2, low <= high
  PROVE  /\ classify_risk(less, cb, trusted, low) <= classify_risk(more, cb, trusted, high)
         /\ classify_risk(less, cb, trusted, low) <= classify_risk(more, "OPEN", FALSE, high)
<1> DEFINE a == path_tier(less)
           b == path_tier(more)
<1>1. a \in 0 .. 2 /\ b \in 0 .. 2
  BY DEF path_tier
<1>2. a <= b
  BY DEF path_tier
<1> HIDE DEF a, b
<1>3. \A x, y \in 0 .. 2 : Higher(x, y) = IF x < y THEN y ELSE x
  BY DEF Higher
<1> QED
  BY <1>1, <1>2, <1>3 DEF classify_risk, Higher, a, b

-----------------------------------------------------------------------------
(* What is true stays true while the history grows.                         *)

LEMMA HonestGrows ==
  ASSUME NEW r, NEW fx, NEW ds, NEW fx2, NEW ds2, fx \subseteq fx2, ds \subseteq ds2,
         Honest(r, fx, ds)
  PROVE  Honest(r, fx2, ds2)
BY DEF Honest

LEMMA JobGrows ==
  ASSUME NEW j, NEW fx, NEW ds, NEW fx2, NEW ds2, fx \subseteq fx2, ds \subseteq ds2,
         HonestJob(j, fx, ds)
  PROVE  HonestJob(j, fx2, ds2)
BY HonestGrows DEF HonestJob, Faithful

\* A step of one invocation that leaves the files alone.
LEMMA JobStep ==
  ASSUME ReviewInv, NEW p \in Procs, NEW j \in Jobs,
         job' = [job EXCEPT ![p] = j], UNCHANGED <<staged, files, granted>>,
         fixed' \in SUBSET (Findings \X Shas), dismissed' \in SUBSET Findings,
         fixed \subseteq fixed', dismissed \subseteq dismissed',
         HonestJob(j, fixed', dismissed')
  PROVE  ReviewInv'
<1>1. TypeOK'
  BY DEF ReviewInv, TypeOK, files
<1>2. Readable' => Honest(receipt', fixed', dismissed')
  BY HonestGrows DEF ReviewInv, Readable, files
<1>3. Faithful(state', dismissed')
  BY DEF ReviewInv, Faithful, files
<1>4. ASSUME NEW q \in Procs
      PROVE  HonestJob(job'[q], fixed', dismissed')
  <2>1. job'[q] = IF q = p THEN j ELSE job[q]
    BY DEF ReviewInv, TypeOK
  <2>2. HonestJob(job[q], fixed', dismissed')
    BY JobGrows DEF ReviewInv
  <2> QED
    BY <2>1, <2>2
<1> QED
  BY <1>1, <1>2, <1>3, <1>4 DEF ReviewInv

\* A step that leaves the files, the invocations and the history alone.
LEMMA QuietStep ==
  ASSUME ReviewInv, staged' \in Diffs, granted' \in BOOLEAN,
         UNCHANGED <<files, job, fixed, dismissed>>
  PROVE  ReviewInv'
<1>1. TypeOK'
  BY DEF ReviewInv, TypeOK, files
<1> QED
  BY <1>1 DEF ReviewInv, Readable, files

-----------------------------------------------------------------------------
(* The steps.                                                               *)

LEMMA InitInv == Init => ReviewInv
<1> SUFFICES ASSUME Init
             PROVE  ReviewInv
  OBVIOUS
<1>1. TypeOK
  BY DiffsAssumption DEF Init, TypeOK, Fresh, States, Idle, Jobs
<1> QED
  BY <1>1 DEF Init, ReviewInv, Readable, Faithful, Fresh, HonestJob, Idle

LEMMA VerifyStep ==
  ASSUME ReviewInv, NEW p \in Procs, run_domain_verification(p)
  PROVE  ReviewInv'
<1>1. PICK passed \in BOOLEAN :
         job' = [job EXCEPT ![p] = [pc |-> "review", verified |-> passed, seen |-> staged]]
  BY DEF run_domain_verification
<1> DEFINE j == [pc |-> "review", verified |-> passed, seen |-> staged]
<1>2. j \in Jobs
  BY DEF Jobs, ReviewInv, TypeOK
<1>3. HonestJob(j, fixed', dismissed')
  BY DEF HonestJob
<1> HIDE DEF j
<1>4. fixed' \in SUBSET (Findings \X Shas) /\ dismissed' \in SUBSET Findings
  BY DEF run_domain_verification, ReviewInv, TypeOK
<1>5. job' = [job EXCEPT ![p] = j]
  BY <1>1 DEF j
<1> QED
  BY <1>2, <1>3, <1>4, <1>5, JobStep DEF run_domain_verification

LEMMA ReviewedType ==
  ASSUME ReviewInv, NEW verified \in BOOLEAN, NEW reported \in SUBSET Findings,
         NEW settled \in SUBSET Findings, NEW pipeline \in Pipelines, NEW risk \in Risks(staged)
  PROVE  LET r == Reviewed(staged, verified, reported, settled, pipeline, risk)
         IN  /\ r \in Receipts /\ Honest(r, fixed, dismissed)
             /\ r.sha = Sha[staged] /\ r.round = Round(state, Sha[staged])
<1> DEFINE r == Reviewed(staged, verified, reported, settled, pipeline, risk)
           kept == {f \in (reported \cup settled) \ Skipped : ~_is_suppressed_by_state(f, state)}
           found == [f \in kept |-> IF f \in reported THEN "open" ELSE "settled"]
           round == Round(state, Sha[staged])
           gate == _compute_gate_status(round, verified, Open(found))
<1>1. r = [sha |-> Sha[staged], round |-> round, verified |-> verified,
           reported |-> reported, findings |-> found, gate |-> gate,
           pipeline |-> pipeline, risk |-> risk]
  BY DEF Reviewed
<1>2. /\ kept \in SUBSET Findings
      /\ found \in [kept -> Statuses]
  BY DEF Statuses
<1>3. found \in UNION {[k -> Statuses] : k \in SUBSET Findings}
  BY <1>2
<1>4. round \in Nat
  BY RoundType DEF ReviewInv, TypeOK
<1>5. gate \in Gates
  BY GateType
<1>6. Sha[staged] \in Shas /\ risk \in 0 .. 2
  BY RiskType, DiffsAssumption DEF ReviewInv, TypeOK
<1>7. \A f \in reported \ Skipped : f \in DOMAIN found \/ f \in dismissed
  BY DEF _is_suppressed_by_state, ReviewInv, Faithful
<1>8. \A f \in DOMAIN found \cap reported : found[f] = "open"
  OBVIOUS
<1>9. gate = _compute_gate_status(round, verified, Open(found))
  OBVIOUS
<1> HIDE DEF kept, found, round, gate
<1>10. r \in Receipts
  BY <1>1, <1>3, <1>4, <1>5, <1>6 DEF Receipts
<1>11. /\ r.findings = found /\ r.gate = gate /\ r.round = round
       /\ r.verified = verified /\ r.reported = reported /\ r.sha = Sha[staged]
  BY <1>1
<1> HIDE DEF r
<1>12. Honest(r, fixed, dismissed)
  BY <1>7, <1>8, <1>9, <1>11 DEF Honest
<1> QED
  BY <1>10, <1>11, <1>12 DEF r, round

LEMMA RecordStep ==
  ASSUME ReviewInv, NEW p \in Procs, validate_and_record_receipt(p)
  PROVE  ReviewInv'
<1>1. PICK reported \in SUBSET Findings, pipeline \in Pipelines, risk \in Risks(staged),
           settled \in SUBSET Findings :
         LET r == Reviewed(staged, job[p].verified, reported, settled, pipeline, risk)
         IN  job' = [job EXCEPT ![p] =
                [pc |-> "state",
                 state |-> [round |-> r.round, last |-> r.sha, gate |-> r.gate,
                            resolved |-> state.resolved],
                 receipt |-> r]]
  BY DEF validate_and_record_receipt
<1>2. job[p].verified \in BOOLEAN
  BY DEF validate_and_record_receipt, ReviewInv, TypeOK, Jobs
<1> DEFINE r == Reviewed(staged, job[p].verified, reported, settled, pipeline, risk)
           s == [round |-> r.round, last |-> r.sha, gate |-> r.gate,
                 resolved |-> state.resolved]
           j == [pc |-> "state", state |-> s, receipt |-> r]
<1>3. r \in Receipts /\ Honest(r, fixed, dismissed)
  BY <1>2, ReviewedType
<1>4. job' = [job EXCEPT ![p] = j]
  BY <1>1
<1> HIDE DEF r
<1>5. s \in States
  BY <1>3 DEF States, Receipts, ReviewInv, TypeOK
<1>6. Faithful(s, dismissed)
  BY DEF Faithful, ReviewInv
<1> HIDE DEF s
<1>7. j \in Jobs
  BY <1>3, <1>5 DEF Jobs
<1>8. fixed' = fixed /\ dismissed' = dismissed /\ UNCHANGED <<staged, files, granted>>
  BY DEF validate_and_record_receipt
<1>9. HonestJob(j, fixed', dismissed')
  BY <1>3, <1>6, <1>8 DEF HonestJob
<1> HIDE DEF j
<1> QED
  BY <1>4, <1>7, <1>8, <1>9, JobStep DEF ReviewInv, TypeOK

LEMMA ResolveStep ==
  ASSUME ReviewInv, NEW p \in Procs, resolve_finding(p)
  PROVE  ReviewInv'
<1>1. PICK f \in DOMAIN receipt.findings, resolution \in Offered :
         LET r == Resolved(receipt, f, resolution)
         IN  /\ job' = [job EXCEPT ![p] =
                   [pc |-> "state",
                    state |-> [state EXCEPT !.gate = r.gate,
                                            !.resolved = @ \cup {<<f, resolution>>}],
                    receipt |-> r]]
             /\ fixed' = IF resolution = "fixed" THEN fixed \cup {<<f, r.sha>>} ELSE fixed
             /\ dismissed' = IF resolution \in Suppressing THEN dismissed \cup {f} ELSE dismissed
  BY DEF resolve_finding
<1> DEFINE r == Resolved(receipt, f, resolution)
           found == [receipt.findings EXCEPT ![f] = resolution]
           gate == _compute_gate_status(receipt.round, receipt.verified, Open(found))
           s == [state EXCEPT !.gate = r.gate, !.resolved = @ \cup {<<f, resolution>>}]
           j == [pc |-> "state", state |-> s, receipt |-> r]
<1>2. /\ receipt \in Receipts /\ Honest(receipt, fixed, dismissed)
      /\ UNCHANGED <<staged, files, granted>>
  BY DEF resolve_finding, ReviewInv, TypeOK, Readable
<1>3. resolution \in Resolutions /\ resolution \in Statuses
  BY LimitsAssumption DEF Resolutions, Statuses
<1>4. PICK kept \in SUBSET Findings : receipt.findings \in [kept -> Statuses]
  BY <1>2 DEF Receipts
<1>5. f \in kept /\ f \in Findings
  BY <1>4
<1>6. /\ found \in [kept -> Statuses] /\ DOMAIN found = kept
      /\ \A g \in kept : found[g] = IF g = f THEN resolution ELSE receipt.findings[g]
  BY <1>3, <1>4, <1>5
<1>7. found \in UNION {[k -> Statuses] : k \in SUBSET Findings}
  BY <1>6
<1>8. r = [receipt EXCEPT !.findings = found, !.gate = gate]
  BY DEF Resolved
<1>9. gate = _compute_gate_status(receipt.round, receipt.verified, Open(found)) /\ gate \in Gates
  BY GateType
<1> HIDE DEF found, gate
<1>10. r \in Receipts
  BY <1>2, <1>7, <1>8, <1>9 DEF Receipts
<1>11. /\ r.findings = found /\ r.gate = gate /\ r.round = receipt.round
       /\ r.verified = receipt.verified /\ r.reported = receipt.reported /\ r.sha = receipt.sha
  BY <1>2, <1>8 DEF Receipts
<1> HIDE DEF r
<1>12. /\ fixed' = IF resolution = "fixed" THEN fixed \cup {<<f, r.sha>>} ELSE fixed
       /\ dismissed' = IF resolution \in Suppressing THEN dismissed \cup {f} ELSE dismissed
       /\ job' = [job EXCEPT ![p] = j]
  BY <1>1 DEF r
<1>13. /\ fixed \subseteq fixed' /\ dismissed \subseteq dismissed'
       /\ fixed' \in SUBSET (Findings \X Shas) /\ dismissed' \in SUBSET Findings
  BY <1>5, <1>10, <1>12 DEF Receipts, ReviewInv, TypeOK
<1>14. \A g \in r.reported \ Skipped : g \in DOMAIN found \/ g \in dismissed'
  BY <1>2, <1>4, <1>6, <1>11, <1>13 DEF Honest
<1>15. <<f, r.sha>> \in fixed' \/ f \in dismissed'
  BY <1>3, <1>12 DEF Suppressing
<1>16. \A g \in DOMAIN found \cap r.reported : found[g] = "open" \/ <<g, r.sha>> \in fixed' \/ g \in dismissed'
  BY <1>2, <1>4, <1>6, <1>11, <1>13, <1>15 DEF Honest
<1>17. Honest(r, fixed', dismissed')
  BY <1>9, <1>11, <1>14, <1>16 DEF Honest
<1>18. state \in States /\ Faithful(state, dismissed)
  BY DEF ReviewInv, TypeOK
<1>19. s \in States
  <2>1. r.gate \in Gates /\ <<f, resolution>> \in Findings \X Resolutions
    BY <1>3, <1>5, <1>9, <1>11
  <2> DEFINE answered == state.resolved \cup {<<f, resolution>>}
  <2>2. answered \in SUBSET (Findings \X Resolutions)
    BY <2>1, <1>18 DEF States
  <2>3. s = [state EXCEPT !.gate = r.gate, !.resolved = answered]
    OBVIOUS
  <2> HIDE DEF s, answered
  <2>4. s = [round |-> state.round, last |-> state.last, gate |-> r.gate, resolved |-> answered]
    BY <2>3, <1>18 DEF States
  <2> QED
    BY <2>1, <2>2, <2>4, <1>18 DEF States
<1>20. s.resolved = state.resolved \cup {<<f, resolution>>}
  BY <1>18 DEF States
<1> HIDE DEF s
<1>21. Faithful(s, dismissed')
  BY <1>12, <1>13, <1>18, <1>20 DEF Faithful
<1>22. j \in Jobs
  BY <1>10, <1>19 DEF Jobs
<1>23. HonestJob(j, fixed', dismissed')
  BY <1>17, <1>21 DEF HonestJob
<1> HIDE DEF j
<1> QED
  BY <1>2, <1>12, <1>13, <1>22, <1>23, JobStep

\* A step of one invocation that leaves the index and the history alone.
LEMMA FileStep ==
  ASSUME ReviewInv, NEW p \in Procs, NEW j \in Jobs,
         job' = [job EXCEPT ![p] = j], UNCHANGED <<staged, granted, fixed, dismissed>>,
         HonestJob(j, fixed, dismissed),
         state' \in States, Faithful(state', dismissed),
         receipt' \in Receipts \cup {Missing, Unreadable},
         receipt' \notin {Missing, Unreadable} => Honest(receipt', fixed, dismissed)
  PROVE  ReviewInv'
<1>1. TypeOK'
  BY DEF ReviewInv, TypeOK
<1>2. ASSUME NEW q \in Procs
      PROVE  HonestJob(job'[q], fixed', dismissed')
  BY DEF ReviewInv, TypeOK
<1> QED
  BY <1>1, <1>2 DEF ReviewInv, Readable

LEMMA IdleHonest == Idle \in Jobs /\ HonestJob(Idle, fixed, dismissed)
BY DEF Idle, Jobs, HonestJob

LEMMA WriteStateStep ==
  ASSUME ReviewInv, NEW p \in Procs, WriteState(p)
  PROVE  ReviewInv'
<1> DEFINE j == [pc |-> "receipt", receipt |-> job[p].receipt]
<1>1. job[p] \in Jobs /\ job[p].pc = "state" /\ HonestJob(job[p], fixed, dismissed)
  BY DEF WriteState, ReviewInv, TypeOK
<1>2. job[p].state \in States /\ job[p].receipt \in Receipts
  BY <1>1 DEF Jobs
<1>3. Honest(job[p].receipt, fixed, dismissed) /\ Faithful(job[p].state, dismissed)
  BY <1>1 DEF HonestJob
<1>4. j \in Jobs
  BY <1>2 DEF Jobs
<1>5. HonestJob(j, fixed, dismissed)
  BY <1>3 DEF HonestJob
<1>6. state' = job[p].state /\ job' = [job EXCEPT ![p] = j]
      /\ UNCHANGED <<staged, receipt, granted, fixed, dismissed>>
  BY DEF WriteState
<1> HIDE DEF j
<1>7. receipt' \in Receipts \cup {Missing, Unreadable}
  BY <1>6 DEF ReviewInv, TypeOK
<1>8. receipt' \notin {Missing, Unreadable} => Honest(receipt', fixed, dismissed)
  BY <1>6 DEF ReviewInv, Readable
<1> QED
  BY <1>2, <1>3, <1>4, <1>5, <1>6, <1>7, <1>8, FileStep

LEMMA WriteReceiptStep ==
  ASSUME ReviewInv, NEW p \in Procs, WriteReceipt(p)
  PROVE  ReviewInv'
<1>1. job[p] \in Jobs /\ job[p].pc = "receipt" /\ HonestJob(job[p], fixed, dismissed)
  BY DEF WriteReceipt, ReviewInv, TypeOK
<1>2. job[p].receipt \in Receipts
  BY <1>1 DEF Jobs
<1>3. Honest(job[p].receipt, fixed, dismissed)
  BY <1>1 DEF HonestJob
<1>4. receipt' = job[p].receipt /\ job' = [job EXCEPT ![p] = Idle]
      /\ UNCHANGED <<staged, state, granted, fixed, dismissed>>
  BY DEF WriteReceipt
<1>5. state' \in States /\ Faithful(state', dismissed)
  BY <1>4 DEF ReviewInv, TypeOK
<1> QED
  BY <1>2, <1>3, <1>4, <1>5, IdleHonest, FileStep

LEMMA CrashStep ==
  ASSUME ReviewInv, NEW p \in Procs, Crash(p)
  PROVE  ReviewInv'
<1>1. job' = [job EXCEPT ![p] = Idle] /\ UNCHANGED <<staged, granted, fixed, dismissed>>
  BY DEF Crash
<1>2. Fresh \in States /\ Faithful(Fresh, dismissed)
  BY DEF Fresh, States, Faithful
<1>3. state' \in States /\ Faithful(state', dismissed)
  BY <1>2 DEF Crash, files, ReviewInv, TypeOK
<1>4. receipt' \in Receipts \cup {Missing, Unreadable}
  BY DEF Crash, files, ReviewInv, TypeOK
<1>5. receipt' \notin {Missing, Unreadable} => Honest(receipt', fixed, dismissed)
  BY DEF Crash, files, ReviewInv, Readable
<1> QED
  BY <1>1, <1>3, <1>4, <1>5, IdleHonest, FileStep

LEMMA NextInv ==
  ASSUME ReviewInv, [Next]_vars
  PROVE  ReviewInv'
<1>1. NoDiff \in Diffs
  BY DiffsAssumption
<1>2. ASSUME NEW diff \in Diffs, Stage(diff)
      PROVE  ReviewInv'
  BY <1>2, QuietStep DEF Stage, ReviewInv, TypeOK
<1>3. ASSUME NEW p \in Procs,
             \/ run_domain_verification(p)
             \/ validate_and_record_receipt(p) \/ resolve_finding(p)
             \/ WriteState(p) \/ WriteReceipt(p) \/ Crash(p)
      PROVE  ReviewInv'
  BY <1>3, VerifyStep, RecordStep, ResolveStep, WriteStateStep, WriteReceiptStep, CrashStep
<1>4. CASE PreToolUse
  BY <1>4, QuietStep DEF PreToolUse, ReviewInv, TypeOK
<1>5. CASE Commit
  BY <1>1, <1>5, QuietStep DEF Commit, ReviewInv, TypeOK
<1>6. CASE CommitSkipped
  BY <1>1, <1>6, QuietStep DEF CommitSkipped, ReviewInv, TypeOK
<1>7. CASE UNCHANGED vars
  BY <1>7, QuietStep DEF vars, files, ReviewInv, TypeOK
<1> QED
  BY <1>2, <1>3, <1>4, <1>5, <1>6, <1>7 DEF Next

-----------------------------------------------------------------------------
(* The theorems.                                                            *)

LEMMA Invariant == Spec => []ReviewInv
<1>1. ReviewInv /\ [Next]_vars => ReviewInv'
  BY NextInv
<1> QED
  BY <1>1, InitInv, PTL DEF Spec

\* The files, the invocations and the history have their types, for any number
\* of overlapping invocations.
THEOREM TypeCorrect == Spec => []TypeOK
<1>1. ReviewInv => TypeOK
  BY DEF ReviewInv
<1> QED
  BY <1>1, Invariant, PTL

LEMMA InvPass == ReviewInv => PassIsEarned
<1> SUFFICES ASSUME ReviewInv, Readable, receipt.gate = "PASS"
             PROVE  Earned(receipt)
  BY DEF PassIsEarned
<1>1. receipt \in Receipts /\ Honest(receipt, fixed, dismissed)
  BY DEF ReviewInv, TypeOK, Readable
<1>2. receipt.verified /\ ~Open(receipt.findings)
  BY <1>1, PassNeeds DEF Honest
<1>3. \A f \in DOMAIN receipt.findings \cap receipt.reported : Answered(f, receipt.sha)
  BY <1>1, <1>2 DEF Honest, Open, Answered
<1>4. \A f \in receipt.reported \ Skipped : Answered(f, receipt.sha)
  BY <1>1, <1>3 DEF Honest, Answered
<1> QED
  BY <1>2, <1>4 DEF Earned

\* However many invocations overlap, die between their two writes or work on
\* an older receipt, a receipt that passes was verified and every blocking
\* finding its payload reported as open was answered by the resolve command.
THEOREM PassesAreEarned == Spec => []PassIsEarned
BY InvPass, Invariant, PTL

\* Only a commit takes the permission back, and the pre-commit hook lets it
\* land only what the receipt on disk is about.
THEOREM CommitsAreReviewed == Spec => CommitIsReviewed
<1> DEFINE step == (granted /\ ~granted' /\ staged' # staged /\ FilesOf[staged] # {})
          => /\ Sha[staged] = Sha[NoDiff] \/
                (Readable /\ receipt.sha = Sha[staged] /\ Earned(receipt))
             /\ FilesOf[staged] \cap Watched # {} => Handbook \in FilesOf[staged]
<1>1. ASSUME ReviewInv, [Next]_vars, granted, ~granted', staged' # staged, FilesOf[staged] # {}
      PROVE  /\ Sha[staged] = Sha[NoDiff] \/
                (Readable /\ receipt.sha = Sha[staged] /\ Earned(receipt))
             /\ FilesOf[staged] \cap Watched # {} => Handbook \in FilesOf[staged]
  <2>1. Commit
    BY <1>1 DEF Next, vars, Stage, run_domain_verification, validate_and_record_receipt,
                resolve_finding, WriteState, WriteReceipt, Crash, PreToolUse, CommitSkipped
  <2>2. pre_commit
    BY <1>1, <2>1 DEF Commit
  <2>3. PassIsEarned
    BY <1>1, InvPass
  <2> QED
    BY <1>1, <2>2, <2>3 DEF pre_commit, check_gate, check_git_co_update, PassIsEarned
<1>2. ReviewInv /\ [Next]_vars => [step]_vars
  BY <1>1
<1> HIDE DEF step
<1>3. Spec => [][step]_vars
  BY <1>2, Invariant, PTL DEF Spec
<1> QED
  BY <1>3 DEF step, CommitIsReviewed

-----------------------------------------------------------------------------
(* The escalation, while one process runs at a time.                        *)

SameReview(a, r) == r \notin {Missing, Unreadable} /\ a.sha = r.sha /\ a.round = r.round

\* A state file that counts rounds names the diff of the last one.
Dated(s) == s.round # 0 => s.last \in Shas

\* What a process is about to write is a review that goes on from the state
\* file, or it keeps the round and answers the receipt on disk.
GoesOn(j, s, r) ==
  \/ /\ j.state.round = Round(s, j.receipt.sha) /\ j.state.last = j.receipt.sha
     /\ j.state.round = j.receipt.round
  \/ /\ j.state.round = s.round /\ j.state.last = s.last
     /\ SameReview(j.receipt, r)

Follows(j, s, r) ==
  /\ j.pc = "state" => /\ j.state.gate = j.receipt.gate
                       /\ Dated(j.state)
                       /\ GoesOn(j, s, r)
  /\ j.pc = "receipt" => s.round = j.receipt.round \/ SameReview(j.receipt, r)

RoundsInv == Dated(state) /\ \A p \in Procs : Follows(job[p], state, receipt)

LEMMA RoundsInit == Init => RoundsInv
BY DEF Init, RoundsInv, Dated, Fresh, Follows, Idle

\* The only process takes a step.
LEMMA OnlyStep ==
  ASSUME ReviewInv, OneProcess, NEW p \in Procs, NEW j,
         job' = [job EXCEPT ![p] = j], Follows(j, state', receipt'), Dated(state')
  PROVE  RoundsInv'
<1>1. \A q \in Procs : q = p /\ job'[q] = j
  BY DEF OneProcess, ReviewInv, TypeOK
<1> QED
  BY <1>1 DEF RoundsInv

LEMMA IdleFollows == \A s, r : Follows(Idle, s, r)
BY DEF Idle, Follows

LEMMA RoundsRecord ==
  ASSUME ReviewInv, RoundsInv, OneProcess, NEW p \in Procs, validate_and_record_receipt(p)
  PROVE  RoundsInv'
<1>1. PICK reported \in SUBSET Findings, pipeline \in Pipelines, risk \in Risks(staged),
           settled \in SUBSET Findings :
         LET r == Reviewed(staged, job[p].verified, reported, settled, pipeline, risk)
         IN  job' = [job EXCEPT ![p] =
                [pc |-> "state",
                 state |-> [round |-> r.round, last |-> r.sha, gate |-> r.gate,
                            resolved |-> state.resolved],
                 receipt |-> r]]
  BY DEF validate_and_record_receipt
<1>2. job[p].verified \in BOOLEAN
  BY DEF validate_and_record_receipt, ReviewInv, TypeOK, Jobs
<1> DEFINE r == Reviewed(staged, job[p].verified, reported, settled, pipeline, risk)
           j == [pc |-> "state",
                 state |-> [round |-> r.round, last |-> r.sha, gate |-> r.gate,
                            resolved |-> state.resolved],
                 receipt |-> r]
<1>3. r \in Receipts /\ r.sha = Sha[staged] /\ r.round = Round(state, Sha[staged])
  BY <1>2, ReviewedType
<1>4. job' = [job EXCEPT ![p] = j]
  BY <1>1
<1> HIDE DEF r
<1>5. r.sha \in Shas
  BY <1>3 DEF Receipts
<1>6. Follows(j, state, receipt)
  BY <1>3, <1>5 DEF Follows, GoesOn, Dated
<1> HIDE DEF j
<1> QED
  BY <1>4, <1>6, OnlyStep DEF validate_and_record_receipt, files, RoundsInv

LEMMA RoundsResolve ==
  ASSUME ReviewInv, RoundsInv, OneProcess, NEW p \in Procs, resolve_finding(p)
  PROVE  RoundsInv'
<1>1. PICK f \in DOMAIN receipt.findings, resolution \in Offered :
         LET r == Resolved(receipt, f, resolution)
         IN  job' = [job EXCEPT ![p] =
                   [pc |-> "state",
                    state |-> [state EXCEPT !.gate = r.gate,
                                            !.resolved = @ \cup {<<f, resolution>>}],
                    receipt |-> r]]
  BY DEF resolve_finding
<1> DEFINE r == Resolved(receipt, f, resolution)
           s == [state EXCEPT !.gate = r.gate, !.resolved = @ \cup {<<f, resolution>>}]
           j == [pc |-> "state", state |-> s, receipt |-> r]
<1>2. receipt \in Receipts /\ state \in States /\ Readable /\ UNCHANGED files
  BY DEF resolve_finding, ReviewInv, TypeOK, Readable
<1>3. r.sha = receipt.sha /\ r.round = receipt.round
  BY <1>2 DEF Resolved, Receipts
<1>4. job' = [job EXCEPT ![p] = j]
  BY <1>1
<1> HIDE DEF r
<1>5. s.round = state.round /\ s.last = state.last /\ s.gate = r.gate
  BY <1>2 DEF States
<1> HIDE DEF s
<1>6. Follows(j, state, receipt)
  BY <1>2, <1>3, <1>5 DEF Follows, GoesOn, SameReview, Dated, RoundsInv, Readable
<1> HIDE DEF j
<1> QED
  BY <1>2, <1>4, <1>6, OnlyStep DEF files, RoundsInv

LEMMA RoundsWriteState ==
  ASSUME ReviewInv, RoundsInv, OneProcess, NEW p \in Procs, WriteState(p)
  PROVE  RoundsInv'
<1> DEFINE j == [pc |-> "receipt", receipt |-> job[p].receipt]
<1>1. /\ job[p].pc = "state" /\ Follows(job[p], state, receipt)
      /\ state' = job[p].state /\ receipt' = receipt /\ job' = [job EXCEPT ![p] = j]
  BY DEF WriteState, RoundsInv
<1>2. Follows(j, state', receipt') /\ Dated(state')
  BY <1>1 DEF Follows, GoesOn
<1> HIDE DEF j
<1> QED
  BY <1>1, <1>2, OnlyStep

LEMMA RoundsWriteReceipt ==
  ASSUME ReviewInv, RoundsInv, OneProcess, NEW p \in Procs, WriteReceipt(p) \/ Crash(p)
  PROVE  RoundsInv'
<1>1. Dated(state') /\ job' = [job EXCEPT ![p] = Idle]
  BY DEF WriteReceipt, Crash, files, RoundsInv, Dated, Fresh
<1> QED
  BY <1>1, IdleFollows, OnlyStep

\* A step that leaves the files and what is about to be written alone.
LEMMA RoundsQuiet ==
  ASSUME RoundsInv, UNCHANGED <<files, job>>
  PROVE  RoundsInv'
BY DEF RoundsInv, files

LEMMA RoundsVerify ==
  ASSUME ReviewInv, RoundsInv, OneProcess, NEW p \in Procs, run_domain_verification(p)
  PROVE  RoundsInv'
<1>1. PICK passed \in BOOLEAN :
         job' = [job EXCEPT ![p] = [pc |-> "review", verified |-> passed, seen |-> staged]]
  BY DEF run_domain_verification
<1> DEFINE j == [pc |-> "review", verified |-> passed, seen |-> staged]
<1>2. Follows(j, state', receipt')
  BY DEF Follows
<1> HIDE DEF j
<1>3. job' = [job EXCEPT ![p] = j]
  BY <1>1 DEF j
<1> QED
  BY <1>2, <1>3, OnlyStep DEF run_domain_verification, files, RoundsInv

LEMMA RoundsNext ==
  ASSUME ReviewInv, RoundsInv, OneProcess, [Next]_vars
  PROVE  RoundsInv'
<1>1. CASE UNCHANGED <<files, job>>
  BY <1>1, RoundsQuiet
<1>2. ASSUME NEW p \in Procs,
             \/ run_domain_verification(p)
             \/ validate_and_record_receipt(p) \/ resolve_finding(p)
             \/ WriteState(p) \/ WriteReceipt(p) \/ Crash(p)
      PROVE  RoundsInv'
  BY <1>2, RoundsVerify, RoundsRecord, RoundsResolve, RoundsWriteState, RoundsWriteReceipt
<1> QED
  BY <1>1, <1>2 DEF Next, vars, files, Stage, PreToolUse, Commit, CommitSkipped

\* Only a round within the limit passes.
LEMMA PassInTime ==
  ASSUME NEW r \in Receipts, NEW fx, NEW ds, Honest(r, fx, ds), r.gate = "PASS"
  PROVE  r.round <= MaxRounds
BY LimitsAssumption DEF Honest, _compute_gate_status, Receipts

\* Round goes past the limit, or stays with its diff.
LEMMA RoundIsLast ==
  ASSUME NEW s \in States, Dated(s), s.round >= MaxRounds, s.gate # "PASS", NEW sha \in Shas
  PROVE  Round(s, sha) > MaxRounds \/ (Round(s, sha) = s.round /\ sha = s.last)
<1>1. s.round \in Nat /\ MaxRounds \in Nat
  BY LimitsAssumption DEF States
<1>2. CASE s.round = 0
  BY <1>1, <1>2 DEF Round
<1>3. CASE s.round # 0
  <2>1. s.last # NoSha
    BY <1>3, NoShaAssumption DEF Dated
  <2> QED
    BY <1>1, <1>3, <2>1 DEF Round, NextRound
<1> QED
  BY <1>2, <1>3

\* A write of the state file.
LEMMA StateWritten ==
  ASSUME ReviewInv, RoundsInv, NEW p \in Procs, WriteState(p)
  PROVE  LastRoundIsLast /\ NothingPassesAfter
<1> DEFINE j == job[p]
<1>1. /\ j \in Jobs /\ j.pc = "state" /\ HonestJob(j, fixed, dismissed)
      /\ Follows(j, state, receipt) /\ state' = j.state /\ receipt' = receipt
      /\ state \in States /\ Dated(state)
  BY DEF WriteState, RoundsInv, ReviewInv, TypeOK
<1>2. j.state \in States /\ j.receipt \in Receipts
  BY <1>1 DEF Jobs
<1>3. Honest(j.receipt, fixed, dismissed) /\ j.state.gate = j.receipt.gate
      /\ GoesOn(j, state, receipt)
  BY <1>1 DEF HonestJob, Follows
<1>4. j.receipt.sha \in Shas /\ state.round \in Nat /\ MaxRounds \in Nat
      /\ j.receipt.round \in Nat
  BY <1>1, <1>2, LimitsAssumption DEF Receipts, States
<1> HIDE DEF j
<1>5. LastRoundIsLast
  BY <1>1, <1>3, <1>4, RoundIsLast DEF LastRoundIsLast, RoundsUsedUp, GoesOn
<1>6. ASSUME state.round > MaxRounds, state.gate # "PASS", state'.gate = "PASS"
      PROVE  LeftBehind
  <2>1. j.receipt.round <= MaxRounds
    BY <1>1, <1>2, <1>3, <1>6, PassInTime
  <2>2. state.round >= MaxRounds
    BY <1>4, <1>6
  <2>3. Round(state, j.receipt.sha) > MaxRounds
    BY <1>1, <1>4, <1>6, <2>2, RoundIsLast
  <2>4. SameReview(j.receipt, receipt)
    BY <1>3, <1>4, <2>1, <2>3 DEF GoesOn
  <2> QED
    BY <2>1, <2>4 DEF SameReview, LeftBehind, Readable
<1> QED
  BY <1>1, <1>5, <1>6 DEF NothingPassesAfter

LEMMA ReceiptWritten ==
  ASSUME ReviewInv, RoundsInv, NEW p \in Procs, WriteReceipt(p)
  PROVE  LastRoundIsLast /\ NothingPassesAfter
<1> DEFINE j == job[p]
<1>1. /\ j \in Jobs /\ j.pc = "receipt" /\ HonestJob(j, fixed, dismissed)
      /\ Follows(j, state, receipt) /\ state' = state /\ receipt' = j.receipt
      /\ state \in States
  BY DEF WriteReceipt, RoundsInv, ReviewInv, TypeOK
<1>2. j.receipt \in Receipts /\ Honest(j.receipt, fixed, dismissed)
  BY <1>1 DEF Jobs, HonestJob
<1>3. state.round \in Nat /\ MaxRounds \in Nat /\ j.receipt.round \in Nat
  BY <1>1, <1>2, LimitsAssumption DEF Receipts, States
<1> HIDE DEF j
<1>4. ASSUME state.round > MaxRounds, receipt'.gate = "PASS"
      PROVE  LeftBehind /\ receipt'.sha = receipt.sha
  <2>1. j.receipt.round <= MaxRounds
    BY <1>1, <1>2, <1>4, PassInTime
  <2>2. SameReview(j.receipt, receipt)
    BY <1>1, <1>3, <1>4, <2>1 DEF Follows
  <2> QED
    BY <1>1, <2>1, <2>2 DEF SameReview, LeftBehind, Readable
<1>5. RoundsUsedUp => state'.round = state.round /\ state'.last = state.last
  BY <1>1
<1> QED
  BY <1>1, <1>4, <1>5 DEF LastRoundIsLast, NothingPassesAfter

\* A death, or a step of somebody else.
LEMMA NothingWritten ==
  ASSUME UNCHANGED state \/ state' = Fresh, UNCHANGED receipt \/ receipt' = Unreadable
  PROVE  LastRoundIsLast /\ NothingPassesAfter
<1>1. Fresh.gate # "PASS" /\ Unreadable.gate # "PASS"
  BY DEF Fresh, NoGate, Unreadable
<1> QED
  BY <1>1 DEF LastRoundIsLast, NothingPassesAfter

\* With one process at a time, once the rounds are used up no diff starts over
\* and none passes but the two the property names.
THEOREM EscalationStays == Spec => EscalationHolds
<1> DEFINE holds == OneProcess => LastRoundIsLast /\ NothingPassesAfter
           inv == ReviewInv /\ (OneProcess => RoundsInv)
<1>1. Init => inv
  BY InitInv, RoundsInit
<1>2. inv /\ [Next]_vars => inv'
  <2>1. OneProcess' => OneProcess
    BY DEF OneProcess
  <2> QED
    BY <2>1, NextInv, RoundsNext
<1>3. inv /\ [Next]_vars => [holds]_vars
  <2> SUFFICES ASSUME ReviewInv, RoundsInv, OneProcess, Next
               PROVE  LastRoundIsLast /\ NothingPassesAfter
    OBVIOUS
  <2>1. ASSUME NEW p \in Procs, WriteState(p)
        PROVE  LastRoundIsLast /\ NothingPassesAfter
    BY <2>1, StateWritten
  <2>2. ASSUME NEW p \in Procs, WriteReceipt(p)
        PROVE  LastRoundIsLast /\ NothingPassesAfter
    BY <2>2, ReceiptWritten
  <2>3. ASSUME NEW p \in Procs,
               \/ run_domain_verification(p)
               \/ validate_and_record_receipt(p) \/ resolve_finding(p) \/ Crash(p)
        PROVE  LastRoundIsLast /\ NothingPassesAfter
    BY <2>3, NothingWritten DEF run_domain_verification, validate_and_record_receipt,
                                resolve_finding, Crash, files
  <2>4. ASSUME (\E diff \in Diffs : Stage(diff)) \/ PreToolUse \/ Commit \/ CommitSkipped
        PROVE  LastRoundIsLast /\ NothingPassesAfter
    BY <2>4, NothingWritten DEF Stage, PreToolUse, Commit, CommitSkipped, files
  <2> QED
    BY <2>1, <2>2, <2>3, <2>4 DEF Next
<1> HIDE DEF holds, inv
<1>4. Spec => [][holds]_vars
  BY <1>1, <1>2, <1>3, PTL DEF Spec
<1> QED
  BY <1>4 DEF holds, EscalationHolds

=============================================================================
