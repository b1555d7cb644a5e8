--------------------------- MODULE ImagePinProofs ---------------------------
(***************************************************************************)
(* The safety of the image pin flow for every allowlist and every number   *)
(* of runs, commits and commits made by hand.                              *)
(***************************************************************************)
EXTENDS ImagePin, TLAPS

-----------------------------------------------------------------------------
(* The inductive invariant.                                                 *)

Unasked == {"idle", "requested", "new", "resolved"}

\* A run that nobody was asked about has no marker yet, one that waits for
\* approval or went past it has a marker written after it was requested, and a
\* success marker is that of a run that was asked about or is a duplicate.
MarkerInv(r) ==
  /\ run[r].phase \in Unasked => ~run[r].asked /\ run[r].marker = NoMarker
  /\ run[r].phase \notin {"ending", "completed"} => run[r].outcome = "none"
  /\ run[r].phase = "posted" => run[r].asked
  /\ (\/ run[r].phase \in {"waiting"} \cup Pinning
      \/ run[r].phase = "ending" /\ run[r].outcome = "none")
     => /\ run[r].asked
        /\ run[r].marker \in Markers
        /\ run[r].marker.conclusion = "success"
        /\ run[r].marker.created_at >= run[r].requested_at
  /\ run[r].marker.conclusion = "success" => run[r].asked \/ run[r].outcome = "duplicate"
  /\ run[r].requested_at <= clock

\* A run at work has a request, one that passed the newer check a checkout, and
\* one about to push has passed the diff check.
ApplyInv(r) ==
  /\ run[r].phase \notin {"idle", "completed"} => run[r].request \in Requests
  /\ run[r].phase \in {"current", "applied"} => run[r].base \in Trees
  /\ run[r].phase = "applied" =>
       diff_check(run[r].base, Applied(run[r].base, run[r].request), run[r].request)

\* A duplicate is a validated request.
DuplicateInv(r) == run[r].outcome = "duplicate" => run[r].request \in Requests

PinInv ==
  /\ TypeOK
  /\ \A r \in Runs : MarkerInv(r)
  /\ \A r \in Runs : ApplyInv(r)
  /\ \A r \in Runs : DuplicateInv(r)
  /\ DuplicateWasAsked
  /\ PrIsItsRequest

-----------------------------------------------------------------------------
(* Facts about the operators.                                               *)

LEMMA ContainersOf ==
  ASSUME NEW request \in Requests
  PROVE  Requested(request) \subseteq Containers
BY AllowedAssumption DEF Requests, Requested, Containers

LEMMA AppliedTree ==
  ASSUME NEW tree \in Trees, NEW request \in Requests
  PROVE  Applied(tree, request) \in Trees
<1>1. request.sha \in Shas
  BY DEF Requests
<1>2. \A c \in Badged : tree.badge[c] \in Badges
  BY DEF Trees
<1>3. \A c \in Badged : [tree.badge[c] EXCEPT !.shows = request.sha] \in Badges
  BY <1>1, <1>2 DEF Badges
<1> QED
  BY <1>1, <1>2, <1>3 DEF Trees, Applied

\* A payload that is not refused becomes a request of allowed roles.
LEMMA ValidRequest ==
  ASSUME NEW payload \in Payloads, ~Rejected(payload)
  PROVE  validate_request(payload) \in Requests
BY AllowedAssumption DEF Payloads, Rejected, validate_request, Requests

-----------------------------------------------------------------------------
(* Type correctness.                                                        *)

LEMMA TypeInit == Init => TypeOK
BY EditsAssumption DEF Init, TypeOK, Idle, NoPr, Trees, Badges, RunRecords, Validating,
   Pinning, Outcomes

LEMMA BecomesType ==
  ASSUME NEW r \in Runs, NEW record \in RunRecords,
         run \in [Runs -> RunRecords], Becomes(r, record)
  PROVE  run' \in [Runs -> RunRecords]
BY DEF Becomes

LEMMA EndType ==
  ASSUME NEW r \in Runs, NEW outcome \in Outcomes,
         run \in [Runs -> RunRecords], End(r, outcome)
  PROVE  run' \in [Runs -> RunRecords]
<1> DEFINE record == [run[r] EXCEPT !.phase = "completed", !.outcome = outcome, !.base = NoTree]
<1>1. record \in RunRecords
  BY DEF RunRecords
<1> QED
  BY <1>1, BecomesType DEF End

LEMMA StepType ==
  ASSUME NEW r \in Runs, NEW phase \in {"waiting", "completed"} \cup Validating \cup Pinning,
         run \in [Runs -> RunRecords], Step(r, phase)
  PROVE  run' \in [Runs -> RunRecords]
<1>1. [run[r] EXCEPT !.phase = phase] \in RunRecords
  BY DEF RunRecords
<1> QED
  BY <1>1, BecomesType DEF Step

LEMMA TypeRun ==
  ASSUME NEW r \in Runs, TypeOK,
         \/ \E payload \in Payloads : CheckRequest(r, payload)
         \/ Dedupe(r) \/ DryRun(r) \/ Post(r) \/ WriteMarker(r) \/ JobEnds(r)
         \/ Decide(r) \/ NewerCheck(r) \/ Apply(r)
  PROVE  TypeOK'
<1>1. run \in [Runs -> RunRecords] /\ run[r] \in RunRecords
  BY DEF TypeOK
<1>2. Marker("success") \in Markers /\ Marker("failure") \in Markers
  BY DEF TypeOK, Marker, Markers
<1>3. ASSUME UNCHANGED <<main, prs, edits>>, clock' \in Nat, run' \in [Runs -> RunRecords]
      PROVE  TypeOK'
  BY <1>3 DEF TypeOK
<1>4. clock \in Nat /\ clock + 1 \in Nat
  BY DEF TypeOK
<1>5. ASSUME NEW payload \in Payloads, CheckRequest(r, payload) PROVE TypeOK'
  <2>1. CASE Rejected(payload)
    <3>1. End(r, "refused") /\ "refused" \in Outcomes
      BY <1>5, <2>1 DEF CheckRequest, Outcomes
    <3> QED
      BY <1>1, <1>3, <1>4, <1>5, <3>1, EndType DEF CheckRequest
  <2>2. CASE ~Rejected(payload)
    <3> DEFINE record == [run[r] EXCEPT !.phase = "requested",
                                        !.request = validate_request(payload),
                                        !.requested_at = clock + 1]
    <3>1. validate_request(payload) \in Requests
      BY <2>2, ValidRequest
    <3>2. record \in RunRecords
      BY <1>1, <1>4, <3>1 DEF RunRecords, Validating
    <3> QED
      BY <1>1, <1>3, <1>4, <1>5, <2>2, <3>2, BecomesType DEF CheckRequest
  <2> QED
    BY <2>1, <2>2
<1>6. CASE Dedupe(r)
  <2> DEFINE record == [run[r] EXCEPT !.phase = "ending", !.outcome = "duplicate",
                                      !.marker = Marker("success")]
  <2>1. record \in RunRecords
    BY <1>1, <1>2 DEF RunRecords, Validating, Outcomes
  <2>2. Becomes(r, record) \/ Step(r, "new")
    BY <1>6 DEF Dedupe
  <2> QED
    BY <1>1, <1>3, <1>4, <1>6, <2>1, <2>2, BecomesType, StepType DEF Dedupe, Validating
<1>7. CASE DryRun(r)
  <2> DEFINE record == [run[r] EXCEPT !.phase = "ending", !.outcome = "failed",
                                      !.marker = Marker("failure")]
  <2>1. record \in RunRecords
    BY <1>1, <1>2 DEF RunRecords, Validating, Outcomes
  <2>2. End(r, "noop") \/ Step(r, "resolved") \/ Becomes(r, record)
    BY <1>7 DEF DryRun
  <2>3. run' \in [Runs -> RunRecords]
    BY <1>1, <2>1, <2>2, BecomesType, EndType, StepType DEF Validating, Outcomes
  <2> QED
    BY <1>3, <1>4, <1>7, <2>3 DEF DryRun
<1>8. CASE Post(r)
  <2>1. [run[r] EXCEPT !.phase = "posted", !.asked = TRUE] \in RunRecords
    BY <1>1 DEF RunRecords, Validating
  <2> QED
    BY <1>1, <1>3, <1>4, <1>8, <2>1, BecomesType DEF Post
<1>9. CASE WriteMarker(r)
  <2>1. [run[r] EXCEPT !.phase = "ending", !.marker = Marker("success")] \in RunRecords
    BY <1>1, <1>2 DEF RunRecords, Validating
  <2> QED
    BY <1>1, <1>3, <1>4, <1>9, <2>1, BecomesType DEF WriteMarker
<1>10. CASE JobEnds(r)
  BY <1>1, <1>3, <1>4, <1>10, StepType DEF JobEnds
<1>11. CASE Decide(r)
  <2>1. run' \in [Runs -> RunRecords]
    BY <1>1, <1>11, EndType, StepType DEF Decide, Outcomes, Pinning
  <2> QED
    BY <1>3, <1>4, <1>11, <2>1 DEF Decide
<1>12. CASE NewerCheck(r)
  <2>1. [run[r] EXCEPT !.phase = "current", !.base = main] \in RunRecords
    BY <1>1 DEF RunRecords, Pinning, TypeOK
  <2>2. run' \in [Runs -> RunRecords]
    BY <1>1, <1>12, <2>1, BecomesType, EndType DEF NewerCheck, Outcomes
  <2> QED
    BY <1>3, <1>4, <1>12, <2>2 DEF NewerCheck
<1>13. CASE Apply(r)
  <2>1. Step(r, "applied") \/ \E outcome \in Outcomes : End(r, outcome)
    BY <1>13 DEF Apply, Outcomes
  <2>2. run' \in [Runs -> RunRecords]
    BY <1>1, <2>1, EndType, StepType DEF Pinning
  <2> QED
    BY <1>3, <1>4, <1>13, <2>2 DEF Apply
<1> QED
  BY <1>5, <1>6, <1>7, <1>8, <1>9, <1>10, <1>11, <1>12, <1>13

\* The head of a pull request needs the request and the checkout of the run.
LEMMA TypePr ==
  ASSUME TypeOK, \A r \in Runs : ApplyInv(r),
         \/ \E r \in Runs : OpenPr(r)
         \/ \E b \in Projects \X Shas : Merge(b) \/ Close(b)
         \/ HandEdit
  PROVE  TypeOK'
<1>1. ASSUME NEW r \in Runs, OpenPr(r) PROVE TypeOK'
  <2>1. End(r, "failed") \/ End(r, "pr_open")
    BY <1>1 DEF OpenPr
  <2>2. run' \in [Runs -> RunRecords]
    BY <2>1, EndType DEF TypeOK, Outcomes
  <2>3. CASE UNCHANGED prs
    BY <1>1, <2>2, <2>3 DEF OpenPr, TypeOK
  <2>4. CASE ~UNCHANGED prs
    <3> DEFINE request == run[r].request
               opened == [state |-> "open", roles |-> request.roles, base |-> run[r].base,
                          head |-> Applied(run[r].base, request)]
    <3>1. request \in Requests /\ run[r].base \in Trees
      BY <1>1 DEF OpenPr, ApplyInv
    <3>2. opened \in OpenPrs
      BY <3>1, AppliedTree DEF OpenPrs, Requests
    <3>3. prs' = [prs EXCEPT ![Branch(request)] = opened]
      BY <1>1, <2>4 DEF OpenPr
    <3>4. prs' \in [Projects \X Shas -> {NoPr, ClosedPr} \cup OpenPrs]
      BY <3>2, <3>3 DEF TypeOK
    <3> QED
      BY <1>1, <2>2, <3>4 DEF OpenPr, TypeOK
  <2> QED
    BY <2>3, <2>4
<1>2. ASSUME NEW b \in Projects \X Shas, Merge(b) PROVE TypeOK'
  <2>1. prs[b] \in OpenPrs
    BY <1>2 DEF Merge, TypeOK, NoPr, ClosedPr
  <2>2. main \in Trees /\ prs[b].head \in Trees
    BY <2>1 DEF TypeOK, OpenPrs
  <2>3. main' \in Trees
    BY <1>2, <2>2 DEF Merge, Trees
  <2> QED
    BY <1>2, <2>3 DEF Merge, TypeOK
<1>3. ASSUME NEW b \in Projects \X Shas, Close(b) PROVE TypeOK'
  BY <1>3 DEF Close, TypeOK
<1>4. CASE HandEdit
  <2>1. main' \in Trees
    BY <1>4 DEF HandEdit, TypeOK, Trees
  <2> QED
    BY <1>4, <2>1, EditsAssumption DEF HandEdit, TypeOK
<1> QED
  BY <1>1, <1>2, <1>3, <1>4

LEMMA TypeStep ==
  ASSUME TypeOK, \A r \in Runs : ApplyInv(r), [Next]_vars
  PROVE  TypeOK'
<1>1. CASE UNCHANGED vars
  BY <1>1 DEF vars, TypeOK
<1> QED
  BY <1>1, TypeRun, TypePr DEF Next

-----------------------------------------------------------------------------
(* Steps of one run.                                                        *)

RunStep(r) ==
  \/ \E payload \in Payloads : CheckRequest(r, payload)
  \/ Dedupe(r) \/ DryRun(r) \/ Post(r) \/ WriteMarker(r) \/ JobEnds(r)
  \/ Decide(r) \/ NewerCheck(r) \/ Apply(r) \/ OpenPr(r)

LEMMA NextIsRunStep ==
  ASSUME [Next]_vars
  PROVE  (\E r \in Runs : RunStep(r)) \/ UNCHANGED <<run, clock>>
BY DEF Next, vars, RunStep, Merge, Close, HandEdit

\* A step of a run leaves the other runs alone and time does not go back.
LEMMA RunFrame ==
  ASSUME TypeOK, NEW r \in Runs, RunStep(r)
  PROVE  /\ \A q \in Runs \ {r} : run'[q] = run[q]
         /\ clock' = clock \/ clock' = clock + 1
         /\ clock \in Nat
<1>1. \E record : Becomes(r, record)
  BY DEF RunStep, CheckRequest, Dedupe, DryRun, Post, WriteMarker, JobEnds, Decide,
         NewerCheck, Apply, OpenPr, Step, End
<1>2. \A q \in Runs \ {r} : run'[q] = run[q]
  BY <1>1 DEF Becomes, TypeOK
<1>3. clock' = clock \/ clock' = clock + 1
  BY DEF RunStep, CheckRequest, Dedupe, DryRun, Post, WriteMarker, JobEnds, Decide,
         NewerCheck, Apply, OpenPr
<1> QED
  BY <1>2, <1>3 DEF TypeOK

\* What Becomes and End leave in the run itself.
LEMMA OwnRecord ==
  ASSUME TypeOK, NEW r \in Runs, NEW record, Becomes(r, record)
  PROVE  run'[r] = record
BY DEF TypeOK, Becomes

LEMMA MarkerOwn ==
  ASSUME TypeOK, NEW r \in Runs, MarkerInv(r), RunStep(r)
  PROVE  MarkerInv(r)'
<1>1. run[r] \in RunRecords /\ clock \in Nat
  BY DEF TypeOK
<1>2. /\ Marker("success") \in Markers /\ Marker("success").conclusion = "success"
      /\ Marker("success").created_at = clock
      /\ Marker("failure").conclusion = "failure"
      /\ NoMarker.conclusion # "success"
  BY <1>1 DEF Marker, Markers, NoMarker
<1>3. ASSUME NEW outcome \in Outcomes, End(r, outcome), clock' \in {clock, clock + 1},
             run[r].phase \notin {"ending", "completed"},
             outcome # "duplicate"
      PROVE  MarkerInv(r)'
  <2>1. run'[r] = [run[r] EXCEPT !.phase = "completed", !.outcome = outcome, !.base = NoTree]
    BY <1>3, OwnRecord DEF End
  <2> QED
    BY <1>1, <1>2, <1>3, <2>1 DEF MarkerInv, RunRecords, Unasked, Pinning
<1>4. ASSUME NEW phase, Step(r, phase)
      PROVE  run'[r] = [run[r] EXCEPT !.phase = phase]
  BY <1>4, OwnRecord DEF Step
<1>5. ASSUME NEW payload \in Payloads, CheckRequest(r, payload) PROVE MarkerInv(r)'
  <2>1. CASE Rejected(payload)
    BY <1>3, <1>5, <2>1 DEF CheckRequest, Outcomes
  <2>2. CASE ~Rejected(payload)
    <3>1. run'[r] = [run[r] EXCEPT !.phase = "requested",
                                   !.request = validate_request(payload),
                                   !.requested_at = clock + 1]
      BY <1>5, <2>2, OwnRecord DEF CheckRequest
    <3> QED
      BY <1>1, <1>2, <1>5, <3>1 DEF CheckRequest, MarkerInv, RunRecords, Unasked, Pinning
  <2> QED
    BY <2>1, <2>2
<1>6. CASE Dedupe(r)
  <2>1. CASE Becomes(r, [run[r] EXCEPT !.phase = "ending", !.outcome = "duplicate",
                                       !.marker = Marker("success")])
    <3>1. run'[r] = [run[r] EXCEPT !.phase = "ending", !.outcome = "duplicate",
                                   !.marker = Marker("success")]
      BY <2>1, OwnRecord
    <3> QED
      BY <1>1, <1>2, <1>6, <3>1 DEF Dedupe, MarkerInv, RunRecords, Unasked, Pinning
  <2>2. CASE Step(r, "new")
    <3>1. run'[r] = [run[r] EXCEPT !.phase = "new"]
      BY <1>4, <2>2
    <3> QED
      BY <1>1, <1>6, <3>1 DEF Dedupe, MarkerInv, RunRecords, Unasked, Pinning
  <2> QED
    BY <1>6, <2>1, <2>2 DEF Dedupe
<1>7. CASE DryRun(r)
  <2>1. CASE Becomes(r, [run[r] EXCEPT !.phase = "ending", !.outcome = "failed",
                                       !.marker = Marker("failure")])
    <3>1. run'[r] = [run[r] EXCEPT !.phase = "ending", !.outcome = "failed",
                                   !.marker = Marker("failure")]
      BY <2>1, OwnRecord
    <3> QED
      BY <1>1, <1>2, <1>7, <3>1 DEF DryRun, MarkerInv, RunRecords, Unasked, Pinning
  <2>2. CASE Step(r, "resolved")
    <3>1. run'[r] = [run[r] EXCEPT !.phase = "resolved"]
      BY <1>4, <2>2
    <3> QED
      BY <1>1, <1>7, <3>1 DEF DryRun, MarkerInv, RunRecords, Unasked, Pinning
  <2>3. CASE End(r, "noop")
    BY <1>3, <1>7, <2>3 DEF DryRun, Outcomes
  <2> QED
    BY <1>7, <2>1, <2>2, <2>3 DEF DryRun
<1>8. CASE Post(r)
  <2>1. run'[r] = [run[r] EXCEPT !.phase = "posted", !.asked = TRUE]
    BY <1>8, OwnRecord DEF Post
  <2> QED
    BY <1>1, <1>2, <1>8, <2>1 DEF Post, MarkerInv, RunRecords, Unasked, Pinning
<1>9. CASE WriteMarker(r)
  <2>1. run'[r] = [run[r] EXCEPT !.phase = "ending", !.marker = Marker("success")]
    BY <1>9, OwnRecord DEF WriteMarker
  <2> QED
    BY <1>1, <1>2, <1>9, <2>1 DEF WriteMarker, MarkerInv, RunRecords, Unasked, Pinning
<1>10. CASE JobEnds(r)
  <2>1. run'[r] = [run[r] EXCEPT !.phase = IF run[r].outcome = "none" THEN "waiting"
                                                                      ELSE "completed"]
    BY <1>4, <1>10 DEF JobEnds
  <2> QED
    BY <1>1, <1>10, <2>1 DEF JobEnds, MarkerInv, RunRecords, Unasked, Pinning
<1>11. CASE Decide(r)
  <2>1. CASE Step(r, "approved")
    <3>1. run'[r] = [run[r] EXCEPT !.phase = "approved"]
      BY <1>4, <2>1
    <3> QED
      BY <1>1, <1>11, <3>1 DEF Decide, MarkerInv, RunRecords, Unasked, Pinning
  <2> QED
    BY <1>3, <1>11, <2>1 DEF Decide, Outcomes
<1>12. CASE NewerCheck(r)
  <2>1. CASE Becomes(r, [run[r] EXCEPT !.phase = "current", !.base = main])
    <3>1. run'[r] = [run[r] EXCEPT !.phase = "current", !.base = main]
      BY <2>1, OwnRecord
    <3> QED
      BY <1>1, <1>2, <1>12, <3>1 DEF NewerCheck, MarkerInv, RunRecords, Unasked, Pinning
  <2> QED
    BY <1>3, <1>12, <2>1 DEF NewerCheck, Outcomes
<1>13. CASE Apply(r)
  <2>1. CASE Step(r, "applied")
    <3>1. run'[r] = [run[r] EXCEPT !.phase = "applied"]
      BY <1>4, <2>1
    <3> QED
      BY <1>1, <1>13, <3>1 DEF Apply, MarkerInv, RunRecords, Unasked, Pinning
  <2> QED
    BY <1>3, <1>13, <2>1 DEF Apply, Outcomes
<1>14. CASE OpenPr(r)
  BY <1>3, <1>14 DEF OpenPr, Outcomes
<1> QED
  BY <1>5, <1>6, <1>7, <1>8, <1>9, <1>10, <1>11, <1>12, <1>13, <1>14 DEF RunStep

LEMMA MarkerStep ==
  ASSUME TypeOK, \A r \in Runs : MarkerInv(r), [Next]_vars
  PROVE  \A r \in Runs : MarkerInv(r)'
<1>1. CASE UNCHANGED <<run, clock>>
  BY <1>1 DEF MarkerInv
<1>2. ASSUME NEW r \in Runs, RunStep(r) PROVE \A q \in Runs : MarkerInv(q)'
  <2>1. MarkerInv(r)'
    BY <1>2, MarkerOwn
  <2>2. ASSUME NEW q \in Runs \ {r} PROVE MarkerInv(q)'
    <3>1. run'[q] = run[q] /\ run[q].requested_at \in Nat
      BY <1>2, RunFrame DEF TypeOK, RunRecords
    <3> QED
      BY <1>2, <3>1, RunFrame DEF MarkerInv
  <2> QED
    BY <2>1, <2>2
<1> QED
  BY <1>1, <1>2, NextIsRunStep

-----------------------------------------------------------------------------
(* The checkout and the diff check.                                         *)

LEMMA ApplyOwn ==
  ASSUME TypeOK, NEW r \in Runs, ApplyInv(r), RunStep(r)
  PROVE  ApplyInv(r)'
<1>1. run[r] \in RunRecords /\ main \in Trees
  BY DEF TypeOK
<1>2. ASSUME NEW outcome, End(r, outcome) PROVE ApplyInv(r)'
  <2>1. run'[r] = [run[r] EXCEPT !.phase = "completed", !.outcome = outcome, !.base = NoTree]
    BY <1>2, OwnRecord DEF End
  <2> QED
    BY <1>1, <2>1 DEF ApplyInv, RunRecords
\* A step that keeps the request and does not pass the newer check.
<1>3. ASSUME NEW record, Becomes(r, record), record.request = run[r].request,
             record.phase \notin {"current", "applied"}, run[r].phase \notin {"idle", "completed"}
      PROVE  ApplyInv(r)'
  BY <1>3, OwnRecord DEF ApplyInv
<1>4. ASSUME NEW phase, Step(r, phase), phase \notin {"current", "applied"},
             run[r].phase \notin {"idle", "completed"}
      PROVE  ApplyInv(r)'
  <2>1. run'[r] = [run[r] EXCEPT !.phase = phase]
    BY <1>4, OwnRecord DEF Step
  <2> QED
    BY <1>1, <1>4, <2>1 DEF ApplyInv, RunRecords
<1>5. ASSUME NEW payload \in Payloads, CheckRequest(r, payload) PROVE ApplyInv(r)'
  <2>1. CASE Rejected(payload)
    BY <1>2, <1>5, <2>1 DEF CheckRequest
  <2>2. CASE ~Rejected(payload)
    <3>1. run'[r] = [run[r] EXCEPT !.phase = "requested",
                                   !.request = validate_request(payload),
                                   !.requested_at = clock + 1]
      BY <1>5, <2>2, OwnRecord DEF CheckRequest
    <3>2. validate_request(payload) \in Requests
      BY <2>2, ValidRequest
    <3> QED
      BY <1>1, <3>1, <3>2 DEF ApplyInv, RunRecords
  <2> QED
    BY <2>1, <2>2
<1>6. CASE Dedupe(r)
  <2> DEFINE record == [run[r] EXCEPT !.phase = "ending", !.outcome = "duplicate",
                                      !.marker = Marker("success")]
  <2>1. record.request = run[r].request /\ record.phase = "ending"
    BY <1>1 DEF RunRecords
  <2> QED
    BY <1>3, <1>4, <1>6, <2>1 DEF Dedupe
<1>7. CASE DryRun(r)
  <2> DEFINE record == [run[r] EXCEPT !.phase = "ending", !.outcome = "failed",
                                      !.marker = Marker("failure")]
  <2>1. record.request = run[r].request /\ record.phase = "ending"
    BY <1>1 DEF RunRecords
  <2> QED
    BY <1>2, <1>3, <1>4, <1>7, <2>1 DEF DryRun
<1>8. CASE Post(r)
  <2> DEFINE record == [run[r] EXCEPT !.phase = "posted", !.asked = TRUE]
  <2>1. record.request = run[r].request /\ record.phase = "posted"
    BY <1>1 DEF RunRecords
  <2> QED
    BY <1>3, <1>8, <2>1 DEF Post
<1>9. CASE WriteMarker(r)
  <2> DEFINE record == [run[r] EXCEPT !.phase = "ending", !.marker = Marker("success")]
  <2>1. record.request = run[r].request /\ record.phase = "ending"
    BY <1>1 DEF RunRecords
  <2> QED
    BY <1>3, <1>9, <2>1 DEF WriteMarker
<1>10. CASE JobEnds(r)
  BY <1>4, <1>10 DEF JobEnds
<1>11. CASE Decide(r)
  BY <1>2, <1>4, <1>11 DEF Decide
<1>12. CASE NewerCheck(r)
  <2>1. CASE Becomes(r, [run[r] EXCEPT !.phase = "current", !.base = main])
    <3>1. run'[r] = [run[r] EXCEPT !.phase = "current", !.base = main]
      BY <2>1, OwnRecord
    <3> QED
      BY <1>1, <1>12, <3>1 DEF NewerCheck, ApplyInv, RunRecords
  <2> QED
    BY <1>2, <1>12, <2>1 DEF NewerCheck
<1>13. CASE Apply(r)
  <2>1. CASE Step(r, "applied")
    <3>1. run'[r] = [run[r] EXCEPT !.phase = "applied"]
      BY <2>1, OwnRecord DEF Step
    <3>2. run[r].phase = "current"
      BY <1>13 DEF Apply
    <3>3. /\ run'[r].request = run[r].request /\ run'[r].base = run[r].base
          /\ run'[r].phase = "applied"
      BY <1>1, <3>1 DEF RunRecords
    <3>4. run[r].request \in Requests /\ run[r].base \in Trees
      BY <3>2 DEF ApplyInv
    <3>5. ~\E outcome : End(r, outcome)
      <4>1. SUFFICES ASSUME NEW outcome, End(r, outcome) PROVE FALSE
        OBVIOUS
      <4>2. run'[r] = [run[r] EXCEPT !.phase = "completed", !.outcome = outcome, !.base = NoTree]
        BY <4>1, OwnRecord DEF End
      <4> QED
        BY <1>1, <3>3, <4>2 DEF RunRecords
    <3>6. diff_check(run[r].base, Applied(run[r].base, run[r].request), run[r].request)
      BY <1>13, <3>5 DEF Apply
    <3> QED
      BY <3>3, <3>4, <3>6 DEF ApplyInv
  <2> QED
    BY <1>2, <1>13, <2>1 DEF Apply
<1>14. CASE OpenPr(r)
  BY <1>2, <1>14 DEF OpenPr
<1> QED
  BY <1>5, <1>6, <1>7, <1>8, <1>9, <1>10, <1>11, <1>12, <1>13, <1>14 DEF RunStep

LEMMA ApplyStep ==
  ASSUME TypeOK, \A r \in Runs : ApplyInv(r), [Next]_vars
  PROVE  \A r \in Runs : ApplyInv(r)'
<1>1. CASE UNCHANGED <<run, clock>>
  BY <1>1 DEF ApplyInv
<1>2. ASSUME NEW r \in Runs, RunStep(r) PROVE \A q \in Runs : ApplyInv(q)'
  <2>1. ApplyInv(r)'
    BY <1>2, ApplyOwn
  <2>2. ASSUME NEW q \in Runs \ {r} PROVE ApplyInv(q)'
    BY <1>2, <2>2, RunFrame DEF ApplyInv
  <2> QED
    BY <2>1, <2>2
<1> QED
  BY <1>1, <1>2, NextIsRunStep

-----------------------------------------------------------------------------
(* Pull requests.                                                           *)

\* What the helper leaves in the handbook.
LEMMA AppliedHandbook ==
  ASSUME NEW base \in Trees, NEW request \in Requests
  PROVE  LET head == Applied(base, request)
         IN  /\ \A c \in Requested(request) : head.image[c] = request.sha
             /\ \A c \in Containers \ Requested(request) : head.image[c] = base.image[c]
             /\ \A c \in Containers : head.row[c] = head.image[c]
             /\ MovedImages(base, head) = Written(base, request)
             /\ MovedBadges(base, head) \subseteq Written(base, request)
             /\ \A c \in Written(base, request) \cap Badged :
                   /\ head.badge[c].shows = request.sha
                   /\ head.badge[c].exact = base.badge[c].exact
<1> DEFINE head == Applied(base, request)
<1>1. Requested(request) \subseteq Containers
  BY ContainersOf
<1>2. /\ \A c \in Requested(request) : head.image[c] = request.sha
      /\ \A c \in Containers \ Requested(request) : head.image[c] = base.image[c]
      /\ \A c \in Containers : head.row[c] = head.image[c]
  BY <1>1 DEF Applied
<1>3. /\ \A c \in Badged \ Written(base, request) : head.badge[c] = base.badge[c]
      /\ \A c \in Written(base, request) \cap Badged :
            head.badge[c] = [base.badge[c] EXCEPT !.shows = request.sha]
  BY DEF Applied
<1>4. \A c \in Badged : base.badge[c] \in Badges
  BY DEF Trees
<1>5. \A c \in Written(base, request) \cap Badged :
        /\ head.badge[c].shows = request.sha
        /\ head.badge[c].exact = base.badge[c].exact
  BY <1>3, <1>4 DEF Badges
<1> HIDE DEF head
<1>6. MovedImages(base, head) = Written(base, request)
  BY <1>1, <1>2 DEF MovedImages, Written
<1>7. MovedBadges(base, head) \subseteq Written(base, request)
  BY <1>3 DEF MovedBadges
<1> QED
  BY <1>2, <1>5, <1>6, <1>7 DEF head

\* A tree that the diff check lets through moves what was requested, no more.
LEMMA CheckedDiff ==
  ASSUME NEW base \in Trees, NEW request \in Requests,
         diff_check(base, Applied(base, request), request)
  PROVE  LET head == Applied(base, request)
             moved == MovedImages(base, head)
             rows == MovedRows(base, head)
             badges == MovedBadges(base, head)
         IN  /\ moved \cup rows \cup badges \subseteq Requested(request)
             /\ \A c \in moved, d \in moved : FileOf[c] = FileOf[d] => c = d
             /\ \A c \in moved \cup rows : head.image[c] = request.sha
             /\ \A c \in moved : head.row[c] = head.image[c]
             /\ \A c \in badges : head.badge[c].shows = head.image[c]
<1> DEFINE head == Applied(base, request)
<1>1. /\ \A c \in Requested(request) : head.image[c] = request.sha
      /\ \A c \in Containers : head.row[c] = head.image[c]
      /\ MovedBadges(base, head) \subseteq Written(base, request)
      /\ \A c \in Written(base, request) \cap Badged : head.badge[c].shows = request.sha
  BY AppliedHandbook
<1>2. diff_check(base, head, request)
  OBVIOUS
<1> HIDE DEF head
<1>3. /\ MovedImages(base, head) \subseteq Containers
      /\ MovedBadges(base, head) \subseteq Badged
  BY DEF MovedImages, MovedBadges
<1>4. /\ MovedImages(base, head) \subseteq Requested(request)
      /\ \A c \in MovedImages(base, head), d \in MovedImages(base, head) :
            FileOf[c] = FileOf[d] => c = d
  BY <1>2 DEF diff_check, CheckYaml
<1>5. MovedRows(base, head) \subseteq Requested(request)
  BY <1>2 DEF diff_check, CheckHandbook
<1>6. Written(base, request) \subseteq Requested(request)
  BY DEF Written
<1> QED
  BY <1>1, <1>3, <1>4, <1>5, <1>6 DEF head

LEMMA PrStep ==
  ASSUME TypeOK, \A r \in Runs : ApplyInv(r), PrIsItsRequest, [Next]_vars
  PROVE  PrIsItsRequest'
<1>1. CASE UNCHANGED prs
  BY <1>1 DEF PrIsItsRequest
<1>2. ASSUME NEW r \in Runs, OpenPr(r), ~UNCHANGED prs PROVE PrIsItsRequest'
  <2> DEFINE request == run[r].request
             base == run[r].base
             head == Applied(base, request)
             opened == [state |-> "open", roles |-> request.roles, base |-> base, head |-> head]
  <2>1. /\ request \in Requests /\ base \in Trees
        /\ diff_check(base, Applied(base, request), request)
    BY <1>2 DEF OpenPr, ApplyInv
  <2>2. prs' = [prs EXCEPT ![Branch(request)] = opened]
    BY <1>2 DEF OpenPr
  <2>3. Branch(request) \in Projects \X Shas
    BY <2>1 DEF Branch, Requests
  <2>4. DOMAIN prs = Projects \X Shas /\ DOMAIN prs' = DOMAIN prs
    BY <2>2 DEF TypeOK
  <2>5. prs'[Branch(request)] = opened
    BY <2>2, <2>3, <2>4
  <2>6. LET moved == MovedImages(base, head)
            rows == MovedRows(base, head)
            badges == MovedBadges(base, head)
        IN  /\ moved \cup rows \cup badges \subseteq Requested(request)
            /\ \A c \in moved, d \in moved : FileOf[c] = FileOf[d] => c = d
            /\ \A c \in moved \cup rows : head.image[c] = request.sha
            /\ \A c \in moved : head.row[c] = head.image[c]
            /\ \A c \in badges : head.badge[c].shows = head.image[c]
    BY <2>1, CheckedDiff
  <2>7. {<<Branch(request)[1], role>> : role \in opened.roles} = Requested(request)
    BY DEF Branch, Requested
  <2>8. Branch(request)[2] = request.sha
    BY DEF Branch
  <2>9. opened.base = base /\ opened.head = head /\ opened.state = "open"
    OBVIOUS
  <2> HIDE DEF request, base, head, opened
  <2>10. ASSUME NEW b \in DOMAIN prs', b # Branch(request) PROVE prs'[b] = prs[b]
    BY <2>2, <2>4, <2>10
  <2> QED
    BY <2>4, <2>5, <2>6, <2>7, <2>8, <2>9, <2>10 DEF PrIsItsRequest
<1>3. ASSUME NEW b \in Projects \X Shas, Merge(b) \/ Close(b) PROVE PrIsItsRequest'
  <2>1. prs' = [prs EXCEPT ![b] = ClosedPr]
    BY <1>3 DEF Merge, Close
  <2>2. DOMAIN prs' = DOMAIN prs
    BY <2>1 DEF TypeOK
  <2>3. \A d \in DOMAIN prs' : prs'[d].state = "open" => prs'[d] = prs[d]
    BY <2>1 DEF TypeOK, ClosedPr
  <2> QED
    BY <2>2, <2>3 DEF PrIsItsRequest
<1>4. UNCHANGED prs \/ (\E r \in Runs : OpenPr(r))
        \/ \E b \in Projects \X Shas : Merge(b) \/ Close(b)
  BY DEF Next, vars, CheckRequest, Dedupe, DryRun, Post, WriteMarker, JobEnds, Decide,
         NewerCheck, Apply, HandEdit
<1> QED
  BY <1>1, <1>2, <1>3, <1>4

-----------------------------------------------------------------------------
(* Duplicates.                                                              *)

\* A run other than r that asked the operator for r's commit and roles.
Answers(q, r) ==
  /\ run[q].asked
  /\ run[q].request.sha = run[r].request.sha
  /\ Covers(q, run[r].request)

\* A step never takes back that a run asked, or what it asked for.
LEMMA AskedStays ==
  ASSUME TypeOK, NEW r \in Runs, MarkerInv(r), RunStep(r)
  PROVE  /\ run[r].asked => run'[r].asked /\ run'[r].request = run[r].request
         /\ run'[r].outcome = "duplicate" => \/ run[r].outcome = "duplicate"
                                            \/ Dedupe(r)
         /\ run[r].phase # "idle" => run'[r].request = run[r].request
<1>1. run[r] \in RunRecords
  BY DEF TypeOK
<1>2. ASSUME NEW outcome \in Outcomes \ {"duplicate"}, End(r, outcome)
      PROVE  /\ run'[r].asked = run[r].asked /\ run'[r].request = run[r].request
             /\ run'[r].outcome # "duplicate"
  <2>1. run'[r] = [run[r] EXCEPT !.phase = "completed", !.outcome = outcome, !.base = NoTree]
    BY <1>2, OwnRecord DEF End
  <2> QED
    BY <1>1, <1>2, <2>1 DEF RunRecords
<1>3. ASSUME NEW phase, Step(r, phase)
      PROVE  /\ run'[r].asked = run[r].asked /\ run'[r].request = run[r].request
             /\ run'[r].outcome = run[r].outcome
  <2>1. run'[r] = [run[r] EXCEPT !.phase = phase]
    BY <1>3, OwnRecord DEF Step
  <2> QED
    BY <1>1, <2>1 DEF RunRecords
<1>4. ASSUME NEW payload \in Payloads, CheckRequest(r, payload)
      PROVE  run[r].phase = "idle" /\ ~run[r].asked /\ run'[r].outcome # "duplicate"
  <2>1. run[r].phase = "idle" /\ ~run[r].asked /\ run[r].outcome = "none"
    BY <1>4 DEF CheckRequest, MarkerInv, Unasked
  <2>2. CASE Rejected(payload)
    BY <1>2, <1>4, <2>1, <2>2 DEF CheckRequest, Outcomes
  <2>3. CASE ~Rejected(payload)
    <3>1. run'[r] = [run[r] EXCEPT !.phase = "requested",
                                   !.request = validate_request(payload),
                                   !.requested_at = clock + 1]
      BY <1>4, <2>3, OwnRecord DEF CheckRequest
    <3> QED
      BY <1>1, <2>1, <3>1 DEF RunRecords
  <2> QED
    BY <2>2, <2>3
<1>5. ASSUME Dedupe(r)
      PROVE  run'[r].asked = run[r].asked /\ run'[r].request = run[r].request
  <2>1. CASE Becomes(r, [run[r] EXCEPT !.phase = "ending", !.outcome = "duplicate",
                                       !.marker = Marker("success")])
    <3>1. run'[r] = [run[r] EXCEPT !.phase = "ending", !.outcome = "duplicate",
                                   !.marker = Marker("success")]
      BY <2>1, OwnRecord
    <3> QED
      BY <1>1, <3>1 DEF RunRecords
  <2> QED
    BY <1>3, <1>5, <2>1 DEF Dedupe
<1>6. CASE DryRun(r)
  <2>1. CASE Becomes(r, [run[r] EXCEPT !.phase = "ending", !.outcome = "failed",
                                       !.marker = Marker("failure")])
    <3>1. run'[r] = [run[r] EXCEPT !.phase = "ending", !.outcome = "failed",
                                   !.marker = Marker("failure")]
      BY <2>1, OwnRecord
    <3> QED
      BY <1>1, <3>1 DEF RunRecords
  <2> QED
    BY <1>2, <1>3, <1>6, <2>1 DEF DryRun, Outcomes
<1>7. CASE Post(r)
  <2>1. run'[r] = [run[r] EXCEPT !.phase = "posted", !.asked = TRUE]
    BY <1>7, OwnRecord DEF Post
  <2> QED
    BY <1>1, <2>1 DEF RunRecords
<1>8. CASE WriteMarker(r)
  <2>1. run'[r] = [run[r] EXCEPT !.phase = "ending", !.marker = Marker("success")]
    BY <1>8, OwnRecord DEF WriteMarker
  <2> QED
    BY <1>1, <2>1 DEF RunRecords
<1>9. CASE JobEnds(r)
  BY <1>3, <1>9 DEF JobEnds
<1>10. CASE Decide(r)
  BY <1>2, <1>3, <1>10 DEF Decide, Outcomes
<1>11. CASE NewerCheck(r)
  <2>1. CASE Becomes(r, [run[r] EXCEPT !.phase = "current", !.base = main])
    <3>1. run'[r] = [run[r] EXCEPT !.phase = "current", !.base = main]
      BY <2>1, OwnRecord
    <3> QED
      BY <1>1, <3>1 DEF RunRecords
  <2> QED
    BY <1>2, <1>11, <2>1 DEF NewerCheck, Outcomes
<1>12. CASE Apply(r)
  BY <1>2, <1>3, <1>12 DEF Apply, Outcomes
<1>13. CASE OpenPr(r)
  BY <1>2, <1>13 DEF OpenPr, Outcomes
<1> QED
  BY <1>4, <1>5, <1>6, <1>7, <1>8, <1>9, <1>10, <1>11, <1>12, <1>13 DEF RunStep

\* A branch that had a pull request has had one for good.
LEMMA HadPrStays ==
  ASSUME TypeOK, [Next]_vars, NEW b \in Projects \X Shas, prs[b].state # "none"
  PROVE  prs'[b].state # "none"
<1>1. CASE UNCHANGED prs
  BY <1>1
<1>2. ASSUME NEW r \in Runs, OpenPr(r) PROVE prs'[b].state # "none"
  <2>1. CASE UNCHANGED prs
    BY <2>1
  <2>2. CASE ~UNCHANGED prs
    <3> DEFINE opened == [state |-> "open", roles |-> run[r].request.roles,
                          base |-> run[r].base,
                          head |-> Applied(run[r].base, run[r].request)]
    <3>1. prs' = [prs EXCEPT ![Branch(run[r].request)] = opened]
      BY <1>2, <2>2 DEF OpenPr
    <3>2. opened.state = "open"
      OBVIOUS
    <3> HIDE DEF opened
    <3> QED
      BY <3>1, <3>2 DEF TypeOK
  <2> QED
    BY <2>1, <2>2
<1>3. ASSUME NEW d \in Projects \X Shas, Merge(d) \/ Close(d) PROVE prs'[b].state # "none"
  BY <1>3 DEF Merge, Close, TypeOK, ClosedPr
<1> QED
  BY <1>1, <1>2, <1>3 DEF Next, vars, CheckRequest, Dedupe, DryRun, Post, WriteMarker,
     JobEnds, Decide, NewerCheck, Apply, HandEdit

LEMMA DuplicateInvStep ==
  ASSUME TypeOK, \A r \in Runs : MarkerInv(r) /\ ApplyInv(r) /\ DuplicateInv(r), [Next]_vars
  PROVE  \A r \in Runs : DuplicateInv(r)'
<1>1. CASE UNCHANGED <<run, clock>>
  BY <1>1 DEF DuplicateInv
<1>2. ASSUME NEW r \in Runs, RunStep(r) PROVE \A q \in Runs : DuplicateInv(q)'
  <2>1. ASSUME run'[r].outcome = "duplicate" PROVE run'[r].request \in Requests
    <3>1. CASE run[r].outcome = "duplicate"
      <4>1. run[r].phase # "idle"
        BY <3>1 DEF MarkerInv
      <4> QED
        BY <1>2, <3>1, <4>1, AskedStays DEF DuplicateInv
    <3>2. CASE Dedupe(r)
      <4>1. run[r].phase = "requested"
        BY <3>2 DEF Dedupe
      <4> QED
        BY <1>2, <4>1, AskedStays DEF ApplyInv
    <3> QED
      BY <1>2, <2>1, <3>1, <3>2, AskedStays
  <2> QED
    BY <1>2, <2>1, RunFrame DEF DuplicateInv
<1> QED
  BY <1>1, <1>2, NextIsRunStep

\* Whoever answers a request goes on answering it.
LEMMA AnswerStays ==
  ASSUME TypeOK, \A r \in Runs : MarkerInv(r), [Next]_vars,
         NEW q \in Runs, NEW r \in Runs, Answers(q, r), run'[r].request = run[r].request
  PROVE  Answers(q, r)'
<1>1. run'[q].asked /\ run'[q].request = run[q].request
  <2>1. CASE UNCHANGED <<run, clock>>
    BY <2>1 DEF Answers
  <2>2. ASSUME NEW d \in Runs, RunStep(d) PROVE run'[q].asked /\ run'[q].request = run[q].request
    <3>1. CASE d = q
      BY <2>2, <3>1, AskedStays DEF Answers
    <3>2. CASE d # q
      BY <2>2, <3>2, RunFrame DEF Answers
    <3> QED
      BY <3>1, <3>2
  <2> QED
    BY <2>1, <2>2, NextIsRunStep
<1> QED
  BY <1>1 DEF Answers, Covers

\* The run that a duplicate met asked, or is a duplicate of one that did, and
\* that one is not the duplicate itself: it has not asked anybody yet.
LEMMA DuplicateMet ==
  ASSUME TypeOK, \A q \in Runs : MarkerInv(q), DuplicateWasAsked,
         NEW r \in Runs, run[r].phase = "requested", is_duplicate(r)
  PROVE  \/ \E q \in Runs \ {r} : Answers(q, r)
         \/ prs[Branch(run[r].request)].state # "none"
<1>1. PICK q \in Runs \ {r} : /\ _usable(q)
                               /\ run[q].request.sha = run[r].request.sha
                               /\ Covers(q, run[r].request)
  BY DEF is_duplicate
<1>2. ~run[r].asked
  BY DEF MarkerInv, Unasked
<1>3. CASE run[q].asked
  BY <1>1, <1>3 DEF Answers
<1>4. CASE run[q].outcome = "duplicate"
  <2>1. Branch(run[q].request) = Branch(run[r].request)
    BY <1>1 DEF Branch, Covers
  <2>2. ASSUME NEW d \in Runs, Answers(d, q) PROVE d # r /\ Answers(d, r)
    BY <1>1, <1>2, <2>2 DEF Answers, Covers
  <2> QED
    BY <1>4, <2>1, <2>2 DEF DuplicateWasAsked, Answers
<1> QED
  BY <1>1, <1>3, <1>4 DEF _usable, MarkerInv

LEMMA DuplicateStep ==
  ASSUME PinInv, [Next]_vars
  PROVE  DuplicateWasAsked'
<1>1. TypeOK /\ \A r \in Runs : MarkerInv(r) /\ ApplyInv(r) /\ DuplicateInv(r)
  BY DEF PinInv
<1>2. SUFFICES ASSUME NEW r \in Runs, run'[r].outcome = "duplicate"
               PROVE  \/ \E q \in Runs \ {r} : Answers(q, r)'
                      \/ prs'[Branch(run'[r].request)].state # "none"
  BY DEF DuplicateWasAsked, Answers
<1>3. /\ run'[r].request = run[r].request
      /\ run[r].request \in Requests
      /\ \/ \E q \in Runs \ {r} : Answers(q, r)
         \/ prs[Branch(run[r].request)].state # "none"
  <2>1. CASE run[r].outcome = "duplicate"
    <3>1. run[r].phase # "idle" /\ run[r].request \in Requests
      BY <1>1, <2>1 DEF MarkerInv, DuplicateInv
    <3>2. run'[r].request = run[r].request
      <4>1. ASSUME NEW d \in Runs, RunStep(d) PROVE run'[r].request = run[r].request
        <5>1. CASE d = r
          BY <1>1, <3>1, <4>1, <5>1, AskedStays
        <5>2. CASE d # r
          BY <1>1, <4>1, <5>2, RunFrame
        <5> QED
          BY <5>1, <5>2
      <4> QED
        BY <4>1, NextIsRunStep
    <3> QED
      BY <2>1, <3>1, <3>2 DEF PinInv, DuplicateWasAsked, Answers
  <2>2. CASE run[r].outcome # "duplicate"
    <3>1. RunStep(r) /\ Dedupe(r)
      <4>1. PICK d \in Runs : RunStep(d)
        BY <1>2, <2>2, NextIsRunStep
      <4>2. d = r
        BY <1>1, <1>2, <2>2, <4>1, RunFrame
      <4> QED
        BY <1>1, <1>2, <2>2, <4>1, <4>2, AskedStays
    <3>2. run[r].phase = "requested"
      BY <3>1 DEF Dedupe
    <3>3. run'[r].request = run[r].request /\ run[r].request \in Requests
      BY <1>1, <3>1, <3>2, AskedStays DEF ApplyInv
    <3>4. is_duplicate(r) \/ prs[Branch(run[r].request)].state = "open"
      <4>1. SUFFICES ASSUME Step(r, "new") PROVE FALSE
        BY <3>1 DEF Dedupe
      <4>2. run'[r] = [run[r] EXCEPT !.phase = "new"]
        BY <1>1, <4>1, OwnRecord DEF Step
      <4> QED
        BY <1>1, <1>2, <2>2, <4>2 DEF TypeOK, RunRecords
    <3> QED
      BY <1>1, <3>2, <3>3, <3>4, DuplicateMet DEF PinInv
  <2> QED
    BY <2>1, <2>2
<1>4. CASE \E q \in Runs \ {r} : Answers(q, r)
  BY <1>1, <1>3, <1>4, AnswerStays
<1>5. CASE prs[Branch(run[r].request)].state # "none"
  <2>1. Branch(run[r].request) \in Projects \X Shas
    BY <1>3 DEF Branch, Requests
  <2> QED
    BY <1>1, <1>3, <1>5, <2>1, HadPrStays
<1> QED
  BY <1>3, <1>4, <1>5

-----------------------------------------------------------------------------
(* The theorems.                                                            *)

LEMMA PinInit == Init => PinInv
<1> SUFFICES ASSUME Init PROVE PinInv
  OBVIOUS
<1>1. TypeOK
  BY TypeInit
<1>2. \A r \in Runs : run[r] = Idle
  BY DEF Init
<1>3. ASSUME NEW r \in Runs PROVE MarkerInv(r) /\ ApplyInv(r) /\ DuplicateInv(r)
  <2>1. /\ run[r].phase = "idle" /\ run[r].outcome = "none" /\ ~run[r].asked
        /\ run[r].marker = NoMarker /\ run[r].requested_at = 0 /\ clock = 0
    BY <1>2 DEF Idle, Init
  <2>2. NoMarker.conclusion # "success"
    BY DEF NoMarker
  <2> QED
    BY <2>1, <2>2 DEF MarkerInv, ApplyInv, DuplicateInv, Unasked, Pinning
<1>4. DuplicateWasAsked
  BY <1>2 DEF DuplicateWasAsked, Idle
<1>5. PrIsItsRequest
  BY DEF Init, PrIsItsRequest, NoPr
<1> QED
  BY <1>1, <1>3, <1>4, <1>5 DEF PinInv

LEMMA PinStep == PinInv /\ [Next]_vars => PinInv'
<1> SUFFICES ASSUME PinInv, [Next]_vars PROVE PinInv'
  OBVIOUS
<1>1. /\ TypeOK /\ PrIsItsRequest
      /\ \A r \in Runs : MarkerInv(r) /\ ApplyInv(r) /\ DuplicateInv(r)
  BY DEF PinInv
<1>2. TypeOK'
  BY <1>1, TypeStep
<1>3. \A r \in Runs : MarkerInv(r)'
  BY <1>1, MarkerStep
<1>4. \A r \in Runs : ApplyInv(r)'
  BY <1>1, ApplyStep
<1>5. \A r \in Runs : DuplicateInv(r)'
  BY <1>1, DuplicateInvStep
<1>6. DuplicateWasAsked'
  BY DuplicateStep
<1>7. PrIsItsRequest'
  BY <1>1, PrStep
<1> QED
  BY <1>2, <1>3, <1>4, <1>5, <1>6, <1>7 DEF PinInv

LEMMA PinInvariant == Spec => []PinInv
BY PinInit, PinStep, PTL DEF Spec

\* Every record, marker and pull request of the flow keeps its type.
THEOREM TypeCorrect == Spec => []TypeOK
<1>1. PinInv => TypeOK
  BY DEF PinInv
<1> QED
  BY <1>1, PinInvariant, PTL

\* For every number of runs, a request that stopped quietly was put to the
\* operator by another run, or its commit has had a pull request
\* (image-pin.py:224-263).
THEOREM DuplicatesWereAsked == Spec => []DuplicateWasAsked
<1>1. PinInv => DuplicateWasAsked
  BY DEF PinInv
<1> QED
  BY <1>1, PinInvariant, PTL

\* Every pull request moves its own roles, to its own commit, and no more
\* (image-pin.py:744-792).
THEOREM PullRequestsAreRequests == Spec => []PrIsItsRequest
<1>1. PinInv => PrIsItsRequest
  BY DEF PinInv
<1> QED
  BY <1>1, PinInvariant, PTL

\* The diff check lets every honest pin through (image-pin.py:744-792).
THEOREM HonestPinsPass == Spec => []HonestPinPasses
<1>1. PinInv => HonestPinPasses
  <2>1. SUFFICES ASSUME PinInv, NEW r \in Runs,
                        run[r].phase = "current",
                        Written(run[r].base, run[r].request) # {},
                        Honest(run[r].base, run[r].request)
                 PROVE  diff_check(run[r].base, Applied(run[r].base, run[r].request),
                                   run[r].request)
    BY DEF HonestPinPasses
  <2> DEFINE base == run[r].base
             request == run[r].request
             head == Applied(base, request)
  <2>2. request \in Requests /\ base \in Trees
    BY <2>1 DEF PinInv, ApplyInv
  <2>3. Requested(request) \subseteq Containers
    BY <2>2, ContainersOf
  <2>4. /\ \A c \in Requested(request) : head.image[c] = request.sha
        /\ \A c \in Containers \ Requested(request) : head.image[c] = base.image[c]
        /\ \A c \in Containers : head.row[c] = head.image[c]
        /\ MovedImages(base, head) = Written(base, request)
        /\ MovedBadges(base, head) \subseteq Written(base, request)
        /\ \A c \in Written(base, request) \cap Badged :
              /\ head.badge[c].shows = request.sha
              /\ head.badge[c].exact = base.badge[c].exact
    BY <2>2, AppliedHandbook
  <2>5. Honest(base, request) /\ Written(base, request) # {}
    BY <2>1 DEF base, request
  <2> HIDE DEF base, request, head
  <2>6. \A c \in Requested(request) : c[1] = request.project
    BY DEF Requested
  <2>7. CheckYaml(base, head, request)
    BY <2>4, <2>5, <2>6 DEF CheckYaml, Written, Honest
  <2>8. CheckHandbook(base, head, request)
    <3>1. \A c \in MovedRows(base, head) : c \in Requested(request) /\ head.row[c] = request.sha
      BY <2>3, <2>4, <2>5 DEF MovedRows, Honest
    <3>2. \A c \in MovedBadges(base, head) :
            head.badge[c].exact /\ head.badge[c].shows = request.sha
      <4>1. MovedBadges(base, head) \subseteq Written(base, request) \cap Badged
        BY <2>4 DEF MovedBadges
      <4>2. \A c \in Written(base, request) \cap Badged : base.badge[c].exact
        BY <2>5 DEF Honest
      <4> QED
        BY <2>4, <4>1, <4>2
    <3> QED
      BY <3>1, <3>2 DEF CheckHandbook
  <2>9. diff_check(base, head, request)
    BY <2>4, <2>5, <2>7, <2>8 DEF diff_check
  <2> QED
    BY <2>9 DEF base, request, head
<1> QED
  BY <1>1, PinInvariant, PTL

\* For every number of runs, an approved run goes on only when no newer one
\* that covers it is waiting or approved (image-pin.py:266-298).
THEOREM NewestRunWins == Spec => NewestWins
<1>1. ASSUME PinInv, [Next]_vars, NEW r \in Runs, NEW q \in Runs,
             run[r].phase = "approved", run'[r].phase = "current",
             Newer(q, r), Covers(q, run[r].request),
             run[q].phase \in {"waiting"} \cup Pinning
      PROVE  FALSE
  <2>1. TypeOK /\ MarkerInv(q) /\ MarkerInv(r)
    BY <1>1 DEF PinInv
  <2>2. run[q] \in RunRecords /\ run[r] \in RunRecords
    BY <2>1 DEF TypeOK
  <2>3. /\ run[q].marker.conclusion = "success"
        /\ run[q].marker.created_at >= run[q].requested_at
        /\ run[q].marker.created_at \in Nat
    BY <1>1, <2>1 DEF MarkerInv, Markers
  <2>4. q # r /\ run[q].marker.created_at >= run[r].requested_at
    BY <1>1, <2>2, <2>3 DEF Newer, RunRecords
  <2>5. status(q) \in LIVE_STATES
    BY <1>1 DEF status, LIVE_STATES, Validating, Pinning
  <2>6. is_replaced(r)
    BY <1>1, <2>3, <2>4, <2>5 DEF is_replaced, _usable
  <2>7. NewerCheck(r)
    <3>1. PICK d \in Runs : RunStep(d)
      BY <1>1, NextIsRunStep
    <3>2. d = r
      BY <1>1, <2>1, <3>1, RunFrame
    <3>3. ~Step(r, "applied") /\ \A outcome : ~End(r, outcome)
      <4>1. ASSUME NEW phase, Step(r, phase) PROVE run'[r].phase = phase
        <5>1. run'[r] = [run[r] EXCEPT !.phase = phase]
          BY <2>1, <4>1, OwnRecord DEF Step
        <5> QED
          BY <2>2, <5>1 DEF RunRecords
      <4>2. ASSUME NEW outcome, End(r, outcome) PROVE run'[r].phase = "completed"
        <5>1. run'[r] = [run[r] EXCEPT !.phase = "completed", !.outcome = outcome,
                                       !.base = NoTree]
          BY <2>1, <4>2, OwnRecord DEF End
        <5> QED
          BY <2>2, <5>1 DEF RunRecords
      <4> QED
        BY <1>1, <4>1, <4>2
    <3> QED
      BY <1>1, <3>1, <3>2, <3>3 DEF RunStep, CheckRequest, Dedupe, DryRun, Post, WriteMarker,
         JobEnds, Decide, Apply, OpenPr
  <2>8. End(r, "replaced")
    BY <2>6, <2>7 DEF NewerCheck
  <2>9. run'[r] = [run[r] EXCEPT !.phase = "completed", !.outcome = "replaced", !.base = NoTree]
    BY <2>1, <2>8, OwnRecord DEF End
  <2> QED
    BY <1>1, <2>2, <2>9 DEF RunRecords
<1>2. PinInv /\ [Next]_vars =>
        [\A r \in Runs :
          (run[r].phase = "approved" /\ run'[r].phase = "current")
            => ~\E q \in Runs : /\ Newer(q, r)
                                /\ Covers(q, run[r].request)
                                /\ run[q].phase \in {"waiting"} \cup Pinning]_vars
  BY <1>1
<1> QED
  BY <1>2, PinInvariant, PTL DEF Spec, NewestWins
=============================================================================
