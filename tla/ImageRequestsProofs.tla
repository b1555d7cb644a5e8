------------------------- MODULE ImageRequestsProofs -------------------------
(***************************************************************************)
(* The receiver of image bump requests: what superseding never does, for    *)
(* every allowlist and every number of overlapping receiver runs.           *)
(***************************************************************************)
EXTENDS ImageRequests, WellFoundedInduction, TLAPS

-----------------------------------------------------------------------------
(* The inductive invariant.                                                 *)

\* A run at work has a request. What it set out to close is an older request
\* of the project that its own covers, and the issue it closes them for asks
\* for all of its roles, even when another run closed that issue meanwhile.
RunInv(r) ==
  /\ Working(r) => request[r] \in Requests
  /\ pc[r] \in {"open", "close"} =>
       \A n \in todo[r] : /\ n \in DOMAIN issues
                          /\ issues[n].project = request[r].project
                          /\ issues[n].roles \subseteq request[r].roles
  /\ pc[r] = "close" =>
       /\ number[r] \in DOMAIN issues
       /\ issues[number[r]].project = request[r].project
       /\ request[r].roles \subseteq issues[number[r]].roles

RequestInv ==
  /\ TypeOK
  /\ \A r \in Runs : RunInv(r)
  /\ SupersededByWider

\* Issues stay, with the project and the roles they were opened for.
IssuesStay ==
  /\ DOMAIN issues \subseteq DOMAIN issues'
  /\ \A n \in DOMAIN issues : /\ issues'[n].project = issues[n].project
                              /\ issues'[n].roles = issues[n].roles

-----------------------------------------------------------------------------
LEMMA AcceptedRequest ==
  ASSUME NEW payload \in Payloads, ~Rejected(payload)
  PROVE  validate_request(payload) \in Requests
BY AllowedAssumption DEF Payloads, Rejected, validate_request, Requests

\* A change of the state of one issue keeps the list well formed.
LEMMA StateChange ==
  ASSUME TypeOK, NEW n \in DOMAIN issues,
         NEW record, record.project = issues[n].project, record.roles = issues[n].roles,
         record \in Issues,
         issues' = [issues EXCEPT ![n] = record]
  PROVE  /\ issues' \in Seq(Issues)
         /\ DOMAIN issues' = DOMAIN issues
         /\ IssuesStay
<1>1. issues \in Seq(Issues)
  BY DEF TypeOK
<1>2. issues' \in Seq(Issues) /\ DOMAIN issues' = DOMAIN issues
  BY <1>1
<1> QED
  BY <1>1, <1>2 DEF IssuesStay

\* A step of one run that leaves the others alone keeps their part.
LEMMA OthersStay ==
  ASSUME NEW q \in Runs, RunInv(q), IssuesStay,
         pc'[q] = pc[q], request'[q] = request[q], number'[q] = number[q], todo'[q] = todo[q]
  PROVE  RunInv(q)'
BY DEF RunInv, IssuesStay, Working

\* Which steps of a run leave the list of issues and the other runs alone.
LEMMA QuietStep ==
  ASSUME RequestInv, NEW r \in Runs, UNCHANGED <<pinned, issues>>,
         TypeOK', RunInv(r)',
         \A q \in Runs \ {r} : /\ pc'[q] = pc[q] /\ request'[q] = request[q]
                              /\ number'[q] = number[q] /\ todo'[q] = todo[q]
  PROVE  RequestInv'
<1>1. IssuesStay
  BY DEF IssuesStay
<1>2. \A q \in Runs \ {r} : RunInv(q)'
  BY <1>1, OthersStay DEF RequestInv
<1>3. SupersededByWider'
  BY DEF RequestInv, SupersededByWider, Superseded
<1> QED
  BY <1>2, <1>3 DEF RequestInv

LEMMA DispatchKeeps ==
  ASSUME RequestInv, NEW r \in Runs, NEW payload \in Payloads, Dispatch(r, payload)
  PROVE  RequestInv'
<1>1. TypeOK /\ RunInv(r)
  BY DEF RequestInv
<1>2. CASE Rejected(payload)
  <2>1. TypeOK'
    BY <1>1, <1>2 DEF Dispatch, TypeOK
  <2>2. pc'[r] = "red" /\ \A q \in Runs \ {r} : pc'[q] = pc[q]
    BY <1>1, <1>2 DEF Dispatch, TypeOK
  <2>3. RunInv(r)'
    BY <2>2 DEF RunInv, Working
  <2> QED
    BY <1>2, <2>1, <2>2, <2>3, QuietStep DEF Dispatch
<1>3. CASE ~Rejected(payload)
  <2> DEFINE req == validate_request(payload)
  <2>1. req \in Requests
    BY <1>3, AcceptedRequest
  <2>2. /\ pc' = [pc EXCEPT ![r] = "resolve"]
        /\ request' = [request EXCEPT ![r] = req]
        /\ overlapped' = overlapped \/ overlapped' = overlapped \cup {req.project}
        /\ UNCHANGED <<pinned, pulls, issues, number, todo, repeated>>
    BY <1>3 DEF Dispatch
  <2>3. req.project \in Projects
    BY <2>1 DEF Requests
  <2> HIDE DEF req
  <2>4. TypeOK'
    BY <1>1, <2>1, <2>2, <2>3 DEF TypeOK
  <2>5. /\ pc'[r] = "resolve" /\ request'[r] = req
        /\ \A q \in Runs \ {r} : pc'[q] = pc[q] /\ request'[q] = request[q]
    BY <1>1, <2>2 DEF TypeOK
  <2>6. RunInv(r)'
    BY <2>1, <2>5 DEF RunInv, Working
  <2> QED
    BY <2>2, <2>4, <2>5, <2>6, QuietStep
<1> QED
  BY <1>2, <1>3

\* The steps that only move a run on.
LEMMA MoveKeeps ==
  ASSUME RequestInv, NEW r \in Runs, Resolve(r) \/ Finish(r) \/ Fail(r)
  PROVE  RequestInv'
<1>1. TypeOK /\ RunInv(r)
  BY DEF RequestInv
<1>2. PICK next \in {"list", "pinned", "done", "red"} :
        /\ pc' = [pc EXCEPT ![r] = next]
        /\ next = "list" => pc[r] = "resolve"
  BY DEF Resolve, Finish, Fail
<1>3. UNCHANGED <<pinned, pulls, issues, request, number, todo, overlapped, repeated>>
  BY DEF Resolve, Finish, Fail
<1>4. TypeOK'
  BY <1>1, <1>2, <1>3 DEF TypeOK
<1>5. pc'[r] = next /\ \A q \in Runs \ {r} : pc'[q] = pc[q]
  BY <1>1, <1>2 DEF TypeOK
<1>6. RunInv(r)'
  BY <1>1, <1>2, <1>3, <1>5 DEF RunInv, Working
<1> QED
  BY <1>3, <1>4, <1>5, <1>6, QuietStep

LEMMA ListKeeps ==
  ASSUME RequestInv, NEW r \in Runs, List(r)
  PROVE  RequestInv'
<1> DEFINE listed == OpenIssues(request[r].project)
<1>1. TypeOK /\ RunInv(r) /\ pc[r] = "list"
  BY DEF RequestInv, List
<1>2. request[r] \in Requests
  BY <1>1 DEF RunInv, Working
<1>3. PICK duplicate \in Duplicates(request[r], listed) :
        /\ number' = [number EXCEPT ![r] = duplicate]
        /\ todo' = [todo EXCEPT ![r] = Supersede(request[r], listed, duplicate)]
        /\ pc' = [pc EXCEPT ![r] = IF duplicate = 0 THEN "open" ELSE "close"]
        /\ repeated' = IF duplicate = 0 THEN repeated
                       ELSE repeated \cup {request[r].project}
  BY DEF List
<1>4. UNCHANGED <<pinned, pulls, issues, request, overlapped>>
  BY DEF List
<1>5. issues \in Seq(Issues) /\ DOMAIN issues \subseteq Nat \ {0}
  BY <1>1 DEF TypeOK
<1>6. listed \subseteq DOMAIN issues /\ \A n \in listed : issues[n].project = request[r].project
  BY DEF OpenIssues
<1>7. \/ duplicate = 0
      \/ /\ duplicate \in listed /\ duplicate # 0
         /\ request[r].roles \subseteq issues[duplicate].roles
  BY <1>5, <1>6 DEF Duplicates, Same
<1>8. \A n \in Supersede(request[r], listed, duplicate) :
         n \in listed /\ issues[n].roles \subseteq request[r].roles
  BY DEF Supersede
<1> HIDE DEF listed
<1>9. /\ pc'[r] = IF duplicate = 0 THEN "open" ELSE "close"
      /\ number'[r] = duplicate
      /\ todo'[r] = Supersede(request[r], listed, duplicate)
      /\ \A q \in Runs \ {r} : pc'[q] = pc[q] /\ number'[q] = number[q] /\ todo'[q] = todo[q]
  BY <1>1, <1>3 DEF TypeOK
<1>10. Supersede(request[r], listed, duplicate) \in SUBSET Nat /\ duplicate \in Nat
  BY <1>5, <1>6, <1>7, <1>8
<1>11. request[r].project \in Projects
  BY <1>2 DEF Requests
<1>12. TypeOK'
  BY <1>1, <1>3, <1>4, <1>10, <1>11 DEF TypeOK
<1>13. RunInv(r)'
  BY <1>2, <1>4, <1>6, <1>7, <1>8, <1>9 DEF RunInv, Working
<1> QED
  BY <1>4, <1>9, <1>12, <1>13, QuietStep

LEMMA OpenKeeps ==
  ASSUME RequestInv, NEW r \in Runs, Open(r)
  PROVE  RequestInv'
<1> DEFINE issue == [project |-> request[r].project, sha |-> request[r].sha,
                     roles |-> request[r].roles, state |-> "open", by |-> 0]
<1>1. TypeOK /\ RunInv(r) /\ pc[r] = "open" /\ issues \in Seq(Issues)
  BY DEF RequestInv, Open, TypeOK
<1>2. request[r] \in Requests
  BY <1>1 DEF RunInv, Working
<1>3. issue \in Issues
  BY <1>2 DEF Issues, Requests
<1>4. issues' = Append(issues, issue)
  BY DEF Open
<1>5. UNCHANGED <<pinned, pulls, request, todo, overlapped, repeated>>
  BY DEF Open
<1>6. issue.project = request[r].project /\ issue.roles = request[r].roles /\ issue.state = "open"
  OBVIOUS
<1> HIDE DEF issue
<1>7. /\ issues' \in Seq(Issues) /\ Len(issues) \in Nat
      /\ DOMAIN issues = 1 .. Len(issues)
      /\ DOMAIN issues' = 1 .. (Len(issues) + 1)
      /\ \A n \in DOMAIN issues : issues'[n] = issues[n]
      /\ issues'[Len(issues) + 1] = issue
  BY <1>1, <1>3, <1>4
<1>8. IssuesStay
  BY <1>7 DEF IssuesStay
<1>9. Superseded' = Superseded
  BY <1>6, <1>7 DEF Superseded
<1>10. SupersededByWider'
  BY <1>7, <1>9 DEF RequestInv, SupersededByWider, Superseded
<1>11. \/ /\ number' = [number EXCEPT ![r] = Len(issues) + 1]
          /\ pc' = [pc EXCEPT ![r] = "close"]
       \/ pc' = [pc EXCEPT ![r] = "red"] /\ UNCHANGED number
  BY DEF Open
<1>12. TypeOK'
  <2>1. Len(issues) + 1 \in Nat
    BY <1>7
  <2>2. number' \in [Runs -> Nat]
    BY <1>1, <1>11, <2>1 DEF TypeOK
  <2>3. pc' \in [Runs -> {"idle", "resolve", "list", "open", "close", "done", "pinned", "red"}]
    BY <1>1, <1>11 DEF TypeOK
  <2> QED
    BY <1>1, <1>5, <1>7, <2>2, <2>3 DEF TypeOK
<1>13. \A q \in Runs \ {r} : pc'[q] = pc[q] /\ number'[q] = number[q]
  BY <1>1, <1>11 DEF TypeOK
<1>14. RunInv(r)'
  <2>1. CASE number' = [number EXCEPT ![r] = Len(issues) + 1] /\ pc' = [pc EXCEPT ![r] = "close"]
    <3>1. number'[r] = Len(issues) + 1 /\ pc'[r] = "close"
      BY <1>1, <2>1 DEF TypeOK
    <3> QED
      BY <1>1, <1>2, <1>5, <1>6, <1>7, <3>1 DEF RunInv, Working
  <2>2. CASE pc' = [pc EXCEPT ![r] = "red"]
    <3>1. pc'[r] = "red"
      BY <1>1, <2>2 DEF TypeOK
    <3> QED
      BY <3>1 DEF RunInv, Working
  <2> QED
    BY <1>11, <2>1, <2>2
<1>15. \A q \in Runs \ {r} : RunInv(q)'
  BY <1>5, <1>8, <1>13, OthersStay DEF RequestInv
<1> QED
  BY <1>10, <1>12, <1>14, <1>15 DEF RequestInv

LEMMA CloseKeeps ==
  ASSUME RequestInv, NEW r \in Runs, Close(r)
  PROVE  RequestInv'
<1>1. TypeOK /\ RunInv(r) /\ pc[r] = "close" /\ issues \in Seq(Issues)
  BY DEF RequestInv, Close, TypeOK
<1>2. PICK n \in todo[r] :
        /\ issues' = IF issues[n].state = "open"
                       THEN [issues EXCEPT ![n].state = "superseded", ![n].by = number[r]]
                       ELSE issues
        /\ todo' = [todo EXCEPT ![r] = @ \ {n}]
  BY DEF Close
<1>3. UNCHANGED <<pinned, pulls, pc, request, number, overlapped, repeated>>
  BY DEF Close
<1>4. /\ n \in DOMAIN issues /\ issues[n].project = request[r].project
      /\ issues[n].roles \subseteq request[r].roles
      /\ number[r] \in DOMAIN issues
      /\ issues[number[r]].project = request[r].project
      /\ request[r].roles \subseteq issues[number[r]].roles
  BY <1>1 DEF RunInv
<1> DEFINE closed == [issues[n] EXCEPT !.state = "superseded", !.by = number[r]]
<1>5. issues[n] \in Issues /\ number[r] \in Nat
  BY <1>1, <1>4 DEF TypeOK
<1>6. /\ closed \in Issues /\ closed.by = number[r]
      /\ closed.project = issues[n].project /\ closed.roles = issues[n].roles
  BY <1>5 DEF Issues
<1>7. issues' = issues \/ issues' = [issues EXCEPT ![n] = closed]
  BY <1>2
<1> HIDE DEF closed
<1>8. issues' \in Seq(Issues) /\ DOMAIN issues' = DOMAIN issues /\ IssuesStay
  <2>1. CASE issues' = issues
    BY <1>1, <2>1 DEF IssuesStay
  <2>2. CASE issues' = [issues EXCEPT ![n] = closed]
    BY <1>1, <1>4, <1>6, <2>2, StateChange
  <2> QED
    BY <1>7, <2>1, <2>2
<1>9. TypeOK'
  BY <1>1, <1>2, <1>3, <1>8 DEF TypeOK
<1>10. todo'[r] = todo[r] \ {n} /\ \A q \in Runs \ {r} : todo'[q] = todo[q]
  BY <1>1, <1>2 DEF TypeOK
<1>11. RunInv(r)'
  BY <1>1, <1>3, <1>8, <1>10 DEF RunInv, Working, IssuesStay
<1>12. \A q \in Runs \ {r} : RunInv(q)'
  BY <1>3, <1>8, <1>10, OthersStay DEF RequestInv
<1>13. SupersededByWider'
  <2>1. ASSUME NEW m \in DOMAIN issues', issues'[m].state = "superseded"
        PROVE  /\ issues'[m].by \in DOMAIN issues
               /\ issues[issues'[m].by].project = issues[m].project
               /\ issues[m].roles \subseteq issues[issues'[m].by].roles
    <3>1. CASE issues'[m] = issues[m]
      BY <1>8, <2>1, <3>1 DEF RequestInv, SupersededByWider, Superseded
    <3>2. CASE m = n /\ issues'[m] = closed
      BY <1>4, <1>6, <3>2
    <3> QED
      BY <1>1, <1>4, <1>7, <1>8, <2>1, <3>1, <3>2
  <2> QED
    BY <1>8, <2>1 DEF SupersededByWider, Superseded, IssuesStay
<1> QED
  BY <1>9, <1>11, <1>12, <1>13 DEF RequestInv

\* What a session and the merge of its pull request do to the issues.
Deciding(n) == Allow(n) \/ Disallow(n) \/ Merge(n) \/ Abandon(n)

LEMMA DecidedIssue ==
  ASSUME NEW n \in DOMAIN issues, Deciding(n)
  PROVE  /\ UNCHANGED <<pc, request, number, todo, overlapped, repeated>>
         /\ \/ UNCHANGED issues
            \/ /\ issues[n].state = "open"
               /\ \E state \in {"allowed", "disallowed"} :
                     issues' = [issues EXCEPT ![n].state = state]
BY DEF Deciding, Allow, Disallow, Merge, Abandon

LEMMA DecisionKeeps ==
  ASSUME RequestInv, NEW n \in DOMAIN issues, Deciding(n)
  PROVE  RequestInv'
<1>1. TypeOK /\ issues \in Seq(Issues) /\ issues[n] \in Issues
  <2>1. TypeOK /\ issues \in Seq(Issues)
    BY DEF RequestInv, TypeOK
  <2> QED
    BY <2>1
<1>2. UNCHANGED <<pc, request, number, todo, overlapped, repeated>>
  BY DecidedIssue
<1>3. pinned' \in [Projects -> [Roles -> Shas \cup {Stale}]]
  <2>1. CASE UNCHANGED pinned
    BY <1>1, <2>1 DEF TypeOK
  <2>2. CASE Merge(n)
    <3>1. issues[n].project \in Projects /\ issues[n].sha \in Shas
      BY <1>1 DEF Issues
    <3> QED
      BY <1>1, <2>2, <3>1 DEF Merge, TypeOK
  <2> QED
    BY <2>1, <2>2 DEF Deciding, Allow, Disallow, Abandon
<1>4. pulls' \subseteq DOMAIN issues
  BY <1>1 DEF Deciding, Allow, Disallow, Merge, Abandon, TypeOK
<1>5. CASE UNCHANGED issues
  <2>1. TypeOK' /\ IssuesStay
    BY <1>1, <1>2, <1>3, <1>4, <1>5 DEF TypeOK, IssuesStay
  <2>2. \A q \in Runs : RunInv(q)'
    BY <1>2, <2>1, OthersStay DEF RequestInv
  <2>3. SupersededByWider'
    BY <1>5 DEF RequestInv, SupersededByWider, Superseded
  <2> QED
    BY <2>1, <2>2, <2>3 DEF RequestInv
<1>6. ASSUME NEW state \in {"allowed", "disallowed"},
             issues' = [issues EXCEPT ![n].state = state]
      PROVE  RequestInv'
  <2> DEFINE decided == [issues[n] EXCEPT !.state = state]
  <2>1. /\ decided \in Issues /\ decided.state = state
        /\ decided.project = issues[n].project /\ decided.roles = issues[n].roles
    BY <1>1 DEF Issues
  <2>2. issues' = [issues EXCEPT ![n] = decided]
    BY <1>6
  <2> HIDE DEF decided
  <2>3. issues' \in Seq(Issues) /\ DOMAIN issues' = DOMAIN issues /\ IssuesStay
    BY <1>1, <2>1, <2>2, StateChange
  <2>4. TypeOK'
    BY <1>1, <1>2, <1>3, <1>4, <2>3 DEF TypeOK
  <2>5. \A q \in Runs : RunInv(q)'
    BY <1>2, <2>3, OthersStay DEF RequestInv
  <2>6. SupersededByWider'
    <3>1. ASSUME NEW m \in DOMAIN issues', issues'[m].state = "superseded"
          PROVE  m \in DOMAIN issues /\ issues'[m] = issues[m]
      BY <1>1, <2>1, <2>2, <2>3, <3>1
    <3> QED
      BY <2>3, <3>1 DEF RequestInv, SupersededByWider, Superseded, IssuesStay
  <2> QED
    BY <2>4, <2>5, <2>6 DEF RequestInv
<1> QED
  BY <1>5, <1>6, DecidedIssue

-----------------------------------------------------------------------------
(* The theorems.                                                            *)

LEMMA RequestInit == Init => RequestInv
<1> SUFFICES ASSUME Init PROVE RequestInv
  OBVIOUS
<1>1. TypeOK
  BY DEF Init, TypeOK
<1>2. \A r \in Runs : RunInv(r)
  BY DEF Init, RunInv, Working
<1>3. Superseded = {}
  BY DEF Init, Superseded
<1> QED
  BY <1>1, <1>2, <1>3 DEF RequestInv, SupersededByWider

LEMMA RequestStep == RequestInv /\ [Next]_vars => RequestInv'
<1> SUFFICES ASSUME RequestInv, [Next]_vars PROVE RequestInv'
  OBVIOUS
<1>1. CASE UNCHANGED vars
  BY <1>1 DEF vars, RequestInv, TypeOK, RunInv, Working, SupersededByWider, Superseded
<1> QED
  BY <1>1, DispatchKeeps, MoveKeeps, ListKeeps, OpenKeeps, CloseKeeps, DecisionKeeps
     DEF Next, Deciding

LEMMA RequestInvariant == Spec => []RequestInv
BY RequestInit, RequestStep, PTL DEF Spec

\* Every issue, request and plan keeps its type.
THEOREM RequestsTyped == Spec => []TypeOK
<1>1. RequestInv => TypeOK
  BY DEF RequestInv
<1> QED
  BY <1>1, RequestInvariant, PTL

\* However many receiver runs overlap and wherever they die, an issue is closed
\* only for one of its project that asks for all of its roles
\* (image-bump-request.py:176-197, 316-324).
THEOREM SupersededIsCovered == Spec => []SupersededByWider
<1>1. RequestInv => SupersededByWider
  BY DEF RequestInv
<1> QED
  BY <1>1, RequestInvariant, PTL

-----------------------------------------------------------------------------
(* Where superseding ends.                                                  *)

\* Two runs at work on one project make it overlapped.
OverlapIsNoted ==
  \A r, q \in Runs : r # q /\ Working(r) /\ Working(q) /\ request[r].project = request[q].project
                       => request[r].project \in overlapped

\* The issue a run closes others for stays out of what is closed, when the run
\* is alone on the project, and is the newest of them, when it was opened by it.
CloserInv(r) == pc[r] = "close" =>
  /\ request[r].project \notin overlapped => number[r] \notin Superseded \cup todo[r]
  /\ request[r].project \notin repeated => \A n \in todo[r] : n < number[r]

\* What a run alone on its project did not close yet, of what its request covers.
LeftInv(r) ==
  /\ pc[r] = "open" => number[r] = 0
  /\ pc[r] \in {"open", "close"} /\ request[r].project \notin overlapped =>
       \A n \in OpenIssues(request[r].project) \ {number[r]} :
         issues[n].roles \subseteq request[r].roles => n \in todo[r]

\* A closing comment names a newer issue, until a run of the project met a duplicate.
NamesNewer == \A n \in Superseded :
  issues[n].project \notin repeated => n < issues[n].by

ClosesItself(loop) == loop # {} /\ \A n \in loop : issues[n].by \in loop

\* Only issues of projects that runs overlapped on close themselves.
LoopsOverlap == \A loop \in SUBSET Superseded :
  ClosesItself(loop) => \A n \in loop : issues[n].project \in overlapped

EndsInv ==
  /\ OverlapIsNoted
  /\ \A r \in Runs : CloserInv(r) /\ LeftInv(r)
  /\ NamesNewer
  /\ LoopsOverlap

\* A set of numbers up to n has a largest one.
LEMMA Largest ==
  ASSUME NEW n \in Nat, NEW S \in SUBSET (1 .. n), S # {}
  PROVE  \E m \in S : \A k \in S : k <= m
<1> DEFINE T == {n - k : k \in S}
<1>1. \A k \in S : k \in Nat /\ n - k \in Nat
  OBVIOUS
<1>2. T \subseteq Nat /\ T # {}
  BY <1>1
<1>3. PICK x \in T : \A y \in T : ~(<<y, x>> \in OpToRel(<, Nat))
  <2> HIDE DEF T
  <2> QED
    BY <1>2, NatLessThanWellFounded, WFMin
<1>4. ASSUME NEW y \in T PROVE x <= y
  <2>1. <<y, x>> \in Nat \X Nat /\ x \in Nat /\ y \in Nat
    BY <1>2
  <2>2. <<y, x>> \in OpToRel(<, Nat) <=> (<<y, x>> \in Nat \X Nat /\ <<y, x>>[1] < <<y, x>>[2])
    BY DEF OpToRel
  <2>3. ~(y < x)
    BY <1>3, <2>1, <2>2
  <2> QED
    BY <2>1, <2>3
<1>5. PICK m \in S : x = n - m
  OBVIOUS
<1>6. ASSUME NEW k \in S PROVE k <= m
  <2>1. n - k \in T
    OBVIOUS
  <2>2. x <= n - k
    BY <1>4, <2>1
  <2> QED
    BY <1>1, <1>5, <2>2
<1> QED
  BY <1>6

\* A run the step leaves alone keeps its part, when no issue of its project
\* opens and its own is not superseded.
LEMMA EndsStay ==
  ASSUME RequestInv, NEW r \in Runs, CloserInv(r), LeftInv(r), IssuesStay,
         pc'[r] = pc[r], request'[r] = request[r], number'[r] = number[r], todo'[r] = todo[r],
         overlapped \subseteq overlapped', repeated \subseteq repeated',
         pc[r] = "close" /\ request[r].project \notin overlapped' =>
           (number[r] \in Superseded' => number[r] \in Superseded),
         pc[r] \in {"open", "close"} /\ request[r].project \notin overlapped' =>
           OpenIssues(request[r].project)' \subseteq OpenIssues(request[r].project)
  PROVE  CloserInv(r)' /\ LeftInv(r)'
<1>1. CloserInv(r)'
  BY DEF CloserInv
<1>2. LeftInv(r)'
  <2>1. (pc[r] = "open" => number[r] = 0)'
    BY DEF LeftInv
  <2>2. ASSUME pc[r] \in {"open", "close"}, request[r].project \notin overlapped',
               NEW n \in OpenIssues(request[r].project)' \ {number[r]},
               issues'[n].roles \subseteq request[r].roles
        PROVE  n \in todo[r]
    <3>1. n \in OpenIssues(request[r].project) \ {number[r]} /\ n \in DOMAIN issues
      BY <2>2 DEF OpenIssues
    <3>2. issues[n].roles = issues'[n].roles
      BY <3>1 DEF IssuesStay
    <3> QED
      BY <2>2, <3>1, <3>2 DEF LeftInv
  <2> QED
    BY <2>1, <2>2 DEF LeftInv, OpenIssues
<1> QED
  BY <1>1, <1>2

\* No issue is superseded by the step: what was said of the closed ones stays.
LEMMA ClosedStay ==
  ASSUME NamesNewer, LoopsOverlap, Superseded' = Superseded,
         \A n \in Superseded : issues'[n] = issues[n],
         overlapped \subseteq overlapped', repeated \subseteq repeated'
  PROVE  NamesNewer' /\ LoopsOverlap'
<1>1. NamesNewer'
  BY DEF NamesNewer
<1>2. ASSUME NEW loop \in SUBSET Superseded, loop # {}, \A n \in loop : issues'[n].by \in loop,
             NEW n \in loop
      PROVE  issues'[n].project \in overlapped'
  <2>1. ClosesItself(loop)
    BY <1>2 DEF ClosesItself
  <2> QED
    BY <1>2, <2>1 DEF LoopsOverlap
<1> QED
  BY <1>1, <1>2 DEF LoopsOverlap, ClosesItself

\* A step of run r, or of the decision session, that supersedes nothing.
LEMMA EndsFrame ==
  ASSUME RequestInv, EndsInv, IssuesStay, Superseded' = Superseded,
         \A n \in Superseded : issues'[n] = issues[n],
         overlapped \subseteq overlapped', repeated \subseteq repeated',
         OverlapIsNoted', \A q \in Runs : CloserInv(q)' /\ LeftInv(q)'
  PROVE  EndsInv'
BY ClosedStay DEF EndsInv

\* Runs that move on at the same request stay as alone as they were.
LEMMA OverlapStays ==
  ASSUME OverlapIsNoted, UNCHANGED request, overlapped \subseteq overlapped',
         \A q \in Runs : Working(q)' => Working(q)
  PROVE  OverlapIsNoted'
BY DEF OverlapIsNoted

LEMMA DispatchEnds ==
  ASSUME RequestInv, EndsInv, NEW r \in Runs, NEW payload \in Payloads, Dispatch(r, payload)
  PROVE  EndsInv'
<1>1. TypeOK /\ UNCHANGED <<pinned, pulls, issues, number, todo, repeated>> /\ pc[r] = "idle"
  BY DEF RequestInv, Dispatch
<1>2. IssuesStay /\ Superseded' = Superseded /\ \A p : OpenIssues(p)' = OpenIssues(p)
  BY <1>1 DEF IssuesStay, Superseded, OpenIssues
<1>3. overlapped \subseteq overlapped'
  BY DEF Dispatch
<1>4. /\ pc'[r] \in {"red", "resolve"}
      /\ \A q \in Runs \ {r} : pc'[q] = pc[q] /\ request'[q] = request[q]
  BY <1>1 DEF Dispatch, TypeOK
<1>5. ASSUME NEW q \in Runs PROVE CloserInv(q)' /\ LeftInv(q)'
  <2>1. CASE q = r
    BY <1>4, <2>1 DEF CloserInv, LeftInv
  <2>2. CASE q # r
    BY <1>1, <1>2, <1>3, <1>4, <2>2, EndsStay DEF EndsInv
  <2> QED
    BY <2>1, <2>2
<1>6. OverlapIsNoted'
  <2>1. ASSUME NEW q \in Runs \ {r}, Working(r)', Working(q)', request'[q].project = request'[r].project
        PROVE  request'[r].project \in overlapped'
    <3>1. ~Rejected(payload)
      BY <1>1, <2>1 DEF Dispatch, Working, TypeOK
    <3> DEFINE req == validate_request(payload)
               others == {k \in Runs : Working(k) /\ request[k].project = req.project}
    <3>2. /\ request' = [request EXCEPT ![r] = req]
          /\ overlapped' = IF others = {} THEN overlapped ELSE overlapped \cup {req.project}
      BY <3>1 DEF Dispatch
    <3> HIDE DEF req
    <3>3. request'[r] = req
      BY <1>1, <3>2 DEF TypeOK
    <3>4. q \in others
      BY <1>4, <2>1, <3>3 DEF Working
    <3> QED
      BY <3>2, <3>3, <3>4
  <2>2. ASSUME NEW q \in Runs \ {r}, NEW k \in Runs \ {r}, q # k, Working(q)', Working(k)',
               request'[q].project = request'[k].project
        PROVE  request'[q].project \in overlapped'
    BY <1>3, <1>4, <2>2 DEF EndsInv, OverlapIsNoted, Working
  <2> QED
    BY <2>1, <2>2 DEF OverlapIsNoted
<1> QED
  BY <1>1, <1>2, <1>3, <1>5, <1>6, EndsFrame

LEMMA MoveEnds ==
  ASSUME RequestInv, EndsInv, NEW r \in Runs, Resolve(r) \/ Finish(r) \/ Fail(r)
  PROVE  EndsInv'
<1>1. TypeOK
  BY DEF RequestInv
<1>2. PICK next \in {"list", "pinned", "done", "red"} :
        /\ pc' = [pc EXCEPT ![r] = next]
        /\ next = "list" => pc[r] = "resolve"
  BY DEF Resolve, Finish, Fail
<1>3. UNCHANGED <<pinned, pulls, issues, request, number, todo, overlapped, repeated>>
  BY DEF Resolve, Finish, Fail
<1>4. pc'[r] = next /\ \A q \in Runs \ {r} : pc'[q] = pc[q]
  BY <1>1, <1>2 DEF TypeOK
<1>5. IssuesStay /\ Superseded' = Superseded /\ \A p : OpenIssues(p)' = OpenIssues(p)
  BY <1>3 DEF IssuesStay, Superseded, OpenIssues
<1>6. ASSUME NEW q \in Runs PROVE CloserInv(q)' /\ LeftInv(q)'
  <2>1. CASE q = r
    BY <1>4, <2>1 DEF CloserInv, LeftInv
  <2>2. CASE q # r
    BY <1>3, <1>4, <1>5, <2>2, EndsStay DEF EndsInv
  <2> QED
    BY <2>1, <2>2
<1>7. \A q \in Runs : Working(q)' => Working(q)
  BY <1>2, <1>4 DEF Working
<1>8. OverlapIsNoted'
  BY <1>3, <1>7, OverlapStays DEF EndsInv
<1> QED
  BY <1>3, <1>5, <1>6, <1>8, EndsFrame

LEMMA ListEnds ==
  ASSUME RequestInv, EndsInv, NEW r \in Runs, List(r)
  PROVE  EndsInv'
<1> DEFINE listed == OpenIssues(request[r].project)
<1>1. TypeOK /\ pc[r] = "list" /\ UNCHANGED <<pinned, pulls, issues, request, overlapped>>
  BY DEF RequestInv, List
<1>2. PICK duplicate \in Duplicates(request[r], listed) :
        /\ number' = [number EXCEPT ![r] = duplicate]
        /\ todo' = [todo EXCEPT ![r] = Supersede(request[r], listed, duplicate)]
        /\ pc' = [pc EXCEPT ![r] = IF duplicate = 0 THEN "open" ELSE "close"]
        /\ repeated' = IF duplicate = 0 THEN repeated
                       ELSE repeated \cup {request[r].project}
  BY DEF List
<1>3. /\ pc'[r] = IF duplicate = 0 THEN "open" ELSE "close"
      /\ number'[r] = duplicate
      /\ todo'[r] = Supersede(request[r], listed, duplicate)
      /\ \A q \in Runs \ {r} : pc'[q] = pc[q] /\ number'[q] = number[q] /\ todo'[q] = todo[q]
  BY <1>1, <1>2 DEF TypeOK
<1>4. duplicate # 0 => duplicate \in listed
  BY DEF Duplicates, Same
<1>5. IssuesStay /\ Superseded' = Superseded /\ \A p : OpenIssues(p)' = OpenIssues(p)
  BY <1>1 DEF IssuesStay, Superseded, OpenIssues
<1>6. repeated \subseteq repeated'
  BY <1>2
<1>7. CloserInv(r)'
  <2>1. CASE duplicate = 0
    BY <1>3, <2>1 DEF CloserInv
  <2>2. CASE duplicate # 0
    <3>1. duplicate \notin Superseded /\ request[r].project \in repeated'
      BY <1>2, <1>4, <2>2 DEF Superseded, OpenIssues
    <3>2. duplicate \notin todo'[r]
      BY <1>3 DEF Supersede
    <3> QED
      BY <1>1, <1>3, <1>5, <3>1, <3>2 DEF CloserInv
  <2> QED
    BY <2>1, <2>2
<1>8. LeftInv(r)'
  <2>1. \A n \in listed \ {duplicate} : issues[n].roles \subseteq request[r].roles => n \in todo'[r]
    BY <1>3 DEF Supersede
  <2>2. OpenIssues(request[r].project)' = listed
    BY <1>1 DEF OpenIssues
  <2> HIDE DEF listed
  <2> QED
    BY <1>1, <1>3, <2>1, <2>2 DEF LeftInv
<1>9. ASSUME NEW q \in Runs PROVE CloserInv(q)' /\ LeftInv(q)'
  <2>1. CASE q # r
    BY <1>1, <1>3, <1>5, <1>6, <2>1, EndsStay DEF EndsInv
  <2> QED
    BY <1>7, <1>8, <2>1
<1>10. OverlapIsNoted'
  <2>1. \A q \in Runs : Working(q)' => Working(q)
    BY <1>1, <1>3 DEF Working
  <2> QED
    BY <1>1, <2>1, OverlapStays DEF EndsInv
<1> QED
  BY <1>1, <1>5, <1>6, <1>9, <1>10, EndsFrame

LEMMA OpenEnds ==
  ASSUME RequestInv, EndsInv, NEW r \in Runs, Open(r)
  PROVE  EndsInv'
<1> DEFINE issue == [project |-> request[r].project, sha |-> request[r].sha,
                     roles |-> request[r].roles, state |-> "open", by |-> 0]
<1>1. /\ TypeOK /\ RunInv(r) /\ pc[r] = "open" /\ issues \in Seq(Issues)
      /\ UNCHANGED <<pinned, pulls, request, todo, overlapped, repeated>>
  BY DEF RequestInv, Open, TypeOK
<1>2. request[r] \in Requests
  BY <1>1 DEF RunInv, Working
<1>3. issue \in Issues
  BY <1>2 DEF Issues, Requests
<1>4. issues' = Append(issues, issue)
  BY DEF Open
<1>5. issue.project = request[r].project /\ issue.roles = request[r].roles /\ issue.state = "open"
  OBVIOUS
<1> HIDE DEF issue
<1>6. /\ Len(issues) \in Nat
      /\ DOMAIN issues = 1 .. Len(issues)
      /\ DOMAIN issues' = 1 .. (Len(issues) + 1)
      /\ \A n \in DOMAIN issues : issues'[n] = issues[n]
      /\ issues'[Len(issues) + 1] = issue
  BY <1>1, <1>3, <1>4
<1>7. IssuesStay
  BY <1>6 DEF IssuesStay
<1>8. Superseded' = Superseded /\ \A n \in Superseded : issues'[n] = issues[n]
  BY <1>5, <1>6 DEF Superseded
<1>9. \/ /\ number' = [number EXCEPT ![r] = Len(issues) + 1]
         /\ pc' = [pc EXCEPT ![r] = "close"]
      \/ pc' = [pc EXCEPT ![r] = "red"] /\ UNCHANGED number
  BY DEF Open
<1>10. /\ \/ pc'[r] = "close" /\ number'[r] = Len(issues) + 1
          \/ pc'[r] = "red"
       /\ \A q \in Runs \ {r} : pc'[q] = pc[q] /\ number'[q] = number[q]
  BY <1>1, <1>9 DEF TypeOK
<1>11. \A n \in todo[r] : n \in DOMAIN issues
  BY <1>1 DEF RunInv
<1>12. CloserInv(r)'
  <2>1. Len(issues) + 1 \notin Superseded \cup todo[r] /\ \A n \in todo[r] : n < Len(issues) + 1
    BY <1>6, <1>11 DEF Superseded
  <2> QED
    BY <1>1, <1>8, <1>10, <2>1 DEF CloserInv
<1>13. LeftInv(r)'
  <2>1. ASSUME pc'[r] = "close", number'[r] = Len(issues) + 1, request[r].project \notin overlapped,
               NEW n \in OpenIssues(request[r].project)' \ {Len(issues) + 1},
               issues'[n].roles \subseteq request[r].roles
        PROVE  n \in todo[r]
    <3>1. n \in DOMAIN issues /\ n # 0 /\ issues'[n] = issues[n]
      <4>1. n \in DOMAIN issues' /\ n # Len(issues) + 1
        BY <2>1 DEF OpenIssues
      <4> QED
        BY <1>6, <4>1
    <3>2. n \in OpenIssues(request[r].project)
      BY <1>1, <2>1, <3>1 DEF OpenIssues
    <3>3. number[r] = 0
      BY <1>1 DEF EndsInv, LeftInv
    <3> QED
      BY <1>1, <2>1, <3>1, <3>2, <3>3 DEF EndsInv, LeftInv
  <2> QED
    BY <1>1, <1>10, <2>1 DEF LeftInv, OpenIssues
<1>14. ASSUME NEW q \in Runs \ {r} PROVE CloserInv(q)' /\ LeftInv(q)'
  <2>1. ASSUME pc[q] \in {"open", "close"}, request[q].project \notin overlapped'
        PROVE  OpenIssues(request[q].project)' \subseteq OpenIssues(request[q].project)
    <3>1. request[q].project # request[r].project
      BY <1>1, <2>1 DEF EndsInv, OverlapIsNoted, Working
    <3> QED
      BY <1>1, <1>5, <1>6, <3>1 DEF OpenIssues
  <2> QED
    BY <1>1, <1>7, <1>8, <1>10, <2>1, EndsStay DEF EndsInv
<1>15. OverlapIsNoted'
  <2>1. \A q \in Runs : Working(q)' => Working(q)
    BY <1>1, <1>10 DEF Working
  <2> QED
    BY <1>1, <2>1, OverlapStays DEF EndsInv
<1>16. \A q \in Runs : CloserInv(q)' /\ LeftInv(q)'
  BY <1>12, <1>13, <1>14
<1> QED
  BY <1>1, <1>7, <1>8, <1>15, <1>16, EndsFrame

LEMMA CloseEnds ==
  ASSUME RequestInv, RequestInv', EndsInv, NEW r \in Runs, Close(r)
  PROVE  EndsInv'
<1>1. TypeOK /\ RunInv(r) /\ pc[r] = "close" /\ issues \in Seq(Issues)
      /\ CloserInv(r) /\ LeftInv(r) /\ NamesNewer /\ LoopsOverlap /\ OverlapIsNoted
  BY DEF RequestInv, Close, TypeOK, EndsInv
<1>2. PICK m \in todo[r] :
        /\ issues' = IF issues[m].state = "open"
                       THEN [issues EXCEPT ![m].state = "superseded", ![m].by = number[r]]
                       ELSE issues
        /\ todo' = [todo EXCEPT ![r] = @ \ {m}]
  BY DEF Close
<1>3. UNCHANGED <<pinned, pulls, pc, request, number, overlapped, repeated>>
  BY DEF Close
<1>4. /\ m \in DOMAIN issues /\ issues[m].project = request[r].project
      /\ request[r] \in Requests
  BY <1>1 DEF RunInv, Working
<1> DEFINE closed == [issues[m] EXCEPT !.state = "superseded", !.by = number[r]]
<1>5. issues[m] \in Issues
  BY <1>1, <1>4
<1>6. /\ closed.state = "superseded" /\ closed.by = number[r]
      /\ closed.project = issues[m].project /\ closed.roles = issues[m].roles
  BY <1>5 DEF Issues
<1>7. issues' = IF issues[m].state = "open" THEN [issues EXCEPT ![m] = closed] ELSE issues
  BY <1>2
<1> HIDE DEF closed
<1>8. /\ DOMAIN issues' = DOMAIN issues
      /\ \A n \in DOMAIN issues \ {m} : issues'[n] = issues[n]
      /\ issues'[m] = IF issues[m].state = "open" THEN closed ELSE issues[m]
  BY <1>1, <1>4, <1>7
<1>9. IssuesStay
  BY <1>4, <1>6, <1>8 DEF IssuesStay
<1>10. /\ \A n \in Superseded' : n = m \/ n \in Superseded
       /\ \A n \in Superseded : n \in Superseded' /\ issues'[n] = issues[n]
       /\ \A n \in Superseded' : n \in Superseded \/ (n = m /\ issues'[m] = closed)
  BY <1>4, <1>8 DEF Superseded
<1>11. \A p : OpenIssues(p)' \subseteq OpenIssues(p) \ {m}
  BY <1>4, <1>6, <1>8 DEF OpenIssues
<1>12. todo'[r] = todo[r] \ {m} /\ \A q \in Runs \ {r} : todo'[q] = todo[q]
  BY <1>1, <1>2 DEF TypeOK
<1>13. CloserInv(r)'
  BY <1>1, <1>3, <1>10, <1>12 DEF CloserInv
<1>14. LeftInv(r)'
  <2>1. ASSUME request[r].project \notin overlapped,
               NEW n \in OpenIssues(request[r].project)' \ {number[r]},
               issues'[n].roles \subseteq request[r].roles
        PROVE  n \in todo'[r]
    <3>1. n \in OpenIssues(request[r].project) \ {m}
      BY <1>3, <1>11, <2>1
    <3>2. issues'[n] = issues[n]
      BY <1>8, <3>1 DEF OpenIssues
    <3> QED
      BY <1>1, <1>12, <2>1, <3>1, <3>2 DEF LeftInv
  <2> QED
    BY <1>1, <1>3, <2>1 DEF LeftInv, OpenIssues
<1>15. ASSUME NEW q \in Runs \ {r} PROVE CloserInv(q)' /\ LeftInv(q)'
  <2>1. ASSUME pc[q] = "close", request[q].project \notin overlapped'
        PROVE  number[q] \in Superseded' => number[q] \in Superseded
    <3>1. request[q].project # request[r].project
      BY <1>1, <1>3, <2>1 DEF OverlapIsNoted, Working
    <3>2. issues[number[q]].project = request[q].project
      BY <2>1 DEF RequestInv, RunInv
    <3> QED
      BY <1>4, <1>10, <3>1, <3>2
  <2>2. CloserInv(q) /\ LeftInv(q)
    BY DEF EndsInv
  <2>3. OpenIssues(request[q].project)' \subseteq OpenIssues(request[q].project)
    BY <1>3, <1>11
  <2> QED
    BY <1>3, <1>9, <1>12, <2>1, <2>2, <2>3, EndsStay
<1>16. OverlapIsNoted'
  BY <1>1, <1>3, OverlapStays DEF Working
<1>17. NamesNewer'
  <2>1. ASSUME NEW n \in Superseded', issues'[n].project \notin repeated PROVE n < issues'[n].by
    <3>1. CASE n \in Superseded
      BY <1>1, <1>10, <2>1, <3>1 DEF NamesNewer
    <3>2. CASE n = m /\ issues'[m] = closed
      BY <1>1, <1>4, <1>6, <2>1, <3>2 DEF CloserInv
    <3> QED
      BY <1>10, <3>1, <3>2
  <2> QED
    BY <1>3, <2>1 DEF NamesNewer
<1>18. LoopsOverlap'
  <2>1. ASSUME NEW loop \in SUBSET Superseded', \A n \in loop : issues'[n].by \in loop,
               NEW i \in loop, issues'[i].project \notin overlapped
        PROVE  FALSE
    <3> DEFINE p == issues'[i].project
               L == {n \in loop : issues'[n].project = p}
    <3>1. \A n \in L : n \in Superseded' /\ issues'[n].by \in L
      <4>1. ASSUME NEW n \in L PROVE issues'[issues'[n].by].project = issues'[n].project
        BY <2>1 DEF RequestInv, SupersededByWider
      <4> QED
        BY <2>1, <4>1
    <3>2. i \in L
      OBVIOUS
    <3> HIDE DEF L, p
    <3>3. ASSUME m \in L, issues'[m] = closed PROVE m \in Superseded
      <4>1. issues'[m].project = p /\ p \notin overlapped
        BY <2>1, <3>3 DEF L, p
      <4>2. request[r].project \notin overlapped
        BY <1>4, <1>6, <3>3, <4>1
      <4>3. number[r] \in Superseded'
        BY <1>6, <3>1, <3>3
      <4>4. number[r] \notin Superseded /\ number[r] # m
        BY <1>1, <4>2 DEF CloserInv
      <4> QED
        BY <1>10, <4>3, <4>4
    <3>4. L \subseteq Superseded
      BY <1>10, <3>1, <3>3
    <3>5. ClosesItself(L)
      BY <1>10, <3>1, <3>2, <3>4 DEF ClosesItself
    <3>6. issues[i].project \in overlapped
      BY <1>1, <3>2, <3>4, <3>5 DEF LoopsOverlap
    <3> QED
      BY <1>10, <2>1, <3>2, <3>4, <3>6
  <2> QED
    BY <1>3, <2>1 DEF LoopsOverlap, ClosesItself
<1> QED
  BY <1>13, <1>14, <1>15, <1>16, <1>17, <1>18 DEF EndsInv

\* A step that leaves the runs and the issues alone.
LEMMA StillEnds ==
  ASSUME RequestInv, EndsInv,
         UNCHANGED <<issues, pc, request, number, todo, overlapped, repeated>>
  PROVE  EndsInv'
<1>1. UNCHANGED <<issues, pc, request, number, todo, overlapped, repeated>>
  OBVIOUS
<1>2. IssuesStay /\ Superseded' = Superseded /\ \A p : OpenIssues(p)' = OpenIssues(p)
  BY <1>1 DEF IssuesStay, Superseded, OpenIssues
<1>3. ASSUME NEW q \in Runs PROVE CloserInv(q)' /\ LeftInv(q)'
  <2>1. CloserInv(q) /\ LeftInv(q)
    BY DEF EndsInv
  <2> QED
    BY <1>1, <1>2, <2>1, EndsStay
<1>4. OverlapIsNoted'
  BY <1>1, OverlapStays DEF EndsInv, Working
<1>5. \A n \in Superseded : issues'[n] = issues[n]
  BY <1>1
<1> QED
  BY <1>1, <1>2, <1>3, <1>4, <1>5, EndsFrame

LEMMA DecisionEnds ==
  ASSUME RequestInv, EndsInv, NEW n \in DOMAIN issues, Deciding(n)
  PROVE  EndsInv'
<1>1. issues \in Seq(Issues) /\ issues[n] \in Issues
  <2>1. issues \in Seq(Issues)
    BY DEF RequestInv, TypeOK
  <2> QED
    BY <2>1
<1>2. UNCHANGED <<pc, request, number, todo, overlapped, repeated>>
  BY DecidedIssue
<1>3. CASE UNCHANGED issues
  BY <1>2, <1>3, StillEnds
<1>4. ASSUME issues[n].state = "open", NEW state \in {"allowed", "disallowed"},
             issues' = [issues EXCEPT ![n].state = state]
      PROVE  EndsInv'
  <2> DEFINE decided == [issues[n] EXCEPT !.state = state]
  <2>1. /\ decided.state = state
        /\ decided.project = issues[n].project /\ decided.roles = issues[n].roles
    BY <1>1 DEF Issues
  <2>2. issues' = [issues EXCEPT ![n] = decided]
    BY <1>4
  <2> HIDE DEF decided
  <2>3. /\ DOMAIN issues' = DOMAIN issues /\ issues'[n] = decided
        /\ \A k \in DOMAIN issues \ {n} : issues'[k] = issues[k]
    BY <1>1, <2>2
  <2>4. IssuesStay
    BY <2>1, <2>3 DEF IssuesStay
  <2>5. Superseded' = Superseded /\ \A k \in Superseded : issues'[k] = issues[k]
    BY <1>4, <2>1, <2>3 DEF Superseded
  <2>6. \A p : OpenIssues(p)' \subseteq OpenIssues(p)
    BY <1>4, <2>1, <2>3 DEF OpenIssues
  <2>7. ASSUME NEW q \in Runs PROVE CloserInv(q)' /\ LeftInv(q)'
    <3>1. OpenIssues(request[q].project)' \subseteq OpenIssues(request[q].project)
      BY <1>2, <2>6
    <3> QED
      BY <1>2, <2>4, <2>5, <3>1, EndsStay DEF EndsInv
  <2>8. OverlapIsNoted'
    BY <1>2, OverlapStays DEF EndsInv, Working
  <2> QED
    BY <1>2, <2>4, <2>5, <2>7, <2>8, EndsFrame
<1> QED
  BY <1>3, <1>4, DecidedIssue

LEMMA EndsInit == Init => EndsInv
BY DEF Init, EndsInv, OverlapIsNoted, CloserInv, LeftInv, NamesNewer, LoopsOverlap, ClosesItself,
   Superseded, Working

LEMMA EndsStep == RequestInv /\ RequestInv' /\ EndsInv /\ [Next]_vars => EndsInv'
<1> SUFFICES ASSUME RequestInv, RequestInv', EndsInv, [Next]_vars PROVE EndsInv'
  OBVIOUS
<1>1. CASE UNCHANGED vars
  BY <1>1, StillEnds DEF vars
<1> QED
  BY <1>1, DispatchEnds, MoveEnds, ListEnds, OpenEnds, CloseEnds, DecisionEnds DEF Next, Deciding

LEMMA EndsInvariant == Spec => []EndsInv
BY EndsInit, EndsStep, RequestInvariant, PTL DEF Spec

\* Following the closing comments ends at a request that is open or was decided,
\* unless runs overlapped on the project and one of them met a duplicate: alone,
\* a run closes for an issue nobody closes, and without a duplicate every comment
\* names a newer issue (image-bump-request.py:176-197).
THEOREM SupersedingHasAnEnd == Spec => []SupersedingEnds
<1>1. RequestInv /\ EndsInv => SupersedingEnds
  <2> SUFFICES ASSUME RequestInv, EndsInv, NEW loop \in SUBSET Superseded,
                      \A n \in loop : issues[n].by \in loop, NEW i \in loop
               PROVE  issues[i].project \in overlapped \cap repeated
    BY DEF SupersedingEnds
  <2>1. issues[i].project \in overlapped
    BY DEF EndsInv, LoopsOverlap, ClosesItself
  <2>2. issues[i].project \in repeated
    <3> SUFFICES ASSUME issues[i].project \notin repeated PROVE FALSE
      OBVIOUS
    <3> DEFINE L == {n \in loop : issues[n].project = issues[i].project}
    <3>1. issues \in Seq(Issues)
      BY DEF RequestInv, TypeOK
    <3>2. Len(issues) \in Nat /\ L \in SUBSET (1 .. Len(issues)) /\ L # {}
      BY <3>1 DEF Superseded
    <3>3. \A n \in L : issues[n].by \in L /\ n < issues[n].by
      <4>1. ASSUME NEW n \in L PROVE issues[n].by \in L /\ n < issues[n].by
        <5>1. /\ n \in Superseded /\ issues[n].project = issues[i].project
              /\ issues[n].by \in loop
          OBVIOUS
        <5>2. issues[issues[n].by].project = issues[n].project
          BY <5>1 DEF RequestInv, SupersededByWider
        <5>3. n < issues[n].by
          BY <5>1 DEF EndsInv, NamesNewer
        <5> QED
          BY <5>1, <5>2, <5>3
      <4> QED
        BY <4>1
    <3> HIDE DEF L
    <3>4. PICK n \in L : \A k \in L : k <= n
      BY <3>2, Largest
    <3>5. issues[n].by \in 1 .. Len(issues) /\ n \in 1 .. Len(issues)
      BY <3>2, <3>3
    <3> QED
      BY <3>3, <3>4, <3>5
  <2> QED
    BY <2>1, <2>2
<1> QED
  BY <1>1, RequestInvariant, EndsInvariant, PTL

\* A run that ends well, alone on its project, leaves no other open request that
\* it covers (image-bump-request.py:356-358).
THEOREM OneRequestIsLeft == Spec => LeavesOneRequest
<1>1. ASSUME RequestInv, EndsInv, [Next]_vars, NEW r \in Runs,
             pc[r] # "done", pc'[r] = "done", request[r].project \notin overlapped,
             NEW n \in OpenIssues(request[r].project) \ {number[r]}
      PROVE  ~(issues[n].roles \subseteq request[r].roles)
  <2>1. Finish(r)
    <3>1. pc \in [Runs -> {"idle", "resolve", "list", "open", "close", "done", "pinned", "red"}]
      BY <1>1 DEF RequestInv, TypeOK
    <3>2. ASSUME NEW q \in Runs, NEW payload \in Payloads, Dispatch(q, payload) PROVE FALSE
      BY <1>1, <3>1, <3>2 DEF Dispatch
    <3>3. ASSUME NEW q \in Runs, Resolve(q) \/ List(q) \/ Open(q) \/ Close(q) \/ Fail(q) PROVE FALSE
      BY <1>1, <3>1, <3>3 DEF Resolve, List, Open, Close, Fail
    <3>4. ASSUME NEW q \in Runs, Finish(q) PROVE q = r
      BY <1>1, <3>1, <3>4 DEF Finish
    <3>5. ASSUME NEW k \in DOMAIN issues, Deciding(k) PROVE FALSE
      BY <1>1, <3>5, DecidedIssue
    <3> QED
      BY <1>1, <3>2, <3>3, <3>4, <3>5 DEF Next, vars, Deciding
  <2>2. pc[r] = "close" /\ todo[r] = {}
    BY <2>1 DEF Finish
  <2> QED
    BY <1>1, <2>2 DEF EndsInv, LeftInv
<1>2. RequestInv /\ EndsInv /\ [Next]_vars =>
        [\A r \in Runs :
          (pc[r] # "done" /\ pc'[r] = "done" /\ request[r].project \notin overlapped)
            => \A n \in OpenIssues(request[r].project) \ {number[r]} :
                 ~(issues[n].roles \subseteq request[r].roles)]_vars
  BY <1>1
<1> QED
  BY <1>2, RequestInvariant, EndsInvariant, PTL DEF Spec, LeavesOneRequest

=============================================================================
