------------------------------ MODULE ImagePin ------------------------------
(***************************************************************************)
(* scripts/image-pin.py: the decisions of the image pin flow. A validate   *)
(* job checks a request, stops when a live request already covers it and   *)
(* leaves a marker about itself; the pin job, after the operator's         *)
(* approval, stops when a newer live request covers it, applies the        *)
(* approved digests and lets only a clean diff become a pull request.      *)
(*                                                                         *)
(* The workflow that calls the script is not in the repository: its steps  *)
(* and their order are taken from                                          *)
(* docs/superpowers/specs/2026-10-31-image-pin-approval-design.md.         *)
(*                                                                         *)
(* A commit stands for the digests of its images. Time is the number of    *)
(* runs requested so far: it tells apart exactly what is compared, when a  *)
(* marker was written and when another run was requested.                  *)
(***************************************************************************)
EXTENDS Integers

CONSTANTS Runs,     \* runs of image-pin.yaml
          Projects, \* the projects of config/image-pin-sources.json
          Roles,    \* every role name a request may carry
          Allowed,  \* the allowlist: project -> its roles
          FileOf,   \* container -> the workload file that holds its image line
          Badged,   \* containers whose node of the handbook's diagram has a badge
          Shas,     \* full commit shas
          Stale,    \* the commit every container is pinned to at the start
          MaxEdits  \* bound on the commits made by hand

ASSUME AllowedAssumption == Allowed \in [Projects -> SUBSET Roles]
ASSUME StaleAssumption == Stale \notin Shas
ASSUME EditsAssumption == MaxEdits \in Nat

VARIABLES main,  \* the default branch: image lines and handbook rows
          prs,   \* branch chore/images-<project>-<sha> -> its pull request
          run,   \* every run
          clock, \* runs requested so far
          edits  \* commits made by hand so far

vars == <<main, prs, run, clock, edits>>

Containers == {c \in Projects \X Roles : c[2] \in Allowed[c[1]]}

ASSUME BadgedAssumption == Badged \subseteq Containers

\* A "Pinned @" token: the commit its first eight digits are of, and whether
\* they are all the digits it has.
Badges == [shows : Shas \cup {Stale}, exact : BOOLEAN]

\* The image line of each container, its row in the handbook's pin table and
\* the badge of its node.
Trees == [image : [Containers -> Shas \cup {Stale}],
          row : [Containers -> Shas \cup {Stale}],
          badge : [Badged -> Badges]]

NoTree == [image |-> <<>>]

NoRequest == [project |-> "none"]
Requests == {request \in [project : Projects, sha : Shas, roles : SUBSET Roles] :
                request.roles \subseteq Allowed[request.project]}

\* What a run tells other runs; its status is looked up when it is read.
NoMarker == [conclusion |-> "none"]
Markers == [conclusion : {"success", "failure"}, created_at : Nat]

Validating == {"requested", "new", "resolved", "posted", "ending"}
Pinning == {"approved", "current", "applied"}
Outcomes == {"refused", "duplicate", "noop", "failed", "rejected", "expired",
             "replaced", "pr_exists", "already_pinned", "pr_open"}

\* outcome is what an ending validate job, or a completed run, came to.
RunRecords == [phase : {"idle", "waiting", "completed"} \cup Validating \cup Pinning,
               outcome : Outcomes \cup {"none"},
               request : Requests \cup {NoRequest},
               requested_at : Nat,
               marker : Markers \cup {NoMarker},
               asked : BOOLEAN,
               base : Trees \cup {NoTree}]

---------------------------------------------------------------------------
(* The request.                                                            *)

Payloads == [project : Projects \cup {"unknown"}, sha : Shas \cup {"short"},
             roles : SUBSET Roles, run_url : {"", "own run", "other"}]

Rejected(payload) ==
    \/ payload.project \notin Projects
    \/ payload.sha \notin Shas
    \/ ~(payload.roles \subseteq Allowed[payload.project])
    \/ payload.run_url = "other"

\* No roles means every role of the project.
validate_request(payload) ==
    [project |-> payload.project,
     sha |-> payload.sha,
     roles |-> IF payload.roles = {} THEN Allowed[payload.project]
                                     ELSE payload.roles]

---------------------------------------------------------------------------
(* The markers other runs left.                                            *)

\* The run's status in the runs API.
status(q) == CASE run[q].phase \in Validating -> "queued"
               [] run[q].phase = "waiting" -> "waiting"
               [] run[q].phase \in Pinning -> "in_progress"
               [] OTHER -> "completed"

\* Mutation: only a run that is not approved yet counts.
LiveBeforeApproval == {"queued", "waiting"}

LIVE_STATES == {"queued", "waiting", "in_progress"}

\* Mutation: any marker of a live run decides.
usable_failed(q) == run[q].marker # NoMarker /\ status(q) \in LIVE_STATES

\* Markers that may decide anything for another run.
_usable(q) == run[q].marker.conclusion = "success" /\ status(q) \in LIVE_STATES

Covers(q, request) == /\ run[q].request.project = request.project
                      /\ request.roles \subseteq run[q].request.roles

is_duplicate(r) ==
    \E q \in Runs \ {r} : /\ _usable(q)
                          /\ run[q].request.sha = run[r].request.sha
                          /\ Covers(q, run[r].request)

\* A clock value is the moment right after that many runs were requested.
is_replaced(r) ==
    \E q \in Runs \ {r} : /\ _usable(q)
                          /\ Covers(q, run[r].request)
                          /\ run[q].marker.created_at >= run[r].requested_at

---------------------------------------------------------------------------
(* The diff of the helper's writes.                                        *)

Requested(request) == {<<request.project, role>> : role \in request.roles}

Branch(request) == <<request.project, request.sha>>

\* Mutation: every requested role is expected in the diff.
WrittenAll(old, request) == Requested(request)

\* The roles the helper reports as written: those whose image changed.
Written(old, request) == {c \in Requested(request) : old.image[c] # request.sha}

\* The helper, given the approved digests: it writes the roles that change,
\* rebuilds the whole pin table from the image lines and puts the new digits
\* over the first eight of the written roles' badges.
Applied(tree, request) ==
    LET image == [c \in Containers |-> IF c \in Requested(request) THEN request.sha
                                                                   ELSE tree.image[c]]
    IN  [image |-> image,
         row |-> image,
         badge |-> [c \in Badged |-> IF c \in Written(tree, request)
                                        THEN [tree.badge[c] EXCEPT !.shows = request.sha]
                                        ELSE tree.badge[c]]]

MovedImages(old, new) == {c \in Containers : old.image[c] # new.image[c]}
MovedRows(old, new) == {c \in Containers : old.row[c] # new.row[c]}
MovedBadges(old, new) == {c \in Badged : old.badge[c] # new.badge[c]}

Files(moved) == {FileOf[c] : c \in moved}

\* Each workload file: this project's, one image line replaced, and pinned to an
\* approved image.
CheckYaml(old, new, request) ==
    \A c \in MovedImages(old, new) :
        /\ c[1] = request.project
        /\ \A d \in MovedImages(old, new) \ {c} : FileOf[d] # FileOf[c]
        /\ c \in Requested(request)
        /\ new.image[c] = request.sha

\* Mutation: what changed in the handbook is not looked at.
CheckHandbookAny(old, new, request) == TRUE

\* Each row: moved to an approved digest of its own repository. Each badge: a
\* token of eight digits, those of an approved digest. What either showed
\* before is not compared.
CheckHandbook(old, new, request) ==
    /\ \A c \in MovedRows(old, new) : c \in Requested(request) /\ new.row[c] = request.sha
    /\ \A c \in MovedBadges(old, new) :
          new.badge[c].exact /\ new.badge[c].shows = request.sha

diff_check(old, new, request) ==
    /\ Files(MovedImages(old, new)) = Files(Written(old, request))
    /\ MovedImages(old, new) \cup MovedRows(old, new) \cup MovedBadges(old, new) # {}
    /\ CheckYaml(old, new, request)
    /\ CheckHandbook(old, new, request)

---------------------------------------------------------------------------
NoPr == [state |-> "none"]
ClosedPr == [state |-> "closed"]
OpenPrs == [state : {"open"}, roles : SUBSET Roles, base : Trees, head : Trees]

Idle == [phase |-> "idle", outcome |-> "none", request |-> NoRequest,
         requested_at |-> 0, marker |-> NoMarker, asked |-> FALSE, base |-> NoTree]

Init ==
    /\ main = [image |-> [c \in Containers |-> Stale],
               row |-> [c \in Containers |-> Stale],
               badge |-> [c \in Badged |-> [shows |-> Stale, exact |-> TRUE]]]
    /\ prs = [b \in Projects \X Shas |-> NoPr]
    /\ run = [r \in Runs |-> Idle]
    /\ clock = 0
    /\ edits = 0

Becomes(r, record) == run' = [run EXCEPT ![r] = record]
Step(r, phase) == Becomes(r, [run[r] EXCEPT !.phase = phase])
End(r, outcome) ==
    Becomes(r, [run[r] EXCEPT !.phase = "completed",
                              !.outcome = outcome,
                              !.base = NoTree])

Marker(conclusion) == [conclusion |-> conclusion, created_at |-> clock]

(* VALIDATE, step 1: a refused request never gets a marker. *)
CheckRequest(r, payload) ==
    /\ run[r].phase = "idle"
    /\ clock' = clock + 1
    /\ IF Rejected(payload)
         THEN End(r, "refused")
         ELSE Becomes(r, [run[r] EXCEPT !.phase = "requested",
                                        !.request = validate_request(payload),
                                        !.requested_at = clock + 1])
    /\ UNCHANGED <<main, prs, edits>>

(* VALIDATE, step 2: a duplicate leaves its marker and stops quietly. *)
Dedupe(r) ==
    /\ run[r].phase = "requested"
    /\ IF is_duplicate(r) \/ prs[Branch(run[r].request)].state = "open"
         THEN Becomes(r, [run[r] EXCEPT !.phase = "ending",
                                        !.outcome = "duplicate",
                                        !.marker = Marker("success")])
         ELSE Step(r, "new")
    /\ UNCHANGED <<main, prs, clock, edits>>

(* VALIDATE, steps 3 and 4: dry run on the main of this moment. A failed one
   leaves a marker that says so. *)
DryRun(r) ==
    /\ run[r].phase = "new"
    /\ \/ IF Written(main, run[r].request) = {} THEN End(r, "noop") ELSE Step(r, "resolved")
       \/ Becomes(r, [run[r] EXCEPT !.phase = "ending",
                                    !.outcome = "failed",
                                    !.marker = Marker("failure")])
    /\ UNCHANGED <<main, prs, clock, edits>>

(* VALIDATE, step 6: post the request; Discord being down is a warning. *)
Post(r) ==
    /\ run[r].phase = "resolved"
    /\ Becomes(r, [run[r] EXCEPT !.phase = "posted", !.asked = TRUE])
    /\ UNCHANGED <<main, prs, clock, edits>>

(* VALIDATE, last step: the marker, minutes after the run was requested. *)
WriteMarker(r) ==
    /\ run[r].phase = "posted"
    /\ Becomes(r, [run[r] EXCEPT !.phase = "ending", !.marker = Marker("success")])
    /\ UNCHANGED <<main, prs, clock, edits>>

(* The validate job is over: the run waits for approval or has completed. *)
JobEnds(r) ==
    /\ run[r].phase = "ending"
    /\ IF run[r].outcome = "none" THEN Step(r, "waiting") ELSE Step(r, "completed")
    /\ UNCHANGED <<main, prs, clock, edits>>

(* The operator, or GitHub's limit of 30 days. *)
Decide(r) ==
    /\ run[r].phase = "waiting"
    /\ \/ Step(r, "approved")
       \/ End(r, "rejected")
       \/ End(r, "expired")
    /\ UNCHANGED <<main, prs, clock, edits>>

(* PIN, steps 1 and 2: check out main, stop if replaced. *)
NewerCheck(r) ==
    /\ run[r].phase = "approved"
    /\ IF is_replaced(r)
         THEN End(r, "replaced")
         ELSE Becomes(r, [run[r] EXCEPT !.phase = "current", !.base = main])
    /\ UNCHANGED <<main, prs, clock, edits>>

(* PIN, steps 3 to 6: an existing pull request is reused, pinned digests are
   left alone, a deleted image or a refused diff fails the run. *)
Apply(r) ==
    LET request == run[r].request
        base == run[r].base
    IN  /\ run[r].phase = "current"
        /\ IF prs[Branch(request)].state = "open" THEN End(r, "pr_exists")
           ELSE IF Written(base, request) = {} THEN End(r, "already_pinned")
           ELSE \/ End(r, "failed")
                \/ /\ diff_check(base, Applied(base, request), request)
                   /\ Step(r, "applied")
        /\ UNCHANGED <<main, prs, clock, edits>>

(* PIN, step 7: push the branch and open the pull request. A branch that is
   already there refuses the push. *)
OpenPr(r) ==
    LET request == run[r].request
    IN  /\ run[r].phase = "applied"
        /\ IF prs[Branch(request)].state = "open"
             THEN End(r, "failed") /\ UNCHANGED prs
             ELSE /\ prs' = [prs EXCEPT ![Branch(request)] =
                               [state |-> "open", roles |-> request.roles,
                                base |-> run[r].base,
                                head |-> Applied(run[r].base, request)]]
                  /\ End(r, "pr_open")
        /\ UNCHANGED <<main, clock, edits>>

(* Merge of a pull request that still applies cleanly; closing it. *)
Merge(b) ==
    LET base == prs[b].base
        head == prs[b].head
    IN  /\ prs[b].state = "open"
        /\ \A c \in MovedImages(base, head) : main.image[c] = base.image[c]
        /\ \A c \in MovedRows(base, head) : main.row[c] = base.row[c]
        /\ \A c \in MovedBadges(base, head) : main.badge[c] = base.badge[c]
        /\ main' = [image |-> [c \in Containers |->
                        IF c \in MovedImages(base, head) THEN head.image[c] ELSE main.image[c]],
                    row |-> [c \in Containers |->
                        IF c \in MovedRows(base, head) THEN head.row[c] ELSE main.row[c]],
                    badge |-> [c \in Badged |->
                        IF c \in MovedBadges(base, head) THEN head.badge[c] ELSE main.badge[c]]]
        /\ prs' = [prs EXCEPT ![b] = ClosedPr]
        /\ UNCHANGED <<run, clock, edits>>

Close(b) ==
    /\ prs[b].state = "open"
    /\ prs' = [prs EXCEPT ![b] = ClosedPr]
    /\ UNCHANGED <<main, run, clock, edits>>

(* A pin committed by hand, without its row and badge of the handbook; a badge
   edited by hand. *)
HandEdit ==
    /\ edits < MaxEdits
    /\ edits' = edits + 1
    /\ \/ \E c \in Containers, sha \in Shas : main' = [main EXCEPT !.image[c] = sha]
       \/ \E c \in Badged, badge \in Badges : main' = [main EXCEPT !.badge[c] = badge]
    /\ UNCHANGED <<prs, run, clock>>

Next ==
    \/ \E r \in Runs, payload \in Payloads : CheckRequest(r, payload)
    \/ \E r \in Runs : \/ Dedupe(r) \/ DryRun(r) \/ Post(r) \/ WriteMarker(r)
                       \/ JobEnds(r) \/ Decide(r) \/ NewerCheck(r)
                       \/ Apply(r) \/ OpenPr(r)
    \/ \E b \in Projects \X Shas : Merge(b) \/ Close(b)
    \/ HandEdit

Spec == Init /\ [][Next]_vars

---------------------------------------------------------------------------
(* Properties                                                              *)

TypeOK ==
    /\ main \in Trees
    /\ prs \in [Projects \X Shas -> {NoPr, ClosedPr} \cup OpenPrs]
    /\ run \in [Runs -> RunRecords]
    /\ clock \in Nat
    /\ edits \in 0 .. MaxEdits

Newer(q, r) == run[q].requested_at > run[r].requested_at

\* The pin job of an approved run goes on only when no run requested later,
\* that covers its roles and passed validation, is waiting or approved: an
\* approval that moved the newer run out of "waiting" does not let the older
\* one through (is_replaced, image-pin.py:266-298).
NewestWins ==
    [][\A r \in Runs :
        (run[r].phase = "approved" /\ run'[r].phase = "current")
            => ~\E q \in Runs : /\ Newer(q, r)
                                /\ Covers(q, run[r].request)
                                /\ run[q].phase \in {"waiting"} \cup Pinning]_vars

\* A request that stopped quietly as a duplicate was put to the operator by
\* another run of the same commit with all of its roles, or that commit has had
\* a pull request: a run that failed, or only repeated, never hides it for good
\* (_usable and is_duplicate, image-pin.py:224-263).
DuplicateWasAsked ==
    \A r \in Runs :
        run[r].outcome = "duplicate"
            => \/ \E q \in Runs \ {r} : /\ run[q].asked
                                        /\ run[q].request.sha = run[r].request.sha
                                        /\ Covers(q, run[r].request)
               \/ prs[Branch(run[r].request)].state # "none"

\* Every pull request moves image lines, handbook rows and badges of its own
\* roles only, one line in each file, and only to its commit, whatever main held
\* when the run checked it out (diff_check, image-pin.py:744-792).
PrIsItsRequest ==
    \A b \in DOMAIN prs : prs[b].state = "open" =>
        LET own == {<<b[1], role>> : role \in prs[b].roles}
            head == prs[b].head
            moved == MovedImages(prs[b].base, head)
            rows == MovedRows(prs[b].base, head)
            badges == MovedBadges(prs[b].base, head)
        IN  /\ moved \cup rows \cup badges \subseteq own
            /\ \A c \in moved, d \in moved : FileOf[c] = FileOf[d] => c = d
            /\ \A c \in moved \cup rows : head.image[c] = b[2]
            /\ \A c \in moved : head.row[c] = head.image[c]
            /\ \A c \in badges : head.badge[c].shows = head.image[c]

\* A checkout in which a request can be carried out by one line per file: no
\* stale row outside its roles, no two of the lines it moves in one file, and no
\* badge of another length than eight digits on a role it moves.
Honest(base, request) ==
    /\ \A c \in Containers \ Requested(request) : base.row[c] = base.image[c]
    /\ \A c, d \in Written(base, request) : FileOf[c] = FileOf[d] => c = d
    /\ \A c \in Written(base, request) \cap Badged : base.badge[c].exact

\* The diff check refuses no honest pin: a run with something to write, on a
\* checkout as Honest asks for, passes it, a request with a role that is pinned
\* already and one whose own rows or badges were stale included
\* (image-pin.py:614-618, 672-724, 755-767).
HonestPinPasses ==
    \A r \in Runs :
        (/\ run[r].phase = "current"
         /\ Written(run[r].base, run[r].request) # {}
         /\ Honest(run[r].base, run[r].request))
            => diff_check(run[r].base, Applied(run[r].base, run[r].request), run[r].request)

\* docs/superpowers/specs/2026-10-31-image-pin-approval-design.md:185: "Every
\* difference must map an old digest to its approved new digest, in full or short
\* form". The row and the badge that a pull request moves showed the image that
\* the line had.
DifferencesMap ==
    \A b \in DOMAIN prs : prs[b].state = "open" =>
        LET base == prs[b].base
            head == prs[b].head
        IN  /\ \A c \in MovedRows(base, head) : base.row[c] = base.image[c]
            /\ \A c \in MovedBadges(base, head) : base.badge[c].shows = base.image[c]

\* is_replaced, image-pin.py:273: "Is a live request newer than this one,
\* covering all of its roles?" A run that stopped as replaced has a run requested
\* after it that covers its roles; a repeat of its own commit is left aside.
ReplacedByNewer ==
    \A r \in Runs :
        run[r].outcome = "replaced"
            => \E q \in Runs \ {r} :
                   /\ Covers(q, run[r].request)
                   /\ Newer(q, r) \/ run[q].request.sha = run[r].request.sha

=============================================================================
