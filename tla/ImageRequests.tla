--------------------------- MODULE ImageRequests ---------------------------
(***************************************************************************)
(* scripts/image-bump-request.py: a build asks for its images to be        *)
(* pinned, the receiver run turns the request into an issue, and closes    *)
(* the open requests the new one covers. Every gh call is a step of its    *)
(* own, receiver runs overlap (docs/image-bump-dispatch.md: "Runs are not  *)
(* serialized") and any of them can die between two calls.                 *)
(*                                                                         *)
(* A commit stands for the digests of its images: a role is pinned to a    *)
(* commit. Whoever decides an issue works outside this repository and is   *)
(* modelled from .agents/skills/image-bump-decision/SKILL.md.              *)
(***************************************************************************)
EXTENDS Integers, FiniteSets, Sequences, TLC

CONSTANTS Runs,        \* receiver runs: dispatches and re-runs of them
          Projects,    \* the projects of config/image-pin-sources.json
          Roles,       \* every role name a dispatch may carry
          Allowed,     \* the allowlist: project -> its roles
          Shas,        \* full commit shas
          Stale,       \* the commit every role is pinned to at the start
          MaxDecisions \* bound on the decisions taken

ASSUME AllowedAssumption == Allowed \in [Projects -> SUBSET Roles]
ASSUME StaleAssumption == Stale \notin Shas
ASSUME DecisionsAssumption == MaxDecisions \in Nat

VARIABLES pinned,     \* main: project -> role -> commit
          pulls,      \* the issues whose pin pull request is open
          issues,     \* every issue opened, by number
          pc,         \* run -> the call it makes next
          request,    \* run -> the validated request
          number,     \* run -> the issue that carries the request, 0 before
          todo,       \* run -> the issues it still has to close
          overlapped, \* history: projects two runs worked on at a time
          repeated    \* history: projects for which a run met a duplicate

vars == <<pinned, pulls, issues, pc, request, number, todo, overlapped, repeated>>

NoRequest == [project |-> "none"]

Requests == [project : Projects, sha : Shas, roles : SUBSET Roles]

\* by is the issue the closing comment names, 0 unless superseded.
Issues == [project : Projects, sha : Shas, roles : SUBSET Roles,
           state : {"open", "superseded", "allowed", "disallowed"}, by : Nat]

(* A dispatch as it arrives. An empty source_repo or run_url is left out by
   a run started by hand. *)
Payloads == [project : Projects \cup {"unknown"},
             source_repo : {"", "own", "foreign"},
             sha : Shas \cup {"short"},
             roles : SUBSET Roles,
             run_url : {"", "own run", "other"}]

---------------------------------------------------------------------------
(* The request: allowlist, full sha, roles of the project, own run url.    *)

Rejected(payload) ==
    \/ payload.project \notin Projects
    \/ payload.source_repo = "foreign"
    \/ payload.sha \notin Shas
    \/ ~(payload.roles \subseteq Allowed[payload.project])
    \/ payload.run_url = "other"

\* No roles means every role of the project.
validate_request(payload) ==
    [project |-> payload.project,
     sha |-> payload.sha,
     roles |-> IF payload.roles = {} THEN Allowed[payload.project]
                                     ELSE payload.roles]

\* The helper's dry run says some image is not the one main has.
Changed(req) == \E role \in req.roles : pinned[req.project][role] # req.sha

---------------------------------------------------------------------------
(* The plan over the open issues a run listed.                             *)

OpenIssues(project) ==
    {n \in DOMAIN issues : /\ issues[n].state = "open"
                           /\ issues[n].project = project}

\* Issues that already ask for this commit and every requested role.
Same(req, listed) ==
    {n \in listed : /\ issues[n].sha = req.sha
                    /\ req.roles \subseteq issues[n].roles}

\* The first one listed is the duplicate; the order of gh is not fixed.
Duplicates(req, listed) ==
    IF Same(req, listed) = {} THEN {0} ELSE Same(req, listed)

\* Mutation: a run that meets a duplicate closes nothing.
SupersedeWhenNew(req, listed, duplicate) ==
    IF duplicate # 0 THEN {}
    ELSE {n \in listed : issues[n].roles \subseteq req.roles}

\* Mutation: one role in common is enough.
SupersedeShared(req, listed, duplicate) ==
    {n \in listed \ {duplicate} : issues[n].roles \cap req.roles # {}}

\* Mutation: the duplicate is closed with the others.
SupersedeSelf(req, listed, duplicate) ==
    {n \in listed : issues[n].roles \subseteq req.roles}

\* Older requests this one covers, returned with a duplicate too.
Supersede(req, listed, duplicate) ==
    {n \in listed \ {duplicate} : issues[n].roles \subseteq req.roles}

---------------------------------------------------------------------------
Init ==
    /\ pinned = [p \in Projects |-> [role \in Roles |-> Stale]]
    /\ pulls = {}
    /\ issues = <<>>
    /\ pc = [r \in Runs |-> "idle"]
    /\ request = [r \in Runs |-> NoRequest]
    /\ number = [r \in Runs |-> 0]
    /\ todo = [r \in Runs |-> {}]
    /\ overlapped = {}
    /\ repeated = {}

Working(r) == pc[r] \in {"resolve", "list", "open", "close"}

(* RECEIVER: parse and validate the event; a bad request is a red run. *)
Dispatch(r, payload) ==
    /\ pc[r] = "idle"
    /\ IF Rejected(payload)
         THEN /\ pc' = [pc EXCEPT ![r] = "red"]
              /\ UNCHANGED <<request, overlapped>>
         ELSE LET req == validate_request(payload)
                  others == {q \in Runs : Working(q) /\ request[q].project = req.project}
              IN  /\ pc' = [pc EXCEPT ![r] = "resolve"]
                  /\ request' = [request EXCEPT ![r] = req]
                  /\ overlapped' = IF others = {} THEN overlapped
                                   ELSE overlapped \cup {req.project}
    /\ UNCHANGED <<pinned, pulls, issues, number, todo, repeated>>

(* RECEIVER: the dry run of the helper on the checkout of main. *)
Resolve(r) ==
    /\ pc[r] = "resolve"
    /\ pc' = [pc EXCEPT ![r] = IF Changed(request[r]) THEN "list" ELSE "pinned"]
    /\ UNCHANGED <<pinned, pulls, issues, request, number, todo, overlapped, repeated>>

(* RECEIVER: list the open issues and plan on what was listed. *)
List(r) ==
    /\ pc[r] = "list"
    /\ LET listed == OpenIssues(request[r].project)
       IN  \E duplicate \in Duplicates(request[r], listed) :
             /\ number' = [number EXCEPT ![r] = duplicate]
             /\ todo' = [todo EXCEPT ![r] = Supersede(request[r], listed, duplicate)]
             /\ pc' = [pc EXCEPT ![r] = IF duplicate = 0 THEN "open" ELSE "close"]
             /\ repeated' = IF duplicate = 0 THEN repeated
                            ELSE repeated \cup {request[r].project}
    /\ UNCHANGED <<pinned, pulls, issues, request, overlapped>>

(* RECEIVER: open the issue. The run may die after gh created it and before
   the number is read. *)
Open(r) ==
    /\ pc[r] = "open"
    /\ issues' = Append(issues, [project |-> request[r].project,
                                 sha |-> request[r].sha,
                                 roles |-> request[r].roles,
                                 state |-> "open", by |-> 0])
    /\ \/ /\ number' = [number EXCEPT ![r] = Len(issues) + 1]
          /\ pc' = [pc EXCEPT ![r] = "close"]
       \/ /\ pc' = [pc EXCEPT ![r] = "red"]
          /\ UNCHANGED number
    /\ UNCHANGED <<pinned, pulls, request, todo, overlapped, repeated>>

(* RECEIVER: close the next superseded issue, lowest number first. gh leaves
   an issue alone that is closed already. *)
Close(r) ==
    /\ pc[r] = "close"
    /\ \E n \in todo[r] :
         /\ \A m \in todo[r] : n <= m
         /\ issues' = IF issues[n].state = "open"
                        THEN [issues EXCEPT ![n].state = "superseded", ![n].by = number[r]]
                        ELSE issues
         /\ todo' = [todo EXCEPT ![r] = @ \ {n}]
    /\ UNCHANGED <<pinned, pulls, pc, request, number, overlapped, repeated>>

Finish(r) ==
    /\ pc[r] = "close"
    /\ todo[r] = {}
    /\ pc' = [pc EXCEPT ![r] = "done"]
    /\ UNCHANGED <<pinned, pulls, issues, request, number, todo, overlapped, repeated>>

(* RECEIVER: a gh call, the registry or the runner fails. *)
Fail(r) ==
    /\ Working(r)
    /\ pc' = [pc EXCEPT ![r] = "red"]
    /\ UNCHANGED <<pinned, pulls, issues, request, number, todo, overlapped, repeated>>

---------------------------------------------------------------------------
(* The decision sessions and the merge of their pull requests.             *)

Decisions == pulls \cup {n \in DOMAIN issues : issues[n].state \in {"allowed", "disallowed"}}

\* A newer open request that covers this one decides instead.
NewerCovers(n) ==
    \E m \in OpenIssues(issues[n].project) :
        m > n /\ issues[n].roles \subseteq issues[m].roles

(* SESSION: the owner allows it; the re-check passes and the pull request is
   opened, which leaves the issue open. *)
Allow(n) ==
    /\ issues[n].state = "open"
    /\ ~NewerCovers(n)
    /\ pulls' = pulls \cup {n}
    /\ UNCHANGED <<pinned, issues, pc, request, number, todo, overlapped, repeated>>

Disallow(n) ==
    /\ issues[n].state = "open"
    /\ issues' = [issues EXCEPT ![n].state = "disallowed"]
    /\ UNCHANGED <<pinned, pulls, pc, request, number, todo, overlapped, repeated>>

(* The owner merges the pull request, whatever was requested since, and GitHub
   closes the issue if it is still open; or closes the pull request. *)
Merge(n) ==
    /\ n \in pulls
    /\ pulls' = pulls \ {n}
    /\ issues' = IF issues[n].state = "open" THEN [issues EXCEPT ![n].state = "allowed"]
                                              ELSE issues
    /\ pinned' = [pinned EXCEPT ![issues[n].project] =
                    [role \in Roles |-> IF role \in issues[n].roles
                                          THEN issues[n].sha ELSE @[role]]]
    /\ UNCHANGED <<pc, request, number, todo, overlapped, repeated>>

Abandon(n) ==
    /\ n \in pulls
    /\ pulls' = pulls \ {n}
    /\ UNCHANGED <<pinned, issues, pc, request, number, todo, overlapped, repeated>>

Next ==
    \/ \E r \in Runs, payload \in Payloads : Dispatch(r, payload)
    \/ \E r \in Runs : \/ Resolve(r) \/ List(r) \/ Open(r)
                       \/ Close(r) \/ Finish(r) \/ Fail(r)
    \/ /\ Cardinality(Decisions) < MaxDecisions
       /\ \E n \in DOMAIN issues : Allow(n) \/ Disallow(n)
    \/ \E n \in DOMAIN issues : Merge(n) \/ Abandon(n)

Spec == Init /\ [][Next]_vars

---------------------------------------------------------------------------
(* Properties                                                              *)

TypeOK ==
    /\ pinned \in [Projects -> [Roles -> Shas \cup {Stale}]]
    /\ issues \in Seq(Issues)
    /\ pulls \subseteq DOMAIN issues
    /\ pc \in [Runs -> {"idle", "resolve", "list", "open", "close",
                       "done", "pinned", "red"}]
    /\ request \in [Runs -> Requests \cup {NoRequest}]
    /\ number \in [Runs -> Nat]
    /\ todo \in [Runs -> SUBSET Nat]
    /\ overlapped \in SUBSET Projects
    /\ repeated \in SUBSET Projects

Superseded == {n \in DOMAIN issues : issues[n].state = "superseded"}

\* The issue a closing comment names asks, for the same project, for every
\* role of the issue it closed: a build of one role never drops the pending
\* request of another (plan, image-bump-request.py:176-197).
SupersededByWider ==
    \A n \in Superseded :
        /\ issues[n].by \in DOMAIN issues
        /\ issues[issues[n].by].project = issues[n].project
        /\ issues[n].roles \subseteq issues[issues[n].by].roles

\* Following the closing comments from a superseded issue ends at one that is
\* open or was decided, unless two runs overlapped on the project and one of
\* them met a duplicate: without both, no set of issues closes itself.
SupersedingEnds ==
    \A loop \in SUBSET Superseded :
        (loop # {} /\ \A n \in loop : issues[n].by \in loop)
            => \A n \in loop : issues[n].project \in overlapped \cap repeated

\* A run that ends well, with no run beside it, leaves no other open request
\* that it covers: what a failed run left open is closed by the retry
\* (image-bump-request.py:356-358).
LeavesOneRequest ==
    [][\A r \in Runs :
        (pc[r] # "done" /\ pc'[r] = "done" /\ request[r].project \notin overlapped)
            => \A n \in OpenIssues(request[r].project) \ {number[r]} :
                   ~(issues[n].roles \subseteq request[r].roles)]_vars

=============================================================================
