---------------------------- MODULE ImageUpdate ----------------------------
(***************************************************************************)
(* update_project_images.py, the helper behind the update-project-images   *)
(* skill: it resolves one image link per role, inspects the images, pins   *)
(* the digests in the workload files and regenerates the handbook's pins   *)
(* table. Its writes go to several files one after the other, it can die   *)
(* or stop between any two of them, and a session may run it again in the  *)
(* same worktree or start over from main.                                  *)
(*                                                                         *)
(* A container stands for its image line; other lines, such as those of    *)
(* init containers, are in the files too. The repository of a line never   *)
(* changes, so an image is a digest. The registry is external: every       *)
(* answer may differ from the last, for tags move, but what a digest holds *)
(* stays.                                                                  *)
(***************************************************************************)
EXTENDS Naturals, Sequences, Functions

CONSTANTS Projects, Roles,
          Lines,       \* the image lines of the workload files
          Plain,       \* those that read "image: <image>" and nothing else
          Containers,  \* those of the main containers of Deployments
          ProjectOf,   \* container -> its project
          FileOf,      \* line -> its workload file
          RepoOf,      \* line -> its image repository
          Score,       \* container -> role -> how well the names match
          Digests,
          Pinned,      \* line -> the digest it starts with
          Image,       \* digest -> what the registry holds under it
          Options,     \* bound: the option sets an invocation may get
          MaxRoles     \* bound: roles in one invocation

Platforms == {"linux/amd64", "linux/arm64"}
Commit == "commit"   \* the one commit links name
NoLabel == "none"

(* What skopeo reads of an image. readable: the config blob is there;
   runnable: it has a root filesystem and an entrypoint or command; tidy:
   ports, user and environment raise no warning. *)
Images == [index : BOOLEAN, platforms : SUBSET Platforms,
           readable : BOOLEAN, runnable : BOOLEAN, tidy : BOOLEAN,
           source : {"own", "foreign", "not github", NoLabel},
           revision : {Commit, "other commit", NoLabel}]

ASSUME TopologyAssumption ==
    /\ Projects # {}
    /\ Containers \subseteq Lines /\ Plain \subseteq Lines
    /\ ProjectOf \in [Containers -> Projects]
    /\ Score \in [Containers -> [Roles -> {0, 60, 70, 80, 90, 100}]]
ASSUME ImagesAssumption ==
    /\ Pinned \in [Lines -> Digests]
    /\ Image \in [Digests -> Images]
ASSUME OptionsAssumption ==
    /\ Options \subseteq SUBSET {"dry", "strict", "allow", "skip"}
    /\ MaxRoles \in Nat

VARIABLES main,    \* origin/main: the workload files and the handbook
          tree,    \* the same in the session's worktree
          pc,      \* where the invocation of the helper is
          flags,   \* its options
          project, \* its --project
          asked,   \* the roles it has still to resolve
          updates, \* the ImageUpdates it built, in order
          writes,  \* the updates, by position, it has still to write
          wrote,   \* history: the invocation has written a file
          torn     \* history: an invocation died in this worktree after a write

run == <<flags, project, asked, updates, writes>>
vars == <<main, tree, pc, run, wrote, torn>>

NoDigest == "no digest"

(* yaml: the image lines. block: the handbook has its pins block, and table
   the digests in it. node and detail: the digests its topology diagram and
   its details name for a container. *)
Trees == [yaml : [Lines -> Digests], block : BOOLEAN,
          table : [Containers -> Digests], node : [Containers -> Digests],
          detail : [Containers -> Digests]]

Updates == [at : Containers, old : Digests, new : Digests]

Links ==
    [kind : {"digest"}, digest : Digests]
    \cup [kind : {"image"}, own : BOOLEAN, digest : Digests]
    \cup [kind : {"tag"}, own : BOOLEAN, full : BOOLEAN]
    \cup [kind : {"commit"}, repo : {"own", "foreign"}]
    \cup [kind : {"actions_run"}, repo : {"own", "foreign"},
          run : {"main", "failed", "branch"}, job : {"passed", "failed", "unnamed"}]
    \cup [kind : {"unsupported"}]

---------------------------------------------------------------------------
(* Finding the container a role means.                                     *)

Matches(role) == {c \in Containers : ProjectOf[c] = project /\ Score[c][role] > 0}

\* The best matches; the helper goes on only when there is exactly one.
discover_target(role) ==
    {c \in Matches(role) : \A d \in Matches(role) : Score[d][role] <= Score[c][role]}

---------------------------------------------------------------------------
(* Resolving a link to a digest: the set holds the resolved link, or is    *)
(* empty when the helper refuses. revision and source are what the labels  *)
(* of the image will be held against; answer is the digest the registry    *)
(* has under the commit's tags in the container's repository, if any.      *)

Resolved(digest, revision, source) ==
    IF digest = NoDigest THEN {}
    ELSE {[digest |-> digest, revision |-> revision, source |-> source]}

\* A run counts when it succeeded on main and published the role.
RunPublished(link) ==
    /\ link.run = "main"
    /\ link.job = "passed" \/ (link.job = "unnamed" /\ "allow" \in flags)

resolve_link(link, answer) ==
    CASE link.kind = "digest" -> Resolved(link.digest, NoLabel, NoLabel)
      [] link.kind = "image" /\ link.own -> Resolved(link.digest, NoLabel, NoLabel)
      [] link.kind = "tag" /\ link.own ->
           Resolved(answer, IF link.full THEN Commit ELSE NoLabel, NoLabel)
      [] link.kind = "commit" -> Resolved(answer, Commit, link.repo)
      [] link.kind = "actions_run" /\ RunPublished(link) ->
           Resolved(answer, Commit, link.repo)
      [] OTHER -> {}

---------------------------------------------------------------------------
(* Inspecting the image (registry only).                                   *)

\* Mutation: one of the platforms is enough.
MultiArchAny(image) == image.index /\ Platforms \cap image.platforms # {}

\* The manifest is an index with both platforms.
MultiArch(image) == image.index /\ Platforms \subseteq image.platforms

\* The labels do not contradict the link.
LabelsAgree(image, link) ==
    /\ (link.source # NoLabel /\ image.source \in {"own", "foreign"})
          => image.source = link.source
    /\ (link.revision # NoLabel /\ image.revision # NoLabel)
          => image.revision = link.revision

\* What is only reported, and blocks with --strict.
Warnings(image, link) ==
    \/ ~image.readable
    \/ ~image.tidy
    \/ image.source \in {"not github", NoLabel}
    \/ link.revision # NoLabel /\ image.revision = NoLabel

\* Without its config blob an image passes on its manifest alone.
validate_image(image, link) ==
    /\ MultiArch(image)
    /\ image.readable => image.runnable /\ LabelsAgree(image, link)
    /\ "strict" \in flags => ~Warnings(image, link)

---------------------------------------------------------------------------
(* Writing.                                                                *)

\* The lines replace_image takes for the update's: those of its file that read
\* as its old image, whichever container they belong to.
SameImage(u) == {d \in Plain : /\ FileOf[d] = FileOf[u.at]
                               /\ RepoOf[d] = RepoOf[u.at]
                               /\ tree.yaml[d] = u.old}

\* The digest the updates give a container of theirs; they never share one.
NewDigest(todo, c) == (CHOOSE u \in todo : u.at = c).new

\* Mutation: rows of containers that are not updated are left as they are.
pins_table_rows(t, todo) ==
    [c \in Containers |->
        IF \E u \in todo : u.at = c THEN NewDigest(todo, c) ELSE t.table[c]]

\* The table is rebuilt from every project's files, with the new digests.
pins_table(t, todo) ==
    [c \in Containers |->
        IF \E u \in todo : u.at = c THEN NewDigest(todo, c) ELSE t.yaml[c]]

\* Mutation: only the table is regenerated.
update_html_table(t, todo) == [t EXCEPT !.table = pins_table(t, todo)]

\* The diagram shows the new digest whatever it showed before; the details
\* change only where they name the old one.
update_html(t, todo) ==
    [t EXCEPT
        !.table = pins_table(t, todo),
        !.node = [c \in Containers |->
            IF \E u \in todo : u.at = c THEN NewDigest(todo, c) ELSE @[c]],
        !.detail = [c \in Containers |->
            IF \E u \in todo : u.at = c /\ u.old = @[c] THEN NewDigest(todo, c) ELSE @[c]]]

\* The updates that move a pin; noop roles are left out.
Moves == {i \in DOMAIN updates : updates[i].old # updates[i].new}
HtmlUpdates == {updates[i] : i \in Moves}

---------------------------------------------------------------------------
Init ==
    /\ LET shown == [c \in Containers |-> Pinned[c]]
       IN  main = [yaml |-> Pinned, block |-> TRUE,
                   table |-> shown, node |-> shown, detail |-> shown]
    /\ tree = main
    /\ pc = "idle"
    /\ flags = {}
    /\ project = CHOOSE p \in Projects : TRUE
    /\ asked = <<>>
    /\ updates = <<>>
    /\ writes = {}
    /\ wrote = FALSE
    /\ torn = FALSE

\* The process has ended: what it held in memory is gone.
Forget ==
    /\ flags' = {} /\ asked' = <<>> /\ updates' = <<>> /\ writes' = {}
    /\ wrote' = FALSE
    /\ UNCHANGED project

(* HELPER: read the arguments; no role, or a role named twice, is refused. *)
Start(p, roles, options) ==
    /\ pc = "idle"
    /\ \/ /\ roles # <<>> /\ IsInjective(roles)
          /\ pc' = "resolve"
          /\ project' = p /\ flags' = options /\ asked' = roles
          /\ UNCHANGED <<updates, writes, wrote>>
       \/ /\ roles = <<>> \/ ~IsInjective(roles)
          /\ pc' = "refused"
          /\ Forget
    /\ UNCHANGED <<main, tree, torn>>

(* HELPER: the next role. Its container must be the only best match and not
   already taken by another role, its link must resolve, and an image that is
   not pinned yet must pass the inspection (--skip-validation leaves out the
   inspection alone). *)
Resolve(link, answer) ==
    /\ pc = "resolve"
    /\ asked # <<>>
    /\ \E c \in Containers :
         /\ discover_target(Head(asked)) = {c}
         /\ \A i \in DOMAIN updates : updates[i].at # c
         /\ \E found \in resolve_link(link, answer) :
              /\ \/ found.digest = tree.yaml[c]
                 \/ "skip" \in flags
                 \/ validate_image(Image[found.digest], found)
              /\ updates' = Append(updates, [at |-> c, old |-> tree.yaml[c],
                                              new |-> found.digest])
    /\ asked' = Tail(asked)
    /\ UNCHANGED <<main, tree, pc, flags, project, writes, wrote, torn>>

(* HELPER: the next role is refused, or the registry or gh fails. *)
ResolveRefused ==
    /\ pc = "resolve"
    /\ asked # <<>>
    /\ pc' = "refused"
    /\ Forget
    /\ UNCHANGED <<main, tree, torn>>

\* What is left to do once the handbook could be computed.
Planned ==
    /\ pc' = IF "dry" \in flags THEN "dry" ELSE "write"
    /\ writes' = IF "dry" \in flags THEN {} ELSE Moves

\* Mutation: the handbook is left to the last step.
ComputeNothing ==
    /\ pc = "resolve"
    /\ asked = <<>>
    /\ \/ Moves = {} /\ pc' = "pinned" /\ UNCHANGED writes
       \/ Moves # {} /\ Planned
    /\ UNCHANGED <<main, tree, flags, project, asked, updates, wrote, torn>>

(* HELPER: every role is resolved. The handbook is computed before any file
   is written, so that a missing pins block stops the run. *)
Compute ==
    /\ pc = "resolve"
    /\ asked = <<>>
    /\ \/ Moves = {} /\ pc' = "pinned" /\ UNCHANGED writes
       \/ Moves # {} /\ ~tree.block /\ pc' = "refused" /\ UNCHANGED writes
       \/ Moves # {} /\ tree.block /\ Planned
    /\ UNCHANGED <<main, tree, flags, project, asked, updates, wrote, torn>>

(* HELPER: replace_image of the next update. Exactly one line of the file must
   read as its old image; with none or several the run stops where it is. *)
Write ==
    /\ pc = "write"
    /\ \E i \in writes :
         /\ \A j \in writes : i <= j
         /\ \/ \E d \in Lines :
                 /\ SameImage(updates[i]) = {d}
                 /\ tree' = [tree EXCEPT !.yaml[d] = updates[i].new]
                 /\ writes' = writes \ {i}
                 /\ wrote' = TRUE
                 /\ UNCHANGED <<pc, torn>>
            \/ /\ \A d \in Lines : SameImage(updates[i]) # {d}
               /\ pc' = "refused"
               /\ torn' = (torn \/ wrote)
               /\ UNCHANGED <<tree, writes, wrote>>
    /\ UNCHANGED <<main, flags, project, asked, updates>>

(* HELPER: the image lines are written, the handbook follows. *)
WriteHandbook ==
    /\ pc = "write"
    /\ writes = {}
    /\ IF tree.block
         THEN pc' = "done" /\ tree' = update_html(tree, HtmlUpdates) /\ UNCHANGED torn
         ELSE pc' = "refused" /\ torn' = TRUE /\ UNCHANGED tree
    /\ UNCHANGED <<main, run, wrote>>

(* The process is killed between two files. *)
Crash ==
    /\ pc \in {"resolve", "write"}
    /\ pc' = "killed"
    /\ torn' = (torn \/ wrote)
    /\ Forget
    /\ UNCHANGED <<main, tree>>

---------------------------------------------------------------------------
(* The session around the helper (SKILL.md), and main.                     *)

Ended == pc \in {"pinned", "dry", "done", "refused", "killed"}

\* The same worktree again, say with other links.
Again == Ended /\ pc' = "idle" /\ Forget /\ UNCHANGED <<main, tree, torn>>

\* A new worktree from origin/main.
Isolate ==
    /\ Ended
    /\ pc' = "idle" /\ Forget
    /\ tree' = main
    /\ torn' = FALSE
    /\ UNCHANGED main

\* The pull request of a run that changed something is merged, if only files
\* of its summary changed; a run that found everything pinned opens none.
Land ==
    /\ pc = "done"
    /\ tree.block = main.block
    /\ \A d \in Lines : tree.yaml[d] # main.yaml[d]
                        => \E i \in DOMAIN updates : FileOf[updates[i].at] = FileOf[d]
    /\ main' = tree
    /\ pc' = "idle" /\ Forget
    /\ UNCHANGED <<tree, torn>>

\* The handbook is edited by hand and loses or gets back its pins block.
EditHandbook ==
    /\ main' = [main EXCEPT !.block = ~@]
    /\ UNCHANGED <<tree, pc, run, wrote, torn>>

RoleLists == UNION {[1 .. n -> Roles] : n \in 0 .. MaxRoles}

Next ==
    \/ \E p \in Projects, roles \in RoleLists, options \in Options :
          Start(p, roles, options)
    \/ \E link \in Links, answer \in Digests \cup {NoDigest} : Resolve(link, answer)
    \/ ResolveRefused \/ Compute \/ Write \/ WriteHandbook \/ Crash
    \/ Again \/ Isolate \/ Land
    \/ EditHandbook

Spec == Init /\ [][Next]_vars

---------------------------------------------------------------------------
(* Properties                                                              *)

\* TypeOK (ImageUpdate): the files and the state of the helper have their types.
TypeOK ==
    /\ main \in Trees /\ tree \in Trees
    /\ pc \in {"idle", "resolve", "write", "pinned", "dry", "done", "refused", "killed"}
    /\ flags \in Options \cup {{}}
    /\ project \in Projects
    /\ asked \in Seq(Roles)
    /\ updates \in Seq(Updates) /\ writes \subseteq DOMAIN updates
    /\ wrote \in BOOLEAN /\ torn \in BOOLEAN

\* No line can be taken for the line of a container that is written in another
\* way than "image: <image>": that container alone has its repository in its file.
OwnLines == \A c \in Containers \ Plain : \A d \in Lines \ {c} :
    FileOf[d] = FileOf[c] => RepoOf[d] # RepoOf[c]

\* Where lines cannot be mistaken (OwnLines), the pins table on main is the
\* image lines on main, of every project, whatever runs died, were refused or
\* were repeated in the worktree before the one that landed (update_html
\* rebuilds it from all files, with the digests of its own run over them).
TableTellsPins == OwnLines => \A c \in Containers : main.table[c] = main.yaml[c]

\* A run that ends in an error has written nothing, except where replace_image
\* cannot tell lines apart, two in one file being of the same image, or cannot
\* read the line of a container of the run: everything else that can be refused,
\* a missing pins block included, is refused before the first write.
RefusedMidway ==
    (pc = "refused" /\ wrote)
        => \/ \E d, e \in Plain : /\ d # e
                                  /\ FileOf[d] = FileOf[e] /\ RepoOf[d] = RepoOf[e]
                                  /\ tree.yaml[d] = tree.yaml[e]
           \/ \E i \in Moves : updates[i].at \notin Plain

Deployable(image) ==
    /\ image.index /\ image.platforms = Platforms
    /\ ~image.readable \/ image.runnable

\* An image line is moved only to an image with both platforms which, where its
\* config can be read, starts something: what was inspected for one role is what
\* is written later for it (validate_image, run_update), unless the run got
\* --skip-validation.
PinnedIsDeployable ==
    [][\A d \in Lines :
          (pc = "write" /\ "skip" \notin flags /\ tree'.yaml[d] # tree.yaml[d]) =>
              Deployable(Image[tree'.yaml[d]])]_vars

InStep(t) == \A c \in Containers : t.node[c] = t.yaml[c] /\ t.detail[c] = t.yaml[c]

\* What lands keeps the handbook's diagram and details at the pinned digests,
\* unless lines can be mistaken (OwnLines) or a run died in the worktree: its
\* role is a noop for the next run, which leaves that role's references alone.
LandsInStep ==
    [][(OwnLines /\ main'.yaml # main.yaml /\ ~torn /\ InStep(main)) => InStep(main')]_vars

\* docs/superpowers/specs/2026-10-31-image-pin-approval-design.md:184: "and the
\* new digest must be the one approved, on the same container the role resolved
\* to at validation time". A line that moves is that of the container the role
\* resolved to.
MovesItsContainer ==
    [][\A d \in Lines : (pc = "write" /\ tree'.yaml[d] # tree.yaml[d]) =>
          \E i \in writes : updates[i].at = d]_vars

=============================================================================
