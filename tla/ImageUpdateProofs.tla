------------------------- MODULE ImageUpdateProofs -------------------------
(***************************************************************************)
(* What lands on main, for every set of containers, images and roles and   *)
(* whatever runs died or were repeated in the worktree before.             *)
(***************************************************************************)
EXTENDS ImageUpdate, TLAPS

-----------------------------------------------------------------------------
(* The inductive invariant.                                                 *)

\* The updates are of different containers.
Distinct == \A i, j \in DOMAIN updates : updates[i].at = updates[j].at => i = j

\* Nothing can be mistaken for the line of a container that is moved.
Sure == OwnLines \/ \A i \in Moves : updates[i].at \in Plain

\* Every image line an update still has to move is at its old digest.
OldIsThere == \A i \in DOMAIN updates :
  (pc = "resolve" \/ (Sure /\ pc = "write" /\ i \in writes))
     => tree.yaml[updates[i].at] = updates[i].old

\* Every other line an update moves is at its new one.
NewIsThere == \A i \in Moves :
  (Sure /\ pc = "write" /\ i \notin writes) => tree.yaml[updates[i].at] = updates[i].new

\* What is still to be written are moves that passed the inspection.
Inspected ==
  "skip" \notin flags =>
    \A i \in Moves : Deployable(Image[updates[i].new])

\* The worktree's handbook follows its image lines, but for the lines written.
HandbookFollows ==
  (OwnLines /\ ~torn /\ InStep(main)) =>
    \A c \in Containers :
      \/ tree.node[c] = tree.yaml[c] /\ tree.detail[c] = tree.yaml[c]
      \/ /\ pc = "write"
         /\ \E i \in Moves : /\ i \notin writes /\ updates[i].at = c
                             /\ tree.detail[c] = updates[i].old

\* The pins table of a worktree.
TellsPins(t) == OwnLines => \A c \in Containers : t.table[c] = t.yaml[c]

UpdateInv ==
  /\ TypeOK
  /\ Distinct
  /\ OldIsThere
  /\ NewIsThere
  /\ Inspected
  /\ HandbookFollows
  /\ pc = "idle" => updates = <<>>
  /\ pc = "write" => tree.block /\ writes \subseteq Moves
  /\ pc = "done" => TellsPins(tree)
  /\ TellsPins(main)
  /\ wrote => pc \in {"write", "done", "refused"}
  /\ pc = "write" /\ ~wrote => writes = Moves
  /\ RefusedMidway

-----------------------------------------------------------------------------
(* The operators.                                                           *)

LEMMA NewDigestIs ==
  ASSUME UpdateInv, NEW i \in Moves
  PROVE  NewDigest(HtmlUpdates, updates[i].at) = updates[i].new
<1>1. updates[i] \in HtmlUpdates
  BY DEF HtmlUpdates
<1>2. \A u \in HtmlUpdates : u.at = updates[i].at => u = updates[i]
  BY DEF HtmlUpdates, UpdateInv, Distinct, Moves
<1> QED
  BY <1>1, <1>2 DEF NewDigest

LEMMA UpdateType ==
  ASSUME UpdateInv, NEW i \in DOMAIN updates
  PROVE  /\ updates[i] \in Updates
         /\ updates[i].at \in Containers
         /\ updates[i].old \in Digests
         /\ updates[i].new \in Digests
<1>1. updates \in Seq(Updates)
  BY DEF UpdateInv, TypeOK
<1>2. updates[i] \in Updates
  BY <1>1
<1> QED
  BY <1>2 DEF Updates

\* What passed the inspection can be deployed.
LEMMA InspectedIsDeployable ==
  ASSUME NEW digest \in Digests, NEW link, validate_image(Image[digest], link)
  PROVE  Deployable(Image[digest])
BY ImagesAssumption DEF validate_image, MultiArch, Deployable, Images

\* The line an update moves is that of its container, and is at its old digest.
LEMMA TakenLine ==
  ASSUME UpdateInv, pc = "write", Sure, NEW i \in writes, NEW d \in Lines,
         SameImage(updates[i]) = {d}
  PROVE  d = updates[i].at
<1>1. i \in Moves /\ i \in DOMAIN updates
  BY DEF UpdateInv, Moves
<1>2. updates[i].at \in Containers
  BY <1>1, UpdateType
<1>3. tree.yaml[updates[i].at] = updates[i].old
  BY <1>1 DEF UpdateInv, OldIsThere
<1>4. CASE updates[i].at \in Plain
  <2>1. updates[i].at \in SameImage(updates[i])
    BY <1>3, <1>4 DEF SameImage
  <2> QED
    BY <2>1
<1>5. CASE updates[i].at \notin Plain
  <2>1. OwnLines
    BY <1>1, <1>5 DEF Sure
  <2>2. d \in Plain /\ FileOf[d] = FileOf[updates[i].at] /\ RepoOf[d] = RepoOf[updates[i].at]
    BY DEF SameImage
  <2> QED
    BY <1>2, <1>5, <2>1, <2>2 DEF OwnLines
<1> QED
  BY <1>4, <1>5

-----------------------------------------------------------------------------
(* The steps.                                                               *)

\* A step that ends the invocation or makes the worktree ready for another.
LEMMA EndStep ==
  ASSUME Forget, pc' \in {"idle", "refused", "killed"}, main' \in Trees, tree' \in Trees,
         torn' \in BOOLEAN, project \in Projects, TellsPins(main'),
         (OwnLines /\ ~torn' /\ InStep(main')) => InStep(tree')
  PROVE  UpdateInv'
<1>1. /\ flags' = {} /\ asked' = <<>> /\ updates' = <<>> /\ writes' = {} /\ wrote' = FALSE
      /\ project' = project
  BY DEF Forget
<1>2. DOMAIN updates' = {}
  BY <1>1
<1>3. TypeOK'
  <2>1. asked' \in Seq(Roles) /\ updates' \in Seq(Updates) /\ writes' \subseteq DOMAIN updates'
    BY <1>1
  <2>2. flags' \in Options \cup {{}} /\ project' \in Projects /\ wrote' \in BOOLEAN
    BY <1>1
  <2> QED
    BY <2>1, <2>2 DEF TypeOK
<1>4. HandbookFollows'
  BY DEF HandbookFollows, InStep, OwnLines
<1>5. Distinct' /\ OldIsThere' /\ NewIsThere' /\ Inspected'
  BY <1>2 DEF Distinct, OldIsThere, NewIsThere, Inspected, Moves
<1>6. RefusedMidway'
  BY <1>1 DEF RefusedMidway
<1> QED
  BY <1>1, <1>3, <1>4, <1>5, <1>6 DEF UpdateInv

\* Outside of writing the worktree's handbook follows its image lines.
LEMMA FollowsOutside ==
  ASSUME UpdateInv, pc # "write" \/ ~wrote
  PROVE  (OwnLines /\ ~torn /\ InStep(main)) => InStep(tree)
BY DEF UpdateInv, HandbookFollows, InStep

LEMMA InitInv == Init => UpdateInv
<1> SUFFICES ASSUME Init
             PROVE  UpdateInv
  OBVIOUS
<1>1. main \in Trees /\ tree \in Trees /\ InStep(tree) /\ TellsPins(main)
  BY ImagesAssumption, TopologyAssumption DEF Init, Trees, InStep, TellsPins
<1>2. project \in Projects
  BY TopologyAssumption DEF Init
<1>3. DOMAIN updates = {}
  BY DEF Init
<1>4. TypeOK
  <2>1. asked \in Seq(Roles) /\ updates \in Seq(Updates) /\ writes \subseteq DOMAIN updates
    BY DEF Init
  <2> QED
    BY <1>1, <1>2, <2>1 DEF Init, TypeOK
<1>5. HandbookFollows
  BY <1>1 DEF HandbookFollows, InStep
<1>6. Distinct /\ OldIsThere /\ NewIsThere /\ Inspected
  BY <1>3 DEF Distinct, OldIsThere, NewIsThere, Inspected, Moves
<1> QED
  BY <1>1, <1>4, <1>5, <1>6 DEF Init, UpdateInv, RefusedMidway

LEMMA StartStep ==
  ASSUME UpdateInv, NEW p \in Projects, NEW roles \in RoleLists, NEW options \in Options,
         Start(p, roles, options)
  PROVE  UpdateInv'
<1>0. tree' = tree /\ main' = main /\ torn' = torn /\ pc = "idle" /\ updates = <<>>
      /\ project \in Projects
  BY DEF Start, UpdateInv, TypeOK
<1>1. /\ main \in Trees /\ tree \in Trees /\ torn \in BOOLEAN /\ TellsPins(main)
      /\ (OwnLines /\ ~torn /\ InStep(main)) => InStep(tree)
  BY <1>0, FollowsOutside DEF UpdateInv, TypeOK
<1>2. CASE pc' = "refused" /\ Forget
  BY <1>0, <1>1, <1>2, EndStep
<1>3. CASE /\ pc' = "resolve" /\ project' = p /\ flags' = options /\ asked' = roles
           /\ UNCHANGED <<updates, writes, wrote>>
  <2>1. roles \in Seq(Roles)
    <3>1. PICK n \in 0 .. MaxRoles : roles \in [1 .. n -> Roles]
      BY DEF RoleLists
    <3>2. n \in Nat
      BY OptionsAssumption
    <3> QED
      BY <3>1, <3>2
  <2>2. TypeOK'
    BY <1>0, <1>3, <2>1 DEF UpdateInv, TypeOK
  <2>3. DOMAIN updates' = {}
    BY <1>0, <1>3
  <2>4. Distinct' /\ OldIsThere' /\ NewIsThere' /\ Inspected'
    BY <2>3 DEF Distinct, OldIsThere, NewIsThere, Inspected, Moves
  <2>5. HandbookFollows'
    BY <1>0, <1>1 DEF HandbookFollows, InStep, OwnLines
  <2>6. wrote' = FALSE /\ TellsPins(main)'
    BY <1>0, <1>1, <1>3 DEF UpdateInv, TypeOK, TellsPins, OwnLines
  <2> QED
    BY <1>3, <2>2, <2>4, <2>5, <2>6 DEF UpdateInv, RefusedMidway
<1> QED
  BY <1>2, <1>3 DEF Start

\* One more update joins those built before.
LEMMA ResolveStep ==
  ASSUME UpdateInv, NEW link \in Links, NEW answer \in Digests \cup {NoDigest},
         Resolve(link, answer)
  PROVE  UpdateInv'
<1>1. PICK c \in Containers, found \in resolve_link(link, answer) :
         /\ \A i \in DOMAIN updates : updates[i].at # c
         /\ \/ found.digest = tree.yaml[c]
            \/ "skip" \in flags
            \/ validate_image(Image[found.digest], found)
         /\ updates' = Append(updates, [at |-> c, old |-> tree.yaml[c], new |-> found.digest])
  BY DEF Resolve
<1> DEFINE u == [at |-> c, old |-> tree.yaml[c], new |-> found.digest]
<1>2. /\ pc = "resolve" /\ asked # <<>> /\ asked' = Tail(asked)
      /\ UNCHANGED <<main, tree, pc, flags, project, writes, wrote, torn>>
  BY DEF Resolve
<1>3. found.digest \in Digests
  <2>1. \A digest, revision, source : found \in Resolved(digest, revision, source)
           => digest # NoDigest /\ found.digest = digest
    BY DEF Resolved
  <2>2. CASE link.kind \in {"digest", "image"}
    <3>1. link.digest \in Digests
      BY <2>2 DEF Links
    <3> QED
      BY <2>1, <2>2, <3>1 DEF resolve_link
  <2>3. CASE link.kind \notin {"digest", "image"}
    BY <2>1, <2>3 DEF resolve_link
  <2> QED
    BY <2>2, <2>3
<1>4. u \in Updates
  BY <1>3, TopologyAssumption DEF UpdateInv, TypeOK, Trees, Updates
<1>5. /\ updates \in Seq(Updates) /\ updates' = Append(updates, u)
  BY <1>1 DEF UpdateInv, TypeOK
<1>6. /\ Len(updates) \in Nat /\ updates' \in Seq(Updates)
      /\ DOMAIN updates = 1 .. Len(updates)
      /\ DOMAIN updates' = 1 .. (Len(updates) + 1)
      /\ \A i \in DOMAIN updates : updates'[i] = updates[i]
      /\ updates'[Len(updates) + 1] = u
  <2> HIDE DEF u
  <2> QED
    BY <1>4, <1>5
<1>7. u.at = c /\ u.old = tree.yaml[c] /\ u.new = found.digest
  OBVIOUS
<1> HIDE DEF u
<1>8. TypeOK'
  <2>1. asked' \in Seq(Roles)
    BY <1>2 DEF UpdateInv, TypeOK
  <2>2. writes' \subseteq DOMAIN updates'
    BY <1>2, <1>6 DEF UpdateInv, TypeOK
  <2> QED
    BY <1>2, <1>6, <2>1, <2>2 DEF UpdateInv, TypeOK
<1>9. Distinct'
  BY <1>1, <1>6, <1>7 DEF UpdateInv, Distinct
<1>10. OldIsThere'
  BY <1>2, <1>6, <1>7 DEF UpdateInv, OldIsThere
<1>11. NewIsThere'
  BY <1>2 DEF NewIsThere
<1>12. Inspected'
  <2>1. \A i \in Moves' : \/ i \in Moves /\ updates'[i] = updates[i]
                          \/ i = Len(updates) + 1 /\ u.old # u.new
    <3> TAKE i \in Moves'
    <3>1. i \in DOMAIN updates' /\ updates'[i].old # updates'[i].new
      BY DEF Moves
    <3>2. i \in DOMAIN updates \/ i = Len(updates) + 1
      BY <1>6, <3>1
    <3>3. CASE i \in DOMAIN updates
      BY <1>6, <3>1, <3>3 DEF Moves
    <3>4. CASE i = Len(updates) + 1
      BY <1>6, <3>1, <3>4
    <3> QED
      BY <3>2, <3>3, <3>4
  <2>2. ASSUME "skip" \notin flags, u.old # u.new
        PROVE  Deployable(Image[u.new])
    BY <1>1, <1>3, <1>7, <2>2, InspectedIsDeployable
  <2> QED
    BY <1>2, <1>6, <2>1, <2>2 DEF UpdateInv, Inspected
<1>13. HandbookFollows' /\ TellsPins(main)'
  BY <1>2 DEF UpdateInv, HandbookFollows, InStep, TellsPins, OwnLines
<1> QED
  BY <1>2, <1>8, <1>9, <1>10, <1>11, <1>12, <1>13 DEF UpdateInv, RefusedMidway

LEMMA ComputeStep ==
  ASSUME UpdateInv, Compute
  PROVE  UpdateInv'
<1>1. /\ pc = "resolve"
      /\ UNCHANGED <<main, tree, flags, project, asked, updates, wrote, torn>>
      /\ Moves' = Moves
  BY DEF Compute, Moves
<1>2. ~wrote
  BY <1>1 DEF UpdateInv
<1>3. \/ pc' \in {"pinned", "refused"} /\ writes' = writes
      \/ pc' = "dry" /\ writes' = {}
      \/ pc' = "write" /\ writes' = Moves /\ tree.block
  BY DEF Compute, Planned
<1>4. TypeOK'
  <2>1. writes' \subseteq DOMAIN updates'
    BY <1>1, <1>3 DEF UpdateInv, TypeOK, Moves
  <2> QED
    BY <1>1, <1>3, <2>1 DEF UpdateInv, TypeOK
<1>5. Distinct' /\ OldIsThere' /\ NewIsThere' /\ Inspected'
  BY <1>1, <1>3 DEF UpdateInv, Distinct, OldIsThere, NewIsThere, Inspected
<1>6. HandbookFollows' /\ TellsPins(main)'
  BY <1>1 DEF UpdateInv, HandbookFollows, InStep, TellsPins, OwnLines
<1> QED
  BY <1>1, <1>2, <1>3, <1>4, <1>5, <1>6 DEF UpdateInv, RefusedMidway

\* An image line is moved, or the run stops where it finds none or several.
LEMMA WriteStep ==
  ASSUME UpdateInv, Write
  PROVE  UpdateInv'
<1>1. PICK i \in writes :
         \/ \E d \in Lines :
              /\ SameImage(updates[i]) = {d}
              /\ tree' = [tree EXCEPT !.yaml[d] = updates[i].new]
              /\ writes' = writes \ {i}
              /\ wrote' = TRUE
              /\ UNCHANGED <<pc, torn>>
         \/ /\ \A d \in Lines : SameImage(updates[i]) # {d}
            /\ pc' = "refused"
            /\ torn' = (torn \/ wrote)
            /\ UNCHANGED <<tree, writes, wrote>>
  BY DEF Write
<1>2. /\ pc = "write" /\ Moves' = Moves /\ Sure' = Sure
      /\ UNCHANGED <<main, flags, project, asked, updates>>
  BY DEF Write, Moves, Sure, OwnLines
<1>3. i \in Moves /\ i \in DOMAIN updates
  BY <1>2 DEF UpdateInv, Moves
<1>4. updates[i].at \in Containers /\ updates[i].new \in Digests /\ updates[i].old \in Digests
  BY <1>3, UpdateType
<1>5. Distinct' /\ Inspected' /\ TellsPins(main)'
  BY <1>2 DEF UpdateInv, Distinct, Inspected, TellsPins, OwnLines
<1>6. ASSUME NEW d \in Lines,
             SameImage(updates[i]) = {d},
             tree' = [tree EXCEPT !.yaml[d] = updates[i].new],
             writes' = writes \ {i},
             wrote' = TRUE,
             UNCHANGED <<pc, torn>>
      PROVE  UpdateInv'
  <2>1. tree \in Trees
    BY DEF UpdateInv, TypeOK
  <2>2. /\ tree' \in Trees /\ tree'.block = tree.block /\ tree'.table = tree.table
        /\ tree'.node = tree.node /\ tree'.detail = tree.detail
        /\ \A e \in Lines :
             tree'.yaml[e] = IF e = d THEN updates[i].new ELSE tree.yaml[e]
    BY <1>4, <1>6, <2>1 DEF Trees
  <2>3. TypeOK'
    BY <1>2, <1>6, <2>2 DEF UpdateInv, TypeOK
  <2>4. \A j \in DOMAIN updates : j # i => updates[j].at # updates[i].at
    BY <1>3 DEF UpdateInv, Distinct
  <2>5. \A j \in DOMAIN updates : updates[j].at \in Lines
    BY UpdateType, TopologyAssumption
  <2>6. Sure => d = updates[i].at
    BY <1>2, <1>6, TakenLine
  <2>7. OldIsThere'
    BY <1>2, <1>6, <2>2, <2>4, <2>5, <2>6 DEF UpdateInv, OldIsThere
  <2>8. NewIsThere'
    BY <1>2, <1>3, <1>6, <2>2, <2>4, <2>5, <2>6 DEF UpdateInv, NewIsThere, Moves
  <2>9. HandbookFollows'
    <3> SUFFICES ASSUME OwnLines, ~torn, InStep(main), NEW c \in Containers
                 PROVE  \/ tree'.node[c] = tree'.yaml[c] /\ tree'.detail[c] = tree'.yaml[c]
                        \/ \E j \in Moves : /\ j \notin writes' /\ updates[j].at = c
                                             /\ tree'.detail[c] = updates[j].old
      BY <1>2, <1>6 DEF HandbookFollows, InStep, OwnLines
    <3>1. \/ tree.node[c] = tree.yaml[c] /\ tree.detail[c] = tree.yaml[c]
          \/ \E j \in Moves : /\ j \notin writes /\ updates[j].at = c
                               /\ tree.detail[c] = updates[j].old
      BY DEF UpdateInv, HandbookFollows
    <3>2. Sure /\ d = updates[i].at /\ c \in Lines
      BY <2>6, TopologyAssumption DEF Sure
    <3>3. CASE c = updates[i].at
      <4>1. tree.yaml[c] = updates[i].old
        BY <1>2, <1>3, <3>2, <3>3 DEF UpdateInv, OldIsThere
      <4>2. \A j \in Moves : j \notin writes => updates[j].at # c
        BY <2>4, <3>3 DEF Moves
      <4>3. tree'.detail[c] = updates[i].old
        BY <2>2, <3>1, <4>1, <4>2
      <4> QED
        BY <1>3, <1>6, <3>3, <4>3
    <3>4. CASE c # updates[i].at
      BY <1>6, <2>2, <3>1, <3>2, <3>4
    <3> QED
      BY <3>3, <3>4
  <2> QED
    BY <1>2, <1>5, <1>6, <2>2, <2>3, <2>7, <2>8, <2>9 DEF UpdateInv, RefusedMidway
<1>7. CASE /\ \A d \in Lines : SameImage(updates[i]) # {d}
           /\ pc' = "refused"
           /\ torn' = (torn \/ wrote)
           /\ UNCHANGED <<tree, writes, wrote>>
  <2>1. TypeOK'
    BY <1>2, <1>7 DEF UpdateInv, TypeOK
  <2>2. OldIsThere' /\ NewIsThere'
    BY <1>7 DEF OldIsThere, NewIsThere
  <2>3. HandbookFollows'
    <3>1. (OwnLines /\ ~torn' /\ InStep(main)) => InStep(tree)
      BY <1>7, FollowsOutside DEF UpdateInv, TypeOK
    <3> QED
      BY <1>2, <1>7, <3>1 DEF HandbookFollows, InStep, OwnLines
  <2>4. RefusedMidway'
    <3>1. SUFFICES ASSUME \A j \in Moves : updates[j].at \in Plain
                   PROVE  \E d, e \in Plain : /\ d # e
                                              /\ FileOf[d] = FileOf[e] /\ RepoOf[d] = RepoOf[e]
                                              /\ tree.yaml[d] = tree.yaml[e]
      BY <1>2, <1>7 DEF RefusedMidway
    <3> DEFINE own == updates[i].at
    <3>2. own \in Plain /\ Sure
      BY <1>3, <3>1 DEF Sure
    <3>3. tree.yaml[own] = updates[i].old
      BY <1>2, <1>3, <3>2 DEF UpdateInv, OldIsThere
    <3>4. own \in SameImage(updates[i])
      BY <3>2, <3>3 DEF SameImage
    <3>5. own \in Lines
      BY <3>2, TopologyAssumption
    <3>6. PICK e \in SameImage(updates[i]) : e # own
      BY <1>7, <3>4, <3>5
    <3>7. /\ e \in Plain /\ FileOf[e] = FileOf[own] /\ RepoOf[e] = RepoOf[own]
          /\ tree.yaml[e] = tree.yaml[own]
      BY <3>3, <3>6 DEF SameImage
    <3> QED
      BY <3>2, <3>6, <3>7
  <2> QED
    BY <1>2, <1>5, <1>7, <2>1, <2>2, <2>3, <2>4 DEF UpdateInv
<1> QED
  BY <1>1, <1>6, <1>7

\* The handbook's table is rebuilt and its references follow the moves.
LEMMA WriteHandbookStep ==
  ASSUME UpdateInv, WriteHandbook
  PROVE  UpdateInv'
<1>1. /\ pc = "write" /\ writes = {} /\ Moves' = Moves
      /\ UNCHANGED <<main, flags, project, asked, updates, writes, wrote>>
  BY DEF WriteHandbook, run, Moves
<1>2. pc' = "done" /\ tree' = update_html(tree, HtmlUpdates) /\ UNCHANGED torn
  BY <1>1 DEF WriteHandbook, UpdateInv
<1> DEFINE table == pins_table(tree, HtmlUpdates)
           moved(c) == \E u \in HtmlUpdates : u.at = c
           node == [c \in Containers |->
                      IF moved(c) THEN NewDigest(HtmlUpdates, c) ELSE tree.node[c]]
           detail == [c \in Containers |->
                      IF \E u \in HtmlUpdates : u.at = c /\ u.old = tree.detail[c]
                        THEN NewDigest(HtmlUpdates, c) ELSE tree.detail[c]]
<1>3. tree' = [tree EXCEPT !.table = table, !.node = node, !.detail = detail]
  BY <1>2, Zenon DEF update_html
<1>4. tree \in Trees
  BY DEF UpdateInv, TypeOK
<1>5. \A c \in Containers : moved(c) =>
        /\ OwnLines => tree.yaml[c] = NewDigest(HtmlUpdates, c)
        /\ NewDigest(HtmlUpdates, c) \in Digests
        /\ \E i \in Moves : updates[i].at = c
  <2> TAKE c \in Containers
  <2> HAVE moved(c)
  <2>1. PICK i \in Moves : updates[i].at = c
    BY DEF HtmlUpdates
  <2>2. OwnLines => tree.yaml[c] = updates[i].new
    BY <1>1, <2>1 DEF UpdateInv, NewIsThere, Sure
  <2>3. NewDigest(HtmlUpdates, c) = updates[i].new
    BY <2>1, NewDigestIs
  <2>4. updates[i].new \in Digests
    BY <2>1, UpdateType DEF Moves
  <2> QED
    BY <2>1, <2>2, <2>3, <2>4
<1>6. \A c \in Containers : tree.yaml[c] \in Digests /\ tree.node[c] \in Digests
                           /\ tree.detail[c] \in Digests
  BY <1>4, TopologyAssumption DEF Trees
<1>7. OwnLines => \A c \in Containers : table[c] = tree.yaml[c]
  BY <1>5 DEF pins_table
<1>8. table \in [Containers -> Digests]
  BY <1>5, <1>6 DEF pins_table
<1>9. node \in [Containers -> Digests] /\ detail \in [Containers -> Digests]
  BY <1>5, <1>6
<1>10. OwnLines =>
       /\ \A c \in Containers : moved(c) => node[c] = tree.yaml[c]
       /\ \A c \in Containers : ~moved(c) => node[c] = tree.node[c] /\ detail[c] = tree.detail[c]
       /\ \A c \in Containers : (moved(c) /\ tree.detail[c] = tree.yaml[c])
                                   => detail[c] = tree.yaml[c]
       /\ \A c \in Containers : (\E u \in HtmlUpdates : u.at = c /\ u.old = tree.detail[c])
                                   => detail[c] = tree.yaml[c]
  BY <1>5
<1>11. \A i \in Moves : updates[i] \in HtmlUpdates
  BY DEF HtmlUpdates
<1> HIDE DEF table, node, detail, moved
<1>12. /\ tree' \in Trees /\ tree'.yaml = tree.yaml /\ tree'.table = table
       /\ tree'.node = node /\ tree'.detail = detail
  BY <1>3, <1>4, <1>8, <1>9 DEF Trees
<1>13. ASSUME OwnLines, ~torn, InStep(main), NEW c \in Containers
       PROVE  node[c] = tree.yaml[c] /\ detail[c] = tree.yaml[c]
  <2>1. CASE tree.node[c] = tree.yaml[c] /\ tree.detail[c] = tree.yaml[c]
    BY <1>10, <1>13, <2>1
  <2>2. CASE \E i \in Moves : updates[i].at = c /\ tree.detail[c] = updates[i].old
    <3>1. \E u \in HtmlUpdates : u.at = c /\ u.old = tree.detail[c]
      BY <1>11, <2>2
    <3>2. moved(c)
      BY <3>1 DEF moved
    <3> QED
      BY <1>10, <1>13, <3>1, <3>2
  <2> QED
    BY <1>13, <2>1, <2>2 DEF UpdateInv, HandbookFollows
<1>14. TypeOK'
  BY <1>1, <1>2, <1>12 DEF UpdateInv, TypeOK
<1>15. Distinct' /\ OldIsThere' /\ NewIsThere' /\ Inspected'
  BY <1>1, <1>2 DEF UpdateInv, Distinct, OldIsThere, NewIsThere, Inspected
<1>16. HandbookFollows'
  BY <1>1, <1>2, <1>12, <1>13 DEF HandbookFollows, InStep, OwnLines
<1>17. TellsPins(tree)' /\ TellsPins(main)'
  BY <1>1, <1>7, <1>12 DEF UpdateInv, TellsPins, OwnLines
<1> QED
  BY <1>1, <1>2, <1>12, <1>14, <1>15, <1>16, <1>17 DEF UpdateInv, RefusedMidway

LEMMA NextInv ==
  ASSUME UpdateInv, [Next]_vars
  PROVE  UpdateInv'
<1>0. /\ main \in Trees /\ tree \in Trees /\ torn \in BOOLEAN /\ project \in Projects
      /\ TellsPins(main)
  BY DEF UpdateInv, TypeOK
<1>1. ASSUME NEW p \in Projects, NEW roles \in RoleLists, NEW options \in Options,
             Start(p, roles, options)
      PROVE  UpdateInv'
  BY <1>1, StartStep
<1>2. ASSUME NEW link \in Links, NEW answer \in Digests \cup {NoDigest}, Resolve(link, answer)
      PROVE  UpdateInv'
  BY <1>2, ResolveStep
\* The invocation ends and main and the worktree stay.
<1>3. ASSUME Forget, pc' \in {"idle", "refused", "killed"}, UNCHANGED <<main, tree>>,
             torn' \in BOOLEAN, torn' \/ (~torn /\ (pc # "write" \/ ~wrote))
      PROVE  UpdateInv'
  <2>1. (OwnLines /\ ~torn' /\ InStep(main')) => InStep(tree')
    BY <1>3, FollowsOutside DEF InStep
  <2>2. TellsPins(main')
    BY <1>0, <1>3 DEF TellsPins
  <2> QED
    BY <1>0, <1>3, <2>1, <2>2, EndStep
<1>4. CASE ResolveRefused
  BY <1>0, <1>3, <1>4 DEF ResolveRefused
<1>5. CASE Crash
  BY <1>0, <1>3, <1>5 DEF Crash, UpdateInv, TypeOK
<1>6. CASE Again
  BY <1>0, <1>3, <1>6 DEF Again, Ended
<1>7. CASE Isolate
  <2>1. InStep(main') => InStep(tree')
    BY <1>7 DEF Isolate, InStep
  <2>2. TellsPins(main')
    BY <1>0, <1>7 DEF Isolate, TellsPins
  <2> QED
    BY <1>0, <1>7, <2>1, <2>2, EndStep DEF Isolate
<1>8. CASE Land
  <2>1. TellsPins(main')
    BY <1>8 DEF Land, UpdateInv, TellsPins
  <2>2. InStep(main') => InStep(tree')
    BY <1>8 DEF Land, InStep
  <2> QED
    BY <1>0, <1>8, <2>1, <2>2, EndStep DEF Land
<1>9. CASE EditHandbook
  <2>1. /\ main' \in Trees /\ main'.table = main.table /\ main'.yaml = main.yaml
        /\ main'.node = main.node /\ main'.detail = main.detail
    BY <1>0, <1>9 DEF EditHandbook, Trees
  <2>2. UNCHANGED <<tree, pc, flags, project, asked, updates, writes, wrote, torn>>
    BY <1>9 DEF EditHandbook, run
  <2>3. Moves' = Moves /\ Sure' = Sure
    BY <2>2 DEF Moves, Sure, OwnLines
  <2>4. TypeOK'
    BY <2>1, <2>2 DEF UpdateInv, TypeOK
  <2>5. Distinct' /\ OldIsThere' /\ NewIsThere' /\ Inspected'
    BY <2>2, <2>3 DEF UpdateInv, Distinct, OldIsThere, NewIsThere, Inspected
  <2>6. HandbookFollows' /\ TellsPins(main)' /\ (pc = "done" => TellsPins(tree)')
    BY <2>1, <2>2, <2>3 DEF UpdateInv, HandbookFollows, InStep, TellsPins, OwnLines
  <2>7. RefusedMidway'
    BY <2>2, <2>3 DEF UpdateInv, RefusedMidway
  <2> QED
    BY <2>1, <2>2, <2>3, <2>4, <2>5, <2>6, <2>7 DEF UpdateInv
<1>10. CASE UNCHANGED vars
  <2>1. Moves' = Moves /\ Sure' = Sure
    BY <1>10 DEF vars, run, Moves, Sure, OwnLines
  <2>2. HandbookFollows' /\ TellsPins(main)' /\ (pc = "done" => TellsPins(tree)')
    BY <1>10, <2>1 DEF vars, run, UpdateInv, HandbookFollows, InStep, TellsPins, OwnLines
  <2> QED
    BY <1>10, <2>1, <2>2 DEF vars, run, UpdateInv, TypeOK, Distinct, OldIsThere, NewIsThere,
       Inspected, RefusedMidway
<1> QED
  BY <1>1, <1>2, <1>4, <1>5, <1>6, <1>7, <1>8, <1>9, <1>10,
     ComputeStep, WriteStep, WriteHandbookStep DEF Next

-----------------------------------------------------------------------------
(* The theorems.                                                            *)

LEMMA Invariant == Spec => []UpdateInv
<1>1. UpdateInv /\ [Next]_vars => UpdateInv'
  BY NextInv
<1> QED
  BY <1>1, InitInv, PTL DEF Spec

\* The worktree, main and the state of the helper have their types, for any
\* number of roles and containers.
THEOREM TypeCorrect == Spec => []TypeOK
<1>1. UpdateInv => TypeOK
  BY DEF UpdateInv
<1> QED
  BY <1>1, Invariant, PTL

\* Where lines cannot be mistaken, the pins table on main is the image lines on
\* main (pins_table).
THEOREM TableIsThePins == Spec => []TableTellsPins
<1>1. UpdateInv => TableTellsPins
  BY DEF UpdateInv, TableTellsPins, TellsPins
<1> QED
  BY <1>1, Invariant, PTL

\* A refused run has written something only when a file holds lines that
\* replace_image cannot tell apart, or one of its containers' lines is not one
\* that it can read (run_update, replace_image).
THEOREM OnlyUnclearLinesRefuse == Spec => []RefusedMidway
<1>1. UpdateInv => RefusedMidway
  BY DEF UpdateInv
<1> QED
  BY <1>1, Invariant, PTL

\* Image lines are moved to deployable images only (validate_image), also those
\* of another container that were taken for the right one.
THEOREM MovesAreDeployable == Spec => PinnedIsDeployable
<1> DEFINE step == \A d \in Lines :
          (pc = "write" /\ "skip" \notin flags /\ tree'.yaml[d] # tree.yaml[d]) =>
              Deployable(Image[tree'.yaml[d]])
<1>1. ASSUME UpdateInv, [Next]_vars, NEW d \in Lines, pc = "write",
             "skip" \notin flags, tree'.yaml[d] # tree.yaml[d]
      PROVE  Deployable(Image[tree'.yaml[d]])
  <2>1. tree \in Trees
    BY <1>1 DEF UpdateInv, TypeOK
  <2>2. Write
    <3>1. \A table, node, detail :
            [tree EXCEPT !.table = table, !.node = node, !.detail = detail].yaml = tree.yaml
      BY <2>1 DEF Trees
    <3>2. update_html(tree, HtmlUpdates).yaml = tree.yaml
      BY <3>1 DEF update_html
    <3>3. ~WriteHandbook
      BY <1>1, <3>2 DEF WriteHandbook
    <3>4. tree' # tree
      BY <1>1
    <3> QED
      BY <1>1, <3>3, <3>4 DEF Next, vars, Start, Resolve, ResolveRefused, Compute, Crash,
                Again, Isolate, Land, EditHandbook, Ended
  <2>3. PICK i \in writes : \E e \in Lines :
           tree' = [tree EXCEPT !.yaml[e] = updates[i].new]
    BY <1>1, <2>2 DEF Write
  <2>4. PICK e \in Lines : tree' = [tree EXCEPT !.yaml[e] = updates[i].new]
    BY <2>3
  <2>5. i \in Moves
    BY <1>1, <2>3 DEF UpdateInv
  <2>6. tree'.yaml[d] = updates[i].new
    BY <1>1, <2>1, <2>4 DEF Trees
  <2> QED
    BY <1>1, <2>5, <2>6 DEF UpdateInv, Inspected
<1>2. UpdateInv /\ [Next]_vars => [step]_vars
  BY <1>1
<1> HIDE DEF step
<1>3. Spec => [][step]_vars
  BY <1>2, Invariant, PTL DEF Spec
<1> QED
  BY <1>3 DEF step, PinnedIsDeployable

\* What lands keeps the diagram and the details at the pinned digests, unless
\* lines can be mistaken or a run died in the worktree after it had written
\* (update_html).
THEOREM LandedInStep == Spec => LandsInStep
<1> DEFINE step == (OwnLines /\ main'.yaml # main.yaml /\ ~torn /\ InStep(main))
                      => InStep(main')
<1>1. ASSUME UpdateInv, [Next]_vars, OwnLines, main'.yaml # main.yaml, ~torn, InStep(main)
      PROVE  InStep(main')
  <2>1. main \in Trees
    BY <1>1 DEF UpdateInv, TypeOK
  <2>2. ~EditHandbook
    BY <1>1, <2>1 DEF EditHandbook, Trees
  <2>3. Land
    BY <1>1, <2>2 DEF Next, vars, Start, Resolve, ResolveRefused, Compute, Write, WriteHandbook,
                      Crash, Again, Isolate
  <2>4. pc = "done" /\ main' = tree
    BY <2>3 DEF Land
  <2>5. InStep(tree)
    BY <1>1, <2>4, FollowsOutside
  <2> QED
    BY <2>4, <2>5 DEF InStep
<1>2. UpdateInv /\ [Next]_vars => [step]_vars
  BY <1>1
<1> HIDE DEF step
<1>3. Spec => [][step]_vars
  BY <1>2, Invariant, PTL DEF Spec
<1> QED
  BY <1>3 DEF step, LandsInStep

=============================================================================
