--------------------------- MODULE MCImageUpdate ---------------------------
(***************************************************************************)
(* The instances TLC checks: a web container alone in its workload file;   *)
(* in another file an api container, its init container of the same        *)
(* repository, to whose digest the api can be moved so that their lines    *)
(* are the same, and a job whose line the helper cannot read.              *)
(***************************************************************************)
EXTENDS ImageUpdate

MCContainers == {"web", "api", "job"}
MCLines == MCContainers \cup {"init"}
MCPlain == MCLines \ {"job"}
MCProjectOf == [c \in Containers |-> "pn"]
MCFileOf == [d \in Lines |-> IF d \in {"api", "init", "job"} THEN "api" ELSE "app"]
MCRepoOf == [d \in Lines |-> CASE d = "job" -> "job"
                               [] d \in {"api", "init"} -> "api"
                               [] OTHER -> "app"]
MCPinned == [d \in Lines |-> IF d \in {"init", "job"} THEN "unlabelled" ELSE "sound"]

\* "site" is another name for the web container.
MCScore == [c \in Containers |-> [role \in Roles |->
    CASE role = c -> 100
      [] role = "site" /\ c = "web" -> 80
      [] OTHER -> 0]]

Sound == [index |-> TRUE, platforms |-> Platforms, readable |-> TRUE, runnable |-> TRUE,
          tidy |-> TRUE, source |-> "own", revision |-> Commit]

MCImage == [d \in Digests |->
    CASE d = "one arch" -> [Sound EXCEPT !.platforms = {"linux/amd64"}]
      [] d = "unlabelled" -> [Sound EXCEPT !.source = NoLabel, !.revision = NoLabel]
      [] OTHER -> Sound]

\* Without --skip-validation: a third digest to write makes the instance too big.
MCOptions == {{}, {"dry"}, {"strict", "allow"}}

\* The line of the web container is not plain and the worker has its image.
MistakenContainers == {"web", "worker"}
MistakenPlain == {"worker"}
MistakenPinned == [d \in Lines |-> "sound"]
=============================================================================
