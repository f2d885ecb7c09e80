-------------------------- MODULE MCRequirementsBuild --------------------------
(***************************************************************************)
(* An instance of RequirementsBuild for TLC: projects that share a cache,  *)
(* some of them with the same text in one descriptor and another text in   *)
(* the next; the builds of one group share a behaviour.                    *)
(***************************************************************************)
EXTENDS RequirementsBuild, TLC

CONSTANTS click, flask, six, base, dev, b1, b2, b3, b4, b5, b6, b7, b8, b9, b10, pip1, py3,
          appRepo, globalRepo

List(pkgs, refs) == [pkgs |-> pkgs, refs |-> refs]

\* A project with nothing but a requirements.txt, and with no flags.
Project(req) ==
  [files |-> [pipfile |-> Absent, req |-> req, other |-> NoOthers],
   env |-> py3, repo |-> appRepo, ttlGiven |-> FALSE, cache |-> TRUE, upload |-> TRUE,
   useGlobal |-> FALSE, tarball |-> FALSE, failOnError |-> TRUE]

Including(req, f, list) == [Project(req) EXCEPT !.files.other[f] = list]

\* b1 and b2 are checkouts of one project, and b3 has the same requirements.txt
\* with another base.txt.  b4 and b5 have one Pipfile and different
\* requirements, b6 only the Pipfile.  b7 includes a file that includes one,
\* b8 one that is not there.  b9 asks for nothing and has a --ttl.  b10 has more
\* packages than threads, and --no-cache.
MCConfig ==
  b1 :> Including(List({click}, {base}), base, List({flask}, {})) @@
  b2 :> [Including(List({click}, {base}), base, List({flask}, {}))
          EXCEPT !.useGlobal = TRUE, !.failOnError = FALSE] @@
  b3 :> Including(List({click}, {base}), base, List({}, {})) @@
  b4 :> [Project(List({click}, {})) EXCEPT !.files.pipfile = pip1] @@
  b5 :> [Project(List({flask}, {})) EXCEPT !.files.pipfile = pip1, !.tarball = TRUE,
                                           !.upload = FALSE] @@
  b6 :> [Project(Empty) EXCEPT !.files.pipfile = pip1, !.repo = globalRepo] @@
  b7 :> [Including(List({}, {base}), base, List({click}, {dev}))
          EXCEPT !.files.other[dev] = List({flask}, {})] @@
  b8 :> Project(List({flask}, {dev})) @@
  b9 :> [Project(List({}, {})) EXCEPT !.ttlGiven = TRUE] @@
  b10 :> [Project(List({click, flask, six}, {})) EXCEPT !.cache = FALSE]
Groups   == {{b1, b2}, {b1, b3}, {b2, b6}, {b4, b5}, {b7, b9}, {b8}, {b10}}
MCFaults == [b \in Builds |-> CASE b = b10 -> 2 [] b \in {b1, b4} -> 1 [] OTHER -> 0]

===============================================================================
