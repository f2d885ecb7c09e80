---------------------------- MODULE MCPipfileBuild ----------------------------
(***************************************************************************)
(* Instances of PipfileBuild for TLC.  A configuration gives each build    *)
(* its lock file and its flags; the builds of one group share a behaviour. *)
(***************************************************************************)
EXTENDS PipfileBuild, TLC

CONSTANTS click, flask, six, b1, b2, b3, b4, b5, b6, b7, py2, py3, appRepo, globalRepo

\* The flags a build has when none is given.
Default(lock) ==
  [lock |-> lock, env |-> py3, repo |-> appRepo, ttlGiven |-> FALSE,
   cache |-> TRUE, upload |-> TRUE, useGlobal |-> FALSE,
   tarball |-> FALSE, failOnError |-> TRUE]

\* b1 has more packages than threads, and --no-cache; b2 has a package in common
\* with b3, and --no-upload with --output-path; b3 runs under
\* --succeed-on-error; b4 is for another interpreter, and b5 has a --ttl.
PoolConfig ==
  b1 :> [Default({click, flask, six}) EXCEPT !.cache = FALSE] @@
  b2 :> [Default({click, flask}) EXCEPT !.upload = FALSE, !.tarball = TRUE] @@
  b3 :> [Default({click}) EXCEPT !.failOnError = FALSE] @@
  b4 :> [Default({click}) EXCEPT !.env = py2] @@
  b5 :> [Default({click}) EXCEPT !.ttlGiven = TRUE]
PoolGroups == {{b1}, {b2, b3}, {b3, b4}, {b3, b5}}
PoolFaults == [b \in Builds |-> CASE b = b1 -> 2 [] b = b3 -> 1 [] OTHER -> 0]

\* b1 and b2 share a repository.  b3 fills the global one, and b4 reads it
\* before its own.  b5 fills the global one, too, b6 and b7 read it before the
\* repository they share, and b7, with --no-upload, only reads.  Of these, b3 and
\* b4 have a package, the others only the interpreter.
ClockConfig ==
  b1 :> Default({}) @@
  b2 :> Default({}) @@
  b3 :> [Default({click}) EXCEPT !.repo = globalRepo] @@
  b4 :> [Default({click}) EXCEPT !.useGlobal = TRUE] @@
  b5 :> [Default({}) EXCEPT !.repo = globalRepo] @@
  b6 :> [Default({}) EXCEPT !.useGlobal = TRUE] @@
  b7 :> [Default({}) EXCEPT !.useGlobal = TRUE, !.upload = FALSE]
ClockGroups  == {{b1, b2}, {b3, b4}, {b5, b6, b7}}
ClockFaults  == [b \in Builds |-> IF b = b2 THEN 1 ELSE 0]
Alone        == {Builds}

\* The same build without --ttl, and then with it.
TtlConfig ==
  b1 :> Default({click}) @@
  b2 :> [Default({click}) EXCEPT !.ttlGiven = TRUE]

NoFaults == [b \in Builds |-> 0]

===============================================================================
