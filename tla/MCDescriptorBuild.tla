-------------------------- MODULE MCDescriptorBuild ---------------------------
(***************************************************************************)
(* Instances of DescriptorBuild for TLC: what the workspaces hold and the  *)
(* flags of the builds; the builds of one group share a behaviour.         *)
(***************************************************************************)
EXTENDS DescriptorBuild, TLC

CONSTANTS left, right, mirror, py3, appRepo,
          bare, copied, locked, stale, outdated, private, yarned, empty, phpBare, phpLocked, script, cloned,
          b1, b2, b3, b4, b5, b6, b7, b8, b9, b10, b11, b12, b13, b14

Json(needs)   == [lock |-> Absent, yarn |-> Absent, npmrc |-> Absent,
                  manifest |-> [needs |-> needs, gcp |-> FALSE]]
LockOf(needs) == [needs |-> needs, release |-> 0]
GcpBuildOf(d) == [d EXCEPT !.manifest.gcp = TRUE]

\* bare and copied are checkouts of one project without a lock file, script and
\* cloned of one with a gcp-build script; locked and private have the same lock
\* file, and private has its own registry in .npmrc; the lock file of stale
\* and outdated, checkouts of one project, is for another manifest.
Projects ==
  bare      :> Json(left) @@
  copied    :> Json(left) @@
  locked    :> [Json(left) EXCEPT !.lock = LockOf(left)] @@
  stale     :> [Json(left) EXCEPT !.lock = LockOf(right)] @@
  outdated  :> [Json(left) EXCEPT !.lock = LockOf(right)] @@
  private   :> [Json(left) EXCEPT !.lock = LockOf(left), !.npmrc = mirror] @@
  yarned    :> GcpBuildOf([Json(left) EXCEPT !.yarn = LockOf(right)]) @@
  script    :> GcpBuildOf(Json(left)) @@
  cloned    :> GcpBuildOf(Json(left)) @@
  empty     :> [Json(left) EXCEPT !.manifest = Empty] @@
  phpBare   :> Json(left) @@
  phpLocked :> [Json(left) EXCEPT !.lock = LockOf(right)]

\* The flags a build has when none is given.
Default(lang, dir) ==
  [lang |-> lang, dir |-> dir, env |-> py3, repo |-> appRepo, ttlGiven |-> FALSE,
   cache |-> TRUE, upload |-> TRUE, useGlobal |-> FALSE,
   tarball |-> FALSE, failOnError |-> TRUE]

\* b2 runs under --succeed-on-error and with --output-path, b3 has a --ttl.
AllConfig ==
  b1  :> Default("node", bare) @@
  b2  :> [Default("node", bare) EXCEPT !.failOnError = FALSE, !.tarball = TRUE] @@
  b3  :> [Default("node", bare) EXCEPT !.ttlGiven = TRUE] @@
  b4  :> Default("node", copied) @@
  b5  :> Default("node", locked) @@
  b6  :> Default("node", private) @@
  b7  :> Default("node", stale) @@
  b8  :> Default("node", yarned) @@
  b9  :> Default("node", script) @@
  b10 :> Default("node", empty) @@
  b11 :> Default("php", phpBare) @@
  b12 :> Default("php", phpLocked) @@
  b13 :> Default("node", outdated) @@
  b14 :> Default("php", phpLocked)
AllGroups == {{b1, b2}, {b1, b3}, {b1, b4}, {b5, b6}, {b5, b7}, {b7, b13}, {b8}, {b9},
              {b10}, {b11}, {b12, b14}}
SomeFaults == [b \in Builds |-> IF b \in {b2, b8, b9, b10, b11} THEN 1 ELSE 0]

\* Two checkouts of one project.
TwiceConfig == b1 :> Default("node", script) @@ b2 :> Default("node", cloned)
Alone       == {Builds}
NoFaults    == [b \in Builds |-> 0]

===============================================================================
