------------------------------- MODULE DeployApp -------------------------------
(***************************************************************************)
(* The programs that deploy a sample application, test it and take it down *)
(* again: the integration test driver (testsuite/driver.py), on App Engine *)
(* or on Kubernetes Engine, and deploy_check.py, which deploys once for    *)
(* each value of gcloud's flag app/use_runtime_builders.  Both go through  *)
(* testsuite/deploy_app.py.                                                *)
(*                                                                         *)
(* What outlives a program is modelled as state: the versions and the      *)
(* namespaces, the files generated in the application's directory and the  *)
(* flag.  Programs that are started together share the last two.  Every    *)
(* command may fail, with or without its effect, and a program may be      *)
(* killed anywhere.                                                        *)
(***************************************************************************)
EXTENDS Integers, Sequences, FiniteSets

CONSTANTS
  Drivers,      \* runs of driver.py
  Checks,       \* runs of deploy_check.py
  Sessions,     \* sets of programs that are started together
  Args,         \* Args[p]: [dir, env, image, builder, yaml, url] of a program
  Flows,        \* Flows[c]: the values of the flag that check c deploys with
  Dirs,         \* directories of applications
  Absolute,     \* ... of which these are given as absolute paths
  WithDockerfile, \* ... and these have a Dockerfile of their own
  Images, Builders,
  UrlAttempts,  \* bounds of @retry: retrieve_url_for_version
  IpAttempts,   \* get_external_ip_for_cluster
  ProbeAttempts, \* _test_application
  StopAttempts, \* stop_version
  Own,          \* the content of a Dockerfile of the application
  None

Programs == Drivers \cup Checks

\* A check deploys once for each of its flows, a driver once.
Deployments == (Drivers \X {1}) \cup {v \in Checks \X {1, 2} : v[2] <= Len(Flows[v[1]])}

ASSUME DeployAssumption ==
  /\ Sessions \subseteq SUBSET Programs
  /\ Absolute \subseteq Dirs /\ WithDockerfile \subseteq Dirs
  /\ Args \in [Programs -> [dir : Dirs, env : {"GAE", "GKE"}, image : Images \cup {None},
                            builder : Builders \cup {None}, yaml : BOOLEAN, url : BOOLEAN]]
  /\ Flows \in [Checks -> {<<>>, <<FALSE>>, <<TRUE>>, <<FALSE, TRUE>>}]
  /\ {UrlAttempts, IpAttempts, ProbeAttempts, StopAttempts} \subseteq Nat \ {0}

\* A driver without a url has something to deploy.
ASSUME DriverAssumption ==
  \A d \in Drivers : Args[d].url \/ Args[d].image # None \/ Args[d].builder # None

\* deploy_check deploys a directory as it is, to App Engine.
ASSUME CheckAssumption ==
  \A c \in Checks : Args[c] = [dir |-> Args[c].dir, env |-> "GAE", image |-> None,
                               builder |-> None, yaml |-> FALSE, url |-> FALSE]

FlagValues == {TRUE, FALSE, None}

\* What a deployment is made from.
Contents == [image : Images \cup {Own, None}, builder : Builders \cup {None},
             flag : FlagValues]

VARIABLES
  flag,       \* app/use_runtime_builders in gcloud's configuration
  dockerfile, \* Dockerfile of a directory
  testYaml,   \* test.yaml of a directory
  live,       \* the versions and namespaces there are, with their content
  services,   \* the namespaces with a service in them
  pc,         \* control point of a program
  round,      \* which of its deployments a program is at
  tries,      \* attempts of the @retry a program is in
  previous,   \* prev_builder_value
  built,      \* the image a driver has pushed
  passed,     \* result of _test_app
  unhandled,  \* history: deployments with an error no except clause cleans up after
  stops,      \* history: attempts to delete the version that failed, until one succeeds
  crossed,    \* history: programs whose directory or flag another one has
              \* changed while they were using it
  found       \* history: the flag before any program was started

world   == <<flag, dockerfile, testYaml, live, services>>
locals  == <<round, tries, previous, built, passed>>
history == <<unhandled, stops, crossed, found>>
vars    == <<world, pc, locals, history>>

Dir(p) == Args[p].dir
\* deployed_version or namespace: a fresh token.
D(p)   == <<p, round[p]>>

GoTo(p, l) == pc' = [pc EXCEPT ![p] = l]

Ended == {"success", "failure", "killed"}
Stage == {"idle", "new", "flow", "base", "builder", "deploy", "url", "undo", "image",
          "namespace", "apply", "ip", "returning", "raising", "record", "contact", "probe",
          "test", "stop", "services", "delete_namespace"} \cup Ended

\* p is between the first and the last of its steps that need the directory.
InDir(p) ==
  pc[p] \in {"builder", "deploy", "url", "undo", "image", "namespace", "apply", "ip",
             "returning", "raising"}
NeedsFlag(p) == p \in Checks /\ pc[p] \notin {"idle", "new"} \cup Ended

CrossDir(p)  == crossed' = crossed \cup {q \in Programs \ {p} : Dir(q) = Dir(p) /\ InDir(q)}
CrossFlag(p) == crossed' = crossed \cup {q \in Programs \ {p} : NeedsFlag(q)}

\* Args[p].yaml: --yaml names the test.yaml of the directory.  gcloud takes it
\* only then; it takes app.yaml otherwise, and Kubernetes Engine takes neither.
TakesYaml(p) == Args[p].yaml /\ Args[p].env = "GAE"

Content(p) == [image |-> dockerfile[Dir(p)],
               builder |-> IF TakesYaml(p) THEN testYaml[Dir(p)] ELSE None,
               flag |-> flag]

\* Attempt number tries + 1 of at most n failed: again, or on with the error.
Retry(p, n, l) ==
  LET last == tries[p] + 1 >= n
  IN  /\ tries' = [tries EXCEPT ![p] = IF last THEN 0 ELSE @ + 1]
      /\ IF last THEN GoTo(p, l) ELSE UNCHANGED pc

\* ... and succeeded.
Succeed(p, l) == tries' = [tries EXCEPT ![p] = 0] /\ GoTo(p, l)

-------------------------------------------------------------------------------
(***************************************************************************)
(* deploy_check.py: main and its flag.                                     *)
(***************************************************************************)

\* Mutant of ReadFlag: the test is of the value, not of its presence.
ReadTrueFlag(p) ==
  /\ p \in Checks /\ pc[p] = "new"
  /\ previous' = [previous EXCEPT ![p] = IF flag = TRUE THEN TRUE ELSE None]
  /\ GoTo(p, "flow")
  /\ UNCHANGED <<world, round, tries, built, passed, history>>

ReadFlag(p) ==
  /\ p \in Checks /\ pc[p] = "new"
  /\ previous' = [previous EXCEPT ![p] = flag]
  /\ GoTo(p, "flow")
  /\ UNCHANGED <<world, round, tries, built, passed, history>>

\* The next flow that is not skipped, ...
SetFlag(p) ==
  /\ p \in Checks /\ pc[p] = "flow" /\ round[p] <= Len(Flows[p])
  /\ flag' = Flows[p][round[p]]
  /\ CrossFlag(p)
  /\ GoTo(p, "base")
  /\ UNCHANGED <<dockerfile, testYaml, live, services, locals, unhandled, stops, found>>

\* ... and after the last one the previous value.
RestoreFlag(p) ==
  /\ p \in Checks /\ pc[p] = "flow" /\ round[p] > Len(Flows[p])
  /\ flag' = previous[p]
  /\ CrossFlag(p)
  /\ GoTo(p, "success")
  /\ UNCHANGED <<dockerfile, testYaml, live, services, locals, unhandled, stops, found>>

\* gcloud config fails: the program ends where it is.
ConfigFails(p) ==
  /\ p \in Checks /\ pc[p] \in {"new", "flow"}
  /\ GoTo(p, "failure")
  /\ UNCHANGED <<world, locals, history>>

\* driver.py: _main.
StartDriver(p) ==
  /\ p \in Drivers /\ pc[p] = "new"
  /\ GoTo(p, IF Args[p].url THEN "test" ELSE "base")
  /\ UNCHANGED <<world, locals, history>>

-------------------------------------------------------------------------------
(***************************************************************************)
(* deploy_app.py: deploy_app.                                              *)
(***************************************************************************)

\* Mutant of SetBaseImage: a Dockerfile that is there is kept.
KeepDockerfile(p) ==
  /\ pc[p] = "base"
  /\ dockerfile' =
       IF Args[p].image = None \/ dockerfile[Dir(p)] # None THEN dockerfile
       ELSE [dockerfile EXCEPT ![Dir(p)] = Args[p].image]
  /\ IF Args[p].image = None THEN UNCHANGED crossed ELSE CrossDir(p)
  /\ GoTo(p, "builder")
  /\ UNCHANGED <<flag, testYaml, live, services, locals, unhandled, stops, found>>

SetBaseImage(p) ==
  /\ pc[p] = "base"
  /\ IF Args[p].image = None THEN UNCHANGED <<dockerfile, crossed>>
     ELSE dockerfile' = [dockerfile EXCEPT ![Dir(p)] = Args[p].image] /\ CrossDir(p)
  /\ GoTo(p, "builder")
  /\ UNCHANGED <<flag, testYaml, live, services, locals, unhandled, stops, found>>

SetBuilderImage(p) ==
  /\ pc[p] = "builder"
  /\ IF Args[p].builder = None THEN UNCHANGED <<testYaml, crossed>>
     ELSE testYaml' = [testYaml EXCEPT ![Dir(p)] = Args[p].builder] /\ CrossDir(p)
  /\ GoTo(p, IF Args[p].env = "GAE" THEN "deploy" ELSE "image")
  /\ UNCHANGED <<flag, dockerfile, live, services, locals, unhandled, stops, found>>

\* The template cannot be opened.
NoTemplate(p) ==
  /\ \/ pc[p] = "base" /\ Args[p].image # None
     \/ pc[p] = "builder" /\ Args[p].builder # None
  /\ GoTo(p, "raising")
  /\ UNCHANGED <<world, locals, history>>

\* deploy_app_gae: gcloud app deploy, ...
DeployGae(p) ==
  /\ pc[p] = "deploy" /\ (TakesYaml(p) => testYaml[Dir(p)] # None)
  /\ live' = [live EXCEPT ![D(p)] = Content(p)]
  /\ GoTo(p, "url")
  /\ UNCHANGED <<flag, dockerfile, testYaml, services, locals, history>>

\* ... whose failure is no CalledProcessError, whatever it has left behind, ...
DeployGaeFails(p) ==
  /\ pc[p] = "deploy"
  /\ \E c \in {Content(p), None} : live' = [live EXCEPT ![D(p)] = c]
  /\ unhandled' = unhandled \cup {D(p)}
  /\ GoTo(p, "raising")
  /\ UNCHANGED <<flag, dockerfile, testYaml, services, locals, stops, crossed, found>>

\* ... and retrieve_url_for_version, ...
RetrieveUrl(p) ==
  /\ pc[p] = "url"
  /\ Succeed(p, "returning")
  /\ UNCHANGED <<world, round, previous, built, passed, history>>

\* Mutant of RetrieveUrlFails: @retry without stop_max_attempt_number.  The
\* attempts are counted round and round.
RetrieveUrlForever(p) ==
  /\ pc[p] = "url"
  /\ tries' = [tries EXCEPT ![p] = (@ + 1) % UrlAttempts]
  /\ UNCHANGED <<world, pc, round, previous, built, passed, history>>

\* Mutant of RetrieveUrlFails: no attempt to remove the version.
RetrieveUrlRaises(p) ==
  /\ pc[p] = "url"
  /\ Retry(p, UrlAttempts, "raising")
  /\ UNCHANGED <<world, round, previous, built, passed, history>>

\* ... whose last CalledProcessError leads to stop_version, ...
RetrieveUrlFails(p) ==
  /\ pc[p] = "url"
  /\ Retry(p, UrlAttempts, "undo")
  /\ UNCHANGED <<world, round, previous, built, passed, history>>

\* ... but not the ValueError of an answer that is no JSON.
UrlGarbled(p) ==
  /\ pc[p] = "url"
  /\ Retry(p, UrlAttempts, "raising")
  /\ unhandled' = IF tries[p] + 1 >= UrlAttempts THEN unhandled \cup {D(p)} ELSE unhandled
  /\ UNCHANGED <<world, round, previous, built, passed, stops, crossed, found>>

\* deploy_app_gke: docker build and push, credentials, ...
BuildImage(p) ==
  /\ pc[p] = "image" /\ dockerfile[Dir(p)] # None
  /\ built' = [built EXCEPT ![p] = Content(p)]
  /\ GoTo(p, "namespace")
  /\ UNCHANGED <<world, round, tries, previous, passed, history>>

BuildImageFails(p) ==
  /\ pc[p] = "image"
  /\ GoTo(p, "raising")
  /\ UNCHANGED <<world, locals, history>>

\* ... kubectl create namespace, ...
CreateNamespace(p) ==
  /\ pc[p] = "namespace"
  /\ live' = [live EXCEPT ![D(p)] = built[p]]
  /\ GoTo(p, "apply")
  /\ UNCHANGED <<flag, dockerfile, testYaml, services, locals, history>>

CreateNamespaceFails(p) ==
  /\ pc[p] = "namespace"
  /\ \E c \in {built[p], None} : live' = [live EXCEPT ![D(p)] = c]
  /\ unhandled' = unhandled \cup {D(p)}
  /\ GoTo(p, "raising")
  /\ UNCHANGED <<flag, dockerfile, testYaml, services, locals, stops, crossed, found>>

\* ... kubectl apply, ...
Apply(p) ==
  /\ pc[p] = "apply"
  /\ services' = services \cup {D(p)}
  /\ GoTo(p, "ip")
  /\ UNCHANGED <<flag, dockerfile, testYaml, live, locals, history>>

\* ... whose failure, like the one of get_external_ip_for_cluster, is no
\* CalledProcessError: stop_deployment is never called from here.
ApplyFails(p) ==
  /\ pc[p] = "apply"
  /\ \E s \in SUBSET {D(p)} : services' = services \cup s
  /\ unhandled' = unhandled \cup {D(p)}
  /\ GoTo(p, "raising")
  /\ UNCHANGED <<flag, dockerfile, testYaml, live, locals, stops, crossed, found>>

GetExternalIp(p) ==
  /\ pc[p] = "ip"
  /\ Succeed(p, "returning")
  /\ UNCHANGED <<world, round, previous, built, passed, history>>

GetExternalIpFails(p) ==
  /\ pc[p] = "ip"
  /\ Retry(p, IpAttempts, "raising")
  /\ unhandled' = IF tries[p] + 1 >= IpAttempts THEN unhandled \cup {D(p)} ELSE unhandled
  /\ UNCHANGED <<world, round, previous, built, passed, stops, crossed, found>>

\* The finally clause of deploy_app.  The directory is the current one by now:
\* a relative path leads nowhere, and without a Dockerfile test.yaml is kept.
\* Then back to the caller, with the version or with the exception, which a
\* driver exits with and a check logs.
CleanupFiles(p) ==
  /\ pc[p] \in {"returning", "raising"}
  /\ IF Dir(p) \in Absolute /\ dockerfile[Dir(p)] # None
     THEN /\ dockerfile' = [dockerfile EXCEPT ![Dir(p)] = None]
          /\ testYaml' = [testYaml EXCEPT ![Dir(p)] = None]
          /\ CrossDir(p)
     ELSE UNCHANGED <<dockerfile, testYaml, crossed>>
  /\ \/ pc[p] = "returning"
        /\ GoTo(p, IF p \in Drivers THEN "test" ELSE "record") /\ UNCHANGED round
     \/ pc[p] = "raising" /\ p \in Drivers
        /\ GoTo(p, "failure") /\ UNCHANGED round
     \/ pc[p] = "raising" /\ p \in Checks
        /\ GoTo(p, "flow") /\ round' = [round EXCEPT ![p] = @ + 1]
  /\ UNCHANGED <<flag, live, services, tries, previous, built, passed, unhandled, stops,
                 found>>

-------------------------------------------------------------------------------
(***************************************************************************)
(* deploy_app.py: stop_version and stop_deployment.                        *)
(***************************************************************************)

\* A driver exits with the result of its tests.
Exit(p) == GoTo(p, IF passed[p] THEN "success" ELSE "failure")

\* After stop_version: the exception goes on, a driver returns its code, a check
\* goes on with its next flow.
AfterStop(p) ==
  \/ pc[p] = "undo" /\ GoTo(p, "raising") /\ UNCHANGED round
  \/ pc[p] = "stop" /\ p \in Drivers
     /\ Exit(p) /\ UNCHANGED round
  \/ pc[p] = "stop" /\ p \in Checks
     /\ GoTo(p, "flow") /\ round' = [round EXCEPT ![p] = @ + 1]

StopVersion(p) ==
  /\ pc[p] \in {"undo", "stop"} /\ live[D(p)] # None
  /\ live' = [live EXCEPT ![D(p)] = None]
  /\ tries' = [tries EXCEPT ![p] = 0]
  /\ stops' = [stops EXCEPT ![D(p)] = 0]
  /\ AfterStop(p)
  /\ UNCHANGED <<flag, dockerfile, testYaml, services, previous, built, passed,
                 unhandled, crossed, found>>

\* Mutant of StopVersionFails: one attempt more than allowed.
StopOnceMore(p) ==
  /\ pc[p] \in {"undo", "stop"}
  /\ \E c \in {live[D(p)], None} : live' = [live EXCEPT ![D(p)] = c]
  /\ stops' = [stops EXCEPT ![D(p)] = @ + 1]
  /\ Retry(p, StopAttempts + 1, IF pc[p] = "undo" THEN "raising" ELSE "failure")
  /\ UNCHANGED <<flag, dockerfile, testYaml, services, round, previous, built, passed,
                 unhandled, crossed, found>>

\* An attempt that fails, if only because an earlier one has deleted the
\* version.  The last error is swallowed in deploy_app_gae and ends the
\* program elsewhere.
StopVersionFails(p) ==
  /\ pc[p] \in {"undo", "stop"}
  /\ \E c \in {live[D(p)], None} : live' = [live EXCEPT ![D(p)] = c]
  /\ stops' = [stops EXCEPT ![D(p)] = @ + 1]
  /\ Retry(p, StopAttempts, IF pc[p] = "undo" THEN "raising" ELSE "failure")
  /\ UNCHANGED <<flag, dockerfile, testYaml, services, round, previous, built, passed,
                 unhandled, crossed, found>>

\* stop_deployment: the services of the namespace, ...
DeleteServices(p) ==
  /\ pc[p] = "services"
  /\ services' = services \ {D(p)}
  /\ GoTo(p, "delete_namespace")
  /\ UNCHANGED <<flag, dockerfile, testYaml, live, locals, history>>

\* ... and the namespace.
DeleteNamespace(p) ==
  /\ pc[p] = "delete_namespace"
  /\ live' = [live EXCEPT ![D(p)] = None]
  /\ Exit(p)
  /\ UNCHANGED <<flag, dockerfile, testYaml, services, locals, history>>

\* Errors are swallowed, so that @retry never sees one.
StopDeploymentFails(p) ==
  /\ pc[p] \in {"services", "delete_namespace"}
  /\ \/ pc[p] = "services" /\ UNCHANGED live
        /\ \E s \in SUBSET {D(p)} : services' = services \ s
     \/ pc[p] = "delete_namespace" /\ UNCHANGED services
        /\ \E c \in {live[D(p)], None} : live' = [live EXCEPT ![D(p)] = c]
  /\ unhandled' = unhandled \cup {D(p)}
  /\ Exit(p)
  /\ UNCHANGED <<flag, dockerfile, testYaml, locals, stops, crossed, found>>

-------------------------------------------------------------------------------
(***************************************************************************)
(* What the programs do with the deployed application.                     *)
(***************************************************************************)

\* _test_app, and what _main does next.
RunTests(p) ==
  /\ pc[p] = "test"
  /\ \E ok \in BOOLEAN :
       /\ passed' = [passed EXCEPT ![p] = ok]
       /\ GoTo(p, IF Args[p].url THEN (IF ok THEN "success" ELSE "failure")
                  ELSE IF Args[p].env = "GAE" THEN "stop" ELSE "services")
  /\ UNCHANGED <<world, round, tries, previous, built, history>>

\* A test that raises while it is made, as those do that append to a url that is
\* None, ends the driver where it is: what it deployed stays.
TestsRaise(p) ==
  /\ pc[p] = "test"
  /\ unhandled' = IF Args[p].url THEN unhandled ELSE unhandled \cup {D(p)}
  /\ GoTo(p, "failure")
  /\ UNCHANGED <<world, locals, stops, crossed, found>>

\* deploy_app_and_record_latency: with or without an error, nothing that matters here.
RecordLatency(p) ==
  /\ pc[p] = "record"
  /\ GoTo(p, "contact")
  /\ UNCHANGED <<world, locals, history>>

\* _deploy_and_test: the url again, and _test_application.
Contact(p) ==
  /\ pc[p] \in {"contact", "probe"}
  /\ Succeed(p, IF pc[p] = "contact" THEN "probe" ELSE "stop")
  /\ UNCHANGED <<world, round, previous, built, passed, history>>

\* Its errors are logged, and nothing else.
ContactFails(p) ==
  /\ pc[p] \in {"contact", "probe"}
  /\ Retry(p, IF pc[p] = "contact" THEN UrlAttempts ELSE ProbeAttempts, "stop")
  /\ UNCHANGED <<world, round, previous, built, passed, history>>

\* What a program had in memory is gone.
Kill(p) ==
  /\ pc[p] \notin {"idle", "new"} \cup Ended
  /\ GoTo(p, "killed")
  /\ tries' = [tries EXCEPT ![p] = 0]
  /\ previous' = [previous EXCEPT ![p] = None]
  /\ built' = [built EXCEPT ![p] = None]
  /\ passed' = [passed EXCEPT ![p] = FALSE]
  /\ UNCHANGED <<world, round, history>>

-------------------------------------------------------------------------------
Init ==
  /\ flag \in FlagValues
  /\ dockerfile = [d \in Dirs |-> IF d \in WithDockerfile THEN Own ELSE None]
  /\ testYaml = [d \in Dirs |-> None]
  /\ live = [v \in Deployments |-> None]
  /\ services = {}
  /\ \E s \in Sessions : pc = [p \in Programs |-> IF p \in s THEN "new" ELSE "idle"]
  /\ round = [p \in Programs |-> 1]
  /\ tries = [p \in Programs |-> 0]
  /\ previous = [p \in Programs |-> None]
  /\ built = [p \in Programs |-> None]
  /\ passed = [p \in Programs |-> FALSE]
  /\ unhandled = {}
  /\ stops = [v \in Deployments |-> 0]
  /\ crossed = {}
  /\ found = flag

CheckStep(p) ==
  \/ ReadFlag(p) \/ SetFlag(p) \/ RestoreFlag(p) \/ ConfigFails(p)
  \/ RecordLatency(p) \/ Contact(p) \/ ContactFails(p)
DriverStep(p) == StartDriver(p) \/ RunTests(p) \/ TestsRaise(p)
GaeStep(p) ==
  \/ DeployGae(p) \/ DeployGaeFails(p)
  \/ RetrieveUrl(p) \/ RetrieveUrlFails(p) \/ UrlGarbled(p)
GkeStep(p) ==
  \/ BuildImage(p) \/ BuildImageFails(p) \/ CreateNamespace(p) \/ CreateNamespaceFails(p)
  \/ Apply(p) \/ ApplyFails(p) \/ GetExternalIp(p) \/ GetExternalIpFails(p)
StopStep(p) ==
  \/ StopVersion(p) \/ StopVersionFails(p)
  \/ DeleteServices(p) \/ DeleteNamespace(p) \/ StopDeploymentFails(p)

ProgramStep(p) ==
  \/ CheckStep(p) \/ DriverStep(p)
  \/ SetBaseImage(p) \/ SetBuilderImage(p) \/ NoTemplate(p) \/ GaeStep(p) \/ GkeStep(p)
  \/ CleanupFiles(p) \/ StopStep(p)

Next == \E p \in Programs : ProgramStep(p) \/ Kill(p)

\* A program goes on unless it is killed: every command returns in the end.
Spec == Init /\ [][Next]_vars /\ \A p \in Programs : WF_vars(ProgramStep(p))

-------------------------------------------------------------------------------
(***************************************************************************)
(* Properties.                                                             *)
(***************************************************************************)

TypeOK ==
  /\ flag \in FlagValues
  /\ dockerfile \in [Dirs -> Images \cup {Own, None}]
  /\ testYaml \in [Dirs -> Builders \cup {None}]
  /\ live \in [Deployments -> Contents \cup {None}]
  /\ services \subseteq Deployments
  /\ pc \in [Programs -> Stage]
  /\ round \in [Programs -> 1..3]
  /\ tries \in [Programs -> Nat]
  /\ previous \in [Programs -> FlagValues]
  /\ built \in [Programs -> Contents \cup {None}]
  /\ passed \in [Programs -> BOOLEAN]
  /\ unhandled \subseteq Deployments
  /\ stops \in [Deployments -> 0..StopAttempts]
  /\ crossed \subseteq Programs
  /\ found \in FlagValues

\* A program that ends by itself, in whatever way, leaves a version or namespace
\* behind only after an error that no except clause cleans up after (one of a
\* type that none of them names, one raised outside of them, or one of
\* stop_deployment, which swallows its own), or after all attempts of
\* stop_version to delete it failed; and a driver that returns 0 leaves no
\* version behind (deploy_app_gae, deploy_app_gke, _main, _deploy_and_test).
NothingLeftBehind ==
  \A v \in Deployments :
    /\ pc[v[1]] \in {"success", "failure"} /\ live[v] # None =>
         v \in unhandled \/ stops[v] = StopAttempts
    /\ v[1] \in Drivers /\ Args[v[1]].env = "GAE" /\ pc[v[1]] = "success" => live[v] = None

\* What a program deploys is made from the image, the builder and the flag it was
\* given, whatever killed or failed programs have left in the directory before
\* it.  Programs that use directory or flag at the same time are excepted: the
\* code does not keep them apart (deploy_app, _set_runtime_builder_flag).
DeploysWhatItWasGiven ==
  \A v \in Deployments : live[v] # None /\ v[1] \notin crossed =>
    /\ Args[v[1]].image \in {None, live[v].image}
    /\ TakesYaml(v[1]) => Args[v[1]].builder \in {None, live[v].builder}
    /\ v[1] \in Checks => live[v].flag = Flows[v[1]][v[2]]

\* Checks that have ended well, one after the other, leave the flag as it was
\* before the first one, whatever became of their deployments (main of
\* deploy_check).
FlagRestored ==
  (\A c \in Checks : pc[c] \in {"idle", "new", "success"} /\ c \notin crossed)
    => flag = found

\* Every program that was started ends: none of its retries goes on for ever.
EveryProgramEnds == <>(\A p \in Programs : pc[p] \in Ended \cup {"idle"})

===============================================================================
