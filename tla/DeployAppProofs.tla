---------------------------- MODULE DeployAppProofs ----------------------------
(***************************************************************************)
(* Proofs about DeployApp, for any programs, directories and failures, but *)
(* for the end of every program, which is liveness.                        *)
(***************************************************************************)
EXTENDS DeployApp, TLAPS

-------------------------------------------------------------------------------
(***************************************************************************)
(* The inductive invariant.                                                *)
(***************************************************************************)

\* Control points at which the version or namespace of a program may be there
\* with nothing having gone wrong.
There == {"url", "undo", "apply", "ip", "returning", "test", "record", "contact", "probe",
          "stop", "services", "delete_namespace"}

\* Who comes where.
PlaceInv(p) ==
  /\ pc[p] \in {"idle", "new"} => round[p] = 1
  /\ p \in Drivers =>
       round[p] = 1 /\ pc[p] \notin {"flow", "record", "contact", "probe"}
  /\ p \in Checks =>
       /\ pc[p] # "test" /\ round[p] <= Len(Flows[p]) + 1
       /\ pc[p] \notin {"idle", "new", "flow"} \cup Ended => round[p] <= Len(Flows[p])
  /\ Args[p].url => pc[p] \in {"idle", "new", "test"} \cup Ended /\ live[<<p, 1>>] = None
  /\ pc[p] \in {"deploy", "url", "undo", "stop"} => Args[p].env = "GAE"
  /\ pc[p] \in {"image", "namespace", "apply", "ip", "services", "delete_namespace"} =>
       Args[p].env = "GKE"

\* Outside of a @retry there are no attempts to count; within stop_version they
\* are the ones that failed for the version at hand.
TriesInv(p) ==
  /\ pc[p] \notin {"url", "ip", "contact", "probe", "undo", "stop"} => tries[p] = 0
  /\ pc[p] \in {"undo", "stop"} => tries[p] < StopAttempts /\ stops[D(p)] = tries[p]
  /\ pc[p] \notin {"undo", "stop", "raising"} \cup Ended /\ D(p) \in Deployments =>
       stops[D(p)] = 0
  /\ \A v \in Deployments : v[1] = p /\ v[2] > round[p] => stops[v] = 0

\* Why a version may be there.
LeftInv(v) ==
  live[v] # None =>
    \/ v \in unhandled \/ stops[v] = StopAttempts
    \/ pc[v[1]] = "killed"
    \/ v = D(v[1]) /\ pc[v[1]] \in There

\* A driver on App Engine returns 0 when its version is gone.
GoneInv(v) ==
  v[1] \in Drivers /\ Args[v[1]].env = "GAE" /\ pc[v[1]] = "success" => live[v] = None

\* c is what program p is to deploy, in its round i.
AsGiven(p, i, c) ==
  /\ Args[p].image \in {None, c.image}
  /\ TakesYaml(p) => Args[p].builder \in {None, c.builder}
  /\ p \in Checks => c.flag = Flows[p][i]

\* What a program has put where it is about to be deployed from.
GivenInv(p) ==
  p \notin crossed =>
    /\ pc[p] \in {"builder", "deploy", "image"} =>
         Args[p].image \in {None, dockerfile[Dir(p)]}
    /\ pc[p] \in {"deploy", "image"} => Args[p].builder \in {None, testYaml[Dir(p)]}
    /\ pc[p] = "namespace" /\ built[p] # None => AsGiven(p, round[p], built[p])
    /\ p \in Checks /\ pc[p] \in {"base", "builder", "deploy"} => flag = Flows[p][round[p]]

\* Check c has set the flag and not yet restored it.
Writing(c) == NeedsFlag(c) /\ ~(pc[c] = "flow" /\ round[c] = 1)

\* As long as no check has failed or met another one: the flag is as it was
\* found, and known as such to every check at work, or there is one check that
\* has changed it, and it knows.
Undisturbed == \A c \in Checks : pc[c] \notin {"failure", "killed"} /\ c \notin crossed
AsFound ==
  /\ flag = found
  /\ \A c \in Checks : NeedsFlag(c) => previous[c] = found /\ ~Writing(c)
OneWriter(w) ==
  /\ Writing(w) /\ previous[w] = found
  /\ \A c \in Checks \ {w} : ~Writing(c)

FlagInv == Undisturbed => AsFound \/ \E w \in Checks : OneWriter(w)

ProgramInv(p) == PlaceInv(p) /\ TriesInv(p) /\ GivenInv(p)

IInv ==
  /\ TypeOK
  /\ \A p \in Programs : ProgramInv(p)
  /\ \A v \in Deployments : LeftInv(v) /\ GoneInv(v)
  /\ DeploysWhatItWasGiven /\ FlagInv

-------------------------------------------------------------------------------
(***************************************************************************)
(* Programs and what they deploy.                                          *)
(***************************************************************************)
LEMMA ArgsType ==
  ASSUME NEW p \in Programs
  PROVE  /\ Dir(p) \in Dirs /\ Args[p].env \in {"GAE", "GKE"} /\ Args[p].url \in BOOLEAN
         /\ Args[p].image \in Images \cup {None} /\ Args[p].builder \in Builders \cup {None}
  BY DeployAssumption DEF Dir

LEMMA CheckArgs ==
  ASSUME NEW c \in Checks
  PROVE  /\ c \in Programs /\ Args[c].env = "GAE" /\ Args[c].image = None
         /\ Args[c].builder = None /\ Args[c].url = FALSE
  <1>1. Args[c] = [dir |-> Args[c].dir, env |-> "GAE", image |-> None,
                   builder |-> None, yaml |-> FALSE, url |-> FALSE]
    BY CheckAssumption
  <1> QED
    BY <1>1 DEF Programs

\* No program is both a driver and a check.
LEMMA DriverIsNoCheck ==
  ASSUME NEW p \in Programs
  PROVE  p \in Drivers <=> p \notin Checks
  <1>1. \A c \in Checks : c \notin Drivers
    BY CheckArgs, DriverAssumption
  <1> QED
    BY <1>1 DEF Programs

LEMMA FlowsType ==
  ASSUME NEW c \in Checks
  PROVE  /\ Len(Flows[c]) \in 0 .. 2
         /\ \A i \in 1 .. Len(Flows[c]) : Flows[c][i] \in BOOLEAN
  <1>1. Flows[c] \in {<<>>, <<FALSE>>, <<TRUE>>, <<FALSE, TRUE>>}
    BY DeployAssumption
  <1>2. CASE Flows[c] = <<>>
    BY <1>2
  <1>3. ASSUME NEW b \in BOOLEAN, Flows[c] = <<b>>
        PROVE  Len(Flows[c]) = 1 /\ Flows[c][1] \in BOOLEAN
    BY <1>3
  <1>4. CASE Flows[c] = <<FALSE, TRUE>>
    <2>1. Len(Flows[c]) = 2 /\ Flows[c][1] = FALSE /\ Flows[c][2] = TRUE
      BY <1>4
    <2>2. Flows[c][1] \in BOOLEAN /\ Flows[c][2] \in BOOLEAN
      BY <2>1, Zenon
    <2>3. (\A i \in 1 .. 2 : i = 1 \/ i = 2) /\ 2 \in 0 .. 2
      OBVIOUS
    <2> QED
      BY <2>1, <2>2, <2>3, Zenon
  <1>5. CASE \E b \in BOOLEAN : Flows[c] = <<b>>
    <2>1. Len(Flows[c]) = 1 /\ Flows[c][1] \in BOOLEAN
      BY <1>3, <1>5
    <2>2. \A i \in 1 .. 1 : i = 1
      OBVIOUS
    <2>3. 1 \in 0 .. 2
      OBVIOUS
    <2> QED
      BY <2>1, <2>2, <2>3, Zenon
  <1> QED
    BY <1>1, <1>2, <1>4, <1>5

LEMMA DeploymentType ==
  ASSUME NEW v \in Deployments
  PROVE  /\ v = <<v[1], v[2]>> /\ v[1] \in Programs /\ v[2] \in {1, 2}
         /\ v[1] \in Drivers => v[2] = 1
         /\ v[1] \in Checks => v[2] <= Len(Flows[v[1]])
  <1>1. CASE v \in Drivers \X {1}
    <2>1. v = <<v[1], v[2]>> /\ v[1] \in Drivers /\ v[2] = 1
      BY <1>1
    <2> QED
      BY <2>1, DriverIsNoCheck DEF Programs
  <1>2. CASE v \in {w \in Checks \X {1, 2} : w[2] <= Len(Flows[w[1]])}
    <2>1. /\ v = <<v[1], v[2]>> /\ v[1] \in Checks /\ v[2] \in {1, 2}
          /\ v[2] <= Len(Flows[v[1]])
      BY <1>2
    <2> QED
      BY <2>1, DriverIsNoCheck DEF Programs
  <1> QED
    BY <1>1, <1>2 DEF Deployments

LEMMA IsDeployment ==
  ASSUME NEW p \in Programs, NEW i \in {1, 2}, p \in Drivers => i = 1,
         p \in Checks => i <= Len(Flows[p])
  PROVE  <<p, i>> \in Deployments
  BY DriverIsNoCheck DEF Deployments, Programs

\* The version or namespace at hand, while a program is at one.
LEMMA AtDeployment ==
  ASSUME TypeOK, NEW p \in Programs, PlaceInv(p),
         pc[p] \notin {"idle", "new", "flow"} \cup Ended
  PROVE  /\ D(p) \in Deployments /\ D(p)[1] = p /\ D(p)[2] = round[p]
         /\ round[p] \in {1, 2}
  <1>1. round[p] \in 1 .. 3
    BY DEF TypeOK
  <1>2. p \in Checks => round[p] <= Len(Flows[p]) /\ Len(Flows[p]) \in 0 .. 2
    BY FlowsType DEF PlaceInv
  <1>3. round[p] \in {1, 2}
    <2>1. CASE p \in Drivers
      BY <2>1 DEF PlaceInv
    <2>2. CASE p \in Checks
      <3>1. PICK n \in 0 .. 2 : n = Len(Flows[p])
        BY <1>2, <2>2
      <3>2. round[p] <= n
        BY <1>2, <2>2, <3>1
      <3> QED
        BY <1>1, <3>2
    <2> QED
      BY <2>1, <2>2 DEF Programs
  <1> QED
    BY <1>2, <1>3, IsDeployment DEF D, PlaceInv

\* The content of a directory can be deployed.
LEMMA ContentType ==
  ASSUME TypeOK, NEW p \in Programs
  PROVE  /\ Content(p) \in Contents
         /\ Content(p).image = dockerfile[Dir(p)] /\ Content(p).flag = flag
         /\ TakesYaml(p) => Content(p).builder = testYaml[Dir(p)]
  BY ArgsType DEF Content, Contents, TypeOK

-------------------------------------------------------------------------------
(***************************************************************************)
(* Type correctness.                                                       *)
(***************************************************************************)
LEMMA InitTypeOK == Init => TypeOK
  <1> SUFFICES ASSUME Init PROVE TypeOK
    OBVIOUS
  <1>1. pc \in [Programs -> Stage]
    BY DEF Init, Stage, Ended
  <1>2. stops \in [Deployments -> 0 .. StopAttempts]
    BY DeployAssumption DEF Init
  <1>3. dockerfile \in [Dirs -> Images \cup {Own, None}]
    BY DEF Init
  <1>4. /\ live \in [Deployments -> Contents \cup {None}]
        /\ previous \in [Programs -> FlagValues] /\ flag \in FlagValues
        /\ found \in FlagValues
    BY DEF Init, FlagValues
  <1> QED
    BY <1>1, <1>2, <1>3, <1>4 DEF Init, TypeOK

LEMMA RetryType ==
  ASSUME TypeOK, NEW p \in Programs, NEW n \in Nat \ {0}, NEW l \in Stage, Retry(p, n, l)
  PROVE  tries' \in [Programs -> Nat] /\ pc' \in [Programs -> Stage]
  <1>1. tries[p] + 1 \in Nat
    BY DEF TypeOK
  <1>2. tries' = [tries EXCEPT ![p] = 0] \/ tries' = [tries EXCEPT ![p] = tries[p] + 1]
    BY DEF Retry
  <1>3. pc' = pc \/ pc' = [pc EXCEPT ![p] = l]
    BY DEF Retry, GoTo
  <1>4. tries' \in [Programs -> Nat]
    BY <1>1, <1>2 DEF TypeOK
  <1>5. pc' \in [Programs -> Stage]
    BY <1>3 DEF TypeOK
  <1> QED
    BY <1>4, <1>5

LEMMA FlagTypeOK ==
  ASSUME TypeOK, NEW p \in Programs, PlaceInv(p),
         \/ ReadFlag(p) \/ SetFlag(p) \/ RestoreFlag(p) \/ ConfigFails(p) \/ RecordLatency(p)
         \/ Contact(p) \/ ContactFails(p) \/ StartDriver(p) \/ RunTests(p)
         \/ TestsRaise(p)
  PROVE  TypeOK'
  <1> USE DEF TypeOK, GoTo, Stage, Ended, world, locals, history
  <1>1. CASE ReadFlag(p) \/ ConfigFails(p) \/ RecordLatency(p) \/ StartDriver(p)
    BY <1>1 DEF ReadFlag, ConfigFails, RecordLatency, StartDriver
  <1>2. CASE SetFlag(p)
    <2>1. p \in Checks /\ round[p] \in 1 .. Len(Flows[p])
      <3>1. round[p] \in 1 .. 3 /\ round[p] <= Len(Flows[p]) /\ p \in Checks
        BY <1>2 DEF SetFlag
      <3> QED
        BY <3>1, FlowsType
    <2>2. flag' \in FlagValues
      BY <1>2, <2>1, FlowsType DEF SetFlag, FlagValues
    <2> QED
      BY <1>2, <2>2 DEF SetFlag, CrossFlag
  <1>3. CASE RestoreFlag(p)
    BY <1>3 DEF RestoreFlag, CrossFlag
  <1>4. CASE Contact(p)
    BY <1>4 DEF Contact, Succeed
  <1>5. CASE ContactFails(p)
    <2>1. tries' \in [Programs -> Nat] /\ pc' \in [Programs -> Stage]
      BY <1>5, RetryType, DeployAssumption DEF ContactFails
    <2> QED
      BY <1>5, <2>1 DEF ContactFails
  <1>6. CASE RunTests(p)
    BY <1>6 DEF RunTests
  <1>7. CASE TestsRaise(p)
    <2>1. D(p) \in Deployments
      BY <1>7, AtDeployment DEF TestsRaise
    <2> QED
      BY <1>7, <2>1 DEF TestsRaise
  <1> QED
    BY <1>1, <1>2, <1>3, <1>4, <1>5, <1>6, <1>7

LEMMA DeployTypeOK ==
  ASSUME TypeOK, NEW p \in Programs, PlaceInv(p),
         \/ SetBaseImage(p) \/ SetBuilderImage(p) \/ NoTemplate(p) \/ GaeStep(p) \/ GkeStep(p)
  PROVE  TypeOK'
  <1> USE DEF TypeOK, GoTo, Stage, Ended, world, locals, history, GaeStep, GkeStep
  <1>1. Content(p) \in Contents
    BY ContentType
  <1>2. pc[p] \notin {"idle", "new", "flow"} \cup Ended => D(p) \in Deployments
    BY AtDeployment
  <1>3. CASE SetBaseImage(p)
    <2>1. dockerfile' \in [Dirs -> Images \cup {Own, None}] /\ crossed' \subseteq Programs
      BY <1>3, ArgsType DEF SetBaseImage, CrossDir
    <2> QED
      BY <1>3, <2>1 DEF SetBaseImage
  <1>4. CASE SetBuilderImage(p)
    <2>1. testYaml' \in [Dirs -> Builders \cup {None}] /\ crossed' \subseteq Programs
      BY <1>4, ArgsType DEF SetBuilderImage, CrossDir
    <2> QED
      BY <1>4, <2>1 DEF SetBuilderImage
  <1>5. CASE NoTemplate(p) \/ BuildImageFails(p)
    BY <1>5 DEF NoTemplate, BuildImageFails
  <1>6. CASE DeployGae(p) \/ DeployGaeFails(p)
    <2>1. live' \in [Deployments -> Contents \cup {None}]
      BY <1>1, <1>6 DEF DeployGae, DeployGaeFails
    <2>2. unhandled' \subseteq Deployments
      BY <1>2, <1>6 DEF DeployGae, DeployGaeFails
    <2> QED
      BY <1>6, <2>1, <2>2 DEF DeployGae, DeployGaeFails
  <1>7. CASE RetrieveUrl(p) \/ GetExternalIp(p)
    BY <1>7 DEF RetrieveUrl, GetExternalIp, Succeed
  <1>8. CASE RetrieveUrlFails(p) \/ UrlGarbled(p) \/ GetExternalIpFails(p)
    <2>1. tries' \in [Programs -> Nat] /\ pc' \in [Programs -> Stage]
      BY <1>8, RetryType, DeployAssumption DEF RetrieveUrlFails, UrlGarbled, GetExternalIpFails
    <2>2. unhandled' \subseteq Deployments
      BY <1>2, <1>8 DEF RetrieveUrlFails, UrlGarbled, GetExternalIpFails
    <2> QED
      BY <1>8, <2>1, <2>2 DEF RetrieveUrlFails, UrlGarbled, GetExternalIpFails
  <1>9. CASE BuildImage(p)
    BY <1>1, <1>9 DEF BuildImage
  <1>10. CASE CreateNamespace(p) \/ CreateNamespaceFails(p)
    <2>1. live' \in [Deployments -> Contents \cup {None}]
      BY <1>10 DEF CreateNamespace, CreateNamespaceFails
    <2>2. unhandled' \subseteq Deployments
      BY <1>2, <1>10 DEF CreateNamespace, CreateNamespaceFails
    <2> QED
      BY <1>10, <2>1, <2>2 DEF CreateNamespace, CreateNamespaceFails
  <1>11. CASE Apply(p) \/ ApplyFails(p)
    BY <1>2, <1>11 DEF Apply, ApplyFails
  <1> QED
    BY <1>3, <1>4, <1>5, <1>6, <1>7, <1>8, <1>9, <1>10, <1>11

LEMMA StopTypeOK ==
  ASSUME TypeOK, NEW p \in Programs, PlaceInv(p), TriesInv(p),
         CleanupFiles(p) \/ StopStep(p) \/ Kill(p)
  PROVE  TypeOK'
  <1> USE DEF TypeOK, GoTo, Stage, Ended, world, locals, history, StopStep
  <1>1. pc[p] \notin {"idle", "new", "flow"} \cup Ended =>
          D(p) \in Deployments /\ round[p] \in {1, 2}
    BY AtDeployment
  <1>2. CASE CleanupFiles(p)
    <2>1. /\ dockerfile' \in [Dirs -> Images \cup {Own, None}]
          /\ testYaml' \in [Dirs -> Builders \cup {None}]
          /\ crossed' \subseteq Programs
      BY <1>2, ArgsType DEF CleanupFiles, CrossDir
    <2>2. round' \in [Programs -> 1 .. 3] /\ pc' \in [Programs -> Stage]
      BY <1>1, <1>2 DEF CleanupFiles
    <2> QED
      BY <1>2, <2>1, <2>2 DEF CleanupFiles
  <1>3. CASE StopVersion(p)
    <2>1. round' \in [Programs -> 1 .. 3] /\ pc' \in [Programs -> Stage]
      BY <1>1, <1>3 DEF StopVersion, AfterStop, Exit
    <2>2. stops' \in [Deployments -> 0 .. StopAttempts]
      <3>1. stops' = [stops EXCEPT ![D(p)] = 0] /\ 0 \in 0 .. StopAttempts
        BY <1>3, DeployAssumption DEF StopVersion
      <3> QED
        BY <3>1
    <2> QED
      BY <1>3, <2>1, <2>2 DEF StopVersion
  <1>4. CASE StopVersionFails(p)
    <2>1. tries' \in [Programs -> Nat] /\ pc' \in [Programs -> Stage]
      BY <1>4, RetryType, DeployAssumption DEF StopVersionFails
    <2>2. stops' \in [Deployments -> 0 .. StopAttempts]
      <3>1. /\ pc[p] \in {"undo", "stop"} /\ D(p) \in Deployments
            /\ stops' = [stops EXCEPT ![D(p)] = stops[D(p)] + 1]
        BY <1>1, <1>4 DEF StopVersionFails
      <3>2. stops[D(p)] + 1 \in 0 .. StopAttempts
        BY <3>1, DeployAssumption DEF TriesInv
      <3> QED
        BY <3>1, <3>2
    <2>3. live' \in [Deployments -> Contents \cup {None}]
      BY <1>1, <1>4 DEF StopVersionFails
    <2> QED
      BY <1>4, <2>1, <2>2, <2>3 DEF StopVersionFails
  <1>5. CASE DeleteServices(p) \/ DeleteNamespace(p)
    BY <1>5 DEF DeleteServices, DeleteNamespace, Exit
  <1>6. CASE StopDeploymentFails(p)
    <2>1. live' \in [Deployments -> Contents \cup {None}]
      BY <1>1, <1>6 DEF StopDeploymentFails
    <2>2. services' \subseteq Deployments /\ unhandled' \subseteq Deployments
      BY <1>1, <1>6 DEF StopDeploymentFails
    <2>3. pc' \in [Programs -> Stage]
      BY <1>6 DEF StopDeploymentFails, Exit
    <2> QED
      BY <1>6, <2>1, <2>2, <2>3 DEF StopDeploymentFails
  <1>7. CASE Kill(p)
    BY <1>7 DEF Kill, FlagValues
  <1> QED
    BY <1>2, <1>3, <1>4, <1>5, <1>6, <1>7

LEMMA StepTypeOK ==
  ASSUME TypeOK, NEW p \in Programs, PlaceInv(p), TriesInv(p), ProgramStep(p) \/ Kill(p)
  PROVE  TypeOK'
  BY FlagTypeOK, DeployTypeOK, StopTypeOK DEF ProgramStep, CheckStep, DriverStep

-------------------------------------------------------------------------------
(***************************************************************************)
(* What a step of p leaves alone: the other programs and their versions,   *)
(* and of the directories and the flag what one that p has not crossed is  *)
(* using.                                                                  *)
(***************************************************************************)
SameProgram(q) ==
  /\ pc'[q] = pc[q] /\ round'[q] = round[q] /\ tries'[q] = tries[q]
  /\ previous'[q] = previous[q] /\ built'[q] = built[q]

SameUse(q) ==
  q \notin crossed' =>
    /\ InDir(q) => /\ dockerfile'[Dir(q)] = dockerfile[Dir(q)]
                   /\ testYaml'[Dir(q)] = testYaml[Dir(q)]
    /\ NeedsFlag(q) => flag' = flag

Frame(p) ==
  /\ pc[p] \notin {"idle"} \cup Ended
  /\ \A q \in Programs \ {p} : SameProgram(q) /\ SameUse(q)
  /\ \A v \in Deployments : v # D(p) => live'[v] = live[v] /\ stops'[v] = stops[v]
  /\ unhandled \subseteq unhandled' /\ crossed \subseteq crossed' /\ found' = found

LEMMA RetrySame ==
  ASSUME TypeOK, NEW p \in Programs, NEW n \in Nat \ {0}, NEW l \in Stage, Retry(p, n, l)
  PROVE  /\ \A q \in Programs \ {p} : pc'[q] = pc[q] /\ tries'[q] = tries[q]
         /\ tries[p] + 1 >= n => pc'[p] = l /\ tries'[p] = 0
         /\ tries[p] + 1 < n => pc'[p] = pc[p] /\ tries'[p] = tries[p] + 1
  <1>1. tries[p] \in Nat
    BY DEF TypeOK
  <1>2. CASE tries[p] + 1 >= n
    BY <1>1, <1>2 DEF Retry, GoTo, TypeOK
  <1>3. CASE tries[p] + 1 < n
    <2>1. ~(tries[p] + 1 >= n)
      BY <1>1, <1>3
    <2> QED
      BY <1>3, <2>1 DEF Retry, GoTo, TypeOK
  <1> QED
    BY <1>1, <1>2, <1>3

LEMMA FlagFrame ==
  ASSUME TypeOK, NEW p \in Programs,
         \/ ReadFlag(p) \/ SetFlag(p) \/ RestoreFlag(p) \/ ConfigFails(p) \/ RecordLatency(p)
         \/ Contact(p) \/ ContactFails(p) \/ StartDriver(p) \/ RunTests(p)
         \/ TestsRaise(p)
  PROVE  Frame(p)
  <1> USE DEF TypeOK, GoTo, Ended, world, locals, history, Frame, SameProgram, SameUse
  <1>1. CASE \/ ReadFlag(p) \/ ConfigFails(p) \/ RecordLatency(p) \/ StartDriver(p)
             \/ RunTests(p) \/ TestsRaise(p) \/ Contact(p)
    BY <1>1 DEF ReadFlag, ConfigFails, RecordLatency, StartDriver, RunTests, TestsRaise,
                Contact, Succeed
  <1>2. CASE SetFlag(p) \/ RestoreFlag(p)
    BY <1>2 DEF SetFlag, RestoreFlag, CrossFlag
  <1>3. CASE ContactFails(p)
    <2>1. \A q \in Programs \ {p} : pc'[q] = pc[q] /\ tries'[q] = tries[q]
      BY <1>3, RetrySame, DeployAssumption DEF ContactFails, Stage
    <2> QED
      BY <1>3, <2>1 DEF ContactFails
  <1> QED
    BY <1>1, <1>2, <1>3

LEMMA DeployFrame ==
  ASSUME TypeOK, NEW p \in Programs,
         \/ SetBaseImage(p) \/ SetBuilderImage(p) \/ NoTemplate(p) \/ GaeStep(p) \/ GkeStep(p)
  PROVE  Frame(p)
  <1> USE DEF TypeOK, GoTo, Ended, world, locals, history, Frame, SameProgram, SameUse,
              GaeStep, GkeStep
  <1>1. CASE SetBaseImage(p)
    <2>1. \A q \in Programs \ {p} : q \notin crossed' /\ InDir(q) =>
            dockerfile'[Dir(q)] = dockerfile[Dir(q)]
      BY <1>1, ArgsType DEF SetBaseImage, CrossDir
    <2>2. crossed \subseteq crossed'
      BY <1>1 DEF SetBaseImage, CrossDir
    <2> QED
      BY <1>1, <2>1, <2>2 DEF SetBaseImage
  <1>2. CASE SetBuilderImage(p)
    <2>1. \A q \in Programs \ {p} : q \notin crossed' /\ InDir(q) =>
            testYaml'[Dir(q)] = testYaml[Dir(q)]
      BY <1>2, ArgsType DEF SetBuilderImage, CrossDir
    <2>2. crossed \subseteq crossed'
      BY <1>2 DEF SetBuilderImage, CrossDir
    <2> QED
      BY <1>2, <2>1, <2>2 DEF SetBuilderImage
  <1>3. CASE \/ NoTemplate(p) \/ BuildImage(p) \/ BuildImageFails(p) \/ RetrieveUrl(p)
             \/ GetExternalIp(p) \/ Apply(p) \/ ApplyFails(p)
    BY <1>3 DEF NoTemplate, BuildImage, BuildImageFails, RetrieveUrl, GetExternalIp, Apply,
                ApplyFails, Succeed
  <1>4. CASE \/ DeployGae(p) \/ DeployGaeFails(p) \/ CreateNamespace(p)
             \/ CreateNamespaceFails(p)
    BY <1>4 DEF DeployGae, DeployGaeFails, CreateNamespace, CreateNamespaceFails
  <1>5. CASE RetrieveUrlFails(p) \/ UrlGarbled(p) \/ GetExternalIpFails(p)
    <2>1. \A q \in Programs \ {p} : pc'[q] = pc[q] /\ tries'[q] = tries[q]
      BY <1>5, RetrySame, DeployAssumption
         DEF RetrieveUrlFails, UrlGarbled, GetExternalIpFails, Stage
    <2> QED
      BY <1>5, <2>1 DEF RetrieveUrlFails, UrlGarbled, GetExternalIpFails
  <1> QED
    BY <1>1, <1>2, <1>3, <1>4, <1>5

LEMMA StopFrame ==
  ASSUME TypeOK, NEW p \in Programs, CleanupFiles(p) \/ StopStep(p) \/ Kill(p)
  PROVE  Frame(p)
  <1> USE DEF TypeOK, GoTo, Ended, world, locals, history, Frame, SameProgram, SameUse,
              StopStep
  <1>1. CASE CleanupFiles(p)
    <2>1. /\ pc[p] \in {"returning", "raising"}
          /\ flag' = flag /\ live' = live /\ tries' = tries /\ previous' = previous
          /\ built' = built /\ unhandled' = unhandled /\ stops' = stops /\ found' = found
      BY <1>1 DEF CleanupFiles
    <2>2. \A q \in Programs \ {p} : pc'[q] = pc[q] /\ round'[q] = round[q]
      BY <1>1 DEF CleanupFiles
    <2>3. \A q \in Programs \ {p} : q \notin crossed' /\ InDir(q) =>
            /\ dockerfile'[Dir(q)] = dockerfile[Dir(q)] /\ testYaml'[Dir(q)] = testYaml[Dir(q)]
      BY <1>1, ArgsType DEF CleanupFiles, CrossDir
    <2>4. crossed \subseteq crossed'
      BY <1>1 DEF CleanupFiles, CrossDir
    <2> QED
      BY <2>1, <2>2, <2>3, <2>4
  <1>2. CASE StopVersion(p)
    <2>1. \A q \in Programs \ {p} : pc'[q] = pc[q] /\ round'[q] = round[q]
      BY <1>2 DEF StopVersion, AfterStop, Exit
    <2> QED
      BY <1>2, <2>1 DEF StopVersion
  <1>3. CASE StopVersionFails(p)
    <2>1. \A q \in Programs \ {p} : pc'[q] = pc[q] /\ tries'[q] = tries[q]
      BY <1>3, RetrySame, DeployAssumption DEF StopVersionFails, Stage
    <2> QED
      BY <1>3, <2>1 DEF StopVersionFails
  <1>4. CASE DeleteServices(p) \/ DeleteNamespace(p)
    BY <1>4 DEF DeleteServices, DeleteNamespace, Exit
  <1>5. CASE StopDeploymentFails(p)
    BY <1>5 DEF StopDeploymentFails, Exit
  <1>6. CASE Kill(p)
    BY <1>6 DEF Kill
  <1> QED
    BY <1>1, <1>2, <1>3, <1>4, <1>5, <1>6

LEMMA StepFrame ==
  ASSUME TypeOK, NEW p \in Programs, ProgramStep(p) \/ Kill(p)
  PROVE  Frame(p)
  BY FlagFrame, DeployFrame, StopFrame DEF ProgramStep, CheckStep, DriverStep

\* The other programs keep their part of the invariant.
LEMMA OthersKeep ==
  ASSUME TypeOK, NEW p \in Programs, Frame(p), NEW q \in Programs \ {p}, ProgramInv(q)
  PROVE  ProgramInv(q)'
  <1> USE DEF ProgramInv
  <1>1. SameProgram(q) /\ SameUse(q) /\ crossed \subseteq crossed'
    BY DEF Frame
  <1>2. \A v \in Deployments : v[1] = q => live'[v] = live[v] /\ stops'[v] = stops[v]
    BY DEF Frame, D
  <1>3. D(q)' = D(q) /\ D(q)[1] = q
    BY <1>1 DEF D, SameProgram
  <1>4. PlaceInv(q)'
    <2>1. Args[q].url => q \in Drivers /\ <<q, 1>> \in Deployments
      BY CheckArgs, DriverIsNoCheck, IsDeployment DEF Programs
    <2>2. Args[q].url => live'[<<q, 1>>] = live[<<q, 1>>]
      BY <1>2, <2>1
    <2> QED
      BY <1>1, <2>2 DEF PlaceInv, SameProgram
  <1>5. TriesInv(q)'
    <2>1. pc[q] \in {"undo", "stop"} => D(q) \in Deployments
      BY AtDeployment DEF Ended
    <2>2. D(q) \in Deployments => stops'[D(q)] = stops[D(q)]
      BY <1>2, <1>3
    <2> QED
      BY <1>1, <1>2, <1>3, <2>1, <2>2 DEF TriesInv, SameProgram
  <1>6. GivenInv(q)'
    <2>1. q \notin crossed' => q \notin crossed
      BY <1>1
    <2>2. pc[q] \in {"builder", "deploy", "image"} => InDir(q)
      BY DEF InDir
    <2>3. q \in Checks /\ pc[q] \in {"base", "builder", "deploy"} => NeedsFlag(q)
      BY DEF NeedsFlag, Ended
    <2>4. Dir(q)' = Dir(q)
      BY DEF Dir
    <2> QED
      BY <1>1, <2>1, <2>2, <2>3 DEF GivenInv, SameProgram, SameUse, Dir, AsGiven
  <1> QED
    BY <1>4, <1>5, <1>6

\* ... and so do the versions and namespaces that are not the one at hand.
LEMMA OtherVersionsKeep ==
  ASSUME TypeOK, NEW p \in Programs, Frame(p), NEW v \in Deployments, v[1] # p,
         LeftInv(v), GoneInv(v)
  PROVE  LeftInv(v)' /\ GoneInv(v)'
  <1>1. v[1] \in Programs /\ v # D(p)
    BY DeploymentType DEF D
  <1>2. SameProgram(v[1]) /\ live'[v] = live[v] /\ stops'[v] = stops[v]
    BY <1>1 DEF Frame
  <1>3. unhandled \subseteq unhandled' /\ D(v[1])' = D(v[1])
    BY <1>2 DEF Frame, D, SameProgram
  <1> QED
    BY <1>2, <1>3 DEF LeftInv, GoneInv, SameProgram

-------------------------------------------------------------------------------
(***************************************************************************)
(* The places of a program.                                                *)
(***************************************************************************)
LEMMA FlagPlace ==
  ASSUME TypeOK, NEW p \in Programs, PlaceInv(p),
         \/ ReadFlag(p) \/ SetFlag(p) \/ RestoreFlag(p) \/ ConfigFails(p) \/ RecordLatency(p)
         \/ Contact(p) \/ ContactFails(p) \/ StartDriver(p) \/ RunTests(p)
         \/ TestsRaise(p)
  PROVE  PlaceInv(p)'
  <1> USE DEF TypeOK, GoTo, world, locals, history, Ended
  <1>1. p \in Checks => p \notin Drivers /\ Args[p].env = "GAE" /\ Args[p].url = FALSE
    BY CheckArgs, DriverIsNoCheck
  <1>2. round' = round /\ live' = live
    BY DEF ReadFlag, SetFlag, RestoreFlag, ConfigFails, RecordLatency, Contact, ContactFails,
           StartDriver, RunTests, TestsRaise
  <1>3. CASE ReadFlag(p) \/ ConfigFails(p)
    <2>1. p \in Checks /\ pc[p] \in {"new", "flow"} /\ pc'[p] \in {"flow", "failure"}
      BY <1>3 DEF ReadFlag, ConfigFails
    <2> QED
      BY <1>1, <1>2, <2>1 DEF PlaceInv
  <1>4. CASE SetFlag(p)
    <2>1. p \in Checks /\ pc'[p] = "base" /\ round[p] <= Len(Flows[p])
      BY <1>4 DEF SetFlag
    <2> QED
      BY <1>1, <1>2, <2>1 DEF PlaceInv
  <1>5. CASE RestoreFlag(p)
    <2>1. p \in Checks /\ pc'[p] = "success"
      BY <1>5 DEF RestoreFlag
    <2> QED
      BY <1>1, <1>2, <2>1 DEF PlaceInv
  <1>6. CASE RecordLatency(p) \/ Contact(p) \/ ContactFails(p)
    <2>1. /\ pc[p] \in {"record", "contact", "probe"}
          /\ pc'[p] \in {"contact", "probe", "stop"}
      <3>1. CASE RecordLatency(p) \/ Contact(p)
        BY <3>1 DEF RecordLatency, Contact, Succeed
      <3>2. CASE ContactFails(p)
        BY <3>2 DEF ContactFails, Retry
      <3> QED
        BY <1>6, <3>1, <3>2
    <2> QED
      BY <1>1, <1>2, <2>1 DEF PlaceInv, Programs
  <1>7. CASE StartDriver(p)
    <2>1. /\ p \in Drivers /\ pc[p] = "new"
          /\ pc'[p] = IF Args[p].url THEN "test" ELSE "base"
      BY <1>7 DEF StartDriver
    <2> QED
      BY <1>2, <2>1, DriverIsNoCheck DEF PlaceInv
  <1>8. CASE RunTests(p)
    <2>1. /\ pc[p] = "test"
          /\ Args[p].url => pc'[p] \in {"success", "failure"}
          /\ ~Args[p].url => pc'[p] = IF Args[p].env = "GAE" THEN "stop" ELSE "services"
      BY <1>8 DEF RunTests
    <2>2. p \in Drivers /\ p \notin Checks /\ Args[p].env \in {"GAE", "GKE"}
      BY <2>1, DriverIsNoCheck, ArgsType DEF PlaceInv, Programs
    <2> QED
      BY <1>2, <2>1, <2>2 DEF PlaceInv
  <1>9. CASE TestsRaise(p)
    <2>1. pc[p] = "test" /\ pc'[p] = "failure"
      BY <1>9 DEF TestsRaise
    <2>2. p \in Drivers /\ p \notin Checks
      BY <2>1, DriverIsNoCheck DEF PlaceInv, Programs
    <2> QED
      BY <1>2, <2>1, <2>2 DEF PlaceInv
  <1> QED
    BY <1>3, <1>4, <1>5, <1>6, <1>7, <1>8, <1>9

LEMMA DeployPlace ==
  ASSUME TypeOK, NEW p \in Programs, PlaceInv(p),
         \/ SetBaseImage(p) \/ SetBuilderImage(p) \/ NoTemplate(p) \/ GaeStep(p) \/ GkeStep(p)
  PROVE  PlaceInv(p)'
  <1> USE DEF TypeOK, GoTo, world, locals, history, Ended, GaeStep, GkeStep
  <1>1. /\ Args[p].env \in {"GAE", "GKE"} /\ (p \in Drivers <=> p \notin Checks)
        /\ p \in Checks => Args[p].env = "GAE"
    BY ArgsType, CheckArgs, DriverIsNoCheck
  <1>2. round' = round
    BY DEF SetBaseImage, SetBuilderImage, NoTemplate, DeployGae, DeployGaeFails, RetrieveUrl,
           RetrieveUrlFails, UrlGarbled, BuildImage, BuildImageFails, CreateNamespace,
           CreateNamespaceFails, Apply, ApplyFails, GetExternalIp, GetExternalIpFails
  <1>3. /\ pc[p] \in {"base", "builder", "deploy", "url", "image", "namespace", "apply", "ip"}
        /\ \/ pc[p] = "base" /\ pc'[p] \in {"builder", "raising"}
           \/ pc[p] = "builder" /\ pc'[p] = "raising"
           \/ pc[p] = "builder" /\ pc'[p] = IF Args[p].env = "GAE" THEN "deploy" ELSE "image"
           \/ pc[p] \in {"deploy", "url"} /\ pc'[p] \in {"url", "returning", "undo", "raising"}
           \/ /\ pc[p] \in {"image", "namespace", "apply", "ip"}
              /\ pc'[p] \in {"namespace", "apply", "ip", "returning", "raising"}
    <2>1. CASE \/ SetBaseImage(p) \/ SetBuilderImage(p) \/ NoTemplate(p) \/ DeployGae(p)
               \/ DeployGaeFails(p) \/ RetrieveUrl(p) \/ BuildImage(p) \/ BuildImageFails(p)
               \/ CreateNamespace(p) \/ CreateNamespaceFails(p) \/ Apply(p) \/ ApplyFails(p)
               \/ GetExternalIp(p)
      BY <2>1 DEF SetBaseImage, SetBuilderImage, NoTemplate, DeployGae, DeployGaeFails,
                  RetrieveUrl, BuildImage, BuildImageFails, CreateNamespace,
                  CreateNamespaceFails, Apply, ApplyFails, GetExternalIp, Succeed
    <2>2. CASE RetrieveUrlFails(p) \/ UrlGarbled(p) \/ GetExternalIpFails(p)
      BY <2>2 DEF RetrieveUrlFails, UrlGarbled, GetExternalIpFails, Retry
    <2> QED
      BY <2>1, <2>2
  <1> QED
    BY <1>1, <1>2, <1>3 DEF PlaceInv

LEMMA StopPlace ==
  ASSUME TypeOK, NEW p \in Programs, PlaceInv(p), CleanupFiles(p) \/ StopStep(p) \/ Kill(p)
  PROVE  PlaceInv(p)'
  <1> USE DEF TypeOK, GoTo, world, locals, history, Ended, StopStep
  <1>1. /\ Args[p].env \in {"GAE", "GKE"} /\ (p \in Drivers <=> p \notin Checks)
        /\ p \in Checks => Args[p].env = "GAE"
    BY ArgsType, CheckArgs, DriverIsNoCheck
  <1>2. Args[p].url => pc[p] = "test" /\ live[<<p, 1>>] = None
    BY DEF PlaceInv, CleanupFiles, StopVersion, StopVersionFails, DeleteServices,
           DeleteNamespace, StopDeploymentFails, Kill
  <1>3. \/ pc'[p] = "killed" /\ round' = round /\ live' = live
        \/ ~Args[p].url
    BY <1>2 DEF CleanupFiles, StopVersion, StopVersionFails, DeleteServices,
           DeleteNamespace, StopDeploymentFails, Kill
  <1>4. pc[p] \notin {"idle", "new"} \cup Ended
    BY DEF CleanupFiles, StopVersion, StopVersionFails, DeleteServices,
           DeleteNamespace, StopDeploymentFails, Kill
  <1>5. \/ round'[p] = round[p] /\ pc'[p] \in {"success", "failure", "killed"}
        \/ /\ round'[p] = round[p] /\ pc[p] = "returning"
           /\ pc'[p] = IF p \in Drivers THEN "test" ELSE "record"
        \/ /\ round'[p] = round[p] + 1 /\ p \in Checks /\ pc'[p] = "flow"
           /\ pc[p] \in {"raising", "stop"}
        \/ round'[p] = round[p] /\ pc[p] \in {"undo", "stop"} /\ pc'[p] \in {pc[p], "raising"}
        \/ round'[p] = round[p] /\ pc[p] = "services" /\ pc'[p] = "delete_namespace"
    <2>1. CASE CleanupFiles(p)
      <3>1. \/ pc[p] = "returning" /\ pc'[p] = (IF p \in Drivers THEN "test" ELSE "record")
               /\ round' = round
            \/ pc[p] = "raising" /\ pc'[p] = "failure" /\ round' = round
            \/ pc[p] = "raising" /\ p \in Checks /\ pc'[p] = "flow"
               /\ round' = [round EXCEPT ![p] = round[p] + 1]
        BY <2>1 DEF CleanupFiles
      <3> QED
        BY <3>1
    <2>2. CASE StopVersion(p)
      BY <2>2 DEF StopVersion, AfterStop, Exit
    <2>3. CASE StopVersionFails(p)
      BY <2>3 DEF StopVersionFails, Retry
    <2>4. CASE DeleteServices(p) \/ DeleteNamespace(p) \/ StopDeploymentFails(p) \/ Kill(p)
      BY <2>4 DEF DeleteServices, DeleteNamespace, StopDeploymentFails, Kill, Exit
    <2> QED
      BY <2>1, <2>2, <2>3, <2>4
  <1>6. p \in Checks => /\ Len(Flows[p]) \in 0 .. 2 /\ round[p] \in 1 .. 3
                        /\ pc[p] # "flow" => round[p] <= Len(Flows[p])
    BY <1>4, FlowsType DEF PlaceInv
  <1> QED
    BY <1>1, <1>2, <1>3, <1>4, <1>5, <1>6 DEF PlaceInv

LEMMA StepPlace ==
  ASSUME TypeOK, NEW p \in Programs, PlaceInv(p), ProgramStep(p) \/ Kill(p)
  PROVE  PlaceInv(p)'
  BY FlagPlace, DeployPlace, StopPlace DEF ProgramStep, CheckStep, DriverStep

-------------------------------------------------------------------------------
(***************************************************************************)
(* Attempts.                                                               *)
(***************************************************************************)

\* A step outside of stop_version starts its count, if any, at zero.
LEMMA CountsFromZero ==
  ASSUME TypeOK, NEW p \in Programs, PlaceInv(p), TriesInv(p),
         stops' = stops, round' = round,
         \/ pc'[p] \in {"raising"} \cup Ended /\ tries'[p] = 0
         \/ /\ pc[p] \notin {"undo", "stop", "raising"} \cup Ended
            /\ pc'[p] \notin {"raising"} \cup Ended
            /\ pc'[p] \notin {"url", "ip", "contact", "probe"} => tries'[p] = 0
            /\ pc'[p] \in {"undo", "stop"} => pc[p] \notin {"idle", "new", "flow"}
  PROVE  TriesInv(p)'
  <1>1. D(p)' = D(p) /\ round'[p] = round[p]
    BY DEF D
  <1>2. CASE pc'[p] \in {"raising"} \cup Ended /\ tries'[p] = 0
    BY <1>1, <1>2 DEF TriesInv, Ended
  <1>3. CASE /\ pc[p] \notin {"undo", "stop", "raising"} \cup Ended
             /\ pc'[p] \notin {"raising"} \cup Ended
             /\ pc'[p] \notin {"url", "ip", "contact", "probe"} => tries'[p] = 0
             /\ pc'[p] \in {"undo", "stop"} => pc[p] \notin {"idle", "new", "flow"}
    <2>1. D(p) \in Deployments => stops[D(p)] = 0
      BY <1>3 DEF TriesInv
    <2>2. pc'[p] \in {"undo", "stop"} => D(p) \in Deployments
      BY <1>3, AtDeployment
    <2>3. pc'[p] \in {"undo", "stop"} => tries'[p] < StopAttempts /\ stops[D(p)] = tries'[p]
      BY <1>3, <2>1, <2>2, DeployAssumption
    <2> QED
      BY <1>1, <1>3, <2>1, <2>3 DEF TriesInv
  <1> QED
    BY <1>2, <1>3

LEMMA FlagTries ==
  ASSUME TypeOK, NEW p \in Programs, PlaceInv(p), TriesInv(p),
         \/ ReadFlag(p) \/ SetFlag(p) \/ RestoreFlag(p) \/ ConfigFails(p) \/ RecordLatency(p)
         \/ Contact(p) \/ ContactFails(p) \/ StartDriver(p) \/ RunTests(p)
         \/ TestsRaise(p)
  PROVE  TriesInv(p)'
  <1> USE DEF TypeOK, GoTo, world, locals, history, Ended
  <1>1. stops' = stops /\ round' = round
    BY DEF ReadFlag, SetFlag, RestoreFlag, ConfigFails, RecordLatency, Contact, ContactFails,
           StartDriver, RunTests, TestsRaise
  <1>2. \/ pc'[p] \in {"success", "failure"} /\ tries'[p] = 0
        \/ /\ pc[p] \in {"new", "flow", "record", "contact", "probe", "test"}
           /\ pc'[p] \in {"flow", "base", "record", "contact", "probe", "test", "stop",
                          "services"}
           /\ pc'[p] \notin {"url", "ip", "contact", "probe"} => tries'[p] = 0
           /\ pc'[p] \in {"undo", "stop"} => pc[p] \notin {"idle", "new", "flow"}
    <2>1. CASE \/ ReadFlag(p) \/ SetFlag(p) \/ RestoreFlag(p) \/ ConfigFails(p)
               \/ RecordLatency(p) \/ StartDriver(p) \/ RunTests(p) \/ TestsRaise(p)
      <3>1. tries' = tries
        BY <2>1 DEF ReadFlag, SetFlag, RestoreFlag, ConfigFails, RecordLatency, StartDriver,
                    RunTests, TestsRaise
      <3>2. /\ pc[p] \in {"new", "flow", "record", "test"}
            /\ pc'[p] \in {"flow", "base", "contact", "test", "stop", "services", "success",
                           "failure"}
            /\ pc'[p] \in {"undo", "stop"} => pc[p] \notin {"idle", "new", "flow"}
        BY <2>1 DEF ReadFlag, SetFlag, RestoreFlag, ConfigFails, RecordLatency, StartDriver,
                    RunTests, TestsRaise
      <3>3. tries[p] = 0
        BY <3>2 DEF TriesInv
      <3> QED
        BY <3>1, <3>2, <3>3
    <2>2. CASE Contact(p)
      BY <2>2 DEF Contact, Succeed
    <2>3. CASE ContactFails(p)
      <3>1. /\ pc[p] \in {"contact", "probe"}
            /\ \/ pc'[p] = pc[p]
               \/ pc'[p] = "stop" /\ tries'[p] = 0
        BY <2>3 DEF ContactFails, Retry
      <3> QED
        BY <3>1
    <2> QED
      BY <2>1, <2>2, <2>3
  <1> QED
    BY <1>1, <1>2, CountsFromZero

LEMMA DeployTries ==
  ASSUME TypeOK, NEW p \in Programs, PlaceInv(p), TriesInv(p),
         \/ SetBaseImage(p) \/ SetBuilderImage(p) \/ NoTemplate(p) \/ GaeStep(p) \/ GkeStep(p)
  PROVE  TriesInv(p)'
  <1> USE DEF TypeOK, GoTo, world, locals, history, Ended, GaeStep, GkeStep
  <1>1. stops' = stops /\ round' = round
    BY DEF SetBaseImage, SetBuilderImage, NoTemplate, DeployGae, DeployGaeFails, RetrieveUrl,
           RetrieveUrlFails, UrlGarbled, BuildImage, BuildImageFails, CreateNamespace,
           CreateNamespaceFails, Apply, ApplyFails, GetExternalIp, GetExternalIpFails
  <1>2. \/ pc'[p] = "raising" /\ tries'[p] = 0
        \/ /\ pc[p] \in {"base", "builder", "deploy", "url", "image", "namespace", "apply", "ip"}
           /\ pc'[p] \in {"builder", "deploy", "url", "image", "namespace", "apply", "ip",
                          "undo", "returning"}
           /\ pc'[p] \notin {"url", "ip", "contact", "probe"} => tries'[p] = 0
    <2>1. CASE \/ SetBaseImage(p) \/ SetBuilderImage(p) \/ NoTemplate(p) \/ DeployGae(p)
               \/ DeployGaeFails(p) \/ BuildImage(p) \/ BuildImageFails(p)
               \/ CreateNamespace(p) \/ CreateNamespaceFails(p) \/ Apply(p) \/ ApplyFails(p)
      <3>1. tries' = tries
        BY <2>1 DEF SetBaseImage, SetBuilderImage, NoTemplate, DeployGae, DeployGaeFails,
                    BuildImage, BuildImageFails, CreateNamespace, CreateNamespaceFails, Apply,
                    ApplyFails
      <3>2. /\ pc[p] \in {"base", "builder", "deploy", "image", "namespace", "apply"}
            /\ pc'[p] \in {"builder", "deploy", "url", "image", "namespace", "apply", "ip",
                           "raising"}
        BY <2>1 DEF SetBaseImage, SetBuilderImage, NoTemplate, DeployGae, DeployGaeFails,
                    BuildImage, BuildImageFails, CreateNamespace, CreateNamespaceFails, Apply,
                    ApplyFails
      <3>3. tries[p] = 0
        BY <3>2 DEF TriesInv
      <3> QED
        BY <3>1, <3>2, <3>3
    <2>2. CASE RetrieveUrl(p) \/ GetExternalIp(p)
      BY <2>2 DEF RetrieveUrl, GetExternalIp, Succeed
    <2>3. CASE RetrieveUrlFails(p) \/ UrlGarbled(p) \/ GetExternalIpFails(p)
      <3>1. /\ pc[p] \in {"url", "ip"}
            /\ \/ pc'[p] = pc[p]
               \/ pc'[p] \in {"undo", "raising"} /\ tries'[p] = 0
        BY <2>3 DEF RetrieveUrlFails, UrlGarbled, GetExternalIpFails, Retry
      <3> QED
        BY <3>1
    <2> QED
      BY <2>1, <2>2, <2>3
  <1> QED
    BY <1>1, <1>2, CountsFromZero

LEMMA StopTries ==
  ASSUME TypeOK, NEW p \in Programs, PlaceInv(p), TriesInv(p),
         CleanupFiles(p) \/ StopStep(p) \/ Kill(p)
  PROVE  TriesInv(p)'
  <1> USE DEF GoTo, world, locals, history, StopStep
  <1>1. /\ pc \in [Programs -> Stage] /\ round \in [Programs -> 1 .. 3]
        /\ tries \in [Programs -> Nat] /\ stops \in [Deployments -> 0 .. StopAttempts]
        /\ round[p] \in 1 .. 3 /\ tries[p] \in Nat
    BY DEF TypeOK
  <1>2. CASE CleanupFiles(p)
    <2>1. pc[p] \in {"returning", "raising"} /\ tries' = tries /\ stops' = stops
      BY <1>2 DEF CleanupFiles
    <2>2. tries'[p] = 0
      BY <2>1 DEF TriesInv
    <2>3. CASE round' = round
      <3>1. \/ pc[p] = "returning" /\ pc'[p] \in {"test", "record"}
            \/ pc'[p] = "failure"
        BY <1>1, <1>2, <2>3 DEF CleanupFiles
      <3> QED
        BY <2>1, <2>2, <2>3, <3>1, CountsFromZero DEF Ended
    <2>4. CASE round' # round
      <3>1. pc'[p] = "flow" /\ round' = [round EXCEPT ![p] = round[p] + 1]
        BY <1>1, <1>2, <2>4 DEF CleanupFiles
      <3>2. round'[p] = round[p] + 1 /\ D(p)'[1] = p /\ D(p)'[2] = round[p] + 1
        BY <1>1, <3>1 DEF D
      <3>3. D(p)' \in Deployments => stops[D(p)'] = 0
        BY <1>1, <3>2 DEF TriesInv
      <3>4. \A v \in Deployments : v[1] = p /\ v[2] > round'[p] => stops[v] = 0
        BY <1>1, <3>2, DeploymentType DEF TriesInv
      <3> QED
        BY <2>1, <2>2, <3>1, <3>3, <3>4 DEF TriesInv
    <2> QED
      BY <2>3, <2>4
  <1>3. CASE StopVersion(p)
    <2>1. /\ pc[p] \in {"undo", "stop"} /\ tries'[p] = 0
          /\ stops' = [stops EXCEPT ![D(p)] = 0]
      BY <1>1, <1>3 DEF StopVersion
    <2>2. D(p) \in Deployments /\ D(p)[2] = round[p]
      BY <2>1, AtDeployment DEF Ended
    <2>3. \A v \in Deployments : v[1] = p /\ v[2] >= round[p] => stops'[v] = 0
      <3> SUFFICES ASSUME NEW v \in Deployments, v[1] = p, v[2] >= round[p]
                   PROVE  stops'[v] = 0
        OBVIOUS
      <3>1. v = <<v[1], v[2]>> /\ v[2] \in {1, 2}
        BY DeploymentType
      <3>2. v[2] = round[p] \/ v[2] > round[p]
        BY <1>1, <3>1
      <3>3. CASE v[2] = round[p]
        BY <1>1, <2>1, <2>2, <3>1, <3>3 DEF D
      <3>4. CASE v[2] > round[p]
        BY <1>1, <2>1, <3>4 DEF TriesInv
      <3> QED
        BY <3>2, <3>3, <3>4
    <2>4. \/ round' = round /\ pc'[p] \in {"raising", "success", "failure"}
          \/ pc'[p] = "flow" /\ round'[p] = round[p] + 1
      BY <1>1, <1>3 DEF StopVersion, AfterStop, Exit
    <2>5. round'[p] \in {round[p], round[p] + 1}
      BY <2>4
    <2>6. D(p)'[1] = p /\ D(p)'[2] = round'[p]
      BY DEF D
    <2>7. \A v \in Deployments : v[1] = p /\ v[2] >= round'[p] => stops'[v] = 0
      BY <1>1, <2>3, <2>5, DeploymentType
    <2>8. D(p)' \in Deployments => stops'[D(p)'] = 0
      BY <1>1, <2>5, <2>6, <2>7
    <2>9. \A v \in Deployments : v[1] = p /\ v[2] > round'[p] => stops'[v] = 0
      BY <1>1, <2>5, <2>7, DeploymentType
    <2> QED
      BY <2>1, <2>4, <2>8, <2>9 DEF TriesInv, Ended
  <1>4. CASE StopVersionFails(p)
    <2>1. /\ pc[p] \in {"undo", "stop"} /\ round' = round
          /\ stops' = [stops EXCEPT ![D(p)] = stops[D(p)] + 1]
      BY <1>4 DEF StopVersionFails
    <2>2. D(p) \in Deployments /\ D(p)[2] = round[p] /\ D(p)' = D(p)
      BY <2>1, AtDeployment DEF Ended, D
    <2>3. stops'[D(p)] = tries[p] + 1
      BY <1>1, <2>1, <2>2 DEF TriesInv
    <2>4. \/ pc'[p] \in {"raising", "failure"} /\ tries'[p] = 0
          \/ pc'[p] = pc[p] /\ tries'[p] = tries[p] + 1 /\ tries[p] + 1 < StopAttempts
      <3>1. Retry(p, StopAttempts, IF pc[p] = "undo" THEN "raising" ELSE "failure")
        BY <1>4 DEF StopVersionFails
      <3>2. StopAttempts \in Nat \ {0}
        BY DeployAssumption
      <3>3. CASE tries[p] + 1 >= StopAttempts
        BY <1>1, <3>1, <3>3 DEF Retry
      <3>4. CASE ~(tries[p] + 1 >= StopAttempts)
        BY <1>1, <3>1, <3>2, <3>4 DEF Retry
      <3> QED
        BY <3>3, <3>4
    <2>5. \A v \in Deployments : v[1] = p /\ v[2] > round'[p] => stops'[v] = 0
      BY <1>1, <2>1, <2>2 DEF TriesInv
    <2> QED
      BY <2>1, <2>2, <2>3, <2>4, <2>5 DEF TriesInv, Ended
  <1>5. CASE DeleteServices(p) \/ DeleteNamespace(p) \/ StopDeploymentFails(p)
    <2>1. /\ pc[p] \in {"services", "delete_namespace"} /\ tries' = tries /\ stops' = stops
          /\ round' = round
      BY <1>5 DEF DeleteServices, DeleteNamespace, StopDeploymentFails
    <2>2. pc'[p] \in {"delete_namespace", "success", "failure"}
      BY <1>1, <1>5 DEF DeleteServices, DeleteNamespace, StopDeploymentFails, Exit
    <2>3. tries'[p] = 0
      BY <2>1 DEF TriesInv
    <2> QED
      BY <2>1, <2>2, <2>3, CountsFromZero DEF Ended
  <1>6. CASE Kill(p)
    <2>1. pc'[p] = "killed" /\ tries'[p] = 0 /\ stops' = stops /\ round' = round
      BY <1>1, <1>6 DEF Kill
    <2> QED
      BY <2>1, CountsFromZero DEF Ended
  <1> QED
    BY <1>2, <1>3, <1>4, <1>5, <1>6

LEMMA StepTries ==
  ASSUME TypeOK, NEW p \in Programs, PlaceInv(p), TriesInv(p), ProgramStep(p) \/ Kill(p)
  PROVE  TriesInv(p)'
  BY FlagTries, DeployTries, StopTries DEF ProgramStep, CheckStep, DriverStep

-------------------------------------------------------------------------------
(***************************************************************************)
(* What is left behind.                                                    *)
(***************************************************************************)

\* What the step of p does about its version or namespace at hand.
LEMMA Handles ==
  ASSUME TypeOK, NEW p \in Programs, PlaceInv(p), TriesInv(p), ProgramStep(p) \/ Kill(p),
         D(p) \in Deployments
  PROVE  \/ live'[D(p)] = None \/ D(p) \in unhandled' \/ stops'[D(p)] = StopAttempts
         \/ pc'[p] = "killed"
         \/ pc'[p] \in There /\ round'[p] = round[p]
         \/ pc[p] \notin There /\ live'[D(p)] = live[D(p)] /\ stops'[D(p)] = stops[D(p)]
  <1> USE DEF GoTo, There, world, locals, history
  <1>1. /\ pc \in [Programs -> Stage] /\ round \in [Programs -> 1 .. 3]
        /\ live \in [Deployments -> Contents \cup {None}]
        /\ tries[p] \in Nat /\ stops \in [Deployments -> 0 .. StopAttempts]
    BY DEF TypeOK
  <1>2. CASE CheckStep(p)
    <2>1. live' = live /\ stops' = stops /\ round' = round
      BY <1>2 DEF CheckStep, ReadFlag, SetFlag, RestoreFlag, ConfigFails, RecordLatency,
                  Contact, ContactFails
    <2>2. \/ pc[p] \in {"new", "flow"}
          \/ pc'[p] \in {"contact", "probe", "stop"}
      BY <1>1, <1>2 DEF CheckStep, ReadFlag, SetFlag, RestoreFlag, ConfigFails,
                        RecordLatency, Contact, ContactFails, Succeed, Retry
    <2> QED
      BY <2>1, <2>2
  <1>3. CASE DriverStep(p)
    <2>1. live' = live /\ stops' = stops /\ round' = round
      BY <1>3 DEF DriverStep, StartDriver, RunTests, TestsRaise
    <2>2. CASE StartDriver(p)
      BY <2>1, <2>2 DEF StartDriver
    <2>3. CASE RunTests(p)
      <3>1. CASE Args[p].url
        <4>1. p \in Drivers
          BY CheckArgs, <3>1 DEF Programs
        <4>2. D(p) = <<p, 1>> /\ live[<<p, 1>>] = None
          BY <3>1, <4>1 DEF PlaceInv, D
        <4> QED
          BY <2>1, <4>2
      <3>2. CASE ~Args[p].url
        <4>1. pc'[p] \in {"stop", "services"}
          BY <1>1, <2>3, <3>2 DEF RunTests
        <4> QED
          BY <2>1, <4>1
      <3> QED
        BY <3>1, <3>2
    <2>4. CASE TestsRaise(p)
      <3>1. CASE Args[p].url
        <4>1. p \in Drivers
          BY CheckArgs, <3>1 DEF Programs
        <4>2. D(p) = <<p, 1>> /\ live[<<p, 1>>] = None
          BY <3>1, <4>1 DEF PlaceInv, D
        <4> QED
          BY <2>1, <4>2
      <3>2. CASE ~Args[p].url
        BY <2>4, <3>2 DEF TestsRaise
      <3> QED
        BY <3>1, <3>2
    <2> QED
      BY <1>3, <2>2, <2>3, <2>4 DEF DriverStep
  <1>4. CASE SetBaseImage(p) \/ SetBuilderImage(p) \/ NoTemplate(p) \/ BuildImage(p)
             \/ BuildImageFails(p)
    <2>1. /\ pc[p] \in {"base", "builder", "image"} /\ live' = live /\ stops' = stops
      BY <1>4 DEF SetBaseImage, SetBuilderImage, NoTemplate, BuildImage, BuildImageFails
    <2> QED
      BY <2>1
  <1>5. CASE GaeStep(p) \/ GkeStep(p)
    <2>1. round' = round /\ stops' = stops
      BY <1>5 DEF GaeStep, GkeStep, DeployGae, DeployGaeFails, RetrieveUrl,
                  RetrieveUrlFails, UrlGarbled, BuildImage, BuildImageFails, CreateNamespace,
                  CreateNamespaceFails, Apply, ApplyFails, GetExternalIp, GetExternalIpFails
    <2>2. CASE DeployGae(p) \/ RetrieveUrl(p) \/ CreateNamespace(p) \/ Apply(p)
               \/ GetExternalIp(p)
      <3>1. pc'[p] \in {"url", "returning", "apply", "ip"}
        BY <1>1, <2>2 DEF DeployGae, RetrieveUrl, CreateNamespace, Apply, GetExternalIp,
                          Succeed
      <3> QED
        BY <2>1, <3>1
    <2>3. CASE DeployGaeFails(p) \/ CreateNamespaceFails(p) \/ ApplyFails(p)
      BY <2>3 DEF DeployGaeFails, CreateNamespaceFails, ApplyFails
    <2>4. CASE RetrieveUrlFails(p)
      <3>1. pc'[p] \in {"url", "undo"}
        BY <1>1, <2>4 DEF RetrieveUrlFails, Retry
      <3> QED
        BY <2>1, <3>1
    <2>5. CASE UrlGarbled(p) \/ GetExternalIpFails(p)
      <3>1. \/ D(p) \in unhandled'
            \/ pc[p] \in {"url", "ip"} /\ pc' = pc
        BY <2>5 DEF UrlGarbled, GetExternalIpFails, Retry
      <3> QED
        BY <2>1, <3>1
    <2> QED
      BY <1>4, <1>5, <2>2, <2>3, <2>4, <2>5 DEF GaeStep, GkeStep
  <1>6. CASE CleanupFiles(p)
    <2>1. live' = live /\ stops' = stops
      BY <1>6 DEF CleanupFiles
    <2>2. \/ pc[p] = "raising"
          \/ pc'[p] \in {"test", "record"} /\ round' = round
      BY <1>1, <1>6 DEF CleanupFiles
    <2> QED
      BY <2>1, <2>2
  <1>7. CASE StopVersion(p) \/ DeleteNamespace(p)
    <2>1. live' = [live EXCEPT ![D(p)] = None]
      BY <1>7 DEF StopVersion, DeleteNamespace
    <2> QED
      BY <1>1, <2>1
  <1>8. CASE StopVersionFails(p)
    <2>1. /\ pc[p] \in {"undo", "stop"} /\ round' = round
          /\ stops' = [stops EXCEPT ![D(p)] = stops[D(p)] + 1]
          /\ Retry(p, StopAttempts, IF pc[p] = "undo" THEN "raising" ELSE "failure")
      BY <1>8 DEF StopVersionFails
    <2>2. stops[D(p)] = tries[p] /\ tries[p] < StopAttempts
      BY <2>1 DEF TriesInv
    <2>3. CASE tries[p] + 1 >= StopAttempts
      <3>1. tries[p] + 1 = StopAttempts
        BY <1>1, <2>2, <2>3, DeployAssumption
      <3> QED
        BY <1>1, <2>1, <2>2, <3>1
    <2>4. CASE ~(tries[p] + 1 >= StopAttempts)
      <3>1. pc' = pc
        BY <2>1, <2>4 DEF Retry
      <3> QED
        BY <2>1, <3>1
    <2> QED
      BY <2>3, <2>4
  <1>9. CASE DeleteServices(p) \/ StopDeploymentFails(p)
    BY <1>1, <1>9 DEF DeleteServices, StopDeploymentFails
  <1>10. CASE Kill(p)
    BY <1>1, <1>10 DEF Kill
  <1> QED
    BY <1>2, <1>3, <1>4, <1>5, <1>6, <1>7, <1>8, <1>9, <1>10 DEF ProgramStep, StopStep

LEMMA StepLeft ==
  ASSUME TypeOK, NEW p \in Programs, PlaceInv(p), TriesInv(p), ProgramStep(p) \/ Kill(p),
         NEW v \in Deployments, v[1] = p, LeftInv(v)
  PROVE  LeftInv(v)'
  <1>1. Frame(p)
    BY StepFrame
  <1>2. pc[p] # "killed" /\ unhandled \subseteq unhandled'
    BY <1>1 DEF Frame, Ended
  <1>3. CASE v # D(p)
    <2>1. live'[v] = live[v] /\ stops'[v] = stops[v]
      BY <1>1, <1>3 DEF Frame
    <2> QED
      BY <1>2, <1>3, <2>1 DEF LeftInv
  <1>4. CASE v = D(p)
    <2>1. \/ live'[v] = None \/ v \in unhandled' \/ stops'[v] = StopAttempts
          \/ pc'[p] = "killed"
          \/ pc'[p] \in There /\ round'[p] = round[p]
          \/ pc[p] \notin There /\ live'[v] = live[v] /\ stops'[v] = stops[v]
      BY <1>4, Handles
    <2>2. round'[p] = round[p] => v = D(p)'
      BY <1>4 DEF D
    <2> QED
      BY <1>2, <2>1, <2>2 DEF LeftInv
  <1> QED
    BY <1>3, <1>4

LEMMA StepGone ==
  ASSUME TypeOK, NEW p \in Programs, PlaceInv(p), TriesInv(p), ProgramStep(p) \/ Kill(p),
         NEW v \in Deployments, v[1] = p
  PROVE  GoneInv(v)'
  <1> SUFFICES ASSUME p \in Drivers, Args[p].env = "GAE", pc'[p] = "success"
               PROVE  live'[v] = None
    BY DEF GoneInv
  <1> USE DEF GoTo, world, locals, history
  <1>1. v = D(p) /\ v = <<p, 1>>
    BY DeploymentType DEF PlaceInv, D
  <1>2. pc \in [Programs -> Stage] /\ live \in [Deployments -> Contents \cup {None}]
    BY DEF TypeOK
  <1>3. p \notin Checks
    BY DriverIsNoCheck
  <1>4. CASE CheckStep(p) \/ StartDriver(p)
    <2>1. pc'[p] \in {"test", "base"}
      BY <1>2, <1>3, <1>4 DEF StartDriver, CheckStep, ReadFlag, SetFlag, RestoreFlag,
         ConfigFails, RecordLatency, Contact, ContactFails, PlaceInv
    <2> QED
      BY <2>1
  <1>5. CASE RunTests(p)
    <2>1. Args[p].url /\ live' = live
      BY <1>2, <1>5 DEF RunTests
    <2> QED
      BY <1>1, <2>1 DEF PlaceInv
  <1>6. CASE \/ SetBaseImage(p) \/ SetBuilderImage(p) \/ NoTemplate(p)
             \/ GaeStep(p) \/ GkeStep(p)
    <2>1. pc'[p] # "success"
      BY <1>2, <1>6 DEF SetBaseImage, SetBuilderImage, NoTemplate, GaeStep, GkeStep, DeployGae,
         DeployGaeFails, RetrieveUrl, RetrieveUrlFails, UrlGarbled, BuildImage,
         BuildImageFails, CreateNamespace, CreateNamespaceFails, Apply, ApplyFails,
         GetExternalIp, GetExternalIpFails, Succeed, Retry
    <2> QED
      BY <2>1
  <1>7. CASE CleanupFiles(p) \/ StopVersionFails(p) \/ TestsRaise(p) \/ Kill(p)
    <2>1. pc'[p] # "success"
      BY <1>2, <1>7 DEF CleanupFiles, StopVersionFails, TestsRaise, Kill, Retry
    <2> QED
      BY <2>1
  <1>8. CASE StopVersion(p)
    BY <1>1, <1>2, <1>8 DEF StopVersion
  <1>9. CASE DeleteServices(p) \/ DeleteNamespace(p) \/ StopDeploymentFails(p)
    <2>1. pc[p] \in {"services", "delete_namespace"}
      BY <1>9 DEF DeleteServices, DeleteNamespace, StopDeploymentFails
    <2> QED
      BY <2>1 DEF PlaceInv
  <1> QED
    BY <1>4, <1>5, <1>6, <1>7, <1>8, <1>9 DEF ProgramStep, StopStep, DriverStep

-------------------------------------------------------------------------------
(***************************************************************************)
(* What is deployed.                                                       *)
(***************************************************************************)

\* DeploysWhatItWasGiven, of one deployment.
GivenTo(v) == live[v] # None /\ v[1] \notin crossed => AsGiven(v[1], v[2], live[v])

LEMMA GivenOfEach == DeploysWhatItWasGiven <=> \A v \in Deployments : GivenTo(v)
  BY DEF DeploysWhatItWasGiven, GivenTo, AsGiven

\* A program that has put everything into its place deploys what it was given.
LEMMA ContentAsGiven ==
  ASSUME TypeOK, NEW p \in Programs, PlaceInv(p), GivenInv(p), p \notin crossed,
         pc[p] \in {"deploy", "image"}
  PROVE  AsGiven(p, round[p], Content(p))
  <1>1. p \in Checks => pc[p] = "deploy"
    BY CheckArgs DEF PlaceInv
  <1> QED
    BY <1>1, ContentType DEF AsGiven, GivenInv

LEMMA StepGivenTo ==
  ASSUME TypeOK, NEW p \in Programs, PlaceInv(p), GivenInv(p), ProgramStep(p) \/ Kill(p),
         Frame(p), NEW v \in Deployments, GivenTo(v)
  PROVE  GivenTo(v)'
  <1>1. crossed \subseteq crossed'
    BY DEF Frame
  <1>2. live'[v] \in {live[v], None} => GivenTo(v)'
    BY <1>1 DEF GivenTo, AsGiven
  <1>3. v # D(p) => GivenTo(v)'
    BY <1>2 DEF Frame
  <1>4. v = D(p) => v[1] = p /\ v[2] = round[p]
    BY DEF D
  <1>5. live \in [Deployments -> Contents \cup {None}]
    BY DEF TypeOK
  <1> USE DEF world, locals, history
  <1>6. CASE DeployGae(p) \/ DeployGaeFails(p)
    <2>1. pc[p] = "deploy" /\ (v = D(p) => live'[v] \in {Content(p), None})
      BY <1>5, <1>6 DEF DeployGae, DeployGaeFails
    <2>2. p \notin crossed => AsGiven(p, round[p], Content(p))
      BY <2>1, ContentAsGiven
    <2>3. v = D(p) /\ live'[v] = Content(p) => GivenTo(v)'
      BY <1>1, <1>4, <2>2 DEF GivenTo, AsGiven
    <2> QED
      BY <1>2, <1>3, <2>1, <2>3
  <1>7. CASE CreateNamespace(p) \/ CreateNamespaceFails(p)
    <2>1. pc[p] = "namespace" /\ (v = D(p) => live'[v] \in {built[p], None})
      BY <1>5, <1>7 DEF CreateNamespace, CreateNamespaceFails
    <2>2. p \notin crossed /\ built[p] # None => AsGiven(p, round[p], built[p])
      BY <2>1 DEF GivenInv
    <2>3. v = D(p) /\ live'[v] = built[p] => GivenTo(v)'
      BY <1>1, <1>4, <2>2 DEF GivenTo, AsGiven
    <2> QED
      BY <1>2, <1>3, <2>1, <2>3
  <1>8. CASE \/ CheckStep(p) \/ DriverStep(p) \/ SetBaseImage(p) \/ SetBuilderImage(p)
             \/ NoTemplate(p) \/ RetrieveUrl(p) \/ RetrieveUrlFails(p) \/ UrlGarbled(p)
             \/ BuildImage(p) \/ BuildImageFails(p) \/ Apply(p) \/ ApplyFails(p)
             \/ GetExternalIp(p) \/ GetExternalIpFails(p) \/ CleanupFiles(p)
             \/ DeleteServices(p) \/ Kill(p)
    <2>1. live' = live
      BY <1>8 DEF CheckStep, ReadFlag, SetFlag, RestoreFlag, ConfigFails, RecordLatency,
         Contact, ContactFails, DriverStep, StartDriver, RunTests, TestsRaise, SetBaseImage,
         SetBuilderImage, NoTemplate, RetrieveUrl, RetrieveUrlFails, UrlGarbled, BuildImage,
         BuildImageFails, Apply, ApplyFails, GetExternalIp, GetExternalIpFails,
         CleanupFiles, DeleteServices, Kill
    <2> QED
      BY <1>2, <2>1
  <1>9. CASE StopVersion(p) \/ StopVersionFails(p) \/ DeleteNamespace(p)
             \/ StopDeploymentFails(p)
    <2>1. v = D(p) => live'[v] \in {live[v], None}
      BY <1>5, <1>9 DEF StopVersion, StopVersionFails, DeleteNamespace, StopDeploymentFails
    <2> QED
      BY <1>2, <1>3, <2>1
  <1> QED
    BY <1>6, <1>7, <1>8, <1>9 DEF ProgramStep, GaeStep, GkeStep, StopStep

LEMMA StepGiven ==
  ASSUME TypeOK, NEW p \in Programs, PlaceInv(p), GivenInv(p), ProgramStep(p) \/ Kill(p)
  PROVE  GivenInv(p)'
  <1> SUFFICES ASSUME p \notin crossed'
               PROVE  GivenInv(p)'
    BY DEF GivenInv
  <1> USE DEF GoTo, world, locals, history
  <1>1. p \notin crossed /\ GivenInv(p)
    BY StepFrame DEF Frame
  <1>2. /\ pc \in [Programs -> Stage] /\ round \in [Programs -> 1 .. 3]
        /\ dockerfile \in [Dirs -> Images \cup {Own, None}]
        /\ testYaml \in [Dirs -> Builders \cup {None}]
        /\ built \in [Programs -> Contents \cup {None}]
    BY DEF TypeOK
  <1>3. Dir(p) \in Dirs /\ Args[p].env \in {"GAE", "GKE"} /\ (p \in Checks => Args[p].env = "GAE")
    BY ArgsType, CheckArgs
  <1>4. pc'[p] \notin {"base", "builder", "deploy", "image", "namespace"} => GivenInv(p)'
    BY DEF GivenInv
  <1>5. CASE SetFlag(p)
    <2>1. pc'[p] = "base" /\ flag' = Flows[p][round[p]] /\ round' = round
      BY <1>2, <1>5 DEF SetFlag
    <2> QED
      BY <2>1 DEF GivenInv
  <1>6. CASE StartDriver(p)
    <2>1. p \in Drivers /\ pc'[p] \in {"test", "base"}
      BY <1>2, <1>6 DEF StartDriver
    <2> QED
      BY <2>1, DriverIsNoCheck DEF GivenInv
  <1>7. CASE SetBaseImage(p)
    <2>1. /\ pc[p] = "base" /\ pc'[p] = "builder" /\ flag' = flag /\ round' = round
          /\ dockerfile' = IF Args[p].image = None THEN dockerfile
                           ELSE [dockerfile EXCEPT ![Dir(p)] = Args[p].image]
      BY <1>2, <1>7 DEF SetBaseImage
    <2>2. Args[p].image \in {None, dockerfile'[Dir(p)]}
      BY <1>2, <1>3, <2>1
    <2> QED
      BY <1>1, <2>1, <2>2 DEF GivenInv, Dir
  <1>8. CASE SetBuilderImage(p)
    <2>1. /\ pc[p] = "builder" /\ pc'[p] \in {"deploy", "image"} /\ flag' = flag
          /\ dockerfile' = dockerfile /\ round' = round
          /\ testYaml' = IF Args[p].builder = None THEN testYaml
                         ELSE [testYaml EXCEPT ![Dir(p)] = Args[p].builder]
      BY <1>2, <1>8 DEF SetBuilderImage
    <2>2. Args[p].builder \in {None, testYaml'[Dir(p)]}
      BY <1>2, <1>3, <2>1
    <2> QED
      BY <1>1, <2>1, <2>2 DEF GivenInv, Dir
  <1>9. CASE BuildImage(p)
    <2>1. /\ pc[p] = "image" /\ pc'[p] = "namespace" /\ round' = round
          /\ built'[p] = Content(p)
      BY <1>2, <1>9 DEF BuildImage
    <2>2. AsGiven(p, round[p], Content(p))
      BY <1>1, <2>1, ContentAsGiven
    <2> QED
      BY <2>1, <2>2 DEF GivenInv, AsGiven
  <1>10. CASE \/ ReadFlag(p) \/ RestoreFlag(p) \/ ConfigFails(p) \/ RecordLatency(p)
              \/ Contact(p) \/ ContactFails(p) \/ RunTests(p) \/ TestsRaise(p) \/ NoTemplate(p)
              \/ GaeStep(p) \/ BuildImageFails(p) \/ CreateNamespace(p)
              \/ CreateNamespaceFails(p) \/ Apply(p) \/ ApplyFails(p) \/ GetExternalIp(p)
              \/ GetExternalIpFails(p)
    <2>1. pc'[p] \notin {"base", "builder", "deploy", "image", "namespace"}
      BY <1>2, <1>10 DEF ReadFlag, RestoreFlag, ConfigFails, RecordLatency, Contact,
         ContactFails, RunTests, TestsRaise, NoTemplate, GaeStep, DeployGae, DeployGaeFails,
         RetrieveUrl,
         RetrieveUrlFails, UrlGarbled, BuildImageFails, CreateNamespace,
         CreateNamespaceFails, Apply, ApplyFails, GetExternalIp, GetExternalIpFails,
         Succeed, Retry
    <2> QED
      BY <1>4, <2>1
  <1>11. CASE CleanupFiles(p) \/ StopStep(p) \/ Kill(p)
    <2>1. pc'[p] \notin {"base", "builder", "deploy", "image", "namespace"}
      BY <1>2, <1>11 DEF CleanupFiles, StopStep, StopVersion, AfterStop, StopVersionFails,
         DeleteServices, DeleteNamespace, StopDeploymentFails, Exit, Kill, Retry
    <2> QED
      BY <1>4, <2>1
  <1> QED
    BY <1>5, <1>6, <1>7, <1>8, <1>9, <1>10, <1>11
       DEF ProgramStep, CheckStep, DriverStep, GkeStep

-------------------------------------------------------------------------------
(***************************************************************************)
(* The flag.                                                               *)
(***************************************************************************)

\* A step of p changes nothing about another check.
LEMMA OtherCheck ==
  ASSUME NEW p \in Programs, Frame(p), NEW c \in Checks, c # p
  PROVE  /\ Writing(c)' = Writing(c) /\ NeedsFlag(c)' = NeedsFlag(c)
         /\ previous'[c] = previous[c]
  <1>1. SameProgram(c)
    BY CheckArgs DEF Frame
  <1> QED
    BY <1>1 DEF SameProgram, Writing, NeedsFlag

\* Who is undisturbed after a step was so before.
LEMMA WasUndisturbed ==
  ASSUME NEW p \in Programs, Frame(p), Undisturbed'
  PROVE  Undisturbed
  <1> SUFFICES ASSUME NEW c \in Checks
               PROVE  pc[c] \notin {"failure", "killed"} /\ c \notin crossed
    BY DEF Undisturbed
  <1>1. pc'[c] \notin {"failure", "killed"} /\ c \notin crossed'
    BY DEF Undisturbed
  <1>2. c = p => pc[c] \notin {"failure", "killed"}
    BY DEF Frame, Ended
  <1>3. c # p => pc'[c] = pc[c]
    BY CheckArgs DEF Frame, SameProgram
  <1> QED
    BY <1>1, <1>2, <1>3 DEF Frame

\* A check that has the flag to itself is the only one that needs it.
LEMMA SetsAlone ==
  ASSUME TypeOK, NEW p \in Programs, SetFlag(p) \/ RestoreFlag(p), Undisturbed'
  PROVE  \A c \in Checks \ {p} : ~NeedsFlag(c)
  <1>1. crossed' = crossed \cup {q \in Programs \ {p} : NeedsFlag(q)}
    BY DEF SetFlag, RestoreFlag, CrossFlag
  <1> QED
    BY <1>1, CheckArgs DEF Undisturbed

\* Steps of a check on its deployments: it goes on with the flag, or the next one.
LEMMA GoesOn ==
  ASSUME TypeOK, NEW p \in Checks, PlaceInv(p), ProgramStep(p) \/ Kill(p),
         pc'[p] \notin {"failure", "killed"}, ~ReadFlag(p), ~SetFlag(p), ~RestoreFlag(p)
  PROVE  /\ Writing(p) /\ Writing(p)' /\ flag' = flag /\ previous'[p] = previous[p]
  <1> USE DEF GoTo, world, locals, history
  <1>1. /\ pc \in [Programs -> Stage] /\ round \in [Programs -> 1 .. 3]
        /\ p \in Programs /\ p \notin Drivers /\ Args[p].env = "GAE" /\ round[p] \in 1 .. 3
    BY CheckArgs, DriverIsNoCheck DEF TypeOK
  <1>2. Ended = {"success", "failure", "killed"}
    BY DEF Ended
  <1>3. CASE RecordLatency(p) \/ Contact(p) \/ ContactFails(p)
    <2>1. /\ pc[p] \in {"record", "contact", "probe"}
          /\ pc'[p] \in {"contact", "probe", "stop"}
          /\ flag' = flag /\ previous' = previous
      BY <1>1, <1>3 DEF RecordLatency, Contact, ContactFails, Succeed, Retry
    <2> QED
      BY <1>2, <2>1 DEF Writing, NeedsFlag
  <1>4. CASE \/ SetBaseImage(p) \/ SetBuilderImage(p) \/ NoTemplate(p) \/ GaeStep(p)
             \/ GkeStep(p)
    <2>1. /\ flag' = flag /\ previous' = previous
          /\ pc[p] \in {"base", "builder", "deploy", "url", "image", "namespace", "apply", "ip"}
      BY <1>4 DEF SetBaseImage, SetBuilderImage, NoTemplate, GaeStep, GkeStep, DeployGae,
         DeployGaeFails, RetrieveUrl, RetrieveUrlFails, UrlGarbled, BuildImage,
         BuildImageFails, CreateNamespace, CreateNamespaceFails, Apply, ApplyFails,
         GetExternalIp, GetExternalIpFails
    <2>2. pc'[p] \in {"builder", "deploy", "url", "image", "namespace", "apply", "ip", "undo",
                      "returning", "raising"}
      <3>1. CASE \/ SetBaseImage(p) \/ SetBuilderImage(p) \/ NoTemplate(p) \/ DeployGae(p)
                 \/ DeployGaeFails(p) \/ RetrieveUrl(p) \/ BuildImage(p)
                 \/ BuildImageFails(p) \/ CreateNamespace(p) \/ CreateNamespaceFails(p)
                 \/ Apply(p) \/ ApplyFails(p) \/ GetExternalIp(p)
        BY <1>1, <3>1 DEF SetBaseImage, SetBuilderImage, NoTemplate, DeployGae,
           DeployGaeFails, RetrieveUrl, BuildImage, BuildImageFails, CreateNamespace,
           CreateNamespaceFails, Apply, ApplyFails, GetExternalIp, Succeed
      <3>2. CASE RetrieveUrlFails(p) \/ UrlGarbled(p) \/ GetExternalIpFails(p)
        BY <1>1, <3>2 DEF RetrieveUrlFails, UrlGarbled, GetExternalIpFails, Retry
      <3> QED
        BY <1>4, <3>1, <3>2 DEF GaeStep, GkeStep
    <2> QED
      BY <1>2, <2>1, <2>2 DEF Writing, NeedsFlag
  <1>5. CASE CleanupFiles(p) \/ StopVersion(p)
    <2>1. /\ flag' = flag /\ previous' = previous
          /\ pc[p] \in {"undo", "stop", "returning", "raising"}
      BY <1>5 DEF CleanupFiles, StopVersion
    <2>2. \/ pc'[p] \in {"record", "raising"}
          \/ pc'[p] = "flow" /\ round'[p] = round[p] + 1
      BY <1>1, <1>5 DEF CleanupFiles, StopVersion, AfterStop
    <2> QED
      BY <1>1, <1>2, <2>1, <2>2 DEF Writing, NeedsFlag
  <1>6. CASE StopVersionFails(p)
    <2>1. /\ flag' = flag /\ previous' = previous /\ pc[p] \in {"undo", "stop"}
          /\ pc'[p] \in {"undo", "stop", "raising"}
      BY <1>1, <1>6 DEF StopVersionFails, Retry
    <2> QED
      BY <1>2, <2>1 DEF Writing, NeedsFlag
  <1>7. ~(DeleteServices(p) \/ DeleteNamespace(p) \/ StopDeploymentFails(p))
    <2>1. pc[p] \notin {"services", "delete_namespace"}
      BY <1>1 DEF PlaceInv
    <2> QED
      BY <2>1 DEF DeleteServices, DeleteNamespace, StopDeploymentFails
  <1>8. ~(ConfigFails(p) \/ DriverStep(p) \/ Kill(p))
    BY <1>1 DEF ConfigFails, DriverStep, StartDriver, RunTests, TestsRaise, Kill, PlaceInv
  <1> QED
    BY <1>3, <1>4, <1>5, <1>6, <1>7, <1>8 DEF ProgramStep, CheckStep, StopStep

LEMMA StepFlag ==
  ASSUME TypeOK, NEW p \in Programs, PlaceInv(p), ProgramStep(p) \/ Kill(p), FlagInv
  PROVE  FlagInv'
  <1> SUFFICES ASSUME Undisturbed'
               PROVE  AsFound' \/ \E w \in Checks : OneWriter(w)'
    BY DEF FlagInv
  <1>1. Frame(p)
    BY StepFrame
  <1>2. AsFound \/ \E w \in Checks : OneWriter(w)
    BY <1>1, WasUndisturbed DEF FlagInv
  <1>3. found' = found
    BY <1>1 DEF Frame
  <1>4. \A c \in Checks \ {p} : /\ Writing(c)' = Writing(c) /\ NeedsFlag(c)' = NeedsFlag(c)
                                /\ previous'[c] = previous[c]
    BY <1>1, OtherCheck
  <1>5. pc \in [Programs -> Stage] /\ previous \in [Programs -> FlagValues]
    BY DEF TypeOK
  <1> USE DEF GoTo, world, locals, history
  <1>6. CASE p \notin Checks
    <2>1. \A c \in Checks : /\ Writing(c)' = Writing(c) /\ NeedsFlag(c)' = NeedsFlag(c)
                            /\ previous'[c] = previous[c]
      BY <1>4, <1>6
    <2>2. flag' = flag
      BY <1>6 DEF ProgramStep, Kill, CheckStep, ReadFlag, SetFlag, RestoreFlag, ConfigFails,
         RecordLatency, Contact, ContactFails, DriverStep, StartDriver, RunTests, TestsRaise,
         SetBaseImage, SetBuilderImage, NoTemplate, GaeStep, GkeStep, DeployGae,
         DeployGaeFails, RetrieveUrl, RetrieveUrlFails, UrlGarbled, BuildImage,
         BuildImageFails, CreateNamespace, CreateNamespaceFails, Apply, ApplyFails,
         GetExternalIp, GetExternalIpFails, CleanupFiles, StopStep, StopVersion,
         StopVersionFails, DeleteServices, DeleteNamespace, StopDeploymentFails
    <2> QED
      BY <1>2, <1>3, <2>1, <2>2 DEF AsFound, OneWriter
  <1>7. CASE p \in Checks /\ ReadFlag(p)
    <2>1. pc[p] = "new" /\ pc'[p] = "flow" /\ round' = round /\ flag' = flag
          /\ previous'[p] = flag
      BY <1>5, <1>7 DEF ReadFlag
    <2>2. ~Writing(p) /\ ~Writing(p)'
      BY <2>1 DEF Writing, NeedsFlag, PlaceInv
    <2>3. CASE AsFound
      BY <1>3, <1>4, <2>1, <2>2, <2>3 DEF AsFound
    <2>4. ASSUME NEW w \in Checks, OneWriter(w)
          PROVE  OneWriter(w)'
      <3>1. w # p
        BY <2>2, <2>4 DEF OneWriter
      <3> QED
        BY <1>3, <1>4, <2>2, <2>4, <3>1 DEF OneWriter
    <2> QED
      BY <1>2, <2>3, <2>4
  <1>8. CASE p \in Checks /\ (SetFlag(p) \/ RestoreFlag(p))
    <2>1. \A c \in Checks \ {p} : ~NeedsFlag(c)
      BY <1>8, SetsAlone
    <2>2. \A c \in Checks \ {p} : ~Writing(c)
      BY <2>1 DEF Writing
    <2>3. pc[p] = "flow" /\ previous' = previous
      BY <1>8 DEF SetFlag, RestoreFlag
    <2>4. previous[p] = found
      <3>1. NeedsFlag(p)
        BY <1>8, <2>3 DEF NeedsFlag, Ended
      <3>2. CASE AsFound
        BY <1>8, <3>1, <3>2 DEF AsFound
      <3>3. ASSUME NEW w \in Checks, OneWriter(w)
            PROVE  previous[p] = found
        <4>1. w = p
          BY <2>2, <3>3 DEF OneWriter
        <4> QED
          BY <3>3, <4>1 DEF OneWriter
      <3> QED
        BY <1>2, <3>2, <3>3
    <2>5. CASE SetFlag(p)
      <3>1. pc'[p] = "base"
        BY <1>5, <2>5 DEF SetFlag
      <3>2. Writing(p)'
        BY <1>8, <3>1 DEF Writing, NeedsFlag, Ended
      <3>3. OneWriter(p)'
        BY <1>3, <1>4, <2>2, <2>3, <2>4, <3>2 DEF OneWriter
      <3> QED
        BY <1>8, <3>3
    <2>6. CASE RestoreFlag(p)
      <3>1. pc'[p] = "success" /\ flag' = previous[p]
        BY <1>5, <2>6 DEF RestoreFlag
      <3>2. ~NeedsFlag(p)'
        BY <3>1 DEF NeedsFlag, Ended
      <3>3. AsFound'
        BY <1>3, <1>4, <2>1, <2>4, <3>1, <3>2 DEF AsFound
      <3> QED
        BY <3>3
    <2> QED
      BY <1>8, <2>5, <2>6
  <1>9. CASE p \in Checks /\ ~ReadFlag(p) /\ ~SetFlag(p) /\ ~RestoreFlag(p)
    <2>1. pc'[p] \notin {"failure", "killed"}
      BY <1>9 DEF Undisturbed
    <2>2. /\ Writing(p) /\ Writing(p)' /\ flag' = flag /\ previous'[p] = previous[p]
      BY <1>9, <2>1, GoesOn
    <2>3. OneWriter(p)
      BY <1>2, <1>9, <2>2 DEF AsFound, OneWriter, Writing
    <2>4. OneWriter(p)'
      BY <1>3, <1>4, <2>2, <2>3 DEF OneWriter
    <2> QED
      BY <1>9, <2>4
  <1> QED
    BY <1>6, <1>7, <1>8, <1>9

-------------------------------------------------------------------------------
(***************************************************************************)
(* The theorems.                                                           *)
(***************************************************************************)
LEMMA InitIInv == Init => IInv
  <1> SUFFICES ASSUME Init PROVE IInv
    OBVIOUS
  <1>1. TypeOK
    BY InitTypeOK
  <1>2. ASSUME NEW p \in Programs
        PROVE  /\ pc[p] \in {"new", "idle"} /\ round[p] = 1 /\ tries[p] = 0
    BY DEF Init
  <1>3. \A v \in Deployments : live[v] = None /\ stops[v] = 0
    BY DEF Init
  <1>4. ASSUME NEW p \in Programs
        PROVE  ProgramInv(p)
    <2>1. PlaceInv(p)
      <3>1. p \in Checks => Len(Flows[p]) \in 0 .. 2
        BY FlowsType
      <3>2. Args[p].url => live[<<p, 1>>] = None
        <4>1. Args[p].url => <<p, 1>> \in Deployments
          BY CheckArgs, DriverIsNoCheck, IsDeployment DEF Programs
        <4> QED
          BY <1>3, <4>1
      <3> QED
        BY <1>2, <3>1, <3>2 DEF PlaceInv
    <2>2. TriesInv(p)
      BY <1>2, <1>3 DEF TriesInv
    <2>3. GivenInv(p)
      BY <1>2 DEF GivenInv
    <2> QED
      BY <2>1, <2>2, <2>3 DEF ProgramInv
  <1>5. (\A v \in Deployments : LeftInv(v) /\ GoneInv(v)) /\ DeploysWhatItWasGiven
    BY <1>3 DEF LeftInv, GoneInv, DeploysWhatItWasGiven
  <1>6. FlagInv
    <2>1. flag = found
      BY DEF Init
    <2>2. \A c \in Checks : ~NeedsFlag(c)
      BY <1>2, CheckArgs DEF NeedsFlag
    <2> QED
      BY <2>1, <2>2 DEF FlagInv, AsFound
  <1> QED
    BY <1>1, <1>4, <1>5, <1>6 DEF IInv

LEMMA StepIInv == IInv /\ [Next]_vars => IInv'
  <1> SUFFICES ASSUME IInv, [Next]_vars PROVE IInv'
    OBVIOUS
  <1>1. ASSUME NEW p \in Programs, ProgramStep(p) \/ Kill(p)
        PROVE  IInv'
    <2>1. TypeOK /\ PlaceInv(p) /\ TriesInv(p) /\ GivenInv(p) /\ Frame(p) /\ FlagInv
      BY <1>1, StepFrame DEF IInv, ProgramInv
    <2>2. TypeOK'
      BY <1>1, <2>1, StepTypeOK
    <2>3. ProgramInv(p)'
      BY <1>1, <2>1, StepPlace, StepTries, StepGiven DEF ProgramInv
    <2>4. ASSUME NEW q \in Programs, q # p
          PROVE  ProgramInv(q)'
      BY <1>1, <2>1, <2>4, OthersKeep DEF IInv
    <2>5. ASSUME NEW v \in Deployments
          PROVE  LeftInv(v)' /\ GoneInv(v)'
      <3>1. LeftInv(v) /\ GoneInv(v)
        BY DEF IInv
      <3>2. CASE v[1] = p
        BY <1>1, <2>1, <3>1, <3>2, StepLeft, StepGone
      <3>3. CASE v[1] # p
        BY <1>1, <2>1, <3>1, <3>3, OtherVersionsKeep
      <3> QED
        BY <3>2, <3>3
    <2>6. DeploysWhatItWasGiven'
      <3>1. \A v \in Deployments : GivenTo(v)
        BY GivenOfEach DEF IInv
      <3>2. \A v \in Deployments : GivenTo(v)'
        BY <1>1, <2>1, <3>1, StepGivenTo
      <3> QED
        BY <3>2 DEF DeploysWhatItWasGiven, GivenTo, AsGiven
    <2>7. FlagInv'
      BY <1>1, <2>1, StepFlag
    <2> QED
      BY <2>2, <2>3, <2>4, <2>5, <2>6, <2>7 DEF IInv
  <1>2. CASE UNCHANGED vars
    BY <1>2 DEF IInv, TypeOK, ProgramInv, PlaceInv, TriesInv, GivenInv, AsGiven, LeftInv,
       GoneInv, DeploysWhatItWasGiven, FlagInv, Undisturbed, AsFound, OneWriter, Writing,
       NeedsFlag, D, vars, world, locals, history
  <1> QED
    BY <1>1, <1>2 DEF Next

\* The inductive invariant holds of every behaviour.
THEOREM Inductive == Spec => []IInv
  BY InitIInv, StepIInv, PTL DEF Spec

\* Every state of the programs, the versions and the flag has its type.
THEOREM TypeCorrect == Spec => []TypeOK
  <1>1. IInv => TypeOK
    BY DEF IInv
  <1> QED
    BY <1>1, Inductive, PTL

\* A program that has ended by itself leaves a version or a namespace behind only
\* after an error that nothing cleans up after, or after all attempts to delete it.
THEOREM NothingIsLeftBehind == Spec => []NothingLeftBehind
  <1>1. IInv => NothingLeftBehind
    <2> SUFFICES ASSUME IInv, NEW v \in Deployments
                 PROVE  /\ pc[v[1]] \in {"success", "failure"} /\ live[v] # None =>
                             v \in unhandled \/ stops[v] = StopAttempts
                        /\ v[1] \in Drivers /\ Args[v[1]].env = "GAE" /\ pc[v[1]] = "success"
                             => live[v] = None
      BY DEF NothingLeftBehind
    <2> QED
      BY DEF IInv, LeftInv, GoneInv, There
  <1> QED
    BY <1>1, Inductive, PTL

\* What a program deploys is made from what it was given, unless another one has
\* changed the directory or the flag under its hands.
THEOREM DeploysAsGiven == Spec => []DeploysWhatItWasGiven
  <1>1. IInv => DeploysWhatItWasGiven
    BY DEF IInv
  <1> QED
    BY <1>1, Inductive, PTL

\* Checks that have ended well and never met leave the flag as it was found.
THEOREM FlagIsRestored == Spec => []FlagRestored
  <1>1. IInv => FlagRestored
    <2> SUFFICES ASSUME IInv,
                        \A c \in Checks : /\ pc[c] \in {"idle", "new", "success"}
                                          /\ c \notin crossed
                 PROVE  flag = found
      BY DEF FlagRestored
    <2>1. AsFound \/ \E w \in Checks : OneWriter(w)
      BY DEF IInv, FlagInv, Undisturbed
    <2>2. \A w \in Checks : ~OneWriter(w)
      BY DEF OneWriter, Writing, NeedsFlag, Ended
    <2> QED
      BY <2>1, <2>2 DEF AsFound
  <1> QED
    BY <1>1, Inductive, PTL

===============================================================================
