--------------------------- MODULE RequirementsBuild ---------------------------
(***************************************************************************)
(* FTL's "phase 1" Python build: pip makes one wheel for every package a   *)
(* requirements.txt asks for, a pool of threads makes a layer of each, and *)
(* all of them together become the one requirements image that is cached,  *)
(* under a key made from a descriptor of the project.  The layers of the   *)
(* single packages go into the cache, too, all under one key that nobody   *)
(* reads.                                                                  *)
(*                                                                         *)
(* A requirements file is abstracted to the packages it asks for and the   *)
(* files its -r lines name; a wheel to its package.  Time stands still:    *)
(* PipfileBuild checks what a ttl does, and an entry that is not used is   *)
(* LostHit here.                                                           *)
(***************************************************************************)
EXTENDS Integers, Sequences, FiniteSets

CONSTANTS
  Builds,     \* runs of the FTL binary on projects without a Pipfile.lock
  Config,     \* Config[b]: the descriptors and the flags of build b
  Packages,   \* what a line of a requirements file may ask for
  FileNames,  \* what a line "-r name" may name
  Pipfiles,   \* contents of a Pipfile
  Absent,     \* there is no such file
  Empty,      \* the file is empty
  Threads,    \* constants.THREADS, the size of the pool
  MaxFaults,  \* MaxFaults[b]: bound: registry and tool failures build b meets
  Together,   \* bound: the sets of builds that may share a behaviour
  NoName,     \* the text in the key of PackageLayerBuilder: none
  Interp, BaseLayer, AppLayer, NoImage,                  \* as in PipfileBuild
  Envs, Repos, GlobalRepo, TTL, TicksPerHour, NoLayer    \* as in FtlCache

Lists == [pkgs : SUBSET Packages, refs : SUBSET FileNames]

\* The descriptors of a project: Pipfile, requirements.txt and the files that
\* may be included.
Descriptors == [pipfile : Pipfiles \cup {Absent}, req : Lists \cup {Absent, Empty},
                other : [FileNames -> Lists \cup {Absent}]]

Configs == [files : Descriptors, env : Envs, repo : Repos, ttlGiven : BOOLEAN,
            cache : BOOLEAN, upload : BOOLEAN, useGlobal : BOOLEAN,
            tarball : BOOLEAN, failOnError : BOOLEAN]

ASSUME ConfigAssumption == Config \in [Builds -> Configs]

ASSUME PoolAssumption == Threads \in Nat \ {0} /\ MaxFaults \in [Builds -> Nat]

ASSUME FileAssumption == Absent \notin Lists /\ Empty \notin Lists

VARIABLES
  registry,      \* the layer cache, see FtlCache
  main,          \* control point of the main thread of a build
  lyr_imgs,      \* the list of images to stitch
  img,           \* self._img of the layer builder at work, or NoLayer
  wheels,        \* the files in the build's wheel directory
  job,           \* job[b][p]: state of the future of package p
  req_txt_imgs,  \* packages whose layer the threads have appended
  raised,        \* exception on its way out of Build(), or "none"
  faults,        \* failures the environment has put to the build
  exitCode,      \* exit status of the process, or "none"
  stored         \* the image pushed or saved, or NoImage

lyrVars  == <<lyr_imgs, img>>
poolVars == <<wheels, job, req_txt_imgs>>
endVars  == <<raised, exitCode, stored>>
vars     == <<registry, main, lyrVars, poolVars, endVars, faults>>

Files(b) == Config[b].files

HasList(b) == Files(b).req \notin {Absent, Empty}

\* has_pkg_descriptor; a Pipfile is never empty here.
HasDescriptor(b) == Files(b).pipfile # Absent \/ HasList(b)

NoOthers == [f \in FileNames |-> Absent]

\* The files a text includes with -r, as far as descriptor_parser looks.
FirstLevel(d) == IF d.pipfile = Absent /\ d.req \in Lists THEN d.req.refs ELSE {}

\* Mutant of Text: a key without the included files.
TextOfFirstFile(d) == [d EXCEPT !.other = NoOthers]

\* descriptor_parser: the first descriptor there is and, if this is the
\* requirements.txt, the files it includes, but not those they include.
Text(d) ==
  [d EXCEPT !.req = IF d.pipfile = Absent THEN @ ELSE Absent,
            !.other = [f \in FileNames |-> IF f \in FirstLevel(d) THEN d.other[f] ELSE Absent]]

Texts   == {Text(Files(b)) : b \in Builds}
Bundles == [pkgs : SUBSET Packages]

Cache == INSTANCE FtlCache WITH
  Deps <- Texts \cup Bundles \cup {NoName}, now <- 0, MaxTime <- 0

ImageLayers == Cache!Layers \cup {BaseLayer, AppLayer}

\* What FtlCache assumes, and that the three kinds of keys are different.
ASSUME CacheAssumption ==
  /\ GlobalRepo \in Repos
  /\ NoLayer \notin Cache!Layers /\ NoImage \notin Seq(ImageLayers)
  /\ Interp # NoName /\ Interp \notin Texts /\ NoName \notin Texts

ReqKey(b)    == Cache!KeyOf(Text(Files(b)), Config[b].env)
InterpKey(b) == Cache!KeyOf(Interp, Config[b].env)

\* PackageLayerBuilder's key: the same for all packages, interpreters and
\* projects (the builds of an instance have one cache key version and salt).
PackageKey == Cache!KeyOf(NoName, CHOOSE e \in Envs : TRUE)

\* The key BuildLayer looks up.
LookupKey(b) == IF main[b] = "interp" THEN InterpKey(b) ELSE ReqKey(b)

\* All files pip reads, as they include each other.
Included(d) ==
  LET Closed(S) == /\ d.req.refs \subseteq S
                   /\ \A f \in S : d.other[f] # Absent => d.other[f].refs \subseteq S
  IN  {f \in FileNames : \A S \in SUBSET FileNames : Closed(S) => f \in S}

\* pip can read them all (external).
Readable(d) == d.req \in Lists /\ \A f \in Included(d) : d.other[f] # Absent

\* What requirements.txt asks for.
Wanted(d) == IF d.req \in Lists
               THEN d.req.pkgs \cup UNION {d.other[f].pkgs : f \in Included(d)}
               ELSE {}

-------------------------------------------------------------------------------
(***************************************************************************)
(* Helpers.                                                                *)
(***************************************************************************)

Idle      == {"new", "exited", "killed"}
MainState == Idle \cup {"interp", "makeInterp", "putInterp", "lookup", "download", "install",
                        "watch", "join", "stitch", "upload", "app", "store", "return", "handle"}

Errors   == {"user", "internal", "other"}
Active   == {"pack", "append"}
JobState == {"none", "queued", "ok"} \cup Active \cup Errors

GoTo(b, pc)     == main' = [main EXCEPT ![b] = pc]
AppendImg(b, l) == lyr_imgs' = [lyr_imgs EXCEPT ![b] = Append(@, l)]
SetImg(b, l)    == img' = [img EXCEPT ![b] = l]
Raise(b, e)     == raised' = [raised EXCEPT ![b] = e] /\ UNCHANGED <<exitCode, stored>>

\* The environment fails a request or a tool, at most MaxFaults[b] times.
Fault(b) ==
  /\ faults[b] < MaxFaults[b]
  /\ faults' = [faults EXCEPT ![b] = @ + 1]

\* Where a build goes from the interpreter's layer, and from a cache miss.
AfterInterp(b) == IF HasDescriptor(b) THEN "lookup" ELSE "app"
AfterMiss(b)   == IF main[b] = "interp" THEN "makeInterp" ELSE "download"

-------------------------------------------------------------------------------
(***************************************************************************)
(* A build up to the thread pool.                                          *)
(***************************************************************************)

\* RuntimeBase.__init__ and the first lines of Build.
Start(b) ==
  /\ main[b] = "new"
  /\ \E group \in Together : {b} \cup {c \in Builds : main[c] # "new"} \subseteq group
  /\ AppendImg(b, BaseLayer)
  /\ GoTo(b, "interp")
  /\ UNCHANGED <<registry, img, poolVars, endVars, faults>>

\* -r with the name of a file that is not there: an IOError of the key.
BadRef(b) == main[b] = "lookup" /\ \E f \in FirstLevel(Files(b)) : Files(b).other[f] = Absent

\* BuildLayer of the interpreter and of the requirements builder.
Lookup(b) == main[b] \in {"interp", "lookup"} /\ ~BadRef(b)

Hit(b) ==
  LET hit == Cache!Get(LookupKey(b), Config[b])
  IN  /\ Lookup(b)
      /\ hit # NoLayer /\ ~Cache!TtlRaises(LookupKey(b), Config[b])
      /\ AppendImg(b, hit)
      /\ GoTo(b, IF main[b] = "interp" THEN AfterInterp(b) ELSE "app")
      /\ UNCHANGED <<registry, img, poolVars, endVars, faults>>

Miss(b) ==
  /\ Lookup(b)
  /\ Cache!Get(LookupKey(b), Config[b]) = NoLayer
  /\ GoTo(b, AfterMiss(b))
  /\ UNCHANGED <<registry, lyrVars, poolVars, endVars, faults>>

\* The registry fails while it tells the age of a hit: a miss.
LostHit(b) ==
  /\ Lookup(b)
  /\ Cache!Found(LookupKey(b), Config[b])
  /\ Fault(b)
  /\ GoTo(b, AfterMiss(b))
  /\ UNCHANGED <<registry, lyrVars, poolVars, endVars>>

\* The IOError of BadRef, and the TypeError of a --ttl.
BadLookup(b) ==
  /\ BadRef(b) \/ (Lookup(b) /\ Cache!TtlRaises(LookupKey(b), Config[b]))
  /\ Raise(b, "other")
  /\ GoTo(b, "handle")
  /\ UNCHANGED <<registry, lyrVars, poolVars, faults>>

\* InterpreterLayerBuilder._build_layer, and the rest of its BuildLayer.
MakeInterp(b) ==
  /\ main[b] = "makeInterp"
  /\ SetImg(b, [part |-> Interp, env |-> Config[b].env, built |-> 0])
  /\ GoTo(b, "putInterp")
  /\ UNCHANGED <<registry, lyr_imgs, poolVars, endVars, faults>>

PutInterp(b) ==
  /\ main[b] = "putInterp"
  /\ Cache!Set(InterpKey(b), img[b], Config[b])
  /\ AppendImg(b, img[b])
  /\ SetImg(b, NoLayer)
  /\ GoTo(b, AfterInterp(b))
  /\ UNCHANGED <<poolVars, endVars, faults>>

\* pip wheel -r requirements.txt, whichever descriptor the key was made from.
Download(b) ==
  /\ main[b] = "download"
  /\ Readable(Files(b))
  /\ wheels' = [wheels EXCEPT ![b] = Wanted(Files(b))]
  /\ GoTo(b, "install")
  /\ UNCHANGED <<registry, lyrVars, job, req_txt_imgs, endVars, faults>>

\* ... which fails if there is no such file.
NothingToDownload(b) ==
  /\ main[b] = "download"
  /\ ~Readable(Files(b))
  /\ Raise(b, "user")
  /\ GoTo(b, "handle")
  /\ UNCHANGED <<registry, lyrVars, poolVars, faults>>

\* _resolve_whls, pip install of each wheel, executor.submit for each of them.
Install(b) ==
  /\ main[b] = "install"
  /\ job' = [job EXCEPT ![b] = [p \in Packages |-> IF p \in wheels[b] THEN "queued" ELSE "none"]]
  /\ GoTo(b, "watch")
  /\ UNCHANGED <<registry, lyrVars, wheels, req_txt_imgs, endVars, faults>>

-------------------------------------------------------------------------------
(***************************************************************************)
(* The pool.                                                               *)
(***************************************************************************)

JobGoTo(b, p, s) == job' = [job EXCEPT ![b][p] = s]

JobStart(b, p) ==
  /\ job[b][p] = "queued" /\ main[b] # "killed"
  /\ Cardinality({q \in Packages : job[b][q] \in Active}) < Threads
  /\ JobGoTo(b, p, "pack")
  /\ UNCHANGED <<registry, main, lyrVars, wheels, req_txt_imgs, endVars, faults>>

\* PackageLayerBuilder.BuildLayer: it looks nothing up.
JobPack(b, p) ==
  /\ job[b][p] = "pack" /\ main[b] # "killed"
  /\ Cache!Set(PackageKey, [part |-> [pkgs |-> {p}], env |-> Config[b].env, built |-> 0],
               Config[b])
  /\ JobGoTo(b, p, "append")
  /\ UNCHANGED <<main, lyrVars, wheels, req_txt_imgs, endVars, faults>>

\* req_txt_imgs.append: atomic under the interpreter lock.
JobAppend(b, p) ==
  /\ job[b][p] = "append" /\ main[b] # "killed"
  /\ req_txt_imgs' = [req_txt_imgs EXCEPT ![b] = @ \cup {p}]
  /\ JobGoTo(b, p, "ok")
  /\ UNCHANGED <<registry, main, lyrVars, wheels, endVars, faults>>

\* tar or gzip fails, or the registry.
JobFail(b, p) ==
  /\ job[b][p] = "pack" /\ main[b] # "killed"
  /\ Fault(b)
  /\ \E e \in {"internal", "other"} : JobGoTo(b, p, e)
  /\ UNCHANGED <<registry, main, lyrVars, wheels, req_txt_imgs, endVars>>

\* as_completed: future.result() raises what the job has raised ...
ObserveFailure(b) ==
  /\ main[b] = "watch"
  /\ \E p \in wheels[b] : job[b][p] \in Errors /\ Raise(b, job[b][p])
  /\ GoTo(b, "join")
  /\ UNCHANGED <<registry, lyrVars, poolVars, faults>>

\* ... and the loop ends when every future has been yielded.
LeaveLoop(b) ==
  /\ main[b] = "watch"
  /\ \A p \in wheels[b] : job[b][p] = "ok"
  /\ GoTo(b, "join")
  /\ UNCHANGED <<registry, lyrVars, poolVars, endVars, faults>>

Joined(b) == main[b] = "join" /\ \A p \in wheels[b] : job[b][p] \in Errors \cup {"ok"}

\* Mutant of Join: what is there is stitched.
JoinAnyway(b) ==
  /\ Joined(b)
  /\ GoTo(b, "stitch")
  /\ UNCHANGED <<registry, lyrVars, poolVars, endVars, faults>>

\* The end of the with block waits for every job.
Join(b) ==
  /\ Joined(b)
  /\ GoTo(b, IF raised[b] = "none" THEN "stitch" ELSE "handle")
  /\ UNCHANGED <<registry, lyrVars, poolVars, endVars, faults>>

-------------------------------------------------------------------------------
(***************************************************************************)
(* A build from the thread pool on.                                        *)
(***************************************************************************)

\* Mutant of Stitch: the None of an empty list is an image, too.
StitchNone(b) ==
  /\ main[b] = "stitch"
  /\ IF req_txt_imgs[b] = {}
       THEN UNCHANGED img
       ELSE SetImg(b, [part |-> [pkgs |-> req_txt_imgs[b]], env |-> Config[b].env, built |-> 0])
  /\ GoTo(b, "upload")
  /\ UNCHANGED <<registry, lyr_imgs, poolVars, endVars, faults>>

\* AppendLayersIntoImage: None if there are no layers.
Stitch(b) ==
  /\ main[b] = "stitch"
  /\ IF req_txt_imgs[b] = {}
       THEN GoTo(b, "app") /\ UNCHANGED img
       ELSE /\ SetImg(b, [part |-> [pkgs |-> req_txt_imgs[b]], env |-> Config[b].env, built |-> 0])
            /\ GoTo(b, "upload")
  /\ UNCHANGED <<registry, lyr_imgs, poolVars, endVars, faults>>

\* The end of RequirementsLayerBuilder.BuildLayer, and its image in the list.
Upload(b) ==
  /\ main[b] = "upload"
  /\ Cache!Set(ReqKey(b), img[b], Config[b])
  /\ AppendImg(b, img[b])
  /\ SetImg(b, NoLayer)
  /\ GoTo(b, "app")
  /\ UNCHANGED <<poolVars, endVars, faults>>

AddApp(b) ==
  /\ main[b] = "app"
  /\ AppendImg(b, AppLayer)
  /\ GoTo(b, "store")
  /\ UNCHANGED <<registry, img, poolVars, endVars, faults>>

\* StoreImage saves the image as a tarball, or pushes it with --upload.
Store(b) ==
  /\ main[b] = "store"
  /\ stored' = IF Config[b].tarball \/ Config[b].upload
                 THEN [stored EXCEPT ![b] = lyr_imgs[b]]
                 ELSE stored
  /\ GoTo(b, "return")
  /\ UNCHANGED <<registry, lyrVars, poolVars, raised, exitCode, faults>>

Exit(b) ==
  /\ main[b] = "return"
  /\ exitCode' = [exitCode EXCEPT ![b] = "0"]
  /\ GoTo(b, "exited")
  /\ UNCHANGED <<registry, lyrVars, poolVars, raised, stored, faults>>

\* python --version and the registry raise exceptions main() does not know;
\* virtualenv, pip install, tar and gzip fail with an InternalError, pip wheel
\* with a UserError.
ErrorsAt(pc) ==
  CASE pc \in {"interp", "lookup", "putInterp", "upload", "store"} -> {"other"}
    [] pc \in {"makeInterp", "install", "app"}                     -> {"internal"}
    [] pc = "download"                                             -> {"user", "internal"}
    [] OTHER                                                       -> {}

Fail(b) ==
  /\ Fault(b)
  /\ \E e \in ErrorsAt(main[b]) : Raise(b, e)
  /\ GoTo(b, "handle")
  /\ UNCHANGED <<registry, lyrVars, poolVars>>

\* main(): UserErrorHandler and InternalErrorHandler exit with 0 under
\* --succeed-on-error; any other exception ends the process with status 1.
Handle(b) ==
  /\ main[b] = "handle"
  /\ exitCode' = [exitCode EXCEPT ![b] =
                    IF raised[b] = "other" \/ Config[b].failOnError THEN "1" ELSE "0"]
  /\ GoTo(b, "exited")
  /\ UNCHANGED <<registry, lyrVars, poolVars, raised, stored, faults>>

Kill(b) ==
  /\ main[b] \notin Idle
  /\ GoTo(b, "killed")
  /\ UNCHANGED <<registry, lyrVars, poolVars, endVars, faults>>

-------------------------------------------------------------------------------
Init ==
  /\ registry = [r \in Repos |-> [k \in Cache!Keys |-> NoLayer]]
  /\ main = [b \in Builds |-> "new"]
  /\ lyr_imgs = [b \in Builds |-> <<>>]
  /\ img = [b \in Builds |-> NoLayer]
  /\ wheels = [b \in Builds |-> {}]
  /\ job = [b \in Builds |-> [p \in Packages |-> "none"]]
  /\ req_txt_imgs = [b \in Builds |-> {}]
  /\ raised = [b \in Builds |-> "none"]
  /\ faults = [b \in Builds |-> 0]
  /\ exitCode = [b \in Builds |-> "none"]
  /\ stored = [b \in Builds |-> NoImage]

BuildStep(b) ==
  \/ Start(b) \/ Hit(b) \/ Miss(b) \/ LostHit(b) \/ BadLookup(b)
  \/ MakeInterp(b) \/ PutInterp(b) \/ Download(b) \/ NothingToDownload(b) \/ Install(b)
  \/ \E p \in Packages : JobStart(b, p) \/ JobPack(b, p) \/ JobAppend(b, p) \/ JobFail(b, p)
  \/ ObserveFailure(b) \/ LeaveLoop(b) \/ Join(b) \/ Stitch(b) \/ Upload(b)
  \/ AddApp(b) \/ Store(b) \/ Exit(b) \/ Fail(b) \/ Handle(b) \/ Kill(b)

Next == \E b \in Builds : BuildStep(b)

Spec == Init /\ [][Next]_vars

-------------------------------------------------------------------------------
(***************************************************************************)
(* Properties.                                                             *)
(***************************************************************************)

\* The types: the None that stands for a requirements.txt without packages is
\* never in a list or in the registry (builder.py:115, BuildLayer).
TypeOK ==
  /\ registry \in [Repos -> [Cache!Keys -> Cache!Layers \cup {NoLayer}]]
  /\ main \in [Builds -> MainState]
  /\ lyr_imgs \in [Builds -> Seq(ImageLayers)]
  /\ img \in [Builds -> Cache!Layers \cup {NoLayer}]
  /\ wheels \in [Builds -> SUBSET Packages]
  /\ job \in [Builds -> [Packages -> JobState]]
  /\ req_txt_imgs \in [Builds -> SUBSET Packages]
  /\ raised \in [Builds -> Errors \cup {"none"}]
  /\ faults \in [Builds -> Nat]
  /\ exitCode \in [Builds -> {"none", "0", "1"}]
  /\ stored \in [Builds -> Seq(ImageLayers) \cup {NoImage}]

\* Layers for the descriptors a key is made from: all packages some project
\* with these descriptors asks for.
Serves(layer, text, env) ==
  /\ layer.env = env
  /\ \E c \in Builds : Text(Files(c)) = text /\ layer.part = [pkgs |-> Wanted(Files(c))]

\* The requirements layer in the cache is never a part of one, although jobs of
\* the pool fail, are killed and overtake each other (BuildLayer).
CachedWhole ==
  \A r \in Repos, e \in Envs, t \in Texts :
    LET layer == registry[r][Cache!KeyOf(t, e)]
    IN  layer # NoLayer => Serves(layer, t, e)

\* The key stands for everything pip reads: no Pipfile takes the place of the
\* requirements.txt, and no included file includes another.
KeyCovers(b) ==
  /\ Files(b).pipfile = Absent
  /\ HasList(b) => Included(Files(b)) = FirstLevel(Files(b))

\* The image build b is meant to make: base, interpreter, the packages its
\* requirements.txt asks for, if any, and the application.  When the key does
\* not cover what pip reads, another project's packages may be in their place.
Complete(b, image) ==
  LET last  == Len(image)
      layer == image[3]
  IN  /\ last \in {3, 4}
      /\ image[1] = BaseLayer /\ image[last] = AppLayer
      /\ image[2] = [part |-> Interp, env |-> Config[b].env, built |-> 0]
      /\ last = 3 => Wanted(Files(b)) = {}
      /\ last = 4 => /\ layer \in Cache!Layers
                     /\ IF KeyCovers(b)
                          THEN layer.part = [pkgs |-> Wanted(Files(b))]
                                 /\ layer.env = Config[b].env
                          ELSE Serves(layer, Text(Files(b)), Config[b].env)

-------------------------------------------------------------------------------
(***************************************************************************)
(* What a build promises, with no pool and no cache.                       *)
(***************************************************************************)
Status(b) ==
  CASE main[b] = "new"    -> "idle"
    [] main[b] = "exited" -> IF raised[b] = "none" THEN "succeeded" ELSE "failed"
    [] main[b] = "killed" -> "failed"
    [] OTHER              -> "running"

Abstract == INSTANCE ImageBuild WITH
  Wanting <- {b \in Builds : Config[b].tarball \/ Config[b].upload},
  IsComplete <- Complete,
  status <- [b \in Builds |-> Status(b)],
  image <- stored

\* A build with its pool, its failures and the cache it shares delivers at most
\* one image, a complete one, and succeeds only with the image it was asked for
\* (Build, BuildLayer, StoreImage, main).
ImplementsImageBuild == Abstract!Spec

===============================================================================
