----------------------------- MODULE PipfileBuild -----------------------------
(***************************************************************************)
(* FTL's "phase 2" Python build (ftl/python/builder.py): one layer per     *)
(* package pinned in Pipfile.lock, made by a pool of threads that share    *)
(* the list lyr_imgs, the layer cache and the process.  Builds run         *)
(* concurrently with each other and meet only in the cache.                *)
(*                                                                         *)
(* The main thread of a build makes the interpreter layer, submits one job *)
(* per package, reads the futures as they complete, leaves the executor's  *)
(* with block (which waits for every job, also when an exception leaves    *)
(* it), adds the application layer, and stores the image.                  *)
(***************************************************************************)
EXTENDS FtlCache, Sequences, FiniteSets

CONSTANTS
  Builds,     \* runs of the FTL binary
  Config,     \* Config[b]: the lock file and the flags of build b
  Threads,    \* constants.THREADS, the size of the pool
  MaxFaults,  \* MaxFaults[b]: bound: registry and tool failures build b meets
  Together,   \* bound: the sets of builds that may share a behaviour
  BaseLayer,  \* the layers of the base image
  AppLayer,   \* the layer with the application's own files
  NoImage     \* nothing was stored

Configs == [lock : SUBSET Deps, env : Envs, repo : Repos, ttlGiven : BOOLEAN,
            cache : BOOLEAN, upload : BOOLEAN, useGlobal : BOOLEAN,
            tarball : BOOLEAN, failOnError : BOOLEAN]

ASSUME ConfigAssumption == \A b \in Builds : Config[b] \in Configs

ASSUME PoolAssumption == Threads \in Nat \ {0} /\ MaxFaults \in [Builds -> Nat]

ASSUME LayerAssumption ==
  /\ BaseLayer # AppLayer
  /\ BaseLayer \notin Layers \cup {NoLayer}
  /\ AppLayer \notin Layers \cup {NoLayer}

ImageLayers == Layers \cup {BaseLayer, AppLayer}

ASSUME NoImageAssumption == NoImage \notin Seq(ImageLayers)

\* What an exception is to main(): UserError, InternalError, anything else.
Errors   == {"user", "internal", "other"}
Finished == {"ok"} \cup Errors
Active   == {"lookup", "download", "resolve", "upload", "append"}
JobState == {"none", "queued"} \cup Active \cup Finished

MainState == {"new", "interpLookup", "interpBuild", "interpUpload", "submit",
              "watch", "join", "app", "store", "return", "handle",
              "exited", "killed"}

VARIABLES
  main,      \* control point of the main thread of a build
  lyr_imgs,  \* the list of images to stitch, shared by the threads
  job,       \* job[b][d]: state of the future building package d
  img,       \* img[b][p]: self._img of the builder of part p
  wheels,    \* wheels[b][d]: the files in wheel directory d
  seen,      \* futures as_completed has yielded to the main thread
  raised,    \* exception on its way out of Build(), or "none"
  faults,    \* failures the environment has put to the build
  exitCode,  \* exit status of the process, or "none"
  stored     \* the image pushed or saved, or NoImage

cacheVars == <<now, registry>>
poolVars  == <<job, wheels, seen>>
endVars   == <<raised, exitCode, stored>>
vars      == <<cacheVars, poolVars, endVars, main, lyr_imgs, img, faults>>

Lock(b)      == Config[b].lock
Env(b)       == Config[b].env
Key(b, part) == KeyOf(part, Env(b))
TtlGiven(b)  == Config[b].ttlGiven

\* Mutant of WheelDir: one directory for the whole build.
SharedWheelDir(d) == CHOOSE e \in Deps : TRUE

\* gen_tmp_dir(WHEEL_DIR): every package has a wheel directory of its own.
WheelDir(d) == d

Running(b) == {d \in Lock(b) : job[b][d] \in Active}

-------------------------------------------------------------------------------
(***************************************************************************)
(* Helpers.                                                                *)
(***************************************************************************)

GoTo(b, pc)      == main' = [main EXCEPT ![b] = pc]
JobGoTo(b, d, s) == job' = [job EXCEPT ![b][d] = s]
SetImg(b, p, l)  == img' = [img EXCEPT ![b][p] = l]
AppendImg(b, l)  == lyr_imgs' = [lyr_imgs EXCEPT ![b] = Append(@, l)]

\* The environment fails a request or a tool, at most MaxFaults[b] times.
Fault(b) ==
  /\ faults[b] < MaxFaults[b]
  /\ faults' = [faults EXCEPT ![b] = @ + 1]

-------------------------------------------------------------------------------
(***************************************************************************)
(* The main thread up to the thread pool.                                  *)
(***************************************************************************)

\* RuntimeBase.__init__ and the first lines of Build.
Start(b) ==
  /\ main[b] = "new"
  /\ \E group \in Together : {b} \cup {x \in Builds : main[x] # "new"} \subseteq group
  /\ AppendImg(b, BaseLayer)
  /\ GoTo(b, "interpLookup")
  /\ UNCHANGED <<cacheVars, poolVars, endVars, img, faults>>

\* InterpreterLayerBuilder.BuildLayer: a hit becomes the builder's image.
InterpHit(b) ==
  /\ main[b] = "interpLookup"
  /\ Get(Key(b, Interp), Config[b]) # NoLayer
  /\ ~TtlRaises(Key(b, Interp), Config[b])
  /\ SetImg(b, Interp, Get(Key(b, Interp), Config[b]))
  /\ AppendImg(b, Get(Key(b, Interp), Config[b]))
  /\ GoTo(b, "submit")
  /\ UNCHANGED <<cacheVars, poolVars, endVars, faults>>

InterpMiss(b) ==
  /\ main[b] = "interpLookup"
  /\ Get(Key(b, Interp), Config[b]) = NoLayer
  /\ ~TtlRaises(Key(b, Interp), Config[b])
  /\ GoTo(b, "interpBuild")
  /\ UNCHANGED <<cacheVars, poolVars, endVars, lyr_imgs, img, faults>>

\* Get catches the registry's error while it reads the creation time of a
\* hit, and returns None.
InterpLostHit(b) ==
  /\ main[b] = "interpLookup"
  /\ Found(Key(b, Interp), Config[b])
  /\ Fault(b)
  /\ GoTo(b, "interpBuild")
  /\ UNCHANGED <<cacheVars, poolVars, endVars, lyr_imgs, img>>

\* The TypeError of a --ttl travels up to main().
InterpBadTtl(b) ==
  /\ main[b] = "interpLookup"
  /\ TtlRaises(Key(b, Interp), Config[b])
  /\ raised' = [raised EXCEPT ![b] = "other"]
  /\ GoTo(b, "handle")
  /\ UNCHANGED <<cacheVars, poolVars, lyr_imgs, img, faults, exitCode, stored>>

InterpBuild(b) ==
  /\ main[b] = "interpBuild"
  /\ SetImg(b, Interp, NewLayer(Interp, Env(b)))
  /\ GoTo(b, "interpUpload")
  /\ UNCHANGED <<cacheVars, poolVars, endVars, lyr_imgs, faults>>

InterpUpload(b) ==
  /\ main[b] = "interpUpload"
  /\ Set(Key(b, Interp), img[b][Interp], Config[b])
  /\ AppendImg(b, img[b][Interp])
  /\ GoTo(b, "submit")
  /\ UNCHANGED <<now, poolVars, endVars, img, faults>>

\* setup_virtualenv, the parsing of Pipfile.lock, and executor.submit for
\* every package.  The queue has the order of a Python dict, that is, any.
Submit(b) ==
  /\ main[b] = "submit"
  /\ job' = [job EXCEPT ![b] = [d \in Deps |-> IF d \in Lock(b) THEN "queued" ELSE "none"]]
  /\ GoTo(b, "watch")
  /\ UNCHANGED <<cacheVars, endVars, lyr_imgs, img, wheels, seen, faults>>

-------------------------------------------------------------------------------
(***************************************************************************)
(* A job: _build_pkg, run by a thread of the pool while the process lives. *)
(***************************************************************************)

JobAt(b, d, state) == job[b][d] = state /\ main[b] # "killed"

\* A free thread of the pool takes a job from the queue.
JobStart(b, d) ==
  /\ JobAt(b, d, "queued")
  /\ Cardinality(Running(b)) < Threads
  /\ JobGoTo(b, d, "lookup")
  /\ UNCHANGED <<cacheVars, endVars, main, lyr_imgs, img, wheels, seen, faults>>

\* PipfileLayerBuilder.BuildLayer, the cache lookup.
JobHit(b, d) ==
  /\ JobAt(b, d, "lookup")
  /\ Get(Key(b, d), Config[b]) # NoLayer
  /\ ~TtlRaises(Key(b, d), Config[b])
  /\ SetImg(b, d, Get(Key(b, d), Config[b]))
  /\ JobGoTo(b, d, "append")
  /\ UNCHANGED <<cacheVars, endVars, main, lyr_imgs, wheels, seen, faults>>

JobMiss(b, d) ==
  /\ JobAt(b, d, "lookup")
  /\ Get(Key(b, d), Config[b]) = NoLayer
  /\ ~TtlRaises(Key(b, d), Config[b])
  /\ JobGoTo(b, d, "download")
  /\ UNCHANGED <<cacheVars, endVars, main, lyr_imgs, img, wheels, seen, faults>>

JobLostHit(b, d) ==
  /\ JobAt(b, d, "lookup")
  /\ Found(Key(b, d), Config[b])
  /\ Fault(b)
  /\ JobGoTo(b, d, "download")
  /\ UNCHANGED <<cacheVars, endVars, main, lyr_imgs, img, wheels, seen>>

JobBadTtl(b, d) ==
  /\ JobAt(b, d, "lookup")
  /\ TtlRaises(Key(b, d), Config[b])
  /\ JobGoTo(b, d, "other")
  /\ UNCHANGED <<cacheVars, endVars, main, lyr_imgs, img, wheels, seen, faults>>

\* pip wheel --no-deps leaves one wheel in the directory it is given.
JobDownload(b, d) ==
  /\ JobAt(b, d, "download")
  /\ wheels' = [wheels EXCEPT ![b][WheelDir(d)] = @ \cup {d}]
  /\ JobGoTo(b, d, "resolve")
  /\ UNCHANGED <<cacheVars, endVars, main, lyr_imgs, img, seen, faults>>

\* pip wheel ends well but leaves no wheel behind.
JobDownloadNothing(b, d) ==
  /\ JobAt(b, d, "download")
  /\ Fault(b)
  /\ JobGoTo(b, d, "resolve")
  /\ UNCHANGED <<cacheVars, endVars, main, lyr_imgs, img, wheels, seen>>

\* Mutant of JobResolve: the layer is made and not kept in self._img.
JobResolveForgets(b, d) ==
  /\ JobAt(b, d, "resolve")
  /\ wheels[b][WheelDir(d)] # {}
  /\ JobGoTo(b, d, "upload")
  /\ UNCHANGED <<cacheVars, endVars, main, lyr_imgs, img, wheels, seen, faults>>

\* _resolve_whls lists the directory; the one wheel in it becomes the layer.
JobResolve(b, d) ==
  /\ JobAt(b, d, "resolve")
  /\ \E whl \in wheels[b][WheelDir(d)] :
       /\ wheels[b][WheelDir(d)] = {whl}
       /\ SetImg(b, d, NewLayer(whl, Env(b)))
  /\ JobGoTo(b, d, "upload")
  /\ UNCHANGED <<cacheVars, endVars, main, lyr_imgs, wheels, seen, faults>>

\* "expected one whl for one installed pkg": a plain Exception.
JobNotOneWheel(b, d) ==
  /\ JobAt(b, d, "resolve")
  /\ \A whl \in wheels[b][WheelDir(d)] : wheels[b][WheelDir(d)] # {whl}
  /\ JobGoTo(b, d, "other")
  /\ UNCHANGED <<cacheVars, endVars, main, lyr_imgs, img, wheels, seen, faults>>

\* Mutant of JobUpload: the package layer is not put into the cache.
JobUploadSkipped(b, d) ==
  /\ JobAt(b, d, "upload")
  /\ JobGoTo(b, d, "append")
  /\ UNCHANGED <<cacheVars, endVars, main, lyr_imgs, img, wheels, seen, faults>>

JobUpload(b, d) ==
  /\ JobAt(b, d, "upload")
  /\ Set(Key(b, d), img[b][d], Config[b])
  /\ JobGoTo(b, d, "append")
  /\ UNCHANGED <<now, endVars, main, lyr_imgs, img, wheels, seen, faults>>

\* lyr_imgs.append: atomic under the interpreter lock.
JobAppend(b, d) ==
  /\ JobAt(b, d, "append")
  /\ AppendImg(b, img[b][d])
  /\ JobGoTo(b, d, "ok")
  /\ UNCHANGED <<cacheVars, endVars, main, img, wheels, seen, faults>>

\* The exceptions a job can end with, by where it is: the registry's own and
\* those of `python --version` (other), pip wheel (user; internal if pip is
\* not found), pip install of the wheel (internal).
JobErrors(state) ==
  CASE state = "lookup"   -> {"other"}
    [] state = "download" -> {"user", "internal"}
    [] state = "resolve"  -> {"internal"}
    [] state = "upload"   -> {"other"}
    [] OTHER              -> {}

JobFail(b, d) ==
  /\ main[b] # "killed"
  /\ Fault(b)
  /\ \E e \in JobErrors(job[b][d]) : JobGoTo(b, d, e)
  /\ UNCHANGED <<cacheVars, endVars, main, lyr_imgs, img, wheels, seen>>

-------------------------------------------------------------------------------
(***************************************************************************)
(* The main thread from the thread pool on.                                *)
(***************************************************************************)

\* as_completed yields a finished future; future.result() returns ...
Observe(b, d) ==
  /\ main[b] = "watch"
  /\ job[b][d] = "ok" /\ d \notin seen[b]
  /\ seen' = [seen EXCEPT ![b] = @ \cup {d}]
  /\ UNCHANGED <<cacheVars, endVars, main, lyr_imgs, img, job, wheels, faults>>

\* Mutant of ObserveFailure: future.result() is never called.
ObserveFailureSilently(b, d) ==
  /\ main[b] = "watch"
  /\ job[b][d] \in Errors /\ d \notin seen[b]
  /\ seen' = [seen EXCEPT ![b] = @ \cup {d}]
  /\ UNCHANGED <<cacheVars, endVars, main, lyr_imgs, img, job, wheels, faults>>

\* ... or raises the exception the job ended with.
ObserveFailure(b, d) ==
  /\ main[b] = "watch"
  /\ job[b][d] \in Errors /\ d \notin seen[b]
  /\ raised' = [raised EXCEPT ![b] = job[b][d]]
  /\ GoTo(b, "join")
  /\ UNCHANGED <<cacheVars, poolVars, lyr_imgs, img, faults, exitCode, stored>>

LeaveLoop(b) ==
  /\ main[b] = "watch"
  /\ seen[b] = Lock(b)
  /\ GoTo(b, "join")
  /\ UNCHANGED <<cacheVars, poolVars, endVars, lyr_imgs, img, faults>>

\* Mutants of Join: shutdown(wait=False); a wait for every result, which a failed
\* job never gives; the exception is swallowed.
JoinWithoutWaiting(b) ==
  /\ main[b] = "join"
  /\ GoTo(b, IF raised[b] = "none" THEN "app" ELSE "handle")
  /\ UNCHANGED <<cacheVars, poolVars, endVars, lyr_imgs, img, faults>>

JoinForResults(b) ==
  /\ main[b] = "join"
  /\ \A d \in Lock(b) : job[b][d] = "ok"
  /\ GoTo(b, IF raised[b] = "none" THEN "app" ELSE "handle")
  /\ UNCHANGED <<cacheVars, poolVars, endVars, lyr_imgs, img, faults>>

JoinSwallows(b) ==
  /\ main[b] = "join"
  /\ \A d \in Lock(b) : job[b][d] \in Finished
  /\ GoTo(b, "app")
  /\ UNCHANGED <<cacheVars, poolVars, endVars, lyr_imgs, img, faults>>

\* ThreadPoolExecutor.__exit__ is shutdown(wait=True): the queue is drained.
Join(b) ==
  /\ main[b] = "join"
  /\ \A d \in Lock(b) : job[b][d] \in Finished
  /\ GoTo(b, IF raised[b] = "none" THEN "app" ELSE "handle")
  /\ UNCHANGED <<cacheVars, poolVars, endVars, lyr_imgs, img, faults>>

AddApp(b) ==
  /\ main[b] = "app"
  /\ AppendImg(b, AppLayer)
  /\ GoTo(b, "store")
  /\ UNCHANGED <<cacheVars, poolVars, endVars, img, faults>>

\* Mutant of Store: --no-upload also drops the tarball.
StoreUploadOnly(b) ==
  /\ main[b] = "store"
  /\ stored' = IF Config[b].upload THEN [stored EXCEPT ![b] = lyr_imgs[b]] ELSE stored
  /\ GoTo(b, "return")
  /\ UNCHANGED <<cacheVars, poolVars, lyr_imgs, img, faults, raised, exitCode>>

\* AppendLayersIntoImage stitches lyr_imgs in the order of the list;
\* StoreImage saves it as a tarball, or pushes it with --upload.
Store(b) ==
  /\ main[b] = "store"
  /\ stored' = IF Config[b].tarball \/ Config[b].upload
                 THEN [stored EXCEPT ![b] = lyr_imgs[b]]
                 ELSE stored
  /\ GoTo(b, "return")
  /\ UNCHANGED <<cacheVars, poolVars, lyr_imgs, img, faults, raised, exitCode>>

Exit(b) ==
  /\ main[b] = "return"
  /\ exitCode' = [exitCode EXCEPT ![b] = "0"]
  /\ GoTo(b, "exited")
  /\ UNCHANGED <<cacheVars, poolVars, lyr_imgs, img, faults, raised, stored>>

\* Exceptions of the main thread outside the pool: the registry's (other),
\* virtualenv, tar and gzip (internal).
MainErrors(pc) ==
  CASE pc = "interpLookup" -> {"other"}
    [] pc = "interpBuild"  -> {"internal"}
    [] pc = "interpUpload" -> {"other"}
    [] pc = "submit"       -> {"internal", "other"}
    [] pc = "app"          -> {"internal"}
    [] pc = "store"        -> {"other"}
    [] OTHER               -> {}

MainFail(b) ==
  /\ Fault(b)
  /\ \E e \in MainErrors(main[b]) : raised' = [raised EXCEPT ![b] = e]
  /\ GoTo(b, "handle")
  /\ UNCHANGED <<cacheVars, poolVars, lyr_imgs, img, exitCode, stored>>

\* main(): UserErrorHandler and InternalErrorHandler exit with 0 under
\* --succeed-on-error; any other exception ends the process with status 1.
Handle(b) ==
  /\ main[b] = "handle"
  /\ exitCode' = [exitCode EXCEPT ![b] =
                    IF raised[b] = "other" \/ Config[b].failOnError THEN "1" ELSE "0"]
  /\ GoTo(b, "exited")
  /\ UNCHANGED <<cacheVars, poolVars, lyr_imgs, img, faults, raised, stored>>

\* The process is killed, by the time limit of a cloud build for instance.
Kill(b) ==
  /\ main[b] \notin {"new", "exited", "killed"}
  /\ GoTo(b, "killed")
  /\ UNCHANGED <<cacheVars, poolVars, endVars, lyr_imgs, img, faults>>

-------------------------------------------------------------------------------
Init ==
  /\ CacheInit
  /\ main = [b \in Builds |-> "new"]
  /\ lyr_imgs = [b \in Builds |-> <<>>]
  /\ job = [b \in Builds |-> [d \in Deps |-> "none"]]
  /\ img = [b \in Builds |-> [p \in Parts |-> NoLayer]]
  /\ wheels = [b \in Builds |-> [d \in Deps |-> {}]]
  /\ seen = [b \in Builds |-> {}]
  /\ raised = [b \in Builds |-> "none"]
  /\ faults = [b \in Builds |-> 0]
  /\ exitCode = [b \in Builds |-> "none"]
  /\ stored = [b \in Builds |-> NoImage]

Interpreter(b) ==
  \/ InterpHit(b) \/ InterpMiss(b) \/ InterpLostHit(b) \/ InterpBadTtl(b)
  \/ InterpBuild(b) \/ InterpUpload(b)

MainStep(b) ==
  \/ Interpreter(b) \/ Submit(b)
  \/ \E d \in Lock(b) : Observe(b, d) \/ ObserveFailure(b, d)
  \/ LeaveLoop(b) \/ Join(b) \/ AddApp(b) \/ Store(b) \/ Exit(b)
  \/ MainFail(b) \/ Handle(b)

JobStep(b, d) ==
  \/ JobStart(b, d) \/ JobHit(b, d) \/ JobMiss(b, d) \/ JobLostHit(b, d)
  \/ JobBadTtl(b, d) \/ JobDownload(b, d) \/ JobDownloadNothing(b, d) \/ JobResolve(b, d)
  \/ JobNotOneWheel(b, d) \/ JobUpload(b, d) \/ JobAppend(b, d) \/ JobFail(b, d)

BuildStep(b) == Start(b) \/ MainStep(b) \/ (\E d \in Lock(b) : JobStep(b, d)) \/ Kill(b)

Next ==
  \/ \E b \in Builds : BuildStep(b)
  \/ Tick /\ UNCHANGED <<poolVars, endVars, main, lyr_imgs, img, faults>>

\* A live process goes on as long as one of its threads can; nobody has to start
\* a build or to kill one.
Fairness == \A b \in Builds : WF_vars(MainStep(b) \/ \E d \in Lock(b) : JobStep(b, d))

Spec     == Init /\ [][Next]_vars
FairSpec == Spec /\ Fairness

-------------------------------------------------------------------------------
(***************************************************************************)
(* Properties.                                                             *)
(***************************************************************************)

TypeOK ==
  /\ CacheTypeOK
  /\ main \in [Builds -> MainState]
  /\ lyr_imgs \in [Builds -> Seq(ImageLayers)]
  /\ job \in [Builds -> [Deps -> JobState]]
  /\ img \in [Builds -> [Parts -> Layers \cup {NoLayer}]]
  /\ wheels \in [Builds -> [Deps -> SUBSET Deps]]
  /\ seen \in [Builds -> SUBSET Deps]
  /\ raised \in [Builds -> {"none"} \cup Errors]
  /\ faults \in [Builds -> Nat]
  /\ exitCode \in [Builds -> {"none", "0", "1"}]
  /\ stored \in [Builds -> Seq(ImageLayers) \cup {NoImage}]

\* The layers between the first and the last of an image.
Inner(image) == 2 .. Len(image) - 1

\* The image build b is meant to make: the base, then the interpreter and
\* every package of the lock file once, made for this interpreter and in
\* whatever order the pool finished them, then the application.
Complete(b, image) ==
  /\ Len(image) > 2
  /\ image[1] = BaseLayer
  /\ image[Len(image)] = AppLayer
  /\ image[2] \in Layers /\ image[2].part = Interp
  /\ \A d \in Lock(b) : \E i \in Inner(image) : image[i] \in Layers /\ image[i].part = d
  /\ \A i \in Inner(image) : /\ image[i] \in Layers
                             /\ image[i].part \in Lock(b) \cup {Interp}
                             /\ image[i].env = Env(b)
  /\ \A i, j \in Inner(image) : image[i].part = image[j].part => i = j

\* Whatever the threads of the pool do and whichever of them fail, an image
\* that reaches its destination has every layer it should have, once, made
\* from the right package for the right interpreter.
StoredComplete == \A b \in Builds : stored[b] # NoImage => Complete(b, stored[b])

\* A tag of the cache holds a layer of the package and the interpreter that
\* its key was computed from, whichever build wrote it.
CacheSound ==
  \A r \in Repos, k \in Keys :
    registry[r][k] # NoLayer => registry[r][k].part = k.part /\ registry[r][k].env = k.env

\* When Build() has left the executor no thread of the pool is at work: no
\* cache write, and no append to lyr_imgs, comes after the image or the error.
QuietAfterJoin ==
  \A b \in Builds :
    main[b] \in {"app", "store", "return", "handle", "exited"} =>
      \A d \in Lock(b) : job[b][d] \in {"none"} \cup Finished

\* A build gives up only because something outside it failed: jobs that run
\* side by side do not get in each other's way.
FailsOnlyOnFault ==
  \A b \in Builds : raised[b] # "none" /\ ~TtlGiven(b) => faults[b] > 0

\* The same of every build, whatever ttl its user asks for.
AnyTtlWorks == \A b \in Builds : raised[b] # "none" => faults[b] > 0

\* What a failed or killed build has finished is not lost: the layer of every
\* job that ended well is in the cache for the next build of that package.
FinishedLayersCached ==
  \A b \in Builds : Config[b].upload =>
    \A d \in Lock(b) : job[b][d] = "ok" =>
      \/ registry[Config[b].repo][Key(b, d)] # NoLayer
      \/ Config[b].useGlobal /\ registry[GlobalRepo][Key(b, d)] # NoLayer

\* A builder never takes from the cache a layer made ttl hours ago or earlier:
\* the lookup happens in the same step that fills in self._img.
NoStaleLayer ==
  [][\A b \in Builds : \A p \in Parts :
       img'[b][p] # img[b][p] => now - img'[b][p].built < TTL * TicksPerHour]_vars

\* An hour short of the ttl or younger: the hour is what cutting the creation
\* time can cost.
Young(layer) == layer # NoLayer /\ now - layer.built <= (TTL - 1) * TicksPerHour

\* The repositories whose layers build b can take.
ReadBy(b) ==
  {Config[b].repo} \cup (IF Config[b].useGlobal THEN {GlobalRepo} ELSE {})

\* _getEntry: an entry of the global repository that is no longer young stands
\* before the build's own one, which is then not looked at.
Hidden(b, p) ==
  LET g == registry[GlobalRepo][Key(b, p)]
  IN  Config[b].useGlobal /\ g # NoLayer /\ ~Young(g)

Fetchable(b, p) ==
  /\ Config[b].cache
  /\ \E r \in ReadBy(b) : Young(registry[r][Key(b, p)])
  /\ ~Hidden(b, p)

\* A young layer of the global repository, or of the build's own one unless an
\* old global one hides it, is not made again while the registry answers: work
\* goes to pip only when it has to.
NoNeedlessRebuild ==
  [][\A b \in Builds :
       /\ \A d \in Lock(b) :
            job[b][d] = "lookup" /\ job'[b][d] = "download" /\ Fetchable(b, d)
              => faults'[b] > faults[b]
       /\ main[b] = "interpLookup" /\ main'[b] = "interpBuild" /\ Fetchable(b, Interp)
              => faults'[b] > faults[b]]_vars

\* Every build that is started ends, with all its threads.
Ended(b) ==
  \/ main[b] = "killed"
  \/ main[b] = "exited" /\ \A d \in Lock(b) : job[b][d] \in {"none"} \cup Finished

EveryBuildEnds == \A b \in Builds : main[b] # "new" ~> Ended(b)

-------------------------------------------------------------------------------
(***************************************************************************)
(* The inductive invariant: where each thread is, what it has in hand, and *)
(* what the list of images holds at that point.                            *)
(***************************************************************************)

\* A builder that is about to upload or hand over its image has one, and an
\* image it has was made for it.
ImgInv ==
  \A b \in Builds :
    /\ main[b] = "interpUpload" => img[b][Interp] # NoLayer
    /\ \A d \in Deps : job[b][d] \in {"upload", "append"} => img[b][d] # NoLayer
    /\ \A p \in Parts :
         img[b][p] # NoLayer => img[b][p].part = p /\ img[b][p].env = Env(b)

\* A wheel directory holds its own package only, and holds it when pip left
\* one; until something outside has failed nothing in the build has.
FaultInv ==
  \A b \in Builds :
    /\ \A d \in Deps : wheels[b][d] \subseteq {d}
    /\ faults[b] = 0 /\ ~TtlGiven(b) =>
         /\ raised[b] = "none"
         /\ \A d \in Deps : /\ job[b][d] \notin Errors
                            /\ job[b][d] = "resolve" => wheels[b][d] = {d}

BeforePool == {"new", "interpLookup", "interpBuild", "interpUpload", "submit"}
AfterPool  == {"app", "store", "return"}

\* The main thread is past the pool only when every job has ended, and on its
\* way to an image only when every job has ended well.
PoolInv ==
  \A b \in Builds :
    /\ seen[b] \subseteq Lock(b) /\ \A d \in seen[b] : job[b][d] = "ok"
    /\ \A d \in Deps : job[b][d] # "none" => d \in Lock(b)
    /\ main[b] \in BeforePool => \A d \in Deps : job[b][d] = "none"
    /\ main[b] \in BeforePool \cup {"watch"} => raised[b] = "none"
    /\ main[b] = "join" /\ raised[b] = "none" => seen[b] = Lock(b)
    /\ main[b] \in AfterPool => raised[b] = "none" /\ seen[b] = Lock(b)
    /\ main[b] = "handle" => raised[b] # "none"
    /\ main[b] \in {"handle", "exited"} =>
         \A d \in Lock(b) : job[b][d] \in {"none"} \cup Finished

\* The list between the interpreter and the application: what has ended well
\* is there, once, and nothing else.
Stacked(b, list) ==
  /\ Len(list) > 1
  /\ list[1] = BaseLayer
  /\ list[2] \in Layers /\ list[2].part = Interp
  /\ \A d \in Deps : job[b][d] = "ok" =>
       \E i \in 2 .. Len(list) : list[i] \in Layers /\ list[i].part = d
  /\ \A i \in 2 .. Len(list) :
       /\ list[i] \in Layers
       /\ list[i].env = Env(b)
       /\ list[i].part # Interp => job[b][list[i].part] = "ok"
  /\ \A i, j \in 2 .. Len(list) : list[i].part = list[j].part => i = j

ListInv ==
  \A b \in Builds :
    /\ main[b] = "new" => lyr_imgs[b] = <<>>
    /\ main[b] \in {"interpLookup", "interpBuild", "interpUpload"} =>
         lyr_imgs[b] = <<BaseLayer>>
    /\ main[b] \in {"submit", "watch", "join", "app"} => Stacked(b, lyr_imgs[b])
    /\ main[b] = "store" => Complete(b, lyr_imgs[b])

\* An image is out only once the list was complete, and then it is.
StoredInv ==
  \A b \in Builds :
    /\ stored[b] # NoImage => main[b] \in {"return", "exited", "killed"}
    /\ main[b] = "return" /\ (Config[b].tarball \/ Config[b].upload) => stored[b] # NoImage

\* A job whose image is in hand after the lookup and the upload left or found
\* it in the cache.
KeptInv ==
  \A b \in Builds : Config[b].upload =>
    \A d \in Deps : job[b][d] \in {"append", "ok"} =>
      \/ registry[Config[b].repo][Key(b, d)] # NoLayer
      \/ Config[b].useGlobal /\ registry[GlobalRepo][Key(b, d)] # NoLayer

IInv ==
  /\ TypeOK
  /\ CacheSound
  /\ ImgInv
  /\ FaultInv
  /\ PoolInv
  /\ ListInv
  /\ StoredInv
  /\ StoredComplete
  /\ KeptInv

-------------------------------------------------------------------------------
(***************************************************************************)
(* What a build promises, with no threads and no cache.                    *)
(***************************************************************************)
Status(b) ==
  CASE main[b] = "new"    -> "idle"
    [] main[b] = "exited" -> IF raised[b] = "none" THEN "succeeded" ELSE "failed"
    [] main[b] = "killed" -> "failed"
    [] OTHER              -> "running"

Abstract == INSTANCE ImageBuild WITH
  Wanting <- {b \in Builds : Config[b].tarball \/ Config[b].upload},
  IsComplete <- Complete,
  status <- [b \in Builds |-> Status(b)],
  image <- stored

ImplementsImageBuild == Abstract!Spec

===============================================================================
