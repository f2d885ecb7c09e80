---------------------------- MODULE DescriptorBuild ----------------------------
(***************************************************************************)
(* FTL's Node and PHP builds (ftl/node, ftl/php): everything a project     *)
(* depends on becomes one layer, cached under a key made from the          *)
(* descriptors of the workspace.  A build runs in one thread, but it reads *)
(* the descriptors several times while npm, yarn and composer rewrite      *)
(* them, and what a build leaves in its workspace is what the next build   *)
(* in that directory finds.                                                *)
(*                                                                         *)
(* A descriptor is abstracted to what decides an installation: a manifest  *)
(* to what it needs and whether it has a gcp-build script, a lock file to  *)
(* the needs it was made for and the release of the package index its      *)
(* versions come from.  A layer is abstracted to the descriptors it was    *)
(* installed from.                                                         *)
(***************************************************************************)
EXTENDS Integers, Sequences

CONSTANTS
  Builds,       \* runs of an FTL binary
  Config,       \* Config[b]: the language, the workspace and the flags of b
  Workspaces,   \* directories with an application
  Given,        \* Given[w]: the descriptors its user put into workspace w
  Used,         \* workspaces in which their user has installed something before
  Needs,        \* what a manifest may ask for
  Npmrcs,       \* contents of .npmrc
  MaxRelease,   \* bound: releases of the package index
  Absent,       \* there is no such file
  Empty,        \* the file is empty
  NoModules,    \* node_modules or vendor holds nothing
  PartModules,  \* it holds what somebody else or a failed installation has left
  MaxFaults,    \* MaxFaults[b]: bound: registry and tool failures build b meets
  Together,     \* bound: the sets of builds that may share a behaviour
  BaseLayer,    \* the layers of the base image
  NoImage,      \* nothing was stored
  NoPart,       \* FtlCache's part for an interpreter: none here
  Envs, Repos, GlobalRepo, TTL, TicksPerHour, MaxTime, NoLayer  \* as in FtlCache

Langs     == {"node", "php"}
Manifests == [needs : Needs, gcp : BOOLEAN]
Locks     == [needs : Needs, release : 0 .. MaxRelease]

\* The descriptors in a workspace.  Node: package-lock.json, yarn.lock,
\* package.json and .npmrc; PHP: composer.lock and composer.json.
Descriptors == [lock : Locks \cup {Absent}, yarn : Locks \cup {Absent},
                manifest : Manifests \cup {Absent, Empty}, npmrc : Npmrcs \cup {Absent}]

\* The readable part of a key: its namespace and its text, of a project that
\* has a manifest (GivenAssumption).
Parts == {p \in [lang : Langs, text : Descriptors] :
            /\ p.text.manifest \in Manifests
            /\ p.lang = "php" => p.text.yarn = Absent /\ p.text.npmrc = Absent}

Configs == [lang : Langs, dir : Workspaces, env : Envs, repo : Repos, ttlGiven : BOOLEAN,
            cache : BOOLEAN, upload : BOOLEAN, useGlobal : BOOLEAN,
            tarball : BOOLEAN, failOnError : BOOLEAN]

\* has_pkg_descriptor: a descriptor that is not empty.
HasDescriptor(d) == d # [lock |-> Absent, yarn |-> Absent, npmrc |-> Absent, manifest |-> Absent]
                    /\ d # [lock |-> Absent, yarn |-> Absent, npmrc |-> Absent, manifest |-> Empty]

ASSUME ConfigAssumption == Config \in [Builds -> Configs]

\* No tool installs anything without a manifest; gcp-build is a script of Node.
ASSUME GivenAssumption ==
  /\ Given \in [Workspaces -> Descriptors]
  /\ \A w \in Workspaces : HasDescriptor(Given[w]) => Given[w].manifest \in Manifests
  /\ \A b \in Builds : Config[b].lang = "php" =>
       /\ Given[Config[b].dir].yarn = Absent /\ Given[Config[b].dir].npmrc = Absent
       /\ Given[Config[b].dir].manifest \in Manifests => ~Given[Config[b].dir].manifest.gcp

\* The descriptors of a workspace are those of one language.
ASSUME LanguageAssumption ==
  \A b, c \in Builds : Config[b].dir = Config[c].dir => Config[b].lang = Config[c].lang

\* Absent and Empty stand for themselves.
ASSUME MarkerAssumption ==
  Absent \notin Locks /\ Absent \notin Manifests /\ Empty \notin Manifests

ASSUME BoundAssumption == MaxRelease \in Nat /\ MaxFaults \in [Builds -> Nat]

VARIABLES
  now, registry,  \* the layer cache, see FtlCache
  release,        \* the package index: the number of its last release
  files,          \* files[w]: the descriptors in workspace w
  modules,        \* modules[w]: what node_modules or vendor holds
  output,         \* output[w]: gcp-build has left its output in workspace w
  main,           \* control point of a build
  key,            \* the key BuildLayer computed for its lookup
  lyr_imgs,       \* the list of images to stitch
  img,            \* self._img of the layer builder
  raised,         \* exception on its way out of Build(), or "none"
  faults,         \* failures the environment has put to the build
  exitCode,       \* exit status of the process, or "none"
  stored          \* the image pushed or saved, or NoImage

Cache == INSTANCE FtlCache WITH Deps <- Parts, Interp <- NoPart

cacheVars == <<now, registry>>
dirVars   == <<files, modules, output>>
lyrVars   == <<key, lyr_imgs, img>>
endVars   == <<raised, exitCode, stored>>
vars      == <<cacheVars, release, dirVars, lyrVars, endVars, main, faults>>

\* What npm, yarn or composer has put into its directory, and the layer with
\* the application's own files: everything that is in the workspace by then.
Modules   == Parts \cup {NoModules, PartModules}
AppLayers == [modules : Modules, output : BOOLEAN]

ImageLayers == Cache!Layers \cup AppLayers \cup {BaseLayer}

ASSUME ValueAssumption ==
  /\ NoModules \notin Parts /\ PartModules \notin Parts /\ NoModules # PartModules
  /\ NoLayer \notin Cache!Layers /\ NoImage \notin Seq(ImageLayers)

\* What FtlCache assumes.
ASSUME CacheAssumption ==
  GlobalRepo \in Repos /\ TTL \in Nat \ {0} /\ TicksPerHour \in Nat \ {0}

Lang(b) == Config[b].lang
Dir(b)  == Config[b].dir

\* Mutant of Text: a key that ignores the settings of npm.
TextWithoutNpmrc(d) == [d EXCEPT !.npmrc = Absent]

\* The text of a key.  Node, all_descriptor_contents: the contents of every
\* descriptor, an empty one leaving no trace; their formats tell them apart.
\* PHP, descriptor_parser: the contents of the first descriptor there is, which
\* is composer.lock; what composer.json needs is in its content hash, which
\* composer has just brought up to date (_gen_composer_lock).
Text(d) == IF d.manifest = Empty THEN [d EXCEPT !.manifest = Absent] ELSE d

PartOf(b) == [lang |-> Lang(b), text |-> Text(files[Dir(b)])]

\* GetCacheKey: computed anew from the workspace at every call.
GetCacheKey(b) == Cache!KeyOf(PartOf(b), Config[b].env)

-------------------------------------------------------------------------------
(***************************************************************************)
(* What the package managers do to the descriptors (external).             *)
(***************************************************************************)

\* npm install and yarn install keep a lock file that fits the manifest, and
\* write one that does otherwise.
Fitting(lock, manifest) ==
  IF lock # Absent /\ lock.needs = manifest.needs
    THEN lock
    ELSE [needs |-> manifest.needs, release |-> release]

\* _should_use_yarn: a yarn.lock and no package-lock.json.
UsesYarn(d) == d.yarn # Absent /\ d.lock = Absent

AfterNpmOrYarn(d) ==
  IF UsesYarn(d) THEN [d EXCEPT !.yarn = Fitting(d.yarn, d.manifest)]
                 ELSE [d EXCEPT !.lock = Fitting(d.lock, d.manifest)]

\* npm install --package-lock-only, for a project with neither lock file.
WithPackageLock(d) ==
  IF HasDescriptor(d) /\ d.yarn = Absent /\ d.lock = Absent THEN AfterNpmOrYarn(d) ELSE d

\* composer update --lock makes a lock file if there is none, and otherwise
\* changes nothing but its hash.
AfterComposerUpdate(d) ==
  IF d.lock # Absent THEN d ELSE [d EXCEPT !.lock = Fitting(Absent, d.manifest)]

IsGcpBuild(d) == d.manifest \in Manifests /\ d.manifest.gcp

-------------------------------------------------------------------------------
(***************************************************************************)
(* Helpers.                                                                *)
(***************************************************************************)

Idle == {"new", "exited", "killed"}

MainState == Idle \cup {"init", "clean", "update", "lookup", "gcp", "install", "pack",
                        "upload", "app", "store", "return", "handle"}

GoTo(b, pc)     == main' = [main EXCEPT ![b] = pc]
AppendImg(b, l) == lyr_imgs' = [lyr_imgs EXCEPT ![b] = Append(@, l)]
Rewrite(b, d)   == files' = [files EXCEPT ![Dir(b)] = d]
Leave(b, m)     == modules' = [modules EXCEPT ![Dir(b)] = m]

\* The environment fails a request or a tool, at most MaxFaults[b] times.
Fault(b) ==
  /\ faults[b] < MaxFaults[b]
  /\ faults' = [faults EXCEPT ![b] = @ + 1]

-------------------------------------------------------------------------------
(***************************************************************************)
(* A build.                                                                *)
(***************************************************************************)

\* RuntimeBase.__init__; one build at a time works in a directory.
Start(b) ==
  /\ main[b] = "new"
  /\ \A c \in Builds : Dir(c) = Dir(b) => main[c] \in Idle
  /\ \E group \in Together : {b} \cup {c \in Builds : main[c] # "new"} \subseteq group
  /\ GoTo(b, IF Lang(b) = "node" THEN "init" ELSE "clean")
  /\ UNCHANGED <<cacheVars, release, dirVars, lyrVars, endVars, faults>>

\* Mutant of GenPackageLock: package.json alone is good enough.
GenNoPackageLock(b) ==
  /\ main[b] = "init"
  /\ GoTo(b, "clean")
  /\ UNCHANGED <<cacheVars, release, dirVars, lyrVars, endVars, faults>>

\* Node.__init__: a project with neither lock file gets its package-lock.json
\* before anything else reads its descriptors.
GenPackageLock(b) ==
  /\ main[b] = "init"
  /\ Rewrite(b, WithPackageLock(files[Dir(b)]))
  /\ GoTo(b, "clean")
  /\ UNCHANGED <<cacheVars, release, modules, output, lyrVars, endVars, faults>>

\* Build empties node_modules or vendor, whether or not there are descriptors.
Clean(b) ==
  /\ main[b] = "clean"
  /\ AppendImg(b, BaseLayer)
  /\ Leave(b, NoModules)
  /\ GoTo(b, IF ~HasDescriptor(files[Dir(b)]) THEN "app"
               ELSE IF Lang(b) = "php" THEN "update" ELSE "lookup")
  /\ UNCHANGED <<cacheVars, release, files, output, key, img, endVars, faults>>

\* PHP._gen_composer_lock.  The update also installs into vendor what the lock
\* file names; that this includes the development packages, which composer
\* install --no-dev takes out again, is abstracted away.
UpdateComposerLock(b) ==
  LET d == AfterComposerUpdate(files[Dir(b)])
  IN  /\ main[b] = "update"
      /\ Rewrite(b, d)
      /\ Leave(b, [lang |-> Lang(b), text |-> Text(d)])
      /\ GoTo(b, "lookup")
      /\ UNCHANGED <<cacheVars, release, output, lyrVars, endVars, faults>>

\* BuildLayer, the cache lookup.
Lookup(b) ==
  /\ main[b] = "lookup"
  /\ key' = [key EXCEPT ![b] = GetCacheKey(b)]

\* Mutant of Hit: whatever Get returns is taken, also None.
HitUnchecked(b) ==
  LET hit == Cache!Get(GetCacheKey(b), Config[b])
  IN  /\ Lookup(b)
      /\ img' = [img EXCEPT ![b] = hit]
      /\ AppendImg(b, hit)
      /\ GoTo(b, "app")
      /\ UNCHANGED <<cacheVars, release, dirVars, endVars, faults>>

\* A hit installs nothing, and cleans nothing up: what composer update has
\* installed stays in vendor.
Hit(b) ==
  LET hit == Cache!Get(GetCacheKey(b), Config[b])
  IN  /\ Lookup(b)
      /\ hit # NoLayer /\ ~Cache!TtlRaises(GetCacheKey(b), Config[b])
      /\ img' = [img EXCEPT ![b] = hit]
      /\ AppendImg(b, hit)
      /\ GoTo(b, "app")
      /\ UNCHANGED <<cacheVars, release, dirVars, endVars, faults>>

\* The way on after a miss: the gcp-build script of a Node project first.
Build(b) ==
  GoTo(b, IF Lang(b) = "node" /\ IsGcpBuild(files[Dir(b)]) THEN "gcp" ELSE "install")

Miss(b) ==
  /\ Lookup(b)
  /\ Cache!Get(GetCacheKey(b), Config[b]) = NoLayer
  /\ ~Cache!TtlRaises(GetCacheKey(b), Config[b])
  /\ Build(b)
  /\ UNCHANGED <<cacheVars, release, dirVars, lyr_imgs, img, endVars, faults>>

\* The registry fails while it tells the age of a hit: a miss.
LostHit(b) ==
  /\ Lookup(b)
  /\ Cache!Found(GetCacheKey(b), Config[b])
  /\ Fault(b)
  /\ Build(b)
  /\ UNCHANGED <<cacheVars, release, dirVars, lyr_imgs, img, endVars>>

\* The TypeError of a --ttl travels up to main().
BadTtl(b) ==
  /\ Lookup(b)
  /\ Cache!TtlRaises(GetCacheKey(b), Config[b])
  /\ raised' = [raised EXCEPT ![b] = "other"]
  /\ GoTo(b, "handle")
  /\ UNCHANGED <<cacheVars, release, dirVars, lyr_imgs, img, exitCode, stored, faults>>

\* _gcp_build: an installation with the development dependencies, and the
\* project's script.  npm starts over for production, yarn does not; that the
\* layer then has the development dependencies, too, is abstracted away.
GcpBuild(b) ==
  LET d == AfterNpmOrYarn(files[Dir(b)])
  IN  /\ main[b] = "gcp"
      /\ Rewrite(b, d)
      /\ Leave(b, IF UsesYarn(d) THEN [lang |-> Lang(b), text |-> Text(d)] ELSE NoModules)
      /\ output' = [output EXCEPT ![Dir(b)] = TRUE]
      /\ GoTo(b, IF UsesYarn(d) THEN "pack" ELSE "install")
      /\ UNCHANGED <<cacheVars, release, lyrVars, endVars, faults>>

\* npm install, yarn install, composer install.
Install(b) ==
  LET before == files[Dir(b)]
      d      == IF Lang(b) = "node" THEN AfterNpmOrYarn(before) ELSE before
  IN  /\ main[b] = "install"
      /\ Rewrite(b, d)
      /\ Leave(b, [lang |-> Lang(b), text |-> Text(d)])
      /\ GoTo(b, "pack")
      /\ UNCHANGED <<cacheVars, release, output, lyrVars, endVars, faults>>

\* The directory becomes the layer, and _cleanup_build_layer empties it.
Pack(b) ==
  /\ main[b] = "pack"
  /\ img' = [img EXCEPT ![b] = Cache!NewLayer(modules[Dir(b)], Config[b].env)]
  /\ Leave(b, NoModules)
  /\ GoTo(b, "upload")
  /\ UNCHANGED <<cacheVars, release, files, output, key, lyr_imgs, endVars, faults>>

\* Mutant of Upload: Node, too, stores under the key it looked up.
UploadUnderOldKey(b) ==
  /\ main[b] = "upload"
  /\ Cache!Set(key[b], img[b], Config[b])
  /\ AppendImg(b, img[b])
  /\ GoTo(b, "app")
  /\ UNCHANGED <<now, release, dirVars, key, img, endVars, faults>>

\* Node computes its key again, PHP uses the one it looked up.
Upload(b) ==
  /\ main[b] = "upload"
  /\ Cache!Set(IF Lang(b) = "node" THEN GetCacheKey(b) ELSE key[b], img[b], Config[b])
  /\ AppendImg(b, img[b])
  /\ GoTo(b, "app")
  /\ UNCHANGED <<now, release, dirVars, key, img, endVars, faults>>

\* AppLayerBuilder packs the whole directory.
AddApp(b) ==
  /\ main[b] = "app"
  /\ AppendImg(b, [modules |-> modules[Dir(b)], output |-> output[Dir(b)]])
  /\ GoTo(b, "store")
  /\ UNCHANGED <<cacheVars, release, dirVars, key, img, endVars, faults>>

\* StoreImage saves the image as a tarball, or pushes it with --upload.
Store(b) ==
  /\ main[b] = "store"
  /\ stored' = IF Config[b].tarball \/ Config[b].upload
                 THEN [stored EXCEPT ![b] = lyr_imgs[b]]
                 ELSE stored
  /\ GoTo(b, "return")
  /\ UNCHANGED <<cacheVars, release, dirVars, lyrVars, faults, raised, exitCode>>

Exit(b) ==
  /\ main[b] = "return"
  /\ exitCode' = [exitCode EXCEPT ![b] = "0"]
  /\ GoTo(b, "exited")
  /\ UNCHANGED <<cacheVars, release, dirVars, lyrVars, faults, raised, stored>>

\* What the tool at work makes of the descriptors.
Rewritten(b) ==
  LET d == files[Dir(b)]
  IN  CASE main[b] = "init"   -> WithPackageLock(d)
        [] main[b] = "update" -> AfterComposerUpdate(d)
        [] main[b] \in {"gcp", "install"} /\ Lang(b) = "node" -> AfterNpmOrYarn(d)
        [] OTHER -> d

\* Installing is not atomic: a tool that fails or is killed leaves a part, its
\* lock file written or not (if so, whole), and of gcp-build the output or not.
LeavePart(b) ==
  /\ \E d \in {files[Dir(b)], Rewritten(b)} : Rewrite(b, d)
  /\ \E made \in BOOLEAN :
       output' = [output EXCEPT ![Dir(b)] = @ \/ (made /\ main[b] = "gcp")]
  /\ IF main[b] \in {"update", "gcp", "install"} THEN Leave(b, PartModules)
                                               ELSE UNCHANGED modules

\* npm, yarn and composer fail with a UserError, and with an InternalError if
\* they are not there; rm, tar and gzip with an InternalError; the registry and
\* makedirs with exceptions main() does not know.
ErrorsAt(pc) ==
  CASE pc \in {"init", "update", "gcp", "install"}   -> {"user", "internal"}
    [] pc = "clean"                                  -> {"internal", "other"}
    [] pc \in {"pack", "app"}                        -> {"internal"}
    [] pc \in {"lookup", "upload", "store"}          -> {"other"}
    [] OTHER                                         -> {}

Fail(b) ==
  /\ Fault(b)
  /\ \E e \in ErrorsAt(main[b]) : raised' = [raised EXCEPT ![b] = e]
  /\ LeavePart(b)
  /\ GoTo(b, "handle")
  /\ UNCHANGED <<cacheVars, release, lyrVars, exitCode, stored>>

\* main(): UserErrorHandler and InternalErrorHandler exit with 0 under
\* --succeed-on-error; any other exception ends the process with status 1.
Handle(b) ==
  /\ main[b] = "handle"
  /\ exitCode' = [exitCode EXCEPT ![b] =
                    IF raised[b] = "other" \/ Config[b].failOnError THEN "1" ELSE "0"]
  /\ GoTo(b, "exited")
  /\ UNCHANGED <<cacheVars, release, dirVars, lyrVars, faults, raised, stored>>

Kill(b) ==
  /\ main[b] \notin Idle
  /\ LeavePart(b)
  /\ GoTo(b, "killed")
  /\ UNCHANGED <<cacheVars, release, lyrVars, endVars, faults>>

\* The package index publishes.
Publish ==
  /\ release < MaxRelease
  /\ release' = release + 1
  /\ UNCHANGED <<cacheVars, dirVars, lyrVars, endVars, main, faults>>

Pass == Cache!Tick /\ UNCHANGED <<release, dirVars, lyrVars, endVars, main, faults>>

-------------------------------------------------------------------------------
Init ==
  /\ Cache!CacheInit
  /\ release = 0
  /\ files = Given
  /\ modules = [w \in Workspaces |-> IF w \in Used THEN PartModules ELSE NoModules]
  /\ output = [w \in Workspaces |-> FALSE]
  /\ main = [b \in Builds |-> "new"]
  /\ key = [b \in Builds |-> NoLayer]
  /\ lyr_imgs = [b \in Builds |-> <<>>]
  /\ img = [b \in Builds |-> NoLayer]
  /\ raised = [b \in Builds |-> "none"]
  /\ faults = [b \in Builds |-> 0]
  /\ exitCode = [b \in Builds |-> "none"]
  /\ stored = [b \in Builds |-> NoImage]

BuildStep(b) ==
  \/ Start(b) \/ GenPackageLock(b) \/ Clean(b) \/ UpdateComposerLock(b)
  \/ Hit(b) \/ Miss(b) \/ LostHit(b) \/ BadTtl(b)
  \/ GcpBuild(b) \/ Install(b) \/ Pack(b) \/ Upload(b)
  \/ AddApp(b) \/ Store(b) \/ Exit(b) \/ Fail(b) \/ Handle(b) \/ Kill(b)

Next == (\E b \in Builds : BuildStep(b)) \/ Publish \/ Pass

Spec == Init /\ [][Next]_vars

-------------------------------------------------------------------------------
(***************************************************************************)
(* Properties.                                                             *)
(***************************************************************************)

\* The types: what is in a directory, a list or a registry is what its code puts
\* there, and never the None of a lookup.
TypeOK ==
  /\ Cache!CacheTypeOK
  /\ release \in 0 .. MaxRelease
  /\ files \in [Workspaces -> Descriptors]
  /\ modules \in [Workspaces -> Modules]
  /\ output \in [Workspaces -> BOOLEAN]
  /\ main \in [Builds -> MainState]
  /\ key \in [Builds -> Cache!Keys \cup {NoLayer}]
  /\ lyr_imgs \in [Builds -> Seq(ImageLayers)]
  /\ img \in [Builds -> Cache!Layers \cup {NoLayer}]
  /\ raised \in [Builds -> {"none", "user", "internal", "other"}]
  /\ faults \in [Builds -> Nat]
  /\ exitCode \in [Builds -> {"none", "0", "1"}]
  /\ stored \in [Builds -> Seq(ImageLayers) \cup {NoImage}]

\* The layer under a key was installed from the descriptors the key was made
\* from, although npm may rewrite them between the lookup and the upload
\* (BuildLayer).
CacheSound ==
  \A r \in Repos : \A k \in DOMAIN registry[r] :
    LET layer == registry[r][k]
    IN  layer # NoLayer => layer.part = k.part /\ layer.env = k.env

\* A lock file made for this manifest is the one to install from.
Follows(lock, given, manifest) ==
  /\ lock \in Locks /\ lock.needs = manifest.needs
  /\ given # Absent /\ given.needs = manifest.needs => lock = given

\* What an installation for build b may be made from, by what its user gave:
\* the manifest and the settings as they are, the versions of a lock file that
\* fits the manifest, and those of composer.lock in any case.
Acceptable(b, text) ==
  LET given == Given[Dir(b)]
  IN  /\ text.manifest = given.manifest /\ text.npmrc = given.npmrc
      /\ IF Lang(b) = "node" /\ UsesYarn(given)
           THEN text.lock = Absent /\ Follows(text.yarn, given.yarn, given.manifest)
           ELSE /\ text.yarn = given.yarn
                /\ IF Lang(b) = "php" /\ given.lock # Absent
                     THEN text.lock = given.lock
                     ELSE Follows(text.lock, given.lock, given.manifest)

\* What the application's own layer may hold of node_modules or vendor: nothing,
\* or, of a PHP project, what composer update has installed of its needs.
AppMayHold(b, held) ==
  \/ held = NoModules
  \/ /\ Lang(b) = "php" /\ HasDescriptor(Given[Dir(b)])
     /\ held \in Parts /\ held.lang = "php" /\ Acceptable(b, held.text)

\* The image build b is meant to make: the base, one layer with everything the
\* project needs unless it needs nothing, and the application with nothing of
\* another project, or left by a failed build, in its node_modules or vendor.
Complete(b, image) ==
  LET last == Len(image)
  IN  /\ image # <<>> /\ image[1] = BaseLayer
      /\ last = (IF HasDescriptor(Given[Dir(b)]) THEN 3 ELSE 2)
      /\ last = 3 => /\ image[2] \in Cache!Layers
                     /\ image[2].part.lang = Lang(b) /\ image[2].env = Config[b].env
                     /\ Acceptable(b, image[2].part.text)
      /\ image[last] \in AppLayers /\ AppMayHold(b, image[last].modules)

\* The descriptors as an installation by build b now would leave them, and store
\* its layer under.
Installed(b) ==
  IF Lang(b) = "node" THEN AfterNpmOrYarn(files[Dir(b)]) ELSE files[Dir(b)]

\* The lock file is for another manifest: npm or yarn will replace it.
StaleLock(d) ==
  LET lock == IF UsesYarn(d) THEN d.yarn ELSE d.lock
  IN  lock # Absent /\ lock.needs # d.manifest.needs

\* A layer in its last hour may be taken for too old.
Fresh(layer) == now - layer.built <= (TTL - 1) * TicksPerHour

\* Layers from one set of descriptors, for one place in the registry.
SameEntry(c, e) ==
  /\ img[e] # NoLayer /\ img[e].part = img[c].part /\ img[e].env = img[c].env
  /\ Config[e].repo = Config[c].repo

\* Build c has ended well and left the layer that build b would make, and no
\* build has an older one, which it may have put over it.
Repeats(b, c) ==
  /\ main[c] = "exited" /\ raised[c] = "none" /\ img[c] # NoLayer
  /\ Config[c].upload /\ Config[b].cache /\ ~Config[b].useGlobal /\ ~Config[c].useGlobal
  /\ Lang(b) = Lang(c) /\ Config[b].repo = Config[c].repo /\ Config[b].env = Config[c].env
  /\ Installed(b) = files[Dir(c)]
  /\ \A e \in Builds : SameEntry(c, e) => Fresh(img[e])

\* What an earlier build has installed is not installed again while it is fresh
\* and the registry answers, in the same checkout or in another, with a lock file
\* or without one.  The exception is a Node project whose lock file is stale: the
\* lookup is under the key of that file, the upload under that of the one npm
\* puts in its place, so that every checkout installs once (BuildLayer).
NoRepeatedInstall ==
  [][\A b, c \in Builds :
       /\ main[b] = "lookup" /\ main'[b] \in {"gcp", "install"} /\ Repeats(b, c)
       /\ Lang(b) = "node" => ~StaleLock(files[Dir(b)])
       => faults'[b] > faults[b]]_vars

\* The image of a project with a gcp-build script has the script's output, as the
\* structure test of gcp_build_test expects (_gcp_build).
GcpOutputDelivered ==
  \A b \in Builds : stored[b] # NoImage /\ Lang(b) = "node" /\ IsGcpBuild(Given[Dir(b)]) =>
    stored[b][Len(stored[b])].output

-------------------------------------------------------------------------------
(***************************************************************************)
(* What a build promises, with no cache and no directory.                  *)
(***************************************************************************)
Status(b) ==
  CASE main[b] = "new"    -> "idle"
    [] main[b] = "exited" -> IF raised[b] = "none" THEN "succeeded" ELSE "failed"
    [] main[b] = "killed" -> "failed"
    [] OTHER              -> "running"

Abstract == INSTANCE ImageBuild WITH
  Wanting <- {b \in Builds : Config[b].tarball \/ Config[b].upload},
  IsComplete <- Complete,
  status <- [b \in Builds |-> Status(b)],
  image <- stored

\* A build, with what it finds in its directory and in the cache, delivers at
\* most one image, a complete one, and succeeds only with the image it was
\* asked for (Build, StoreImage, main).
ImplementsImageBuild == Abstract!Spec

===============================================================================
