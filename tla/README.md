# Models of runtimes-common

This directory holds TLA+ models of the programs of this repository, TLC
configurations that check them on small instances, and proofs that TLAPS checks
for instances of any size. They cover FTL, the container builder, where several
threads and several processes share state; the runner that fills its global
cache; the tag reconciler, whose runs share registries; the integration tests,
which deploy applications and take them down again; the publication of the
runtime builders; and the list commands of ctc_lib, where a goroutine feeds a
reader.

## 1. The system and its parts

| Part | Code | State it keeps | Operations | Talks to |
|---|---|---|---|---|
| FTL layer cache | `ftl/common/cache.py` | tags of a registry, one per cache key | `Get`, `Set`, `checkTTL` | every FTL builder; two repositories (own, global) |
| FTL Python build, phase 2 | `ftl/python/` | `lyr_imgs`, one `_img` per layer builder, the futures of a thread pool, wheel directories | `Build`, `_build_pkg`, `BuildLayer` | cache, pip, virtualenv, tar, registry |
| FTL Python build, phase 1 | `ftl/python/` | the same with one requirements layer | `RequirementsLayerBuilder.BuildLayer` | the same |
| FTL Node and PHP builds | `ftl/node/`, `ftl/php/` | the application directory, one layer | `Build`, `BuildLayer` | cache, npm/yarn/composer |
| Cache runner | `ftl/common/cache_runner.py` | a mapping file, the global repository | `populate_cache` | builders, registry |
| Tag reconciler | `appengine/reconciletags/` | tags of the images of several registries | `reconcile_tags`, `add_tags` | registries |
| Integration deployment | `appengine/integration_tests/` | versions, namespaces, services in the cloud | `deploy_app`, `stop_version`, `stop_deployment` | gcloud, kubectl |
| Runtime builders | `appengine/runtime_builders/` | builder files, version files and the manifest of a bucket | `template_builder`, `verify_manifest`, `publish_builders` | GCS |
| ctc_lib | `ctc_lib/` | command output, a stream, the time of the last update check | `ExecuteE`, `printO`, `ReadFromStream` | the tool's own producer goroutine |
| TUF deployer | `tuf/` | encrypted secrets in a bucket, metadata | `UpdateSecrets`, `Populate*Metadata` | KMS, GCS |
| Functional test runner | `functional_tests/src/runtest/` | results of the tests | `doSetup`, `doRunTests`, `doTeardown` | docker |
| The rest | `versioning/`, `docgen/`, `demo/`, `testing/lib/`, `hack/`, `vendor/` | none to speak of | rendering, test doubles | |

### What is hard about them

* **FTL builds.** One build runs up to `constants.THREADS` jobs that share a
  list, a cache object and a file system; any job may fail while others run;
  the main thread reads the futures in the order they finish. Several builds
  share a cache in which nothing expires and whose entries every reader judges
  by their age. A process may die between any two steps. Correct means: an image that is
  stored is complete; the cache holds under a key what the key says; an error
  comes from outside the build; a finished layer is not lost; every build ends.
* **Node, PHP.** The key of the one layer is computed from descriptors that npm,
  yarn and composer rewrite, once before the installation and (Node) once after
  it; what a build leaves in its directory the next one finds, and packs.
  Correct means: a layer was installed from what its key was made from, an image
  is made of what the project asked for, and a second build finds the first
  one's layer, unless npm or yarn has to replace the lock file.
* **Phase 1.** pip installs what `requirements.txt` and the files it includes
  ask for; a pool of threads makes a layer of each package, and all of them
  become one image that is cached under a key made from the first descriptor
  present. Correct means: what is cached under a key is whole, whatever jobs
  fail, and an image has what its requirements ask for whenever the key covers
  them.
* **Cache runner.** Three maps that have to agree (package list, mapping file,
  tags), and a mapping that travels through a file to a later step. Correct
  means: a run that ends well has filled the cache, and the mapping says nothing
  that was not pushed.
* **Tag reconciler.** A sequence of reads and pushes, each of which may fail,
  possibly next to another run. Correct means: a run that ends well leaves
  every tag where its configuration says; a second run changes nothing.
* **Integration deployment.** Sequences of external commands with partial
  failure, cleanup and retry; files in the application's directory and a flag of
  gcloud that programs share. Correct means: a program deploys what it was given
  and leaves nothing behind, except after the errors no handler knows.
* **Runtime builders.** A walk over aliases that has to end on every circle; a
  verdict on files that others upload and delete; a publication that swallows
  its errors. Correct means: what the published manifest says leads to builders.
* **Deployer, test runner.** Short sequences of external commands.
* **ctc_lib.** A goroutine and a reader on one channel; three errors and one
  return value.

`PROJECT.json` lists every component with its sources and status, and every
hazard with the line where it bites and the property that watches it.

## 2. Plan

Done, in this order: `FtlCache`, `PipfileBuild`, `ImageBuild` and
`PipfileBuildProofs`; `TagRegistry`, `TagReconciler`, `DesiredTags`,
`TagReconcilerProofs`, `TagIntegrity`; `ListCommand`; `DescriptorBuild`;
`RequirementsBuild`; `CacheRunner`; `DeployApp`; `PublishBuilders`; then the
proofs about each of these (`PublishBuildersProofs`, `RequirementsBuildProofs`,
`DescriptorBuildProofs`, `CacheRunnerProofs`, `DeployAppProofs`,
`ListCommandProofs`, and the last section of `TagReconcilerProofs` about
`TagIntegrity`). Every safety property of a passing run is now a theorem; what is
left to TLC is at the end of section 6, what is left out, and why, in section 8.

Worth proving next: that the walk of `PublishBuilders` gets shorter with every
step, which is what `VerificationEnds` rests on, as an invariant about the
cardinality of what is not yet seen; that the attempts of every `@retry` are
bounded; that a goroutine is left behind only by a command that left its stream.

## 3. Modules

### `FtlCache`

`registry[r][k]` is the layer that carries the tag made from key `k` in
repository `r` (`Registry._tag`). A layer is a record of what it was made from
(`part`, `env`) and when (`built`); bytes, digests and manifests are left out.
`KeyOf` stands for the SHA-256 of the raw key, which contains exactly the part
(name and version) and the interpreter's raw key (python version, virtualenv,
`cache_key_version` with its salt), and is taken to be injective.
`GetEntry`, `CheckTTL`, `Get` and `Set` follow the methods of `Registry` line
by line. `TTL` is the default of `--ttl`: a ttl from the command line is text
(`args.py` gives the option no type), and the comparison raises at the first
entry it is made with (`TtlRaises`), so that no build compares with another ttl.
`CreationTime` cuts a time to the hour as `generate_overrides` does,
and `TicksPerHour` says how many ticks of the clock that loses. `Tick` is the
clock, up to `MaxTime`.

### `PipfileBuild`

One build is a main thread (`main[b]`) and one job per package of its lock file
(`job[b][d]`).

| Code | Model |
|---|---|
| `RuntimeBase.__init__`, first lines of `Build` | `Start` |
| `InterpreterLayerBuilder.BuildLayer` | `InterpHit`, `InterpMiss`, `InterpLostHit`, `InterpBadTtl`, `InterpBuild`, `InterpUpload` |
| `executor.submit` | `Submit`; `JobStart` is a free thread of the pool |
| `PipfileLayerBuilder.BuildLayer` | `JobHit`, `JobMiss`, `JobLostHit`, `JobBadTtl`, `JobDownload`, `JobDownloadNothing`, `JobResolve`, `JobNotOneWheel`, `JobUpload` |
| `lyr_imgs.append(...)` in `_build_pkg` | `JobAppend` |
| `as_completed`, `future.result()` | `Observe`, `ObserveFailure`, `LeaveLoop` |
| leaving the `with` block | `Join` |
| `AppLayerBuilder`, `AppendLayersIntoImage` | `AddApp` |
| `StoreImage`, end of `main` | `Store`, `Exit` |
| exceptions | `JobFail`, `MainFail`, `Handle` |
| death of the process | `Kill` |

The points at which threads can interleave are the requests to the registry,
the external commands and the append; each is an action, with everything the
code does up to the next such point. `list.append` is one step because CPython
makes it one. The two requests of a lookup are one step, as are the blobs and
the manifest of a push: a tag appears in a registry when its manifest does.
`Fault` lets the environment fail requests and tools of build `b` at most
`MaxFaults[b]` times. An exception is one of three kinds because `main()` treats three
kinds differently. A configuration record holds the flags that matter:
whether there is a `--ttl`, `--no-cache`, `--no-upload`, `--global-cache`, `--output-path`,
`--succeed-on-error`, `--cache-repository`, and the lock file. A second
application layer (`--additional-directory`) is not modelled: it is added like
the first, by the same thread.

### `DescriptorBuild`

Node and PHP builds. `files[w]`, `modules[w]` and `output[w]` are a workspace:
its descriptors, `node_modules` or `vendor`, and the output of a gcp-build
script. A manifest is what it needs and whether it has that script; a lock file
is the needs it was made for and the release of the package index (`release`,
which `Publish` moves on) it takes its versions from; a layer is the text of the
descriptors it was installed from. The cache is `FtlCache` with those texts for
parts.

| Code | Model |
|---|---|
| `Node.__init__`, `_gen_package_lock_if_required` | `Start`, `GenPackageLock` |
| first lines of `Build`: rm, makedirs, `has_pkg_descriptor` | `Clean` |
| `PHP._gen_composer_lock` | `UpdateComposerLock` |
| `BuildLayer`, its lookup | `Hit`, `Miss`, `LostHit`, `BadTtl` |
| `_gcp_build`, the cleanup after it | `GcpBuild` |
| `npm install`, `yarn install`, `composer install` | `Install` |
| `FromFSImage`, `_cleanup_build_layer` | `Pack` |
| `self._cache.Set(...)` | `Upload`: Node computes its key again, PHP does not |
| `AppLayerBuilder`, `StoreImage`, `main` | `AddApp`, `Store`, `Exit`, `Fail`, `Handle`, `Kill` |

One build at a time works in a directory (guard of `Start`): two of them would
delete each other's `node_modules`, which nobody expects to work. Builds in
different directories run side by side. What the tools do to lock files
(`Fitting`, `AfterNpmOrYarn`, `AfterComposerUpdate`) is external; a tool that
fails or is killed may have rewritten it or not, may have left modules, and a
gcp-build script its output (`LeavePart`). `composer update --lock` installs as
well: after a hit nothing cleans `vendor`, so that the application layer of a PHP
build may hold the packages of its own project (`AppMayHold`), those for
development among them, which are not told apart. An application
with something to install has a manifest (`GivenAssumption`). That yarn, unlike
npm, leaves the development dependencies of a gcp-build in the layer is not told
apart, and a second application layer is left out as in `PipfileBuild`.

### `RequirementsBuild`

A build without a `Pipfile.lock`. A requirements file is the packages it asks for
and the names its `-r` lines include; `Text` is what `descriptor_parser` makes
the key from (the first descriptor there is, and one level of `-r`), `Wanted`
what pip installs (all levels, and always from `requirements.txt`).

| Code | Model |
|---|---|
| `RuntimeBase.__init__`, first lines of `Build` | `Start` |
| `BuildLayer` of the interpreter and of the requirements, their lookup | `Hit`, `Miss`, `LostHit`, `BadLookup` |
| the interpreter's `_build_layer`, its `Set` | `MakeInterp`, `PutInterp` |
| `pip wheel`; `_resolve_whls`, `pip install`, `submit` | `Download`, `NothingToDownload`; `Install` |
| `PackageLayerBuilder.BuildLayer`, `req_txt_imgs.append` | `JobStart`, `JobPack`, `JobAppend`, `JobFail` |
| `as_completed`, the end of the `with` block | `ObserveFailure`, `LeaveLoop`, `Join` |
| `AppendLayersIntoImage` of the packages, `Set` | `Stitch`, `Upload` |
| `AppLayerBuilder`, `StoreImage`, `main` | `AddApp`, `Store`, `Exit`, `Fail`, `Handle`, `Kill` |

All layers of packages carry one tag (`PackageKey`), which no builder looks up.
`KeyCovers` are the projects whose key covers what pip reads; the promise of
`Complete` for other projects is only that the packages are those of *some*
project with the same key. Time stands still, as `PipfileBuild` has the ttl.

### `CacheRunner`

`Args[r]` are the words after `--packages`, each the set of packages that are in
it; a word with two `==` is malformed. The mapping is one JSON object in the code
and two functions here, because the runner writes it from packages to keys
(`.key`) and reads it from keys to packages (`.package`). `bucket` is the
mapping file, which the second step of the cloud build copies there
(`CopyMapping`); `basis` and `generation` tell whether a run has read the file it
overwrites, and `removed` and `garbled` are history.

| Code | Model |
|---|---|
| `__init__`, `read_mappings` | `ReadMapping`, `ReadNothing` |
| `retrieve_cache_entries` | `ListTags` |
| `remove_old_entries`, `_remove_entry` | `Remove`, `Removed` |
| `populate_cache_entries`, `_build_image_and_push` | `Malformed`, `BuildAndPush`, `Garbled`, `NoBuilder` |
| `write_mapping_to_workspace`; the step after it | `WriteMapping`; `CopyMapping` |
| any exception, death | `Fail` |

### `DeployApp`

`driver.py` and `deploy_check.py`, which call `deploy_app.py` and `test_util.py`.
A deployment is a program and its turn: `live[v]` is what a version or namespace
was made from, `services` the namespaces that have services, `dockerfile[d]` and
`testYaml[d]` the generated files of a directory, `flag` gcloud's
`app/use_runtime_builders`. `unhandled`, `stops`, `crossed` and `found` are
history: deployments with an error no except clause cleans up after, failed attempts to delete, programs that met
another one at a file or at the flag, the flag before the first check.

| Code | Model |
|---|---|
| `main` and `_set_runtime_builder_flag` of deploy_check | `ReadFlag`, `SetFlag`, `RestoreFlag`, `ConfigFails` |
| `_main` of the driver up to the deployment | `StartDriver` |
| `_set_base_image`, `_set_builder_image` | `SetBaseImage`, `SetBuilderImage`, `NoTemplate` |
| `deploy_app_gae`, `retrieve_url_for_version` | `DeployGae`, `DeployGaeFails`, `RetrieveUrl`, `RetrieveUrlFails`, `UrlGarbled` |
| `deploy_app_gke`, `get_external_ip_for_cluster` | `BuildImage`, `CreateNamespace`, `Apply`, `GetExternalIp` and their failures |
| `finally: _cleanup_files` | `CleanupFiles` |
| `stop_version`, `stop_deployment` | `StopVersion`, `StopVersionFails`, `DeleteServices`, `DeleteNamespace`, `StopDeploymentFails` |
| `_test_app`; `_deploy_and_test`, `_test_application`, the latency record | `RunTests`, `TestsRaise`; `Contact`, `ContactFails`, `RecordLatency` |

There is one action for a command and one for its failure, which may or may not
have had the command's effect. `Retry` counts the attempts of `@retry`. gcloud
reads test.yaml only when `--yaml` names it (`TakesYaml`).

### `PublishBuilders`

Runs of `template_builder.py` fill the bucket (`builders`), runs of
`publish_builders.py` verify a manifest and publish it. An entry of a manifest is
its target, which is missing, empty, a file, another runtime or something else;
`Nodes`, `IsBuilder` and `Child` are the graph of `_build_manifest_graph`.

| Code | Model |
|---|---|
| `_resolve_and_publish`, `_resolve_tag`, `_publish_to_gcs` | `StartTemplate`, `PublishFile`, `PublishFileFails`, `TagNotFound`, `TemplateDone` |
| `main` and the manifest it reads, or fails to | `StartPublisher`, `ManifestUnread` |
| `_verify_manifest_formatting`, one entry at a time | `SkipEntry`, `FileFound`, `FileRefused`, `FormatRefused`, `Formatted` |
| `_build_manifest_graph` | `BuildGraph` |
| `_verify_manifest_graph`: the outer loop, a turn of the inner one, its ends | `PickNode`, `Follow`, `FollowRefused`, `EndOfChain`, `NoBuilder`, `Verified` |
| `copy_to_gcs` of the manifest, `_publish_latest` | `CopyManifest`, `CopyManifestFails`, `WriteVersion`, `NoVersion`, `ConfigUnread`, `PublisherDone` |
| people, the operating system | `Delete`, `Die` |

The walk is compared with `Resolving`, the least set that holds the builders and
whatever leads to one of them.

### `ImageBuild`

What a build promises, with no cache and no threads: it delivers at most one
image, complete, all at once, and it reports success only with the image it was
asked for. `PipfileBuild`, `DescriptorBuild` and
`RequirementsBuild` refine it (`Abstract`,
`ImplementsImageBuild`); the refinement maps `main` and `raised` to a status and `stored` to the image.

### `TagRegistry`

The repositories as `containerregistry` shows them: `stored[p]` are the images
of repository `p`, by digest, and `tagged[p][t]` the image tag `t` names. A
prefix of digests is the set of digests that start with it, so that "the prefix
is not unique" is a matter of what is stored. `NewImage` and `Delete` are what
others do; deletions are limited to `Deletable`, and `lost` remembers that there
was one. A push is one step: the tag appears with the manifest, which comes last.

### `TagReconciler`

Any number of runs of `reconciletags_main`. `at[r]` is the file, the entry and
the registry a run is at (the two loops over projects and images are one loop
over entries), `digest[r]` what `get_digest_from_prefix` returned.

| Code | Model |
|---|---|
| `main` | `Start`, `NextFile`, `Finish` |
| `get_digest_from_prefix` | `Resolve`, `BadPrefix` |
| `img.exists()` of the base repository, `return` | `CheckDefault`, `BailOut` |
| body of the loop over the registries | `Inspect`, `AlreadyTagged`, `NotTagged` |
| `add_tags` | `SkipTag`, `FindSource`, `Push` |
| `get_existing_tags` | `LogTags` |
| any exception, a kill | `Fail` |

There is one action per request, so that other runs and people come between any
two of them. The list of manifests and the decision it leads to are one step;
the decision and the push are not. A mirror list that names the base registry
again is excluded (`MirrorsAssumption`).

### `DesiredTags`

What the reconciler promises: it moves only tags it is asked to, to images they
may name; a dry run moves none; success means that all are in place. `TagReconciler`
refines it (`Desired`, `ImplementsDesiredTags`).

### `TagIntegrity`

`reconciletags_main --data-integrity`: the loop of `test_data_consistency`, with
the digests of a repository listed once and the tags asked for one by one while
others push and delete. `run_test` ignores the verdict, so that the exit status
is 0 in any case; the model's verdict is what the suite prints, and a request that
fails ends the test without one. `_get_tags` asks for one digest and is told the
tags of the whole repository, so that the test is whether the tag is on *any*
image; an entry that matches no image is compared with nothing. `VerdictMeans`
says what such a verdict is worth: a pass, that no tag was missing for an entry
with an image, a failure, that one is. Its names differ from
those of `TagReconciler` (`TestSpec`, `TestNext`, ...), so that one module can extend both.

### `ListCommand`

One `Execute` of a `ContainerToolListCommand`. `call` is how the tool was
written and called; `producer`, `sent` and `channel` are the goroutine of the
tool's `StreamO` and its channel; `pc` is the library's thread. `Handoff` is a
send that meets a waiting reader, which is the only way through a channel
without a buffer. `errors` are the errors that occurred, `returned` the one
`ExecuteE` returns and `outcome` the end of the process. `InitLogging` may fall
back to a logger without a file, and `LogName` / `NoLogName` are the two
outcomes of `GetCurrentFileName`. A panic of the command's own code
(`CommandPanics`), of the update check or of the logger ends `ExecuteE` before it
returns: `errRecover` or the logger's hook ends the process, and what was to be
returned is gone (`Panic`, `panicked`). `--help` and subcommands are left out, and
panics of the tool's own goroutine, which nothing recovers.

### The `MC` modules

The configurations, files, projects, manifests and items that the `.cfg` files
choose from, one module for each component.

## 4. What the runs check

| Run | Instance | Shows |
|---|---|---|
| `pipfile_pool` | groups `{b1}` (3 packages, 2 threads, 2 faults, `--no-cache`), `{b2, b3}` (a package in common; `--no-upload --output-path` and `--succeed-on-error`), `{b3, b4}` (two interpreters), `{b3, b5}` (`b5` has a `--ttl`); fairness | `TypeOK`, `StoredComplete`, `CacheSound`, `QuietAfterJoin`, `FailsOnlyOnFault`, `FinishedLayersCached`, `ImplementsImageBuild`, `EveryBuildEnds`: the pool and the shared cache in every order |
| `pipfile_clock` | groups `{b1, b2}` (one repository, 1 fault), `{b3, b4}` (a package; `b3` fills the global repository, `b4` reads it), `{b5, b6, b7}` (`b5` puts an interpreter into the global repository, `b6` and `b7` read it and share a repository of their own, `b7` with `--no-upload`); a ttl of 2 hours of 2 ticks each, up to tick 4 | `NoStaleLayer`, `NoNeedlessRebuild` on both sides of the ttl, with young and old layers in the global repository, in the build's own, and in both |
| `pipfile_ttl` | two builds of one package, the second with `--ttl` | **violated**: it fails although nothing outside it has failed (`AnyTtlWorks`) |
| `descriptor_builds` | 14 builds of 11 workspaces, alone or in pairs: no lock file, a fitting one, one for another manifest, in one checkout and in two, an `.npmrc`, yarn and npm with gcp-build, an empty manifest, PHP with a lock, twice, and without; 2 releases, 2 ticks, 1 fault for five of them | `TypeOK`, `CacheSound`, `NoRepeatedInstall` (unless another build may have put an old layer in its place, or the lock file is stale), `ImplementsImageBuild` |
| `gcp_build_cached` | two checkouts of a project with a gcp-build script, no faults | **violated**: the second image lacks the script's output (`GcpOutputDelivered`) |
| `requirements` | 10 builds, alone or in pairs: two checkouts of a project with an included file, the same with another included file, one Pipfile with two requirements files and with none, two levels of `-r`, a missing file, nothing to install, 3 packages on 2 threads with 2 faults | `TypeOK`, `CachedWhole`, `ImplementsImageBuild`: what is cached is never a part, and an image has what it should when its key covers that |
| `cache_runner` | 3 runs at a time: one word per package, a malformed word and a shorter list, another interpreter; an old mapping with one entry; Python and PHP | `TypeOK`, `SuccessPopulates`, `MappingTruthful`, `MappingRemembers` |
| `deploy` | pairs of 4 drivers (App Engine and Kubernetes Engine in one directory, a given url, a relative directory) and 3 checks (both flows, or one); fairness | `TypeOK`, `NothingLeftBehind`, `DeploysWhatItWasGiven`, `FlagRestored`, `EveryProgramEnds` |
| `publish` | one publisher with every manifest of 3 names (and six that are wrong before there is a graph), or one it cannot read, next to the run that makes its builder; two publishers with manifests and versions that differ, next to the run that makes their builders; one file may be deleted; fairness | `VerdictCorrect`, `PublishedSound`, `VerificationEnds` |
| `tags_reconcile` | groups `{r1, r2}` (one file), `{r1, r3}` (`r3` a dry run of another file), `{r4}` (two files, one of which lists a project twice); 2 registries, 3 images | `TypeOK`, `SuccessReconciles`, `SecondRunChangesNothing`, `BaseComesLast`, `ImplementsDesiredTags` |
| `tags_integrity` | 2 projects, 3 entries, anyone pushing and deleting | `VerdictMeans`, `TestTypeOK` |
| `list_stream` | 4 items, no buffer or a buffer of 1, every way to call, fairness | `TypeOK`, `OutputIsWhatWasYielded`, `FirstErrorIsReported`, `CommandEnds` |

A *group* is a set of builds or runs that share a behaviour (`Together`, a bound
in the guard of `Start`): one run of TLC explores the behaviours of every group,
each from empty registries or, for the reconciler, from every content of them.

Bounds. Three packages on two threads are enough for a job to wait in the queue
while one fails and another finishes, which is every situation the pool code
distinguishes; two faults let a second failure meet the first. Two builds are
enough for the cache because a build sees of the others only what they left
there: one that fills the global repository and one that reads it; a third one
only where a layer is in the global repository and in the build's own. Among
`b2`, `b3`, `b4` one fault is
enough: what several failures do to a build is `b1`'s part. The clock goes up to
the ttl, at which a layer made at first expires, with two ticks to the
hour so that the loss of the minutes shows; a ttl of two hours leaves layers that
are young although they are not of the same tick. A build that is killed or has ended
stops; behaviours in which every build has ended are not deadlocks, hence
`CHECK_DEADLOCK FALSE`.

For `descriptor_builds`, a build again sees of others what they left in the
cache and in its directory, so pairs are enough; each pair differs in one thing
that must or must not separate their keys (nothing, the checkout, `.npmrc`, a
stale lock file). Two releases tell versions that were
locked from versions that are new, two of the directories hold modules nobody
asked for from the start, and a layer made at the first tick has expired at the
second.

For the reconciler, two registries are one mirror and the base, which the code
treats differently; three images are two that share a prefix and one that does
not, so that a prefix is matched by none, one or two of them; one image can be
deleted, and be pushed again by a run that still has it in hand. A run ends, and
with it everybody's interest in the registries: `CHECK_DEADLOCK FALSE` again.
For phase 1, pairs are enough for the same reason as for the other builds; the
pairs have keys that are equal though the requirements are not, or differ only in
an included file. For the cache runner, the words of three runs differ in all
ways a run tells apart, and one unreadable answer per run (two runs of three)
meets every request; a run that died and one that ended before the next began are
among the interleavings. For the deployment, the code's 4, 12, 8 and 8 attempts
are 2, 2, 1 and 2 (`UrlAttempts`, `IpAttempts`, `ProbeAttempts`,
`StopAttempts`): an attempt that is not the last one and one that is are all the
code tells apart. Two programs at a time are enough to meet at a directory or at
the flag; `Sessions` names the pairs that share one. For the publication, three
names give every shape of a walk: a chain, a circle through the first node, a
tail that runs into a circle, an end in nothing; `Together`, `Deletable` and
`Candidates` bound the runs, the deletions and the manifests.
For the list command, two objects and two strings in turn are enough for the
reader to leave with something in the channel and something still to be sent; a
buffer of one lets the producer be ahead, no buffer makes the two meet. Deadlock
is checked there: the only states without another step are those of a process
that has ended.

Every property was also checked against a mutation of the code it is about (the
operators marked "Mutant" beside the definition they change): it fails there.

## 5. Fairness

`EveryBuildEnds` assumes weak fairness of each build as a whole, for builds that
were started: the operating system lets a live process go on as long as one of
its threads can, and external commands and requests are taken to return or fail.
Which thread goes on is left open, and nothing has to start a build, to kill it
or to fail.

`EveryProgramEnds` assumes weak fairness of the steps of each deploying program:
gcloud, kubectl, docker and the tests return, with or without an error. Nothing
has to succeed, and nothing has to be killed. `VerificationEnds` assumes it of a
publisher that was started, and not of anybody else. `CommandEnds` assumes it of
the library's thread and of the producer, both of which Go schedules; that the
producer closes its channel is what ctc_lib asks of a tool.

## 6. What is proved

`PipfileBuildProofs` proves, for any number of builds, packages, threads, faults
and any configurations, from the assumptions on the constants
(`ClockAssumption`, `PartAssumption`, `RepoAssumption`, `NoLayerAssumption`,
`ConfigAssumption`, `PoolAssumption`, `LayerAssumption`, `NoImageAssumption`):

| Theorem | Statement |
|---|---|
| `Inductive` | `Spec => []IInv` |
| `TypeCorrect`, `StoredIsComplete`, `CacheIsSound`, `PoolIsQuiet`, `NoSpuriousFailure`, `FinishedIsCached` | `Spec => []` of `TypeOK`, `StoredComplete`, `CacheSound`, `QuietAfterJoin`, `FailsOnlyOnFault`, `FinishedLayersCached` |
| `NeverStale`, `NoNeedlessWork` | `Spec => NoStaleLayer`, `Spec => NoNeedlessRebuild` |
| `Implements` | `Spec => ImplementsImageBuild` |

None of the properties is inductive. `StoredComplete` needs to know what the
list held before the image was stored, which depends on which jobs had ended
well, which depends on what the main thread had seen. `IInv` says all of that:

* `ImgInv`: a thread about to upload or append has an image, made for its key.
  Needs `CacheSound`, because the image may be a hit that another build wrote;
  `CacheSound` in turn needs `ImgInv` for the upload.
* `FaultInv`: wheel directories are private, and without a fault no job ends
  in an error.
* `PoolInv`: past the pool every job has ended, and on the way to an image
  every job has ended well, because `seen` is the whole lock file.
* `ListInv`: between the interpreter and the application the list holds
  exactly the interpreter and the jobs that ended well (`Stacked`), and after
  the application layer it is `Complete`.
* `StoredInv`, `KeptInv`: nothing is stored before the list was complete; a
  job that is past its upload has its layer in the cache.

Each part has one lemma for the main thread and one for the jobs (`MainListInv`,
`JobListInv`, ...), with one step per action; `StackedAppend`,
`StackedFrame` and `StackedComplete` carry the argument about the list.
`NeverStale` rests on `CreationTimeBound`: cutting to the hour never makes a
layer younger. `Implements` shows that every step is a step of `ImageBuild` or
leaves its variables alone.

`TagReconcilerProofs` proves, for any number of runs, files, entries,
registries and images, from `NoDigestAssumption`, `FilesAssumption` and
`MirrorsAssumption`:

| Theorem | Statement |
|---|---|
| `Inductive` | `Spec => []IInv` |
| `TypeCorrect`, `TagsInPlace` | `Spec => []` of `TypeOK`, `SuccessReconciles` |
| `Idempotent`, `BaseLast` | `Spec => SecondRunChangesNothing`, `Spec => BaseComesLast` |
| `Implements` | `Spec => ImplementsDesiredTags` |

That a successful run's tags stay in place depends on what *other* runs hold in
their hands: a run that resolved its prefix long ago may still push. The
strengthening says why that push is harmless:

* `PosInv`, `DigestInv`: a run past `Resolve` is at an entry, and its digest
  matches the entry's prefix.
* `AgreeInv`: without deletions, runs at the same entry hold the same digest,
  because a prefix that was unique when one of them resolved it can only become
  ambiguous, and then no run resolves it any more.
* `BehindInv`: the registries a run has passed in its current entry carry
  the tag.
* `PassedInv`: so do all registries of the entries it has passed, and the image
  the tag names is the one every run at such an entry holds (`Settled`).

The last two rest on `Consistent` (no two entries of runs that push ask for one
tag in different ways), and these and `AgreeInv` on nobody deleting images, as
the properties do; the runs also try what happens after a deletion.

`ListCommandProofs`, `PublishBuildersProofs`, `RequirementsBuildProofs`,
`DescriptorBuildProofs`, `CacheRunnerProofs` and `DeployAppProofs` do the same for
their modules, for any runs, programs, manifests, lists and bounds:

| Module | Theorems (besides `Inductive` and `TypeCorrect`) | From the assumptions |
|---|---|---|
| `PublishBuildersProofs` | `VerdictIsCorrect` (`VerdictCorrect`), `PublishedIsSound` (`PublishedSound`) | `RunAssumption`, `MarkerAssumption` |
| `RequirementsBuildProofs` | `CacheIsWhole` (`CachedWhole`), `Implements` (`ImplementsImageBuild`) | `ConfigAssumption`, `PoolAssumption`, `FileAssumption`, `CacheAssumption` |
| `DescriptorBuildProofs` | `CacheIsSound` (`CacheSound`), `NoRepeat` (`NoRepeatedInstall`), `Implements` (`ImplementsImageBuild`) | `ConfigAssumption`, `GivenAssumption`, `LanguageAssumption`, `MarkerAssumption`, `BoundAssumption`, `ValueAssumption`, `CacheAssumption` |
| `CacheRunnerProofs` | `SuccessMeansPopulated` (`SuccessPopulates`), `MappingIsTruthful` (`MappingTruthful`), `MappingIsRemembered` (`MappingRemembers`) | `ArgsAssumption`, `OldMappingAssumption`, `NoneAssumption` |
| `DeployAppProofs` | `NothingIsLeftBehind` (`NothingLeftBehind`), `DeploysAsGiven` (`DeploysWhatItWasGiven`), `FlagIsRestored` (`FlagRestored`) | `DeployAssumption`, `DriverAssumption`, `CheckAssumption` |
| `ListCommandProofs` | `OutputIsWhole` (`OutputIsWhatWasYielded`), `FirstErrorReturned` (`FirstErrorIsReported`) | `CapacitiesAssumption`, `ItemsAssumption` |
| `TagReconcilerProofs`, last section | `TestInductive`, `TestTypeCorrect`, `VerdictIsTruthful` (`TestTypeOK` and `VerdictMeans` of `TagIntegrity`) | `NoDigestAssumption`, `ProjectsAssumption` |

The assumptions say that flags, files and arguments are of the kinds the code
parses them into, that a marker (Python's `None`, a file that is absent) is no
proper value, that bounds are numbers, and in `LanguageAssumption` that the
directory of an application belongs to one runtime.

Why the invariants are what they are:

* **Publication.** A walk compares one alias at a time, and its verdict is about
  reachability. `OnPath` relates the two: the names seen are a path from `node` to
  `child`, none of them but `child` is a builder, and all of them lead down to a
  builder if `child` does. So a name that is met twice is on a circle that leads
  nowhere (`TrappedUnresolved`), and the end of the path in a builder settles all
  of it. `CheckedInv` says that a checked file was in the bucket.
* **Phase 1.** `PoolInv`: a list that is stitched has a layer of every wheel,
  because the pool was left with every job ended and none failed, and the wheels
  are all that pip was asked for. `ListInv` follows the list to the image.
  `CachedWhole` and the part about the interpreter (`InterpSound`) are each other's
  hypotheses through the image a hit provides.
* **Node and PHP.** `FilesInv` says which descriptors may be in a workspace after
  what its user put there, whatever tools ran and builds died in it; `ImgInv` that
  the layer of a build is *for good* of the descriptors in its workspace, since
  no later build has anything to change about them; `ExclusiveInv` that a build at
  work is alone in its directory; `EntryInv` that every entry of the registry is
  the layer of some build, which `NoRepeat` needs to know that the entry is fresh.
  What a tool leaves that fails half way is either what was there or what it was
  to become (`PartStep`), and what is final for a build is acceptable
  (`FinalIsAcceptable`), which bounds what `vendor` may hold when it is packed.
* **Cache runner.** `TruthInv` is `MappingTruthful` of every run's copy as well,
  because any of them may become the file. `PopulateInv` follows the loop over the
  words; `BasisInv` says that a run whose basis is the present generation knows
  every package the file knows.
* **Deployment.** `PlaceInv` and `TriesInv` say who comes where; `LeftInv` why a
  version may be there at any moment; `GivenInv` that directory and flag hold what
  the program has put there while nobody crossed it. `FlagRestored` needs to know
  who has changed the flag: `FlagInv` says that as long as no check failed or met
  another one, either nobody has and every check knows the value that was found,
  or exactly one has, and it knows it (`OneWriter`).
* **List command.** `ChannelInv`: what is in the channel are the items sent last.
  `ReaderInv`: the output is the objects among the items dealt with. The two
  change together in a `Handoff`, and in the reader's own steps against the
  producer's.
* **Integrity test.** `TestInv`: as long as nothing is deleted the digests the
  test was told include those that were there when it began, and tags only ever
  appear, so that without a failure nothing it has left behind was missing; a
  failure stands for a tag that was missing, and still is if nobody did anything.

`ObjectsIn`, the objects among the first `n` items, is a recursive function. That
it exists is an induction over `n`, and the library states induction with an
operator for a parameter; `ListCommandProofs` proves it of *sets* of numbers
(`SmallestOf`, `Induction`, from the well-foundedness of `<`), which can be
instantiated, and defines the function from it (`ObjectsInExists`, `ObjectsInIs`).

`NoNeedlessWork` (`Spec => NoNeedlessRebuild`, in `PipfileBuildProofs`) rests on
the counterpart of `CreationTimeBound`: cutting to the hour costs less than an
hour (`CreationTimeLoss`), so that a layer an hour short of the ttl passes the
check (`YoungPasses`), and a thread turns from the lookup to the work only on a
miss or on an error of the registry (`JobTurns`, `InterpTurns`). The layer may be
in the global repository or in the build's own (`Fetchable`); only an entry of the
global repository that is no longer young takes the own one out of sight
(`Hidden`).

What the proofs changed in the models. `NoRepeatedInstall` used to ask only that
the earlier build's own layer be fresh, which is not enough: a third build, slow
with its upload, may put an older layer of the same descriptors over it.
`Repeats` now asks it of every layer for that entry (`SameEntry`); in the small
instance builds come in pairs, and TLC could not meet it. Two arms of a `CASE` in
`Clean` overlapped, and TLA+ does not say which one holds; they are nested
conditions now, in the order of the code. The markers got assumptions that keep
them apart from values, and the words of the cache runner are finite sets.

Only model-checked: `EveryBuildEnds`, `EveryProgramEnds`, `VerificationEnds`,
`CommandEnds`, which are liveness and out of the prover's reach, and the two runs
that expect a violation. `FailsOnlyOnFault`, and its
theorem, speak of builds without `--ttl`; the run `pipfile_ttl` shows why. That
the entries of one file may ask for different tags is, of the reconciler, in the
theorems and not in the instance that TLC checks.

## 7. Disagreements the models leave open

Two disagreements between the code and what is said of it have a run of their own
(`pipfile_ttl`, `gcp_build_cached`). The others were met while modelling; the
models do what the code does, and the properties are stated so that they hold.

* **FTL cache.** `Get` asks the global repository first and does not look into
  its own when the entry there has expired (`cache.py:134`): a fresh layer is
  built again. `NoNeedlessRebuild` excludes this case and no other (`Hidden`).
* **Stale lock files.** A Node project whose lock file is for another
  package.json is looked up under the key of that file and stored under the key
  of the one npm or yarn puts in its place (`node/layer_builder.py:58`, `:70`):
  every fresh checkout installs again, however often the layer has been stored.
  `NoRepeatedInstall` excepts it (`StaleLock`).
* **PHP and `vendor`.** `composer update --lock` runs before the key is made
  (`php/builder.py:33`), after `vendor` was emptied, and installs, packages for
  development included; only a miss cleans up (`php/layer_builder.py:59`). After
  a hit the application layer packs `vendor` over the cached layer of the same
  packages. `ImplementsImageBuild` allows it (`AppMayHold`).
* **`--no-upload`** is documented as a switch for the cache (`args.py:94`), and
  `StoreImage` obeys it too (`builder.py:137`): without `--output-path` the build
  ends with status 0 and no image. `ImplementsImageBuild` expects an image only
  of builds with one of the two (`Wanting`).
* **Keys of phase 1.** Files that an included file includes, and everything beside
  a Pipfile, are installed and are not in the key, although the release notes say
  that `-r` is handled (`CHANGELOG.md:14`). `Complete` promises less there
  (`KeyCovers`).
* **The short ttl** of descriptors that pin nothing (`get_ttl`,
  `ftl_util.py:185`) never applies, because `--ttl` has a default that is always
  true (`builder.py:107`).
* **Cache runner.** The mapping is written from packages to keys and read from
  keys to packages (`cache_runner.py:139`, `:204`), so that what a run pushes no
  later run ever removes; names are compared with hashes (`:162`), so that
  everything is built each time; `cache_cloudbuild.yaml:6` passes the whole list
  as one word, so that two or more packages are all malformed, and the run ends
  with status 0; `php_builder.PhaseTwoLayerBuilder` does not exist; a mapping that
  cannot be read counts as none and is overwritten; the cache key version is
  None, so that no build with `--global-cache` finds an entry.
* **Data integrity of tags.** The test "compares the entries to what is currently
  on GCR. Fails if a discrepency is found" (`data_integrity_test.py:3`). What it
  compares with is the list of tags of the whole repository (`:39`, `:57`): it
  passes when a tag is on another image than the entry says, and with two images
  under one tag. An entry that matches no image passes without a comparison.
  `VerdictMeans` says no more than this.
* **Deployment.** `execute_command` raises `Exception` and the handlers know
  `CalledProcessError`, so that most failures leave a version or a namespace
  behind (`NothingLeftBehind` says which); `stop_deployment` swallows what
  `@retry` waits for; a relative directory keeps the generated files, and an
  application's own Dockerfile is deleted with them; `deploy_check` ends with
  status 0 whatever its deployments did, and leaves the flag changed after an
  error (`FlagRestored` speaks of checks that ended well). A test that raises
  while it is made, as several do when there is no url, ends the driver before it
  stops the version (`driver.py:106`; `TestsRaise`). `--builder` without `--yaml`
  has no effect: test.yaml is written and not deployed (`deploy_app.py:106`).
  Programs that use a directory or the flag at the same time are not kept apart:
  `DeploysWhatItWasGiven` and `FlagRestored` except those that met another one
  (`crossed`), and say nothing of what becomes of them.
* **Runtime builders.** An entry with a deprecation and no target is accepted by
  the graph and by `test_manifest.py:21` (`test_manifests/simple.yaml`, `bar_3`),
  and ends the whole verification before, with an AttributeError
  (`verify_manifest.py:73`); a target whose file is the empty text is a builder,
  and nobody looks for it (`:75`); a tag that gcloud fails to look up is published
  as null (`template_builder.py:144`); errors of `gsutil cp` are logged, the
  exit status is 0, and the path that was not written is listed as published
  (`builder_util.py:36`); a manifest or a config that raises a ValueError is
  logged, and the exit status is 0 with nothing verified, or with version files
  unwritten (`publish_builders.py:48`); the latest builder of a version file is not looked for.
* **ctc_lib.** After the logger fell back to the standard output, its file name
  is asked of a nil pointer (`log_manager.go:56`, `:72`) and a command without an
  error ends with status 1 (`cli_interface.go:87`). This panic, and the one of an
  update check without an answer (`:82`), also take the place of an error the
  command was to return, as a panic of `TotalO` does. The error of the result's
  own template is logged and returned to nobody
  (`container_tool_list_command.go:142`), and one of `PrintJson` is dropped
  (`:139`). `FirstErrorIsReported` excepts exactly these.

## 8. What is not modelled

Wording, logging and timing; digests, manifests and tar files; the contents of
packages and of builder files; `gcloud`, `kubectl`, `docker`, `gsutil` and the
registry beyond what the code asks of them; the syntax test of the reconciler's
files, whose verdict `main` ignores.

* **FTL PHP.** `composer.json` is in the key by way of the hash in the lock file;
  the parts of it that hash leaves out, and packages for development, are not
  told apart.
* **Integration tests.** The single tests (`test_*.py`) are one verdict. The
  images that `deploy_app_gke` pushes are never deleted, which is a fact and not
  a question.
* **Runtime builders.** `data_integrity.py` reads the bucket and changes nothing.
* **ctc_lib.** The single-output command, `--help`, subcommands, the config
  command and the time of the last update check: one thread, a few lines each.
* **TUF deployer and metadata.** Three uploads in a row whose errors are joined;
  ids and signatures, which are functions of text. What can go wrong is one
  unchecked error (`deployer.go:102`).
* **Functional test runner.** Setup, tests and teardown in a row, one exit status.
* **cached, benchmark, image tag check.** They measure or ask once; what the
  cached test looks for (a second build finds the first one's layers) the models
  of the builders say themselves.
* **`versioning`, `docgen`, `demo`, `testing/lib`** render text or stand in for a
  registry in tests; **`vendor`** is not this repository's code.
