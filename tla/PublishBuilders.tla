---------------------------- MODULE PublishBuilders ----------------------------
(***************************************************************************)
(* The programs that fill the bucket of the runtime builders               *)
(* (appengine/runtime_builders): template_builder.py uploads builder       *)
(* files; publish_builders.py verifies a manifest, which leads from the    *)
(* names of runtimes to builder files and to other names, and uploads it   *)
(* together with the version files of the projects.                        *)
(*                                                                         *)
(* Runs of both may overlap, people delete builder files, commands of      *)
(* gsutil fail.  The walk over the aliases of a manifest is modelled step  *)
(* by step, as the loop of _verify_manifest_graph does it.                 *)
(***************************************************************************)
EXTENDS Integers, Sequences, FiniteSets

CONSTANTS
  Names,       \* of runtimes
  Files,       \* builder files that may be in the bucket
  Projects,
  Templates,   \* runs of template_builder.py
  Output,      \* Output[t]: the files run t makes, in its order
  Publishers,  \* runs of publish_builders.py
  Candidates,  \* Candidates[p]: the manifests run p may be given
  Configs,     \* Configs[p]: the builder configs in run p's directory, if any
  Together,    \* bound: the sets of runs that may share a behaviour
  Deletable,   \* bound: the files somebody may delete
  None,        \* no entry, no name, no file
  NoTarget, EmptyTarget, OtherTarget,  \* an entry without a target, with an empty
               \* one, and with one that has neither a file nor a runtime
  Prefixed     \* the name of a file that starts with gs://

Targets   == {NoTarget, EmptyTarget, OtherTarget}
               \cup [file : Files \cup {Prefixed, None}] \cup [runtime : Names \cup {None}]
Entries   == [target : Targets, deprecated : BOOLEAN]
Manifests == [schema : BOOLEAN, runtimes : [Names -> Entries \cup {None}]]

\* A builder config: its project and its latest file; None is a missing field.
BuilderConfigs == [project : Projects \cup {None}, latest : Files \cup {None}]

ASSUME RunAssumption ==
  /\ Output \in [Templates -> Seq(Files)]
  /\ Candidates \in [Publishers -> SUBSET Manifests]
  /\ Configs \in [Publishers -> SUBSET BuilderConfigs]
  /\ Together \subseteq SUBSET (Templates \cup Publishers)
  /\ Deletable \subseteq Files
  /\ Templates \cap Publishers = {}

\* The markers stand for themselves.
ASSUME MarkerAssumption ==
  /\ None \notin Names \cup Files \cup Entries \cup Manifests
  /\ Prefixed \notin Files
  /\ \A marker \in {NoTarget, EmptyTarget, OtherTarget} :
       \A f \in Files \cup {Prefixed, None}, n \in Names \cup {None} :
         marker # [file |-> f] /\ marker # [runtime |-> n]

VARIABLES
  builders,   \* the builder files in the bucket
  removed,    \* files that somebody has deleted
  published,  \* runtimes.yaml in the bucket, or None
  version,    \* the version file of a project, or None
  pc,         \* control point of a run
  made,       \* how many files a run of template_builder is done with
  manifest,   \* the manifest a publisher was given, None before it starts
  checked,    \* entries _verify_manifest_formatting is done with
  walked,     \* nodes _verify_manifest_graph is done with
  node,       \* the node it is at, or None
  child,      \* where the walk from there has come
  seen,       \* and what it has seen
  left,       \* configs _publish_latest has still to read
  exitCode

bucketVars == <<builders, removed, published, version>>
walkVars   == <<walked, node, child, seen>>
vars == <<bucketVars, pc, made, manifest, checked, walkVars, left, exitCode>>

Runs  == Templates \cup Publishers
Stage == {"new", "template", "format", "graph", "walk", "refused", "manifest", "versions",
          "ended"}

\* "refused" is the end at a sys.exit(1) of _verify_manifest_graph.
Ended == {"refused", "ended"}

GoTo(r, s) == pc' = [pc EXCEPT ![r] = s]

End(r, code) == GoTo(r, "ended") /\ exitCode' = [exitCode EXCEPT ![r] = code]
Refuse(p)    == GoTo(p, "refused") /\ exitCode' = [exitCode EXCEPT ![p] = "1"]

-------------------------------------------------------------------------------
(***************************************************************************)
(* Manifests.                                                              *)
(***************************************************************************)
Runtimes(m)  == {n \in Names : m.runtimes[n] # None}
Target(m, n) == m.runtimes[n].target

NamesFile(m, n)    == \E f \in Files \cup {Prefixed, None} : Target(m, n) = [file |-> f]
NamesRuntime(m, n) == \E c \in Names \cup {None} : Target(m, n) = [runtime |-> c]

\* _build_manifest_graph: entries without a target have no node.
Nodes(m) == {n \in Runtimes(m) : NamesFile(m, n) \/ NamesRuntime(m, n)}

IsBuilder(m, n) == NamesFile(m, n)
Child(m, n)     == IF IsBuilder(m, n) THEN None ELSE Target(m, n).runtime

\* ... which exits unless an entry without a target is a deprecated one.
GraphBuilt(m) ==
  \A n \in Runtimes(m) \ Nodes(m) :
    Target(m, n) = EmptyTarget /\ m.runtimes[n].deprecated

-------------------------------------------------------------------------------
(***************************************************************************)
(* template_builder.py.                                                    *)
(***************************************************************************)
MayStart(r) ==
  /\ pc[r] = "new"
  /\ \E group \in Together : {r} \cup {q \in Runs : pc[q] # "new"} \subseteq group

StartTemplate(t) ==
  /\ MayStart(t)
  /\ GoTo(t, "template")
  /\ UNCHANGED <<bucketVars, made, manifest, checked, walkVars, left, exitCode>>

AtFile(t)   == pc[t] = "template" /\ made[t] < Len(Output[t])
NextFile(t) == made' = [made EXCEPT ![t] = @ + 1]

\* _resolve_tags and _publish_to_gcs of the next builder of the config, ...
PublishFile(t) ==
  /\ AtFile(t)
  /\ builders' = builders \cup {Output[t][made[t] + 1]}
  /\ NextFile(t)
  /\ UNCHANGED <<removed, published, version, pc, manifest, checked, walkVars, left, exitCode>>

\* ... where copy_to_gcs swallows the errors of gsutil, ...
PublishFileFails(t) ==
  /\ AtFile(t)
  /\ NextFile(t)
  /\ UNCHANGED <<bucketVars, pc, manifest, checked, walkVars, left, exitCode>>

\* ... and a tag that no image carries ends the run.
TagNotFound(t) ==
  /\ AtFile(t)
  /\ End(t, "1")
  /\ UNCHANGED <<bucketVars, made, manifest, checked, walkVars, left>>

TemplateDone(t) ==
  /\ pc[t] = "template" /\ made[t] = Len(Output[t])
  /\ End(t, "0")
  /\ UNCHANGED <<bucketVars, made, manifest, checked, walkVars, left>>

-------------------------------------------------------------------------------
(***************************************************************************)
(* verify_manifest.py.                                                     *)
(***************************************************************************)
StartPublisher(p) ==
  /\ MayStart(p)
  /\ \E m \in Candidates[p] : manifest' = [manifest EXCEPT ![p] = m]
  /\ GoTo(p, "format")
  /\ UNCHANGED <<bucketVars, made, checked, walkVars, left, exitCode>>

\* A manifest that yaml cannot make values of, a ValueError: main logs it and
\* ends with status 0.
ManifestUnread(p) ==
  /\ MayStart(p)
  /\ End(p, "0")
  /\ UNCHANGED <<bucketVars, made, manifest, checked, walkVars, left>>

Unchecked(p) == Runtimes(manifest[p]) \ checked[p]

\* The turns of the loop of _verify_manifest_formatting; a dict has no order.
Formatting(p, n) == pc[p] = "format" /\ manifest[p].schema /\ n \in Unchecked(p)

NoFileNamed(m, n) == Target(m, n) = [file |-> None] \/ ~NamesFile(m, n)

\* Nothing to look for without a file, or with an empty name.
SkipEntry(p, n) ==
  /\ Formatting(p, n)
  /\ NoFileNamed(manifest[p], n) /\ Target(manifest[p], n) # NoTarget
  /\ checked' = [checked EXCEPT ![p] = @ \cup {n}]
  /\ UNCHANGED <<bucketVars, pc, made, manifest, walkVars, left, exitCode>>

\* Mutant of FileFound: only the name is checked.
FileNamed(p, n) ==
  /\ Formatting(p, n)
  /\ \E f \in Files : Target(manifest[p], n) = [file |-> f]
  /\ checked' = [checked EXCEPT ![p] = @ \cup {n}]
  /\ UNCHANGED <<bucketVars, pc, made, manifest, walkVars, left, exitCode>>

\* file_exists: gsutil stat.
FileFound(p, n) ==
  /\ Formatting(p, n)
  /\ \E f \in builders : Target(manifest[p], n) = [file |-> f]
  /\ checked' = [checked EXCEPT ![p] = @ \cup {n}]
  /\ UNCHANGED <<bucketVars, pc, made, manifest, walkVars, left, exitCode>>

\* sys.exit(1) for a name with the bucket in it, for a file that is not there
\* and for one that gsutil fails to find.
FileRefused(p, n) ==
  /\ Formatting(p, n)
  /\ ~NoFileNamed(manifest[p], n)
  /\ End(p, "1")
  /\ UNCHANGED <<bucketVars, made, manifest, checked, walkVars, left>>

\* No schema_version; or None has no attribute get: an AttributeError, which only
\* _build_manifest_graph would catch.
FormatRefused(p) ==
  /\ pc[p] = "format"
  /\ \/ ~manifest[p].schema
     \/ \E n \in Unchecked(p) : Target(manifest[p], n) = NoTarget
  /\ End(p, "1")
  /\ UNCHANGED <<bucketVars, made, manifest, checked, walkVars, left>>

Formatted(p) ==
  /\ pc[p] = "format" /\ manifest[p].schema /\ Unchecked(p) = {}
  /\ GoTo(p, "graph")
  /\ UNCHANGED <<bucketVars, made, manifest, checked, walkVars, left, exitCode>>

\* _build_manifest_graph.
BuildGraph(p) ==
  /\ pc[p] = "graph"
  /\ IF GraphBuilt(manifest[p]) THEN GoTo(p, "walk") /\ UNCHANGED exitCode ELSE End(p, "1")
  /\ UNCHANGED <<bucketVars, made, manifest, checked, walkVars, left>>

\* The next node of the outer loop of _verify_manifest_graph.
PickNode(p) ==
  /\ pc[p] = "walk" /\ node[p] = None
  /\ \E n \in Nodes(manifest[p]) \ walked[p] :
       /\ node' = [node EXCEPT ![p] = n]
       /\ child' = [child EXCEPT ![p] = n]
       /\ seen' = [seen EXCEPT ![p] = {n}]
  /\ UNCHANGED <<bucketVars, pc, made, manifest, checked, walked, left, exitCode>>

Walking(p) == pc[p] = "walk" /\ node[p] # None
NextOf(p)  == Child(manifest[p], child[p])

\* Mutant of Follow: the walk only looks out for the node it started from.
FollowForgets(p) ==
  /\ Walking(p) /\ NextOf(p) # None
  /\ NextOf(p) \in Nodes(manifest[p]) \ {node[p]}
  /\ child' = [child EXCEPT ![p] = NextOf(p)]
  /\ UNCHANGED <<bucketVars, pc, made, manifest, checked, walked, node, seen, left, exitCode>>

\* A turn of the inner loop.
Follow(p) ==
  /\ Walking(p) /\ NextOf(p) # None
  /\ NextOf(p) \in Nodes(manifest[p]) \ seen[p]
  /\ child' = [child EXCEPT ![p] = NextOf(p)]
  /\ seen' = [seen EXCEPT ![p] = @ \cup {NextOf(p)}]
  /\ UNCHANGED <<bucketVars, pc, made, manifest, checked, walked, node, left, exitCode>>

\* An alias for nothing, and a circle.
FollowRefused(p) ==
  /\ Walking(p) /\ NextOf(p) # None
  /\ NextOf(p) \notin Nodes(manifest[p]) \ seen[p]
  /\ Refuse(p)
  /\ UNCHANGED <<bucketVars, made, manifest, checked, walkVars, left>>

\* Mutant of EndOfChain: what the walk ends at is not looked at.
EndAnywhere(p) ==
  /\ Walking(p) /\ NextOf(p) = None
  /\ walked' = [walked EXCEPT ![p] = @ \cup {node[p]}]
  /\ node' = [node EXCEPT ![p] = None]
  /\ UNCHANGED <<bucketVars, pc, made, manifest, checked, child, seen, left, exitCode>>

EndOfChain(p) ==
  /\ Walking(p) /\ NextOf(p) = None
  /\ IsBuilder(manifest[p], child[p])
  /\ walked' = [walked EXCEPT ![p] = @ \cup {node[p]}]
  /\ node' = [node EXCEPT ![p] = None]
  /\ UNCHANGED <<bucketVars, pc, made, manifest, checked, child, seen, left, exitCode>>

\* runtime: null.
NoBuilder(p) ==
  /\ Walking(p) /\ NextOf(p) = None
  /\ ~IsBuilder(manifest[p], child[p])
  /\ Refuse(p)
  /\ UNCHANGED <<bucketVars, made, manifest, checked, walkVars, left>>

Verified(p) ==
  /\ pc[p] = "walk" /\ node[p] = None /\ Nodes(manifest[p]) \subseteq walked[p]
  /\ GoTo(p, "manifest")
  /\ UNCHANGED <<bucketVars, made, manifest, checked, walkVars, left, exitCode>>

-------------------------------------------------------------------------------
(***************************************************************************)
(* publish_builders.py.                                                    *)
(***************************************************************************)

\* copy_to_gcs: the manifest, ...
CopyManifest(p) ==
  /\ pc[p] = "manifest"
  /\ published' = manifest[p]
  /\ GoTo(p, "versions")
  /\ UNCHANGED <<builders, removed, version, made, manifest, checked, walkVars, left, exitCode>>

\* ... or an error that is logged.
CopyManifestFails(p) ==
  /\ pc[p] = "manifest"
  /\ GoTo(p, "versions")
  /\ UNCHANGED <<bucketVars, made, manifest, checked, walkVars, left, exitCode>>

\* _publish_latest: a config, in any order.
Reading(p, c) == pc[p] = "versions" /\ c \in left[p]
Fields(c)     == c.project # None /\ c.latest # None
ConfigDone(p, c) == left' = [left EXCEPT ![p] = @ \ {c}]

WriteVersion(p, c) ==
  /\ Reading(p, c) /\ Fields(c)
  /\ version' = [version EXCEPT ![c.project] = c.latest]
  /\ ConfigDone(p, c)
  /\ UNCHANGED <<builders, removed, published, pc, made, manifest, checked, walkVars, exitCode>>

\* A field is missing, or gsutil fails: both are logged.
NoVersion(p, c) ==
  /\ Reading(p, c)
  /\ ConfigDone(p, c)
  /\ UNCHANGED <<bucketVars, pc, made, manifest, checked, walkVars, exitCode>>

\* A config that yaml cannot make values of: those after it are not read.
ConfigUnread(p) ==
  /\ pc[p] = "versions" /\ left[p] # {}
  /\ End(p, "0")
  /\ UNCHANGED <<bucketVars, made, manifest, checked, walkVars, left>>

\* Whatever was logged, the exit status is 0.
PublisherDone(p) ==
  /\ pc[p] = "versions" /\ left[p] = {}
  /\ End(p, "0")
  /\ UNCHANGED <<bucketVars, made, manifest, checked, walkVars, left>>

\* Death of a run, or an exception nothing catches (a file that is no YAML).
Die(r) ==
  /\ pc[r] \notin {"new"} \cup Ended
  /\ End(r, "1")
  /\ UNCHANGED <<bucketVars, made, manifest, checked, walkVars, left>>

\* Somebody deletes an old builder.
Delete(f) ==
  /\ f \in builders \cap Deletable
  /\ builders' = builders \ {f}
  /\ removed' = removed \cup {f}
  /\ UNCHANGED <<published, version, pc, made, manifest, checked, walkVars, left, exitCode>>

-------------------------------------------------------------------------------
Init ==
  /\ builders = {} /\ removed = {} /\ published = None
  /\ version = [q \in Projects |-> None]
  /\ pc = [r \in Runs |-> "new"]
  /\ made = [t \in Templates |-> 0]
  /\ manifest = [p \in Publishers |-> None]
  /\ checked = [p \in Publishers |-> {}]
  /\ walked = [p \in Publishers |-> {}]
  /\ node = [p \in Publishers |-> None]
  /\ child = [p \in Publishers |-> None]
  /\ seen = [p \in Publishers |-> {}]
  /\ left = Configs
  /\ exitCode = [r \in Runs |-> "none"]

TemplateStep(t) == PublishFile(t) \/ PublishFileFails(t) \/ TagNotFound(t) \/ TemplateDone(t)

VerifyStep(p) ==
  \/ \E n \in Names : SkipEntry(p, n) \/ FileFound(p, n) \/ FileRefused(p, n)
  \/ FormatRefused(p) \/ Formatted(p) \/ BuildGraph(p)
  \/ PickNode(p) \/ Follow(p) \/ FollowRefused(p) \/ EndOfChain(p) \/ NoBuilder(p)
  \/ Verified(p)

PublishStep(p) ==
  \/ CopyManifest(p) \/ CopyManifestFails(p)
  \/ \E c \in Configs[p] : WriteVersion(p, c) \/ NoVersion(p, c)
  \/ ConfigUnread(p) \/ PublisherDone(p)

Next ==
  \/ \E t \in Templates : StartTemplate(t) \/ TemplateStep(t)
  \/ \E p \in Publishers : StartPublisher(p) \/ ManifestUnread(p) \/ VerifyStep(p) \/ PublishStep(p)
  \/ \E r \in Runs : Die(r)
  \/ \E f \in Files : Delete(f)

\* A run of publish_builders that was started goes on: gsutil returns.
Spec == Init /\ [][Next]_vars /\ \A p \in Publishers : WF_vars(VerifyStep(p) \/ PublishStep(p))

-------------------------------------------------------------------------------
(***************************************************************************)
(* Properties.                                                             *)
(***************************************************************************)
\* The types; a publisher is always given one of its manifests.
TypeOK ==
  /\ builders \subseteq Files /\ removed \subseteq Deletable
  /\ published = None \/ \E p \in Publishers : published \in Candidates[p]
  /\ version \in [Projects -> Files \cup {None}]
  /\ pc \in [Runs -> Stage]
  /\ made \in [Templates -> Nat]
  /\ manifest \in [Publishers -> Manifests \cup {None}]
  /\ \A p \in Publishers : manifest[p] \in Candidates[p] \cup {None}
  /\ checked \in [Publishers -> SUBSET Names]
  /\ walked \in [Publishers -> SUBSET Names]
  /\ node \in [Publishers -> Names \cup {None}]
  /\ child \in [Publishers -> Names \cup {None}]
  /\ seen \in [Publishers -> SUBSET Names]
  /\ left \in [Publishers -> SUBSET BuilderConfigs]
  /\ exitCode \in [Runs -> {"none", "0", "1"}]

\* The nodes that "lead down to a builder node" (verify_manifest): the builders
\* and whatever leads to one of them.
Resolving(m) ==
  {n \in Nodes(m) :
     \A S \in SUBSET Nodes(m) :
       (\A x \in Nodes(m) : IsBuilder(m, x) \/ Child(m, x) \in S => x \in S) => n \in S}

\* Status 0 alone says nothing of a manifest that was not read.
Accepted(p) ==
  manifest[p] # None /\ (pc[p] \in {"manifest", "versions"} \/ exitCode[p] = "0")

\* The walk accepts a manifest just when all nodes lead down to a builder: it
\* passes no alias for nothing, no circle and no tail that runs into one, and
\* where it refuses, one of these is there (_verify_manifest_graph).
VerdictCorrect ==
  \A p \in Publishers :
    LET m == manifest[p]
    IN  /\ Accepted(p) => Resolving(m) = Nodes(m)
        /\ pc[p] = "refused" => Resolving(m) # Nodes(m)

\* The builder files a manifest leads to.
FilesOf(m) == {f \in Files : \E n \in Resolving(m) : Target(m, n) = [file |-> f]}

\* The published manifest leads from every name to a builder file that is in the
\* bucket or was deleted by somebody, and a version file says what the directory
\* of a run with a verified manifest says, however runs overlap, fail and
\* overwrite each other's files (publish_builders.main).
PublishedSound ==
  /\ published # None =>
       /\ Resolving(published) = Nodes(published)
       /\ FilesOf(published) \subseteq builders \cup removed
  /\ \A q \in Projects : version[q] # None =>
       \E p \in Publishers : /\ [project |-> q, latest |-> version[q]] \in Configs[p]
                             /\ manifest[p] # None
                             /\ Resolving(manifest[p]) = Nodes(manifest[p])

\* Every verification ends, whatever circles are in the manifest.
VerificationEnds ==
  \A p \in Publishers : pc[p] = "format" ~> pc[p] \in {"versions"} \cup Ended

===============================================================================
