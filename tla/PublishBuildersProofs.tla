------------------------- MODULE PublishBuildersProofs -------------------------
(***************************************************************************)
(* Proofs about PublishBuilders, for any names, files, manifests and runs. *)
(***************************************************************************)
EXTENDS PublishBuilders, TLAPS

-------------------------------------------------------------------------------
(***************************************************************************)
(* The inductive invariant: what holds of every publisher, and of the      *)
(* bucket.                                                                 *)
(***************************************************************************)

\* A run has its manifest from its start to its end, if it can read it, and
\* has done nothing with it before the stages that do it.
StageInv(p) ==
  /\ pc[p] = "new" => manifest[p] = None /\ exitCode[p] = "none" /\ checked[p] = {}
  /\ \/ manifest[p] \in Candidates[p]
     \/ manifest[p] = None /\ pc[p] \in {"new", "ended"}
  /\ pc[p] \in {"new", "format", "graph"} => walked[p] = {} /\ node[p] = None
  /\ left[p] \subseteq Configs[p]

\* The file of a checked entry was in the bucket: it is there, or deleted.
CheckedInv(p) ==
  /\ \A n \in checked[p], f \in Files :
       Target(manifest[p], n) = [file |-> f] => f \in builders \cup removed
  /\ pc[p] \in {"graph", "walk", "manifest", "versions"} =>
       Runtimes(manifest[p]) \subseteq checked[p]

\* The walk is on a path of aliases from its node to its child, and the nodes
\* on it lead down to a builder if the child does.
OnPath(p) ==
  LET m == manifest[p]
  IN  /\ node[p] \in seen[p] /\ child[p] \in seen[p] /\ seen[p] \subseteq Nodes(m)
      /\ \A x \in seen[p] \ {child[p]} : ~IsBuilder(m, x) /\ Child(m, x) \in seen[p]
      /\ child[p] \in Resolving(m) => seen[p] \subseteq Resolving(m)

WalkInv(p) ==
  pc[p] = "walk" =>
    /\ walked[p] \subseteq Resolving(manifest[p])
    /\ node[p] # None => OnPath(p)

\* What a verdict says of the manifest.
VerdictInv(p) ==
  /\ pc[p] \in {"manifest", "versions"} =>
       /\ Resolving(manifest[p]) = Nodes(manifest[p])
       /\ FilesOf(manifest[p]) \subseteq builders \cup removed
  /\ exitCode[p] = "0" =>
       /\ pc[p] = "ended"
       /\ manifest[p] # None => Resolving(manifest[p]) = Nodes(manifest[p])
  /\ pc[p] = "refused" => Resolving(manifest[p]) # Nodes(manifest[p])

RunInv(p) == StageInv(p) /\ CheckedInv(p) /\ WalkInv(p) /\ VerdictInv(p)

IInv == TypeOK /\ PublishedSound /\ \A p \in Publishers : RunInv(p)

-------------------------------------------------------------------------------
(***************************************************************************)
(* Which nodes lead down to a builder.                                     *)
(***************************************************************************)

\* A builder resolves, and so does what leads to something that does.
LEMMA ResolvingUp ==
  ASSUME NEW m, NEW n \in Nodes(m), IsBuilder(m, n) \/ Child(m, n) \in Resolving(m)
  PROVE  n \in Resolving(m)
  BY DEF Resolving

\* Nodes that are no builders and lead nowhere but to each other do not.
LEMMA TrappedUnresolved ==
  ASSUME NEW m, NEW S \in SUBSET Nodes(m),
         \A x \in S : ~IsBuilder(m, x) /\ Child(m, x) \notin Nodes(m) \ S
  PROVE  \A x \in S : x \notin Resolving(m)
  <1>1. Nodes(m) \ S \in SUBSET Nodes(m)
    OBVIOUS
  <1>2. \A x \in Nodes(m) :
          IsBuilder(m, x) \/ Child(m, x) \in Nodes(m) \ S => x \in Nodes(m) \ S
    OBVIOUS
  <1> QED
    BY <1>1, <1>2 DEF Resolving

\* The nodes of a manifest are names, and None is none of them.
LEMMA NodesAreNames ==
  ASSUME NEW m
  PROVE  Nodes(m) \subseteq Names /\ None \notin Nodes(m) /\ Nodes(m) \subseteq Runtimes(m)
         /\ Resolving(m) \subseteq Nodes(m)
  BY MarkerAssumption DEF Nodes, Runtimes, Resolving

\* A manifest that may be given is one, and is not None.
LEMMA CandidatesAreManifests ==
  ASSUME NEW p \in Publishers
  PROVE  Candidates[p] \subseteq Manifests /\ None \notin Candidates[p]
  BY RunAssumption, MarkerAssumption

\* Once all entries are checked, the files a manifest leads to have been seen.
LEMMA CheckedFiles ==
  ASSUME NEW p \in Publishers, CheckedInv(p), Runtimes(manifest[p]) \subseteq checked[p]
  PROVE  FilesOf(manifest[p]) \subseteq builders \cup removed
  BY NodesAreNames DEF CheckedInv, FilesOf

-------------------------------------------------------------------------------
(***************************************************************************)
(* What a step leaves alone.                                               *)
(***************************************************************************)

\* Nothing of a publisher changes.
Same(q) ==
  /\ pc'[q] = pc[q] /\ exitCode'[q] = exitCode[q] /\ manifest'[q] = manifest[q]
  /\ checked'[q] = checked[q] /\ walked'[q] = walked[q] /\ node'[q] = node[q]
  /\ child'[q] = child[q] /\ seen'[q] = seen[q] /\ left'[q] = left[q]

\* A file that was in the bucket is there, or was deleted.
NothingLost == builders \cup removed \subseteq builders' \cup removed'

LEMMA FrameRunInv ==
  ASSUME NEW q \in Publishers, RunInv(q), Same(q), NothingLost
  PROVE  RunInv(q)'
  <1> USE DEF Same, NothingLost
  <1>1. StageInv(q)'
    BY DEF RunInv, StageInv
  <1>2. CheckedInv(q)'
    BY DEF RunInv, CheckedInv
  <1>3. WalkInv(q)'
    BY DEF RunInv, WalkInv, OnPath
  <1>4. VerdictInv(q)'
    BY DEF RunInv, VerdictInv
  <1> QED
    BY <1>1, <1>2, <1>3, <1>4 DEF RunInv

\* Steps of a template builder, deaths and deletions touch no publisher that
\* is at work, and lose no file.
LEMMA OutsideSame ==
  ASSUME TypeOK, NEW q \in Publishers,
         \/ \E t \in Templates : StartTemplate(t) \/ TemplateStep(t) \/ Die(t)
         \/ \E f \in Files : Delete(f)
         \/ \E p \in Publishers \ {q} :
              \/ StartPublisher(p) \/ ManifestUnread(p) \/ VerifyStep(p) \/ PublishStep(p)
              \/ Die(p)
         \/ UNCHANGED vars
  PROVE  Same(q) /\ NothingLost
  <1> USE DEF Same, NothingLost, TypeOK, bucketVars, walkVars, GoTo, End, Refuse
  <1> q \in Runs
    BY DEF Runs
  <1>1. ASSUME NEW t \in Templates, StartTemplate(t) \/ TemplateStep(t) \/ Die(t)
        PROVE  Same(q) /\ NothingLost
    <2>1. t # q /\ q \in Runs
      BY RunAssumption DEF Runs
    <2> QED
      BY <1>1, <2>1 DEF StartTemplate, TemplateStep, PublishFile, PublishFileFails, TagNotFound,
         TemplateDone, NextFile, AtFile, Die
  <1>2. ASSUME NEW f \in Files, Delete(f) PROVE Same(q) /\ NothingLost
    BY <1>2 DEF Delete
  <1>3. ASSUME NEW p \in Publishers \ {q},
               \/ StartPublisher(p) \/ ManifestUnread(p) \/ VerifyStep(p) \/ PublishStep(p)
               \/ Die(p)
        PROVE  Same(q) /\ NothingLost
    <2>1. CASE StartPublisher(p) \/ ManifestUnread(p) \/ Die(p)
      BY <2>1 DEF StartPublisher, ManifestUnread, Die
    <2>2. CASE \E n \in Names : SkipEntry(p, n) \/ FileFound(p, n) \/ FileRefused(p, n)
      BY <2>2 DEF SkipEntry, FileFound, FileRefused
    <2>3. CASE FormatRefused(p) \/ Formatted(p) \/ BuildGraph(p) \/ Verified(p)
      BY <2>3 DEF FormatRefused, Formatted, BuildGraph, Verified
    <2>4. CASE PickNode(p) \/ Follow(p) \/ FollowRefused(p) \/ EndOfChain(p) \/ NoBuilder(p)
      BY <2>4 DEF PickNode, Follow, FollowRefused, EndOfChain, NoBuilder
    <2>5. CASE PublishStep(p)
      BY <2>5 DEF PublishStep, CopyManifest, CopyManifestFails, WriteVersion, NoVersion,
         ConfigDone, ConfigUnread, PublisherDone
    <2> QED
      BY <1>3, <2>1, <2>2, <2>3, <2>4, <2>5 DEF VerifyStep
  <1>4. CASE UNCHANGED vars
    BY <1>4 DEF vars
  <1> QED
    BY <1>1, <1>2, <1>3, <1>4

-------------------------------------------------------------------------------
(***************************************************************************)
(* Type correctness.                                                       *)
(***************************************************************************)

LEMMA InitTypeOK == Init => TypeOK
  BY RunAssumption DEF Init, TypeOK, Stage

LEMMA TemplateTypeOK ==
  ASSUME TypeOK, NEW t \in Templates, StartTemplate(t) \/ TemplateStep(t)
  PROVE  TypeOK'
  <1> USE DEF TypeOK, bucketVars, walkVars, GoTo, End, Stage, NextFile, AtFile
  <1> t \in Runs
    BY DEF Runs
  <1>1. CASE StartTemplate(t)
    BY <1>1 DEF StartTemplate
  <1>2. CASE PublishFile(t)
    <2>1. Output[t] \in Seq(Files) /\ made[t] \in Nat
      BY RunAssumption
    <2>2. made[t] + 1 \in 1 .. Len(Output[t])
      BY <1>2, <2>1 DEF PublishFile
    <2>3. Output[t][made[t] + 1] \in Files
      BY <2>1, <2>2
    <2> QED
      BY <1>2, <2>1, <2>3 DEF PublishFile
  <1>3. CASE PublishFileFails(t)
    BY <1>3 DEF PublishFileFails
  <1>4. CASE TagNotFound(t) \/ TemplateDone(t)
    BY <1>4 DEF TagNotFound, TemplateDone
  <1> QED
    BY <1>1, <1>2, <1>3, <1>4 DEF TemplateStep

LEMMA PublisherTypeOK ==
  ASSUME TypeOK, NEW p \in Publishers, StageInv(p),
         StartPublisher(p) \/ ManifestUnread(p) \/ VerifyStep(p) \/ PublishStep(p)
  PROVE  TypeOK'
  <1> USE DEF TypeOK, bucketVars, walkVars, GoTo, End, Refuse, Stage
  <1> p \in Runs
    BY DEF Runs
  <1>1. CASE StartPublisher(p)
    BY <1>1, CandidatesAreManifests DEF StartPublisher
  <1>2. ASSUME NEW n \in Names, SkipEntry(p, n) \/ FileFound(p, n) \/ FileRefused(p, n)
        PROVE  TypeOK'
    BY <1>2 DEF SkipEntry, FileFound, FileRefused
  <1>3. CASE FormatRefused(p) \/ Formatted(p) \/ BuildGraph(p) \/ Verified(p)
    BY <1>3 DEF FormatRefused, Formatted, BuildGraph, Verified
  <1>4. CASE PickNode(p)
    <2>1. PICK n \in Nodes(manifest[p]) : /\ node' = [node EXCEPT ![p] = n]
                                          /\ child' = [child EXCEPT ![p] = n]
                                          /\ seen' = [seen EXCEPT ![p] = {n}]
      BY <1>4 DEF PickNode
    <2>2. n \in Names
      BY NodesAreNames
    <2> QED
      BY <1>4, <2>1, <2>2 DEF PickNode
  <1>5. CASE Follow(p)
    BY <1>5, NodesAreNames DEF Follow
  <1>6. CASE EndOfChain(p)
    BY <1>6 DEF EndOfChain, Walking
  <1>7. CASE FollowRefused(p) \/ NoBuilder(p)
    BY <1>7 DEF FollowRefused, NoBuilder
  <1>8. CASE CopyManifest(p)
    BY <1>8 DEF CopyManifest, StageInv
  <1>9. ASSUME NEW c \in Configs[p], WriteVersion(p, c) PROVE TypeOK'
    <2>1. c \in BuilderConfigs
      BY RunAssumption
    <2>2. c.latest \in Files
      BY <1>9, <2>1 DEF WriteVersion, Fields, BuilderConfigs
    <2> QED
      BY <1>9, <2>2 DEF WriteVersion, ConfigDone
  <1>10. ASSUME NEW c \in Configs[p], NoVersion(p, c) PROVE TypeOK'
    BY <1>10 DEF NoVersion, ConfigDone
  <1>11. CASE CopyManifestFails(p) \/ ManifestUnread(p) \/ ConfigUnread(p) \/ PublisherDone(p)
    BY <1>11 DEF CopyManifestFails, ManifestUnread, ConfigUnread, PublisherDone
  <1> QED
    BY <1>1, <1>2, <1>3, <1>4, <1>5, <1>6, <1>7, <1>8, <1>9, <1>10, <1>11
       DEF VerifyStep, PublishStep

LEMMA OtherTypeOK ==
  ASSUME TypeOK, (\E r \in Runs : Die(r)) \/ (\E f \in Files : Delete(f)) \/ UNCHANGED vars
  PROVE  TypeOK'
  <1> USE DEF TypeOK, bucketVars, walkVars, GoTo, End, Stage
  <1>1. ASSUME NEW r \in Runs, Die(r) PROVE TypeOK'
    BY <1>1 DEF Die
  <1>2. ASSUME NEW f \in Files, Delete(f) PROVE TypeOK'
    BY <1>2 DEF Delete
  <1>3. CASE UNCHANGED vars
    BY <1>3 DEF vars
  <1> QED
    BY <1>1, <1>2, <1>3

-------------------------------------------------------------------------------
(***************************************************************************)
(* The publisher that takes a step keeps what holds of it.                 *)
(***************************************************************************)

LEMMA StartRunInv ==
  ASSUME TypeOK, NEW p \in Publishers, RunInv(p), StartPublisher(p)
  PROVE  RunInv(p)'
  <1> p \in Runs
    BY DEF Runs
  <1>1. /\ pc[p] = "new" /\ pc'[p] = "format"
        /\ manifest'[p] \in Candidates[p] /\ checked'[p] = {} /\ walked'[p] = {}
        /\ node'[p] = None /\ left'[p] = left[p] /\ exitCode'[p] = "none"
    BY DEF StartPublisher, MayStart, GoTo, TypeOK, walkVars, RunInv, StageInv
  <1>2. StageInv(p)'
    BY <1>1 DEF RunInv, StageInv
  <1>3. CheckedInv(p)' /\ WalkInv(p)' /\ VerdictInv(p)'
    BY <1>1 DEF CheckedInv, WalkInv, VerdictInv
  <1> QED
    BY <1>2, <1>3 DEF RunInv

LEMMA UnreadRunInv ==
  ASSUME TypeOK, NEW p \in Publishers, RunInv(p), ManifestUnread(p)
  PROVE  RunInv(p)'
  <1> p \in Runs
    BY DEF Runs
  <1>1. /\ UNCHANGED <<builders, removed, manifest, checked, walked, node, child, seen, left>>
        /\ pc[p] = "new" /\ pc'[p] = "ended" /\ exitCode'[p] = "0"
    BY DEF ManifestUnread, MayStart, End, GoTo, TypeOK, bucketVars, walkVars
  <1> QED
    BY <1>1 DEF RunInv, StageInv, CheckedInv, WalkInv, VerdictInv

LEMMA FormatRunInv ==
  ASSUME TypeOK, NEW p \in Publishers, NEW n \in Names, RunInv(p),
         SkipEntry(p, n) \/ FileFound(p, n) \/ FileRefused(p, n)
  PROVE  RunInv(p)'
  <1> p \in Runs
    BY DEF Runs
  <1>1. CASE FileRefused(p, n)
    <2>1. /\ pc[p] = "format" /\ pc'[p] = "ended" /\ exitCode'[p] = "1"
          /\ UNCHANGED <<builders, removed, manifest, checked, walked, node, child, seen, left>>
      BY <1>1 DEF FileRefused, Formatting, End, GoTo, TypeOK, bucketVars, walkVars
    <2> QED
      BY <2>1 DEF RunInv, StageInv, CheckedInv, WalkInv, VerdictInv
  <1>2. CASE SkipEntry(p, n) \/ FileFound(p, n)
    <2>1. /\ pc[p] = "format" /\ checked'[p] = checked[p] \cup {n}
          /\ UNCHANGED <<builders, removed, pc, manifest, walked, node, child, seen, left,
                         exitCode>>
      BY <1>2 DEF SkipEntry, FileFound, Formatting, TypeOK, bucketVars, walkVars
    <2>2. \A f \in Files : Target(manifest[p], n) = [file |-> f] => f \in builders
      <3> SUFFICES ASSUME NEW f \in Files, Target(manifest[p], n) = [file |-> f]
                   PROVE  f \in builders
        OBVIOUS
      <3>1. CASE SkipEntry(p, n)
        <4>1. Target(manifest[p], n) = [file |-> None]
          BY <3>1 DEF SkipEntry, NoFileNamed, NamesFile
        <4>2. [file |-> f].file = [file |-> None].file
          BY <4>1
        <4> QED
          BY <4>2, MarkerAssumption
      <3>2. CASE FileFound(p, n)
        <4>1. PICK g \in builders : Target(manifest[p], n) = [file |-> g]
          BY <3>2 DEF FileFound
        <4>2. [file |-> f].file = [file |-> g].file
          BY <4>1
        <4> QED
          BY <4>2
      <3> QED
        BY <1>2, <3>1, <3>2
    <2> QED
      BY <2>1, <2>2 DEF RunInv, StageInv, CheckedInv, WalkInv, VerdictInv
  <1> QED
    BY <1>1, <1>2

\* The stages before and after the walk.
LEMMA StagesRunInv ==
  ASSUME TypeOK, NEW p \in Publishers, RunInv(p),
         FormatRefused(p) \/ Formatted(p) \/ BuildGraph(p) \/ Verified(p)
  PROVE  RunInv(p)'
  <1> p \in Runs
    BY DEF Runs
  <1>1. UNCHANGED <<builders, removed, manifest, checked, walked, node, child, seen, left>>
    BY DEF FormatRefused, Formatted, BuildGraph, Verified, bucketVars, walkVars
  <1>2. CASE FormatRefused(p) \/ (BuildGraph(p) /\ ~GraphBuilt(manifest[p]))
    <2>1. pc[p] \in {"format", "graph"} /\ pc'[p] = "ended" /\ exitCode'[p] = "1"
      BY <1>2 DEF FormatRefused, BuildGraph, End, GoTo, TypeOK
    <2> QED
      BY <1>1, <2>1 DEF RunInv, StageInv, CheckedInv, WalkInv, VerdictInv
  <1>3. CASE Formatted(p)
    <2>1. /\ pc[p] = "format" /\ pc'[p] = "graph" /\ exitCode'[p] = exitCode[p]
          /\ Runtimes(manifest[p]) \subseteq checked[p]
      BY <1>3 DEF Formatted, Unchecked, GoTo, TypeOK
    <2> QED
      BY <1>1, <2>1 DEF RunInv, StageInv, CheckedInv, WalkInv, VerdictInv
  <1>4. CASE BuildGraph(p) /\ GraphBuilt(manifest[p])
    <2>1. pc[p] = "graph" /\ pc'[p] = "walk" /\ exitCode'[p] = exitCode[p]
      BY <1>4 DEF BuildGraph, GoTo, TypeOK
    <2> QED
      BY <1>1, <2>1 DEF RunInv, StageInv, CheckedInv, WalkInv, VerdictInv
  <1>5. CASE Verified(p)
    <2>1. /\ pc[p] = "walk" /\ pc'[p] = "manifest" /\ exitCode'[p] = exitCode[p]
          /\ Nodes(manifest[p]) \subseteq walked[p]
      BY <1>5 DEF Verified, GoTo, TypeOK
    <2>2. Resolving(manifest[p]) = Nodes(manifest[p])
      BY <2>1, NodesAreNames DEF RunInv, WalkInv
    <2>3. FilesOf(manifest[p]) \subseteq builders \cup removed
      BY <2>1, CheckedFiles DEF RunInv, CheckedInv
    <2> QED
      BY <1>1, <2>1, <2>2, <2>3 DEF RunInv, StageInv, CheckedInv, WalkInv, VerdictInv
  <1> QED
    BY <1>2, <1>3, <1>4, <1>5

\* The walk.  Where it goes on it stays on a path of aliases; where it refuses,
\* the nodes of the path lead nowhere but to each other.
LEMMA WalkRunInv ==
  ASSUME TypeOK, NEW p \in Publishers, RunInv(p),
         PickNode(p) \/ Follow(p) \/ EndOfChain(p)
  PROVE  RunInv(p)'
  <1> DEFINE m == manifest[p]
  <1> p \in Runs
    BY DEF Runs
  <1>1. /\ UNCHANGED <<builders, removed, pc, manifest, checked, left, exitCode>>
        /\ pc[p] = "walk"
    BY DEF PickNode, Follow, EndOfChain, Walking, bucketVars
  <1>2. StageInv(p)' /\ CheckedInv(p)' /\ VerdictInv(p)'
    BY <1>1 DEF RunInv, StageInv, CheckedInv, VerdictInv
  <1>3. WalkInv(p)
    BY DEF RunInv
  <1>4. WalkInv(p)'
    <2>1. CASE PickNode(p)
      <3>1. PICK n \in Nodes(m) : node'[p] = n /\ child'[p] = n /\ seen'[p] = {n}
        BY <2>1 DEF PickNode, TypeOK
      <3>2. walked' = walked
        BY <2>1 DEF PickNode
      <3> QED
        BY <1>1, <1>3, <3>1, <3>2 DEF WalkInv, OnPath
    <2>2. CASE Follow(p)
      <3> DEFINE c == NextOf(p)
      <3>1. /\ c \in Nodes(m) \ seen[p] /\ node[p] # None
            /\ child'[p] = c /\ seen'[p] = seen[p] \cup {c} /\ UNCHANGED <<node, walked>>
        BY <2>2 DEF Follow, Walking, TypeOK
      <3>2. c = Child(m, child[p]) /\ ~IsBuilder(m, child[p])
        BY <2>2 DEF Follow, NextOf, Child
      <3>3. OnPath(p)
        BY <1>1, <1>3, <3>1 DEF WalkInv
      <3> HIDE DEF c
      <3>4. c \in Resolving(m) => seen[p] \cup {c} \subseteq Resolving(m)
        <4> SUFFICES ASSUME c \in Resolving(m) PROVE seen[p] \subseteq Resolving(m)
          OBVIOUS
        <4>1. child[p] \in Resolving(m)
          BY <3>2, <3>3, ResolvingUp DEF OnPath
        <4> QED
          BY <3>3, <4>1 DEF OnPath
      <3>5. \A x \in (seen[p] \cup {c}) \ {c} :
              ~IsBuilder(m, x) /\ Child(m, x) \in seen[p] \cup {c}
        BY <3>2, <3>3 DEF OnPath
      <3>6. OnPath(p)'
        BY <1>1, <3>1, <3>3, <3>4, <3>5 DEF OnPath
      <3> QED
        BY <1>1, <1>3, <3>1, <3>6 DEF WalkInv
    <2>3. CASE EndOfChain(p)
      <3>1. /\ IsBuilder(m, child[p]) /\ node[p] # None
            /\ walked'[p] = walked[p] \cup {node[p]} /\ node'[p] = None
        BY <2>3 DEF EndOfChain, Walking, TypeOK
      <3>2. OnPath(p)
        BY <1>1, <1>3, <3>1 DEF WalkInv
      <3>3. node[p] \in Resolving(m)
        BY <3>1, <3>2, ResolvingUp DEF OnPath
      <3> QED
        BY <1>1, <1>3, <3>1, <3>3 DEF WalkInv
    <2> QED
      BY <2>1, <2>2, <2>3
  <1> QED
    BY <1>2, <1>4 DEF RunInv

LEMMA RefusedRunInv ==
  ASSUME TypeOK, NEW p \in Publishers, RunInv(p), FollowRefused(p) \/ NoBuilder(p)
  PROVE  RunInv(p)'
  <1> DEFINE m == manifest[p]
  <1> p \in Runs
    BY DEF Runs
  <1>1. /\ pc[p] = "walk" /\ node[p] # None
        /\ pc'[p] = "refused" /\ exitCode'[p] = "1"
        /\ UNCHANGED <<builders, removed, manifest, checked, walked, node, child, seen, left>>
    BY DEF FollowRefused, NoBuilder, Walking, Refuse, GoTo, bucketVars, walkVars, TypeOK
  <1>2. OnPath(p)
    BY <1>1 DEF RunInv, WalkInv
  <1>3. ~IsBuilder(m, child[p]) /\ Child(m, child[p]) \notin Nodes(m) \ seen[p]
    <2>1. CASE FollowRefused(p)
      BY <2>1 DEF FollowRefused, NextOf, Child
    <2>2. CASE NoBuilder(p)
      BY <2>2, NodesAreNames DEF NoBuilder, NextOf
    <2> QED
      BY <2>1, <2>2
  <1>4. \A x \in seen[p] : ~IsBuilder(m, x) /\ Child(m, x) \notin Nodes(m) \ seen[p]
    BY <1>2, <1>3 DEF OnPath
  <1>5. child[p] \in Nodes(m) \ Resolving(m)
    BY <1>2, <1>4, TrappedUnresolved DEF OnPath
  <1>6. VerdictInv(p)'
    BY <1>1, <1>5 DEF VerdictInv
  <1> QED
    BY <1>1, <1>6 DEF RunInv, StageInv, CheckedInv, WalkInv

LEMMA PublishRunInv ==
  ASSUME TypeOK, NEW p \in Publishers, RunInv(p), PublishStep(p) \/ Die(p)
  PROVE  RunInv(p)'
  <1> p \in Runs
    BY DEF Runs
  <1>1. UNCHANGED <<builders, removed, manifest, checked, walked, node, child, seen>>
    BY DEF PublishStep, CopyManifest, CopyManifestFails, WriteVersion, NoVersion,
           ConfigUnread, PublisherDone, Die, bucketVars, walkVars
  <1>2. CASE CopyManifest(p) \/ CopyManifestFails(p)
    <2>1. /\ pc[p] = "manifest" /\ pc'[p] = "versions" /\ UNCHANGED <<left, exitCode>>
      BY <1>2 DEF CopyManifest, CopyManifestFails, GoTo, TypeOK
    <2> QED
      BY <1>1, <2>1 DEF RunInv, StageInv, CheckedInv, WalkInv, VerdictInv
  <1>3. ASSUME NEW c \in Configs[p], WriteVersion(p, c) \/ NoVersion(p, c)
        PROVE  RunInv(p)'
    <2>1. left'[p] = left[p] \ {c} /\ UNCHANGED <<pc, exitCode>>
      BY <1>3 DEF WriteVersion, NoVersion, ConfigDone, TypeOK
    <2> QED
      BY <1>1, <2>1 DEF RunInv, StageInv, CheckedInv, WalkInv, OnPath, VerdictInv
  <1>4. CASE ConfigUnread(p) \/ PublisherDone(p)
    <2>1. /\ pc[p] = "versions" /\ pc'[p] = "ended" /\ exitCode'[p] = "0" /\ left' = left
      BY <1>4 DEF ConfigUnread, PublisherDone, End, GoTo, TypeOK
    <2> QED
      BY <1>1, <2>1 DEF RunInv, StageInv, CheckedInv, WalkInv, VerdictInv
  <1>5. CASE Die(p)
    <2>1. pc[p] # "new" /\ pc'[p] = "ended" /\ exitCode'[p] = "1" /\ left' = left
      BY <1>5 DEF Die, End, GoTo, TypeOK
    <2> QED
      BY <1>1, <2>1 DEF RunInv, StageInv, CheckedInv, WalkInv, VerdictInv
  <1> QED
    BY <1>2, <1>3, <1>4, <1>5 DEF PublishStep

-------------------------------------------------------------------------------
(***************************************************************************)
(* The bucket.                                                             *)
(***************************************************************************)

\* Only CopyManifest and WriteVersion write what PublishedSound reads, ...
LEMMA PublishedKept ==
  ASSUME TypeOK, PublishedSound, \A p \in Publishers : RunInv(p), NothingLost,
         UNCHANGED <<published, version>>,
         \A p \in Publishers : manifest[p] # None => manifest'[p] = manifest[p]
  PROVE  PublishedSound'
  BY DEF PublishedSound, NothingLost

\* ... and they do so with a verified manifest.
LEMMA PublishedWritten ==
  ASSUME TypeOK, PublishedSound, NEW p \in Publishers, RunInv(p), PublishStep(p)
  PROVE  PublishedSound'
  <1>1. UNCHANGED <<builders, removed, manifest>>
    BY DEF PublishStep, CopyManifest, CopyManifestFails, WriteVersion, NoVersion,
           ConfigUnread, PublisherDone, bucketVars
  <1>2. CASE CopyManifest(p)
    <2>1. published' = manifest[p] /\ pc[p] = "manifest" /\ version' = version
      BY <1>2 DEF CopyManifest
    <2> QED
      BY <1>1, <2>1 DEF PublishedSound, RunInv, VerdictInv
  <1>3. ASSUME NEW c \in Configs[p], WriteVersion(p, c) PROVE PublishedSound'
    <2>1. /\ pc[p] = "versions" /\ c.project # None /\ c.latest # None
          /\ version' = [version EXCEPT ![c.project] = c.latest] /\ published' = published
      BY <1>3 DEF WriteVersion, Reading, Fields
    <2>2. c \in BuilderConfigs /\ c = [project |-> c.project, latest |-> c.latest]
      BY RunAssumption DEF BuilderConfigs
    <2>3. manifest[p] # None /\ Resolving(manifest[p]) = Nodes(manifest[p])
      BY <2>1, CandidatesAreManifests DEF RunInv, StageInv, VerdictInv
    <2>4. /\ c.project \in Projects /\ version'[c.project] = c.latest
          /\ \A q \in Projects \ {c.project} : version'[q] = version[q]
      BY <2>1, <2>2 DEF BuilderConfigs, TypeOK
    <2>5. ASSUME NEW q \in Projects, version'[q] # None
          PROVE  \E r \in Publishers :
                   /\ [project |-> q, latest |-> version'[q]] \in Configs[r]
                   /\ manifest[r] # None
                   /\ Resolving(manifest[r]) = Nodes(manifest[r])
      <3>1. CASE q = c.project
        BY <2>2, <2>3, <2>4, <3>1
      <3>2. CASE q # c.project
        BY <2>4, <2>5, <3>2 DEF PublishedSound
      <3> QED
        BY <3>1, <3>2
    <2> QED
      BY <1>1, <2>1, <2>5 DEF PublishedSound
  <1>4. CASE CopyManifestFails(p) \/ ConfigUnread(p) \/ PublisherDone(p)
             \/ \E c \in Configs[p] : NoVersion(p, c)
    <2>1. UNCHANGED <<published, version>>
      BY <1>4 DEF CopyManifestFails, NoVersion, ConfigUnread, PublisherDone, bucketVars
    <2> QED
      BY <1>1, <2>1 DEF PublishedSound
  <1> QED
    BY <1>2, <1>3, <1>4 DEF PublishStep

-------------------------------------------------------------------------------
(***************************************************************************)
(* Every step keeps the invariant.                                         *)
(***************************************************************************)

LEMMA InitIInv == Init => IInv
  <1> SUFFICES ASSUME Init PROVE IInv
    OBVIOUS
  <1>1. PublishedSound
    BY DEF Init, PublishedSound
  <1>2. ASSUME NEW p \in Publishers PROVE RunInv(p)
    <2> p \in Runs
      BY DEF Runs
    <2> QED
      BY DEF Init, RunInv, StageInv, CheckedInv, WalkInv, VerdictInv
  <1> QED
    BY <1>1, <1>2, InitTypeOK DEF IInv

\* A step of something else than a publisher.
LEMMA OutsideIInv ==
  ASSUME IInv,
         \/ \E t \in Templates : StartTemplate(t) \/ TemplateStep(t) \/ Die(t)
         \/ \E f \in Files : Delete(f)
         \/ UNCHANGED vars
  PROVE  IInv'
  <1>1. TypeOK'
    <2>1. \A t \in Templates : t \in Runs
      BY DEF Runs
    <2> QED
      BY <2>1, TemplateTypeOK, OtherTypeOK DEF IInv
  <1>2. \A q \in Publishers : Same(q) /\ NothingLost
    BY OutsideSame DEF IInv
  <1>3. \A q \in Publishers : RunInv(q)'
    BY <1>2, FrameRunInv DEF IInv
  <1>4. UNCHANGED <<published, version>> /\ NothingLost
    BY DEF StartTemplate, TemplateStep, PublishFile, PublishFileFails, TagNotFound,
           TemplateDone, Die, Delete, vars, bucketVars, NothingLost
  <1>5. PublishedSound'
    BY <1>2, <1>4, PublishedKept DEF IInv, Same
  <1> QED
    BY <1>1, <1>3, <1>5 DEF IInv

LEMMA PublisherIInv ==
  ASSUME IInv, NEW p \in Publishers,
         StartPublisher(p) \/ ManifestUnread(p) \/ VerifyStep(p) \/ PublishStep(p) \/ Die(p)
  PROVE  IInv'
  <1> USE DEF IInv
  <1>1. TypeOK'
    <2>1. p \in Runs
      BY DEF Runs
    <2> QED
      BY <2>1, PublisherTypeOK, OtherTypeOK DEF RunInv
  <1>2. RunInv(p)'
    BY StartRunInv, UnreadRunInv, FormatRunInv, StagesRunInv, WalkRunInv, RefusedRunInv, PublishRunInv
       DEF VerifyStep
  <1>3. ASSUME NEW q \in Publishers \ {p} PROVE RunInv(q)'
    BY OutsideSame, FrameRunInv
  <1>4. PublishedSound'
    <2>1. CASE PublishStep(p)
      BY <2>1, PublishedWritten
    <2>2. CASE StartPublisher(p) \/ ManifestUnread(p) \/ VerifyStep(p) \/ Die(p)
      <3>1. UNCHANGED <<builders, removed, published, version>>
        BY <2>2 DEF StartPublisher, ManifestUnread, VerifyStep, SkipEntry, FileFound, FileRefused, FormatRefused,
           Formatted, BuildGraph, PickNode, Follow, FollowRefused, EndOfChain, NoBuilder,
           Verified, Die, bucketVars
      <3>2. StartPublisher(p) \/ manifest' = manifest
        BY <2>2 DEF ManifestUnread, VerifyStep, SkipEntry, FileFound, FileRefused, FormatRefused,
           Formatted, BuildGraph, PickNode, Follow, FollowRefused, EndOfChain, NoBuilder,
           Verified, Die
      <3>3. StartPublisher(p) =>
              manifest[p] = None /\ \A q \in Publishers \ {p} : manifest'[q] = manifest[q]
        BY DEF StartPublisher, MayStart, RunInv, StageInv, TypeOK
      <3> QED
        BY <3>1, <3>2, <3>3, PublishedKept DEF NothingLost
    <2> QED
      BY <2>1, <2>2
  <1> QED
    BY <1>1, <1>2, <1>3, <1>4

LEMMA StepIInv == IInv /\ [Next]_vars => IInv'
  <1> SUFFICES ASSUME IInv, [Next]_vars PROVE IInv'
    OBVIOUS
  <1>1. \A r \in Runs : r \in Templates \/ r \in Publishers
    BY DEF Runs
  <1>2. \/ \E t \in Templates : StartTemplate(t) \/ TemplateStep(t) \/ Die(t)
        \/ \E f \in Files : Delete(f)
        \/ UNCHANGED vars
        \/ \E p \in Publishers :
             \/ StartPublisher(p) \/ ManifestUnread(p) \/ VerifyStep(p) \/ PublishStep(p)
             \/ Die(p)
    BY <1>1 DEF Next
  <1> QED
    BY <1>2, OutsideIInv, PublisherIInv

\* IInv holds in every reachable state of every instance.
THEOREM Inductive == Spec => []IInv
  BY InitIInv, StepIInv, PTL DEF Spec

-------------------------------------------------------------------------------
(***************************************************************************)
(* The properties.                                                         *)
(***************************************************************************)

\* Type correctness: a publisher only ever works on, and publishes, one of the
\* manifests it may be given, and a walk never leaves the names.
THEOREM TypeCorrect == Spec => []TypeOK
  <1>1. IInv => TypeOK
    BY DEF IInv
  <1> QED
    BY <1>1, Inductive, PTL

\* The walk of _verify_manifest_graph accepts a manifest just when all its
\* nodes lead down to a builder, whatever its aliases are.
THEOREM VerdictIsCorrect == Spec => []VerdictCorrect
  <1>1. IInv => VerdictCorrect
    BY DEF IInv, RunInv, VerdictInv, VerdictCorrect, Accepted
  <1> QED
    BY <1>1, Inductive, PTL

\* However runs overlap and fail, the published manifest leads from every node
\* to a builder file that was in the bucket, and every version file is of a run
\* that had verified its manifest.
THEOREM PublishedIsSound == Spec => []PublishedSound
  <1>1. IInv => PublishedSound
    BY DEF IInv
  <1> QED
    BY <1>1, Inductive, PTL

===============================================================================
