------------------------- MODULE DescriptorBuildProofs -------------------------
(***************************************************************************)
(* Proofs about DescriptorBuild, for any workspaces, descriptors, builds   *)
(* and failures.                                                           *)
(***************************************************************************)
EXTENDS DescriptorBuild, SequenceTheorems, TLAPS

-------------------------------------------------------------------------------
(***************************************************************************)
(* The inductive invariant.                                                *)
(***************************************************************************)

\* Control points at which the descriptors have been looked at.
Described == {"update", "lookup", "gcp", "install", "pack", "upload"}

\* ... and at which no tool has anything more to add to them.
Settled == {"lookup", "gcp", "install", "pack", "upload"}

\* One build at a time works in a directory.
ExclusiveInv ==
  \A b, c \in Builds : b # c /\ Dir(b) = Dir(c) => main[b] \in Idle \/ main[c] \in Idle

\* The lock file that an installation from d goes by fits the manifest.
Fits(lock, manifest) == lock \in Locks /\ lock.needs = manifest.needs
NodeFits(d)          == Fits(IF UsesYarn(d) THEN d.yarn ELSE d.lock, d.manifest)

\* A lock file is as it was given, or was made from the manifest in its place.
KeptLock(lock, given, manifest) == lock = given \/ Follows(lock, given, manifest)

\* A lock file has been made, by npm, yarn or composer, or was given.
HasLock(d) == d.lock # Absent \/ d.yarn # Absent

\* d may be in the workspace of build b, after what its user put there.
FromGiven(b, d) ==
  LET g == Given[Dir(b)]
  IN  /\ ~HasDescriptor(g) => d = g
      /\ d.manifest = g.manifest /\ d.npmrc = g.npmrc
      /\ IF Lang(b) = "node" /\ UsesYarn(g)
           THEN d.lock = Absent /\ KeptLock(d.yarn, g.yarn, g.manifest)
           ELSE /\ d.yarn = g.yarn
                /\ IF Lang(b) = "php" /\ g.lock # Absent
                     THEN d.lock = g.lock
                     ELSE KeptLock(d.lock, g.lock, g.manifest)

FilesInv(b) == FromGiven(b, files[Dir(b)])

\* No tool has anything to change about the descriptors of build b.
Final(b) ==
  /\ HasDescriptor(Given[Dir(b)]) /\ HasLock(files[Dir(b)])
  /\ Lang(b) = "node" => NodeFits(files[Dir(b)])

\* Who comes where, and with what.
StageInv(b) ==
  /\ main[b] \in {"init", "gcp"} => Lang(b) = "node"
  /\ main[b] = "update" => Lang(b) = "php"
  /\ main[b] \in Described => HasDescriptor(Given[Dir(b)])
  /\ main[b] = "clean" /\ Lang(b) = "node" /\ HasDescriptor(Given[Dir(b)]) =>
       HasLock(files[Dir(b)])
  /\ main[b] \in Settled => HasLock(files[Dir(b)])
  /\ main[b] \in {"update", "upload"} => modules[Dir(b)] = NoModules
  /\ main[b] = "lookup" =>
       modules[Dir(b)] = IF Lang(b) = "php" THEN PartOf(b) ELSE NoModules
  /\ main[b] = "app" => \/ modules[Dir(b)] = NoModules
                        \/ Lang(b) = "php" /\ modules[Dir(b)] = PartOf(b) /\ Final(b)
  /\ main[b] \in Settled \ {"lookup"} /\ Lang(b) = "php" => key[b] = GetCacheKey(b)
  /\ main[b] = "pack" => /\ modules[Dir(b)] = PartOf(b)
                         /\ Lang(b) = "node" => NodeFits(files[Dir(b)])

\* The layer of a build is of the descriptors in its workspace, for good: no
\* later build finds anything to change about them.
ImgInv(b) ==
  /\ img[b] # NoLayer =>
       img[b].part = PartOf(b) /\ img[b].env = Config[b].env /\ Final(b)
  /\ main[b] \in {"new", "init", "clean"} \cup (Described \ {"upload"}) => img[b] = NoLayer
  /\ main[b] = "upload" => img[b] # NoLayer

\* The layer that may stand for what build b needs.
RightLayer(b, l) ==
  /\ l \in Cache!Layers /\ l.part.lang = Lang(b) /\ l.env = Config[b].env
  /\ Acceptable(b, l.part.text)

\* The list of images at every control point.
ListInv(b) ==
  /\ main[b] \in {"new", "init", "clean"} => lyr_imgs[b] = <<>>
  /\ main[b] \in Described => lyr_imgs[b] = <<BaseLayer>>
  /\ main[b] = "app" => IF HasDescriptor(Given[Dir(b)])
                          THEN /\ lyr_imgs[b] = <<BaseLayer, lyr_imgs[b][2]>>
                               /\ RightLayer(b, lyr_imgs[b][2])
                          ELSE lyr_imgs[b] = <<BaseLayer>>
  /\ main[b] = "store" => Complete(b, lyr_imgs[b])

Wanting(b) == Config[b].tarball \/ Config[b].upload

EndInv(b) ==
  /\ main[b] \notin {"handle", "exited", "killed"} => raised[b] = "none"
  /\ main[b] = "handle" => raised[b] # "none"
  /\ main[b] \notin {"return", "exited", "killed"} => stored[b] = NoImage
  /\ main[b] = "return" /\ Wanting(b) => stored[b] # NoImage

\* Every entry of the registry is the layer some build has.
EntryInv ==
  \A r \in Repos, k \in Cache!Keys : registry[r][k] # NoLayer =>
    \E e \in Builds : img[e] = registry[r][k] /\ Config[e].repo = r

\* A build that is past its upload, or has taken a hit, finds its key in use.
Cached(b) ==
  \/ main[b] \in {"app", "store", "return"}
  \/ main[b] = "exited" /\ raised[b] = "none"

KeptInv(b) ==
  img[b] # NoLayer /\ Cached(b) /\ Config[b].upload /\ ~Config[b].useGlobal =>
    registry[Config[b].repo][GetCacheKey(b)] # NoLayer

BuildInv(b) == FilesInv(b) /\ StageInv(b) /\ ImgInv(b) /\ ListInv(b) /\ EndInv(b) /\ KeptInv(b)

IInv == TypeOK /\ CacheSound /\ ExclusiveInv /\ EntryInv /\ \A b \in Builds : BuildInv(b)

-------------------------------------------------------------------------------
(***************************************************************************)
(* Descriptors.                                                            *)
(***************************************************************************)
LEMMA ConfigType ==
  ASSUME NEW b \in Builds
  PROVE  /\ Lang(b) \in Langs /\ Dir(b) \in Workspaces
         /\ Config[b].env \in Envs /\ Config[b].repo \in Repos
         /\ Given[Dir(b)] \in Descriptors
         /\ Lang(b) = "php" => Given[Dir(b)].yarn = Absent /\ Given[Dir(b)].npmrc = Absent
         /\ HasDescriptor(Given[Dir(b)]) => Given[Dir(b)].manifest \in Manifests
  BY ConfigAssumption, GivenAssumption DEF Configs, Lang, Dir

\* Descriptors are known by their four files.
LEMMA SameFiles ==
  ASSUME NEW d \in Descriptors, NEW e \in Descriptors, d.lock = e.lock, d.yarn = e.yarn,
         d.manifest = e.manifest, d.npmrc = e.npmrc
  PROVE  d = e
  BY DEF Descriptors

\* Locks and manifests are not the markers.
LEMMA Markers ==
  /\ \A l \in Locks : l # Absent /\ l.needs \in Needs
  /\ \A m \in Manifests : m # Absent /\ m # Empty /\ m.needs \in Needs
  BY MarkerAssumption DEF Locks, Manifests

\* A project has the descriptors that its user gave it.
LEMMA DescribedAsGiven ==
  ASSUME NEW b \in Builds, NEW d \in Descriptors, FromGiven(b, d)
  PROVE  /\ HasDescriptor(d) <=> HasDescriptor(Given[Dir(b)])
         /\ HasDescriptor(d) => d.manifest \in Manifests /\ d.manifest # Empty
         /\ Lang(b) = "node" => (UsesYarn(d) <=> UsesYarn(Given[Dir(b)]))
  <1> DEFINE g == Given[Dir(b)]
  <1>1. g \in Descriptors /\ (HasDescriptor(g) => g.manifest \in Manifests)
    BY ConfigType
  <1>2. d.manifest = g.manifest /\ (~HasDescriptor(g) => d = g)
    BY DEF FromGiven
  <1>3. HasDescriptor(d) <=> HasDescriptor(g)
    <2>1. CASE HasDescriptor(g)
      <3>1. d.manifest # Absent /\ d.manifest # Empty
        BY <1>1, <1>2, <2>1, Markers
      <3> QED
        BY <2>1, <3>1 DEF HasDescriptor
    <2>2. CASE ~HasDescriptor(g)
      BY <1>2, <2>2
    <2> QED
      BY <2>1, <2>2
  <1>4. ASSUME Lang(b) = "node" PROVE UsesYarn(d) <=> UsesYarn(g)
    BY <1>4, Markers DEF FromGiven, UsesYarn, KeptLock, Follows
  <1> QED
    BY <1>1, <1>2, <1>3, <1>4, Markers

\* The text of a key is the contents of the descriptors.
LEMMA TextIsFiles ==
  ASSUME NEW b \in Builds, NEW d \in Descriptors, FromGiven(b, d),
         HasDescriptor(Given[Dir(b)])
  PROVE  Text(d) = d /\ [lang |-> Lang(b), text |-> Text(d)] \in Parts
  <1>1. d.manifest \in Manifests /\ d.manifest # Empty
    BY DescribedAsGiven
  <1>2. Text(d) = d
    BY <1>1 DEF Text
  <1>3. Lang(b) = "php" => d.yarn = Absent /\ d.npmrc = Absent
    BY ConfigType DEF FromGiven
  <1> QED
    BY <1>1, <1>2, <1>3, ConfigType DEF Parts

-------------------------------------------------------------------------------
(***************************************************************************)
(* What the package managers do to them.                                   *)
(***************************************************************************)

\* A lock file that fits is kept, any other is replaced by one that does.
LEMMA FittingFacts ==
  ASSUME release \in 0 .. MaxRelease, NEW l \in Locks \cup {Absent}, NEW m \in Manifests
  PROVE  /\ Fitting(l, m) \in Locks /\ Fits(Fitting(l, m), m)
         /\ Fits(l, m) => Fitting(l, m) = l
         /\ \A g : KeptLock(l, g, m) => KeptLock(Fitting(l, m), g, m)
  <1>1. Fitting(l, m) \in Locks /\ Fits(Fitting(l, m), m)
    BY Markers DEF Fitting, Fits, Locks
  <1>2. Fits(l, m) => Fitting(l, m) = l
    BY Markers DEF Fitting, Fits
  <1>3. ASSUME NEW g, KeptLock(l, g, m) PROVE KeptLock(Fitting(l, m), g, m)
    <2>1. CASE l # Absent /\ l.needs = m.needs
      BY <1>3, <2>1 DEF Fitting
    <2>2. CASE ~(l # Absent /\ l.needs = m.needs)
      <3>1. ~(g # Absent /\ g.needs = m.needs)
        BY <1>3, <2>2, Markers DEF KeptLock, Follows
      <3> QED
        BY <1>1, <3>1 DEF KeptLock, Follows, Fits
    <2> QED
      BY <2>1, <2>2
  <1> QED
    BY <1>1, <1>2, <1>3

\* npm and yarn: their lock file fits, and is otherwise left alone.
LEMMA NpmFacts ==
  ASSUME release \in 0 .. MaxRelease, NEW b \in Builds, NEW d \in Descriptors,
         FromGiven(b, d), Lang(b) = "node", HasDescriptor(Given[Dir(b)])
  PROVE  LET e == AfterNpmOrYarn(d)
         IN  /\ e \in Descriptors /\ FromGiven(b, e) /\ NodeFits(e) /\ HasLock(e)
             /\ NodeFits(d) => e = d
             /\ UsesYarn(e) <=> UsesYarn(d)
  <1> DEFINE m == d.manifest
             e == AfterNpmOrYarn(d)
  <1>1. m \in Manifests /\ (UsesYarn(d) <=> UsesYarn(Given[Dir(b)]))
    BY DescribedAsGiven
  <1>2. d.lock \in Locks \cup {Absent} /\ d.yarn \in Locks \cup {Absent}
    BY DEF Descriptors
  <1>3. CASE UsesYarn(d)
    <2> DEFINE l == Fitting(d.yarn, m)
    <2>1. /\ l \in Locks /\ Fits(l, m) /\ (Fits(d.yarn, m) => l = d.yarn)
          /\ \A g : KeptLock(d.yarn, g, m) => KeptLock(l, g, m)
      BY <1>1, <1>2, FittingFacts
    <2>2. e = [d EXCEPT !.yarn = l]
      BY <1>3 DEF AfterNpmOrYarn
    <2> HIDE DEF l, e
    <2>3. e \in Descriptors
      BY <2>1, <2>2 DEF Descriptors
    <2>4. e.lock = d.lock /\ e.yarn = l /\ e.manifest = m /\ e.npmrc = d.npmrc
      BY <2>2 DEF Descriptors
    <2>5. UsesYarn(e) /\ HasLock(e)
      BY <1>3, <2>1, <2>4, Markers DEF UsesYarn, HasLock
    <2>6. FromGiven(b, e)
      BY <1>1, <1>3, <2>1, <2>4 DEF FromGiven
    <2>7. NodeFits(e)
      BY <2>1, <2>4, <2>5 DEF NodeFits
    <2>8. NodeFits(d) => e = d
      BY <1>3, <2>1, <2>3, <2>4, SameFiles DEF NodeFits
    <2> QED
      BY <1>3, <2>3, <2>5, <2>6, <2>7, <2>8 DEF e
  <1>4. CASE ~UsesYarn(d)
    <2> DEFINE l == Fitting(d.lock, m)
    <2>1. /\ l \in Locks /\ Fits(l, m) /\ (Fits(d.lock, m) => l = d.lock)
          /\ \A g : KeptLock(d.lock, g, m) => KeptLock(l, g, m)
      BY <1>1, <1>2, FittingFacts
    <2>2. e = [d EXCEPT !.lock = l]
      BY <1>4 DEF AfterNpmOrYarn
    <2> HIDE DEF l, e
    <2>3. e \in Descriptors
      BY <2>1, <2>2 DEF Descriptors
    <2>4. e.lock = l /\ e.yarn = d.yarn /\ e.manifest = m /\ e.npmrc = d.npmrc
      BY <2>2 DEF Descriptors
    <2>5. ~UsesYarn(e) /\ HasLock(e)
      BY <2>1, <2>4, Markers DEF UsesYarn, HasLock
    <2>6. FromGiven(b, e)
      BY <1>1, <1>4, <2>1, <2>4 DEF FromGiven
    <2>7. NodeFits(e)
      BY <2>1, <2>4, <2>5 DEF NodeFits
    <2>8. NodeFits(d) => e = d
      BY <1>4, <2>1, <2>3, <2>4, SameFiles DEF NodeFits
    <2> QED
      BY <1>4, <2>3, <2>5, <2>6, <2>7, <2>8 DEF e
  <1> QED
    BY <1>3, <1>4

\* composer update --lock: a lock file where there was none.
LEMMA ComposerFacts ==
  ASSUME release \in 0 .. MaxRelease, NEW b \in Builds, NEW d \in Descriptors,
         FromGiven(b, d), Lang(b) = "php", HasDescriptor(Given[Dir(b)])
  PROVE  LET e == AfterComposerUpdate(d)
         IN  /\ e \in Descriptors /\ FromGiven(b, e) /\ HasLock(e)
             /\ HasLock(d) => e = d
  <1> DEFINE m == d.manifest
             e == AfterComposerUpdate(d)
             l == Fitting(Absent, m)
  <1>1. m \in Manifests /\ d.yarn = Absent
    BY DescribedAsGiven, ConfigType DEF FromGiven
  <1>2. CASE d.lock # Absent
    BY <1>2 DEF AfterComposerUpdate, HasLock
  <1>3. CASE d.lock = Absent
    <2>1. l \in Locks /\ Fits(l, m)
      BY <1>1, FittingFacts
    <2>2. e = [d EXCEPT !.lock = l]
      BY <1>3 DEF AfterComposerUpdate
    <2> HIDE DEF l, e
    <2>3. e \in Descriptors
      BY <2>1, <2>2 DEF Descriptors
    <2>4. e.lock = l /\ e.yarn = d.yarn /\ e.manifest = m /\ e.npmrc = d.npmrc
      BY <2>2 DEF Descriptors
    <2>5. Given[Dir(b)].lock = Absent
      BY <1>3, Markers DEF FromGiven, KeptLock, Follows
    <2>6. FromGiven(b, e)
      BY <2>1, <2>4, <2>5 DEF FromGiven, KeptLock, Follows, Fits
    <2>7. HasLock(e) /\ ~HasLock(d)
      BY <1>1, <1>3, <2>1, <2>4, Markers DEF HasLock
    <2> QED
      BY <2>3, <2>6, <2>7 DEF e
  <1> QED
    BY <1>2, <1>3

-------------------------------------------------------------------------------
(***************************************************************************)
(* What a step does to the descriptors of its build.                       *)
(***************************************************************************)

\* The four steps that run a package manager.
Rewriting(b) == GenPackageLock(b) \/ UpdateComposerLock(b) \/ GcpBuild(b) \/ Install(b)

LEMMA RewriteStep ==
  ASSUME TypeOK, NEW b \in Builds, StageInv(b), FilesInv(b), Rewriting(b)
  PROVE  \E e \in Descriptors :
           /\ Rewrite(b, e) /\ FromGiven(b, e)
           /\ Final(b) => e = files[Dir(b)]
           /\ HasLock(files[Dir(b)]) => HasLock(e)
           /\ UpdateComposerLock(b) \/ GcpBuild(b) \/ Install(b) => HasLock(e)
           /\ GenPackageLock(b) /\ HasDescriptor(Given[Dir(b)]) => HasLock(e)
           /\ GcpBuild(b) => e = AfterNpmOrYarn(files[Dir(b)])
           /\ Install(b) /\ Lang(b) = "node" => e = AfterNpmOrYarn(files[Dir(b)])
           /\ Install(b) /\ Lang(b) = "php" => e = files[Dir(b)]
           /\ (GcpBuild(b) \/ Install(b)) /\ Lang(b) = "node" => NodeFits(e)
  <1> DEFINE d == files[Dir(b)]
             g == Given[Dir(b)]
             n == AfterNpmOrYarn(d)
             c == AfterComposerUpdate(d)
  <1>1. d \in Descriptors /\ FromGiven(b, d) /\ release \in 0 .. MaxRelease
    BY ConfigType DEF TypeOK, FilesInv
  <1>2. HasDescriptor(g) /\ Lang(b) = "node" =>
          /\ n \in Descriptors /\ FromGiven(b, n) /\ NodeFits(n) /\ HasLock(n)
          /\ NodeFits(d) => n = d
    BY <1>1, NpmFacts
  <1>3. HasDescriptor(g) /\ Lang(b) = "php" =>
          c \in Descriptors /\ FromGiven(b, c) /\ HasLock(c) /\ (HasLock(d) => c = d)
    BY <1>1, ComposerFacts
  <1>4. HasDescriptor(d) <=> HasDescriptor(g)
    BY <1>1, DescribedAsGiven
  <1>5. Lang(b) \in {"node", "php"}
    BY ConfigType DEF Langs
  <1>6. CASE GenPackageLock(b)
    <2>1. main[b] = "init" /\ Lang(b) = "node"
      BY <1>6 DEF GenPackageLock, StageInv
    <2>2. CASE HasDescriptor(d) /\ d.yarn = Absent /\ d.lock = Absent
      <3>1. Rewrite(b, n)
        BY <1>6, <2>2 DEF GenPackageLock, WithPackageLock
      <3>2. ~HasLock(d)
        BY <2>2 DEF HasLock
      <3> HIDE DEF n
      <3> QED
        BY <1>2, <1>4, <2>1, <2>2, <3>1, <3>2 DEF Final, UpdateComposerLock, GcpBuild, Install
    <2>3. CASE ~(HasDescriptor(d) /\ d.yarn = Absent /\ d.lock = Absent)
      <3>1. Rewrite(b, d)
        BY <1>6, <2>3 DEF GenPackageLock, WithPackageLock
      <3>2. HasDescriptor(g) => HasLock(d)
        BY <1>4, <2>3 DEF HasLock
      <3> QED
        BY <1>1, <2>1, <3>1, <3>2 DEF UpdateComposerLock, GcpBuild, Install
    <2> QED
      BY <2>2, <2>3
  <1>7. CASE UpdateComposerLock(b)
    <2>1. main[b] = "update" /\ Lang(b) = "php" /\ HasDescriptor(g) /\ Rewrite(b, c)
      BY <1>7 DEF UpdateComposerLock, StageInv, Described
    <2> HIDE DEF c
    <2> QED
      BY <1>3, <2>1 DEF Final, GenPackageLock, GcpBuild, Install
  <1>8. CASE GcpBuild(b)
    <2>1. main[b] = "gcp" /\ Lang(b) = "node" /\ HasDescriptor(g) /\ Rewrite(b, n)
      BY <1>8 DEF GcpBuild, StageInv, Described
    <2> HIDE DEF n
    <2>2. ~GenPackageLock(b) /\ ~UpdateComposerLock(b) /\ ~Install(b)
      BY <2>1 DEF GenPackageLock, UpdateComposerLock, Install
    <2> QED
      BY <1>2, <2>1, <2>2 DEF Final, n
  <1>9. CASE Install(b)
    <2>1. main[b] = "install" /\ HasDescriptor(g) /\ HasLock(d)
      BY <1>9 DEF Install, StageInv, Described, Settled
    <2>2. ~GenPackageLock(b) /\ ~UpdateComposerLock(b) /\ ~GcpBuild(b)
      BY <2>1 DEF GenPackageLock, UpdateComposerLock, GcpBuild
    <2>3. CASE Lang(b) = "node"
      <3>1. Rewrite(b, n)
        BY <1>9, <2>3 DEF Install
      <3> HIDE DEF n
      <3> QED
        BY <1>2, <2>1, <2>2, <2>3, <3>1 DEF Final, n
    <2>4. CASE Lang(b) = "php"
      <3>1. Rewrite(b, d)
        BY <1>9, <2>4 DEF Install
      <3> QED
        BY <1>1, <2>1, <2>2, <2>4, <3>1
    <2> QED
      BY <1>5, <2>3, <2>4
  <1> QED
    BY <1>6, <1>7, <1>8, <1>9 DEF Rewriting

\* A tool that fails or is killed leaves descriptors that it found or that it
\* would have left.
LEMMA PartStep ==
  ASSUME TypeOK, NEW b \in Builds, StageInv(b), FilesInv(b), LeavePart(b)
  PROVE  \E e \in Descriptors :
           /\ Rewrite(b, e) /\ FromGiven(b, e)
           /\ Final(b) => e = files[Dir(b)]
           /\ HasLock(files[Dir(b)]) => HasLock(e)
  <1> DEFINE d == files[Dir(b)]
             g == Given[Dir(b)]
             n == AfterNpmOrYarn(d)
             c == AfterComposerUpdate(d)
             Good(e) == /\ e \in Descriptors /\ FromGiven(b, e)
                        /\ Final(b) => e = d
                        /\ HasLock(d) => HasLock(e)
  <1>1. d \in Descriptors /\ FromGiven(b, d) /\ release \in 0 .. MaxRelease
    BY ConfigType DEF TypeOK, FilesInv
  <1>2. HasDescriptor(g) /\ Lang(b) = "node" => Good(n)
    <2>1. HasDescriptor(g) /\ Lang(b) = "node" =>
            /\ n \in Descriptors /\ FromGiven(b, n) /\ HasLock(n)
            /\ NodeFits(d) => n = d
      BY <1>1, NpmFacts
    <2> HIDE DEF n
    <2> QED
      BY <2>1 DEF Final
  <1>3. HasDescriptor(g) /\ Lang(b) = "php" => Good(c)
    <2>1. HasDescriptor(g) /\ Lang(b) = "php" =>
            c \in Descriptors /\ FromGiven(b, c) /\ HasLock(c) /\ (HasLock(d) => c = d)
      BY <1>1, ComposerFacts
    <2> HIDE DEF c
    <2> QED
      BY <2>1 DEF Final
  <1>4. HasDescriptor(d) <=> HasDescriptor(g)
    BY <1>1, DescribedAsGiven
  <1>5. Good(d)
    BY <1>1
  <1> HIDE DEF Good
  <1>6. Good(Rewritten(b))
    <2>1. CASE main[b] = "init"
      <3>1. Rewritten(b) = WithPackageLock(d) /\ Lang(b) = "node"
        BY <2>1 DEF Rewritten, StageInv
      <3> QED
        BY <1>2, <1>4, <1>5, <3>1 DEF WithPackageLock
    <2>2. CASE main[b] = "update"
      <3>1. Rewritten(b) = c /\ Lang(b) = "php" /\ HasDescriptor(g)
        BY <2>2 DEF Rewritten, StageInv, Described
      <3> QED
        BY <1>3, <3>1
    <2>3. CASE main[b] \in {"gcp", "install"} /\ Lang(b) = "node"
      <3>1. Rewritten(b) = n /\ HasDescriptor(g)
        BY <2>3 DEF Rewritten, StageInv, Described
      <3> QED
        BY <1>2, <2>3, <3>1
    <2>4. CASE main[b] \notin {"init", "update"}
               /\ ~(main[b] \in {"gcp", "install"} /\ Lang(b) = "node")
      <3>1. Rewritten(b) = d
        BY <2>4 DEF Rewritten
      <3> QED
        BY <1>5, <3>1
    <2> QED
      BY <2>1, <2>2, <2>3, <2>4
  <1>7. PICK e \in {d, Rewritten(b)} : Rewrite(b, e)
    BY DEF LeavePart
  <1>8. Good(e)
    BY <1>5, <1>6
  <1> QED
    BY <1>7, <1>8 DEF Good

\* No other step touches a descriptor.
LEMMA OtherSteps ==
  ASSUME NEW b \in Builds, BuildStep(b), ~Rewriting(b), ~LeavePart(b)
  PROVE  files' = files
  BY DEF BuildStep, Rewriting, Start, Clean, Hit, Miss, LostHit, BadTtl, Pack, Upload,
         AddApp, Store, Exit, Fail, Handle, Kill, dirVars

LEMMA FileStep ==
  ASSUME TypeOK, NEW b \in Builds, StageInv(b), FilesInv(b), BuildStep(b)
  PROVE  /\ files' \in [Workspaces -> Descriptors]
         /\ FilesInv(b)'
         /\ \A w \in Workspaces \ {Dir(b)} : files'[w] = files[w]
         /\ Final(b) => files' = files
         /\ HasLock(files[Dir(b)]) => HasLock(files[Dir(b)])'
  <1>1. CASE Rewriting(b) \/ LeavePart(b)
    <2>1. PICK e \in Descriptors :
            /\ Rewrite(b, e) /\ FromGiven(b, e)
            /\ Final(b) => e = files[Dir(b)]
            /\ HasLock(files[Dir(b)]) => HasLock(e)
      BY <1>1, RewriteStep, PartStep
    <2>2. Dir(b) \in Workspaces /\ files \in [Workspaces -> Descriptors]
      BY ConfigType DEF TypeOK
    <2>3. files' = [files EXCEPT ![Dir(b)] = e]
      BY <2>1 DEF Rewrite
    <2>4. files'[Dir(b)] = e
      BY <2>2, <2>3
    <2>5. FromGiven(b, e) => FilesInv(b)'
      BY <2>4 DEF FilesInv, FromGiven, Lang, Dir
    <2> QED
      BY <2>1, <2>2, <2>3, <2>4, <2>5 DEF Dir
  <1>2. CASE ~Rewriting(b) /\ ~LeavePart(b)
    BY <1>2, OtherSteps DEF TypeOK, FilesInv, FromGiven
  <1> QED
    BY <1>1, <1>2

-------------------------------------------------------------------------------
(***************************************************************************)
(* Lists of images.                                                        *)
(***************************************************************************)
LEMMA AppendFacts ==
  ASSUME NEW S, NEW s \in Seq(S), NEW x \in S
  PROVE  /\ Append(s, x) \in Seq(S) /\ Len(Append(s, x)) = Len(s) + 1
         /\ \A i \in 1 .. Len(s) : Append(s, x)[i] = s[i]
         /\ Append(s, x)[Len(s) + 1] = x
  BY AppendProperties

LEMMA AppendTwo ==
  ASSUME NEW x, NEW y
  PROVE  Append(<<x>>, y) = <<x, y>>
  <1> DEFINE S == {x, y}
             s == <<x>>
             t == <<x, y>>
  <1>1. s \in Seq(S) /\ t \in Seq(S) /\ y \in S /\ Len(s) = 1 /\ s[1] = x
    OBVIOUS
  <1>2. Len(t) = 2 /\ t[1] = x /\ t[2] = y
    OBVIOUS
  <1> HIDE DEF S, s, t
  <1>3. /\ Append(s, y) \in Seq(S) /\ Len(Append(s, y)) = Len(s) + 1
        /\ \A i \in 1 .. Len(s) : Append(s, y)[i] = s[i]
        /\ Append(s, y)[Len(s) + 1] = y
    BY <1>1, AppendFacts
  <1>4. Len(Append(s, y)) = Len(t) /\ \A i \in 1 .. Len(Append(s, y)) : Append(s, y)[i] = t[i]
    BY <1>1, <1>2, <1>3
  <1>5. Append(s, y) = t
    BY <1>1, <1>3, <1>4, SeqEqual
  <1> QED
    BY <1>5 DEF s, t

LEMMA AppendThree ==
  ASSUME NEW x, NEW y, NEW z
  PROVE  Append(<<x, y>>, z) = <<x, y, z>> /\ <<x, y, z>>[3] = z
  <1> DEFINE S == {x, y, z}
             s == <<x, y>>
             t == <<x, y, z>>
  <1>1. s \in Seq(S) /\ t \in Seq(S) /\ z \in S /\ Len(s) = 2 /\ s[1] = x /\ s[2] = y
    OBVIOUS
  <1>2. Len(t) = 3 /\ t[1] = x /\ t[2] = y /\ t[3] = z
    OBVIOUS
  <1> HIDE DEF S, s, t
  <1>3. /\ Append(s, z) \in Seq(S) /\ Len(Append(s, z)) = Len(s) + 1
        /\ \A i \in 1 .. Len(s) : Append(s, z)[i] = s[i]
        /\ Append(s, z)[Len(s) + 1] = z
    BY <1>1, AppendFacts
  <1>4. Len(Append(s, z)) = Len(t) /\ \A i \in 1 .. Len(Append(s, z)) : Append(s, z)[i] = t[i]
    BY <1>1, <1>2, <1>3
  <1>5. Append(s, z) = t
    BY <1>1, <1>3, <1>4, SeqEqual
  <1> QED
    BY <1>2, <1>5 DEF s, t
-------------------------------------------------------------------------------
(***************************************************************************)
(* The cache.                                                              *)
(***************************************************************************)
LEMMA PartType ==
  ASSUME TypeOK, NEW b \in Builds, FilesInv(b), HasDescriptor(Given[Dir(b)])
  PROVE  /\ PartOf(b) \in Parts /\ PartOf(b).lang = Lang(b)
         /\ PartOf(b).text = files[Dir(b)]
         /\ GetCacheKey(b) \in Cache!Keys
         /\ GetCacheKey(b).part = PartOf(b) /\ GetCacheKey(b).env = Config[b].env
         /\ Cache!NewLayer(PartOf(b), Config[b].env) \in Cache!Layers
  <1>1. files[Dir(b)] \in Descriptors /\ Config[b].env \in Envs /\ now \in Nat
    BY ConfigType DEF TypeOK, Cache!CacheTypeOK
  <1>2. PartOf(b) \in Parts /\ PartOf(b).lang = Lang(b) /\ PartOf(b).text = files[Dir(b)]
    BY <1>1, TextIsFiles DEF PartOf, FilesInv
  <1> QED
    BY <1>1, <1>2 DEF GetCacheKey, Cache!KeyOf, Cache!Keys, Cache!NewLayer, Cache!Layers,
                      Cache!Parts

\* A hit is an entry of a repository under the key looked up.
LEMMA HitIsEntry ==
  ASSUME NEW b \in Builds, NEW k, Cache!Get(k, Config[b]) # NoLayer
  PROVE  \E r \in Repos : /\ Cache!Get(k, Config[b]) = registry[r][k]
                          /\ registry[r][k] # NoLayer
                          /\ ~Config[b].useGlobal => r = Config[b].repo
  BY ConfigType, CacheAssumption DEF Cache!Get, Cache!Found, Cache!GetEntry

\* Set keeps what other tags hold, and keeps the registry in shape.
LEMMA SetEffect ==
  ASSUME TypeOK, NEW b \in Builds, NEW k \in Cache!Keys, NEW l \in Cache!Layers,
         Cache!Set(k, l, Config[b])
  PROVE  /\ registry' \in [Repos -> [Cache!Keys -> Cache!Layers \cup {NoLayer}]]
         /\ \A r \in Repos, j \in Cache!Keys :
              \/ registry'[r][j] = registry[r][j]
              \/ j = k /\ r = Config[b].repo /\ registry'[r][j] = l
         /\ Config[b].upload => registry'[Config[b].repo][k] = l
  BY ConfigType DEF Cache!Set, TypeOK, Cache!CacheTypeOK

\* Only an upload writes the registry, and under the key of the descriptors as
\* they are: PHP's key of the lookup is still that.
LEMMA RegistryStep ==
  ASSUME TypeOK, NEW b \in Builds, BuildInv(b), BuildStep(b)
  PROVE  IF Upload(b)
           THEN /\ GetCacheKey(b) \in Cache!Keys /\ img[b] \in Cache!Layers
                /\ img[b].part = PartOf(b) /\ img[b].env = Config[b].env
                /\ Cache!Set(GetCacheKey(b), img[b], Config[b])
           ELSE registry' = registry
  <1>1. CASE Upload(b)
    <2>1. /\ main[b] = "upload"
          /\ Cache!Set(IF Lang(b) = "node" THEN GetCacheKey(b) ELSE key[b], img[b], Config[b])
      BY <1>1 DEF Upload
    <2>2. /\ img[b] # NoLayer /\ img[b].part = PartOf(b) /\ img[b].env = Config[b].env
          /\ HasDescriptor(Given[Dir(b)])
      BY <2>1 DEF BuildInv, ImgInv, Final
    <2>3. Lang(b) \in {"node", "php"} /\ (Lang(b) = "php" => key[b] = GetCacheKey(b))
      BY <2>1, ConfigType DEF BuildInv, StageInv, Settled, Langs
    <2>4. Cache!Set(GetCacheKey(b), img[b], Config[b])
      BY <2>1, <2>3
    <2>5. GetCacheKey(b) \in Cache!Keys /\ img[b] \in Cache!Layers
      BY <2>2, PartType DEF TypeOK, BuildInv
    <2> QED
      BY <1>1, <2>2, <2>4, <2>5
  <1>2. CASE ~Upload(b)
    BY <1>2 DEF BuildStep, Start, GenPackageLock, Clean, UpdateComposerLock, Hit, Miss,
       LostHit, BadTtl, GcpBuild, Install, Pack, AddApp, Store, Exit, Fail, Handle, Kill,
       cacheVars
  <1> QED
    BY <1>1, <1>2

\* What is in the registry stays there, or gives way to another layer.
LEMMA RegistryKeeps ==
  ASSUME TypeOK, NEW b \in Builds, BuildInv(b), BuildStep(b)
  PROVE  /\ registry' \in [Repos -> [Cache!Keys -> Cache!Layers \cup {NoLayer}]]
         /\ \A r \in Repos, k \in Cache!Keys :
              registry[r][k] # NoLayer => registry'[r][k] # NoLayer
  <1>1. CASE Upload(b)
    BY <1>1, RegistryStep, SetEffect, ValueAssumption
  <1>2. CASE ~Upload(b)
    BY <1>2, RegistryStep DEF TypeOK, Cache!CacheTypeOK
  <1> QED
    BY <1>1, <1>2

-------------------------------------------------------------------------------
(***************************************************************************)
(* Type correctness.                                                       *)
(***************************************************************************)
LEMMA InitTypeOK == Init => TypeOK
  BY GivenAssumption, BoundAssumption
     DEF Init, TypeOK, Cache!CacheInit, Cache!CacheTypeOK, Modules, MainState, Idle

LEMMA HitType ==
  ASSUME TypeOK, NEW b \in Builds, BuildInv(b), Hit(b)
  PROVE  LET hit == Cache!Get(GetCacheKey(b), Config[b])
         IN  hit \in Cache!Layers /\ hit # NoLayer
  <1> DEFINE hit == Cache!Get(GetCacheKey(b), Config[b])
  <1>1. hit # NoLayer /\ main[b] = "lookup"
    BY DEF Hit, Lookup
  <1>2. GetCacheKey(b) \in Cache!Keys
    BY <1>1, PartType DEF BuildInv, StageInv, Described
  <1>3. PICK r \in Repos : hit = registry[r][GetCacheKey(b)]
    BY <1>1, HitIsEntry
  <1> HIDE DEF hit
  <1>4. hit \in Cache!Layers
    BY <1>1, <1>2, <1>3 DEF TypeOK, Cache!CacheTypeOK
  <1> QED
    BY <1>1, <1>4 DEF hit

LEMMA StepTypeOK ==
  ASSUME TypeOK, NEW b \in Builds, BuildInv(b), BuildStep(b)
  PROVE  TypeOK'
  <1>1. files' \in [Workspaces -> Descriptors]
    BY FileStep DEF BuildInv
  <1>2. registry' \in [Repos -> [Cache!Keys -> Cache!Layers \cup {NoLayer}]]
    BY RegistryKeeps
  <1>3. now' = now /\ release' = release
    BY DEF BuildStep, Start, GenPackageLock, Clean, UpdateComposerLock, Hit, Miss, LostHit,
       BadTtl, GcpBuild, Install, Pack, Upload, AddApp, Store, Exit, Fail, Handle, Kill,
       cacheVars
  <1>4. Cache!CacheTypeOK' /\ release' \in 0 .. MaxRelease
    BY <1>2, <1>3 DEF TypeOK, Cache!CacheTypeOK
  <1> DEFINE Rest == /\ modules' \in [Workspaces -> Modules]
                     /\ output' \in [Workspaces -> BOOLEAN]
                     /\ main' \in [Builds -> MainState]
                     /\ key' \in [Builds -> Cache!Keys \cup {NoLayer}]
                     /\ lyr_imgs' \in [Builds -> Seq(ImageLayers)]
                     /\ img' \in [Builds -> Cache!Layers \cup {NoLayer}]
                     /\ raised' \in [Builds -> {"none", "user", "internal", "other"}]
                     /\ faults' \in [Builds -> Nat]
                     /\ exitCode' \in [Builds -> {"none", "0", "1"}]
                     /\ stored' \in [Builds -> Seq(ImageLayers) \cup {NoImage}]
  <1>5. main[b] \in Described => GetCacheKey(b) \in Cache!Keys
    BY PartType DEF BuildInv, StageInv
  <1>6. Dir(b) \in Workspaces
    BY ConfigType
  <1> USE DEF TypeOK, GoTo, AppendImg, Leave, lyrVars, endVars, dirVars, MainState, Idle,
              Lookup, Build
  <1>7. CASE Start(b) \/ GenPackageLock(b) \/ Exit(b) \/ Handle(b)
    <2>1. Rest
      BY <1>7 DEF Start, GenPackageLock, Exit, Handle
    <2> QED
      BY <1>1, <1>4, <2>1
  <1>8. CASE Clean(b)
    <2>1. /\ lyr_imgs' = [lyr_imgs EXCEPT ![b] = Append(lyr_imgs[b], BaseLayer)]
          /\ modules' = [modules EXCEPT ![Dir(b)] = NoModules]
          /\ \E pc \in MainState : main' = [main EXCEPT ![b] = pc]
          /\ UNCHANGED <<output, key, img, raised, faults, exitCode, stored>>
      BY <1>8 DEF Clean
    <2>2. Append(lyr_imgs[b], BaseLayer) \in Seq(ImageLayers)
      BY DEF ImageLayers
    <2>3. main' \in [Builds -> MainState] /\ modules' \in [Workspaces -> Modules]
      BY <1>6, <2>1 DEF Modules
    <2>4. Rest
      BY <2>1, <2>2, <2>3
    <2> QED
      BY <1>1, <1>4, <2>4
  <1>9. CASE Miss(b) \/ LostHit(b) \/ BadTtl(b)
    <2>1. /\ main[b] = "lookup" /\ key' = [key EXCEPT ![b] = GetCacheKey(b)]
          /\ \E pc \in MainState : main' = [main EXCEPT ![b] = pc]
          /\ raised' = raised \/ raised' = [raised EXCEPT ![b] = "other"]
          /\ faults' = faults \/ faults' = [faults EXCEPT ![b] = faults[b] + 1]
          /\ UNCHANGED <<modules, output, lyr_imgs, img, exitCode, stored>>
      BY <1>9 DEF Miss, LostHit, BadTtl, Fault
    <2>2. Rest
      BY <1>5, <2>1 DEF Described
    <2> QED
      BY <1>1, <1>4, <2>2
  <1>10. CASE Hit(b)
    <2> DEFINE hit == Cache!Get(GetCacheKey(b), Config[b])
    <2>1. hit \in Cache!Layers /\ hit # NoLayer
      BY <1>10, HitType
    <2>2. /\ img' = [img EXCEPT ![b] = hit]
          /\ lyr_imgs' = [lyr_imgs EXCEPT ![b] = Append(lyr_imgs[b], hit)]
          /\ key' = [key EXCEPT ![b] = GetCacheKey(b)] /\ main[b] = "lookup"
          /\ main' = [main EXCEPT ![b] = "app"]
          /\ UNCHANGED <<modules, output, raised, faults, exitCode, stored>>
      BY <1>10 DEF Hit
    <2> HIDE DEF hit
    <2>3. Append(lyr_imgs[b], hit) \in Seq(ImageLayers)
      BY <2>1 DEF ImageLayers
    <2>4. Rest
      BY <1>5, <2>1, <2>2, <2>3 DEF Described
    <2> QED
      BY <1>1, <1>4, <2>4
  <1>11. CASE UpdateComposerLock(b) \/ GcpBuild(b) \/ Install(b)
    <2>1. PICK e \in Descriptors : Rewrite(b, e) /\ FromGiven(b, e)
      BY <1>11, RewriteStep DEF Rewriting, BuildInv
    <2>2. HasDescriptor(Given[Dir(b)])
      BY <1>11 DEF UpdateComposerLock, GcpBuild, Install, BuildInv, StageInv, Described
    <2>3. [lang |-> Lang(b), text |-> Text(e)] \in Parts
      BY <2>1, <2>2, TextIsFiles
    <2>4. Leave(b, [lang |-> Lang(b), text |-> Text(e)]) \/ Leave(b, NoModules)
      <3>1. /\ \E f : Rewrite(b, f)
                      /\ \/ Leave(b, [lang |-> Lang(b), text |-> Text(f)])
                         \/ Leave(b, NoModules)
        BY <1>11 DEF UpdateComposerLock, GcpBuild, Install
      <3>2. \A f : Rewrite(b, f) => f = files'[Dir(b)]
        BY <1>6 DEF Rewrite
      <3> QED
        BY <2>1, <3>1, <3>2
    <2>5. modules' \in [Workspaces -> Modules]
      BY <1>6, <2>3, <2>4 DEF Modules
    <2>6. Rest
      BY <1>6, <1>11, <2>5 DEF UpdateComposerLock, GcpBuild, Install
    <2> QED
      BY <1>1, <1>4, <2>6
  <1>12. CASE Pack(b)
    <2> DEFINE l == Cache!NewLayer(modules[Dir(b)], Config[b].env)
    <2>1. /\ main[b] = "pack" /\ main' = [main EXCEPT ![b] = "upload"]
          /\ img' = [img EXCEPT ![b] = l] /\ Leave(b, NoModules)
          /\ UNCHANGED <<output, key, lyr_imgs, raised, faults, exitCode, stored>>
      BY <1>12 DEF Pack
    <2>2. l \in Cache!Layers
      BY <2>1, PartType DEF BuildInv, StageInv, Described
    <2> HIDE DEF l
    <2>3. Rest
      BY <1>6, <2>1, <2>2 DEF Modules
    <2> QED
      BY <1>1, <1>4, <2>3
  <1>13. CASE Upload(b)
    <2>1. /\ main' = [main EXCEPT ![b] = "app"]
          /\ lyr_imgs' = [lyr_imgs EXCEPT ![b] = Append(lyr_imgs[b], img[b])]
          /\ UNCHANGED <<modules, output, key, img, raised, faults, exitCode, stored>>
      BY <1>13 DEF Upload
    <2>2. Append(lyr_imgs[b], img[b]) \in Seq(ImageLayers)
      BY <1>13, RegistryStep DEF ImageLayers
    <2>3. Rest
      BY <2>1, <2>2
    <2> QED
      BY <1>1, <1>4, <2>3
  <1>14. CASE AddApp(b)
    <2> DEFINE l == [modules |-> modules[Dir(b)], output |-> output[Dir(b)]]
    <2>1. /\ main' = [main EXCEPT ![b] = "store"]
          /\ lyr_imgs' = [lyr_imgs EXCEPT ![b] = Append(lyr_imgs[b], l)]
          /\ UNCHANGED <<modules, output, key, img, raised, faults, exitCode, stored>>
      BY <1>14 DEF AddApp
    <2>2. l \in ImageLayers
      BY <1>6 DEF ImageLayers, AppLayers
    <2> HIDE DEF l
    <2>3. Rest
      BY <2>1, <2>2
    <2> QED
      BY <1>1, <1>4, <2>3
  <1>15. CASE Store(b)
    <2>1. Rest
      BY <1>15 DEF Store
    <2> QED
      BY <1>1, <1>4, <2>1
  <1>16. CASE Fail(b) \/ Kill(b)
    <2>1. modules' \in [Workspaces -> Modules]
      BY <1>6, <1>16 DEF Fail, Kill, LeavePart, Modules
    <2>2. /\ \E pc \in MainState : main' = [main EXCEPT ![b] = pc]
          /\ \/ raised' = raised
             \/ \E x \in {"user", "internal", "other"} : raised' = [raised EXCEPT ![b] = x]
          /\ faults' = faults \/ faults' = [faults EXCEPT ![b] = faults[b] + 1]
          /\ UNCHANGED <<key, lyr_imgs, img, exitCode, stored>>
      BY <1>16 DEF Fail, Kill, Fault, ErrorsAt
    <2>3. main' \in [Builds -> MainState]
      BY <2>2
    <2>4. raised' \in [Builds -> {"none", "user", "internal", "other"}]
      BY <2>2
    <2>5. faults' \in [Builds -> Nat]
      <3>1. faults[b] + 1 \in Nat /\ faults \in [Builds -> Nat]
        OBVIOUS
      <3>2. faults' = faults \/ faults' = [faults EXCEPT ![b] = faults[b] + 1]
        BY <2>2
      <3> QED
        BY <3>1, <3>2
    <2>6. output' \in [Workspaces -> BOOLEAN]
      <3>1. PICK made \in BOOLEAN :
              output' = [output EXCEPT ![Dir(b)] = output[Dir(b)] \/ (made /\ main[b] = "gcp")]
        BY <1>16 DEF Fail, Kill, LeavePart
      <3>2. (output[Dir(b)] \/ (made /\ main[b] = "gcp")) \in BOOLEAN
        OBVIOUS
      <3>3. output \in [Workspaces -> BOOLEAN]
        OBVIOUS
      <3> QED
        BY <3>1, <3>2, <3>3, Zenon
    <2>7. Rest
      BY <2>1, <2>2, <2>3, <2>4, <2>5, <2>6
    <2> QED
      BY <1>1, <1>4, <2>7
  <1> QED
    BY <1>7, <1>8, <1>9, <1>10, <1>11, <1>12, <1>13, <1>14, <1>15, <1>16 DEF BuildStep

-------------------------------------------------------------------------------
(***************************************************************************)
(* What a step leaves alone.                                               *)
(***************************************************************************)

\* Nothing of build c changes.
Same(c) ==
  /\ main'[c] = main[c] /\ key'[c] = key[c] /\ lyr_imgs'[c] = lyr_imgs[c]
  /\ img'[c] = img[c] /\ raised'[c] = raised[c] /\ stored'[c] = stored[c]

\* A step is of one build, and in its directory.
LEMMA OthersSame ==
  ASSUME TypeOK, NEW b \in Builds, BuildStep(b)
  PROVE  /\ \A c \in Builds \ {b} : Same(c)
         /\ \A w \in Workspaces \ {Dir(b)} : modules'[w] = modules[w]
  <1> USE DEF TypeOK, Same, GoTo, AppendImg, Lookup, Build, Leave, LeavePart, dirVars, lyrVars,
              endVars
  <1>1. CASE Start(b) \/ GenPackageLock(b) \/ Clean(b) \/ UpdateComposerLock(b)
    BY <1>1 DEF Start, GenPackageLock, Clean, UpdateComposerLock
  <1>2. CASE Hit(b) \/ Miss(b) \/ LostHit(b) \/ BadTtl(b)
    BY <1>2 DEF Hit, Miss, LostHit, BadTtl
  <1>3. CASE GcpBuild(b) \/ Install(b) \/ Pack(b) \/ Upload(b)
    BY <1>3 DEF GcpBuild, Install, Pack, Upload
  <1>4. CASE AddApp(b) \/ Store(b) \/ Exit(b) \/ Handle(b)
    BY <1>4 DEF AddApp, Store, Exit, Handle
  <1>5. CASE Fail(b) \/ Kill(b)
    BY <1>5 DEF Fail, Kill
  <1> QED
    BY <1>1, <1>2, <1>3, <1>4, <1>5 DEF BuildStep

\* Who steps has the directory for itself.
LEMMA Exclusive ==
  ASSUME TypeOK, ExclusiveInv, NEW b \in Builds, BuildStep(b),
         NEW c \in Builds \ {b}, Dir(c) = Dir(b)
  PROVE  main[c] \in Idle
  <1>1. CASE Start(b)
    BY <1>1 DEF Start
  <1>2. CASE ~Start(b)
    <2>1. main[b] \notin Idle
      BY <1>2 DEF BuildStep, GenPackageLock, Clean, UpdateComposerLock, Lookup, Hit, Miss,
         LostHit, BadTtl, GcpBuild, Install, Pack, Upload, AddApp, Store, Exit, Fail,
         ErrorsAt, Handle, Kill, Idle
    <2> QED
      BY <2>1 DEF ExclusiveInv
  <1> QED
    BY <1>1, <1>2

LEMMA StepExclusive ==
  ASSUME TypeOK, ExclusiveInv, NEW b \in Builds, BuildStep(b)
  PROVE  ExclusiveInv'
  BY Exclusive, OthersSame DEF ExclusiveInv, Same, Dir

\* A build keeps its invariant while its directory and the cache stay as they
\* are.
LEMMA FrameBuildInv ==
  ASSUME NEW c \in Builds, BuildInv(c), Same(c), files'[Dir(c)] = files[Dir(c)],
         modules'[Dir(c)] = modules[Dir(c)] \/ main[c] \in Idle,
         \A r \in Repos, k \in Cache!Keys : registry[r][k] # NoLayer => registry'[r][k] # NoLayer,
         HasDescriptor(Given[Dir(c)]) => GetCacheKey(c) \in Cache!Keys
  PROVE  BuildInv(c)'
  <1> USE DEF Same, BuildInv
  <1>1. /\ files[Dir(c)]' = files[Dir(c)] /\ PartOf(c)' = PartOf(c)
        /\ GetCacheKey(c)' = GetCacheKey(c)
    BY DEF PartOf, GetCacheKey, Dir, Lang
  <1>2. FilesInv(c)'
    BY <1>1 DEF FilesInv, FromGiven
  <1>3. StageInv(c)'
    BY <1>1 DEF StageInv, Final, Idle, Described, Settled, Dir, Lang
  <1>4. ImgInv(c)'
    BY <1>1 DEF ImgInv, Final
  <1>5. ListInv(c)'
    BY DEF ListInv, Complete, RightLayer, Acceptable
  <1>6. EndInv(c)'
    BY DEF EndInv
  <1>7. KeptInv(c)'
    <2>1. KeptInv(c) /\ (img[c] # NoLayer => HasDescriptor(Given[Dir(c)]))
      BY DEF ImgInv, Final
    <2> QED
      BY <1>1, <2>1, ConfigType DEF KeptInv, Cached
  <1> QED
    BY <1>2, <1>3, <1>4, <1>5, <1>6, <1>7

\* A build of the same directory rewrites its descriptors only as long as no
\* layer has been made from them.
LEMMA OthersBuildInv ==
  ASSUME IInv, NEW b \in Builds, BuildStep(b), NEW c \in Builds \ {b}
  PROVE  BuildInv(c)'
  <1> USE DEF IInv
  <1>1. Same(c) /\ BuildInv(b) /\ BuildInv(c)
    BY OthersSame
  <1>2. /\ \A w \in Workspaces \ {Dir(b)} : files'[w] = files[w] /\ modules'[w] = modules[w]
        /\ FilesInv(b)' /\ (Final(b) => files' = files)
    BY FileStep, OthersSame DEF BuildInv
  <1>3. /\ \A r \in Repos, k \in Cache!Keys : registry[r][k] # NoLayer => registry'[r][k] # NoLayer
        /\ HasDescriptor(Given[Dir(c)]) => GetCacheKey(c) \in Cache!Keys
    BY <1>1, RegistryKeeps, PartType DEF BuildInv
  <1>4. CASE Dir(c) # Dir(b) \/ Final(b)
    <2>1. files'[Dir(c)] = files[Dir(c)]
      BY <1>2, <1>4, ConfigType
    <2>2. modules'[Dir(c)] = modules[Dir(c)] \/ main[c] \in Idle
      BY <1>2, <1>4, ConfigType, Exclusive
    <2> QED
      BY <1>1, <1>3, <2>1, <2>2, FrameBuildInv
  <1>5. CASE Dir(c) = Dir(b) /\ ~Final(b)
    <2>1. main[c] \in Idle /\ Lang(c) = Lang(b)
      BY <1>5, Exclusive, LanguageAssumption DEF Lang, Dir
    <2>2. img[c] = NoLayer
      BY <1>1, <1>5, <2>1 DEF BuildInv, ImgInv, Final
    <2>3. FilesInv(c)'
      BY <1>2, <1>5, <2>1 DEF FilesInv, FromGiven, Lang, Dir
    <2>4. StageInv(c)'
      BY <1>1, <2>1 DEF StageInv, Same, Idle, Described, Settled
    <2>5. ImgInv(c)' /\ KeptInv(c)'
      BY <1>1, <2>1, <2>2 DEF ImgInv, KeptInv, Same, Idle
    <2>6. ListInv(c)' /\ EndInv(c)'
      BY <1>1 DEF BuildInv, ListInv, Complete, RightLayer, Acceptable, EndInv, Same
    <2> QED
      BY <2>3, <2>4, <2>5, <2>6 DEF BuildInv
  <1> QED
    BY <1>4, <1>5

-------------------------------------------------------------------------------
(***************************************************************************)
(* Every step of a build keeps its invariant.                              *)
(***************************************************************************)

\* Final descriptors are as their user gave them, or what the tools make of those.
LEMMA FinalIsAcceptable ==
  ASSUME TypeOK, NEW b \in Builds, FilesInv(b), Final(b)
  PROVE  Acceptable(b, files[Dir(b)])
  <1> DEFINE d == files[Dir(b)]
             g == Given[Dir(b)]
  <1>1. /\ d \in Descriptors /\ HasDescriptor(g) /\ FromGiven(b, d) /\ HasLock(d)
        /\ Lang(b) = "node" => NodeFits(d)
    BY ConfigType DEF TypeOK, FilesInv, Final
  <1>2. /\ Lang(b) \in {"node", "php"}
        /\ Lang(b) = "php" => g.yarn = Absent
        /\ Lang(b) = "node" => (UsesYarn(d) <=> UsesYarn(g))
    BY <1>1, ConfigType, DescribedAsGiven DEF Langs
  <1>3. CASE Lang(b) = "node" /\ UsesYarn(g)
    BY <1>1, <1>2, <1>3 DEF Acceptable, FromGiven, KeptLock, Follows, NodeFits, Fits
  <1>4. CASE Lang(b) = "node" /\ ~UsesYarn(g)
    BY <1>1, <1>2, <1>4 DEF Acceptable, FromGiven, KeptLock, Follows, NodeFits, Fits
  <1>5. CASE Lang(b) = "php"
    BY <1>1, <1>2, <1>5 DEF Acceptable, FromGiven, KeptLock, HasLock
  <1> QED
    BY <1>2, <1>3, <1>4, <1>5

\* What is made from final descriptors may stand for what their user gave.
LEMMA PartIsRight ==
  ASSUME TypeOK, NEW b \in Builds, FilesInv(b), Final(b), NEW l \in Cache!Layers,
         l.part = PartOf(b), l.env = Config[b].env
  PROVE  RightLayer(b, l)
  <1>1. HasDescriptor(Given[Dir(b)])
    BY DEF Final
  <1>2. l.part.lang = Lang(b) /\ l.part.text = files[Dir(b)]
    BY <1>1, PartType
  <1> QED
    BY <1>2, FinalIsAcceptable DEF RightLayer

\* The entries of the registry are under the keys there are.
LEMMA RegistryDomain ==
  ASSUME TypeOK, NEW r \in Repos
  PROVE  DOMAIN registry[r] = Cache!Keys
  BY DEF TypeOK, Cache!CacheTypeOK

\* A hit is the layer of a build whose descriptors were the same, and final.
LEMMA HitIsRight ==
  ASSUME IInv, NEW b \in Builds, Hit(b)
  PROVE  LET hit == Cache!Get(GetCacheKey(b), Config[b])
         IN  /\ hit \in Cache!Layers /\ hit # NoLayer /\ hit.part = PartOf(b)
             /\ hit.env = Config[b].env /\ Final(b) /\ RightLayer(b, hit)
             /\ ~Config[b].useGlobal => registry[Config[b].repo][GetCacheKey(b)] # NoLayer
  <1> DEFINE hit == Cache!Get(GetCacheKey(b), Config[b])
  <1> USE DEF IInv
  <1>1. hit \in Cache!Layers /\ hit # NoLayer
    BY HitType
  <1>2. main[b] = "lookup" /\ HasDescriptor(Given[Dir(b)]) /\ FilesInv(b)
    BY DEF Hit, Lookup, BuildInv, StageInv, Described
  <1>3. /\ GetCacheKey(b) \in Cache!Keys /\ GetCacheKey(b).part = PartOf(b)
        /\ GetCacheKey(b).env = Config[b].env
        /\ PartOf(b).lang = Lang(b) /\ PartOf(b).text = files[Dir(b)]
    BY <1>2, PartType
  <1>4. PICK r \in Repos : /\ hit = registry[r][GetCacheKey(b)]
                           /\ ~Config[b].useGlobal => r = Config[b].repo
    BY <1>1, HitIsEntry
  <1> HIDE DEF hit
  <1>5. hit.part = PartOf(b) /\ hit.env = Config[b].env
    BY <1>1, <1>3, <1>4, RegistryDomain DEF CacheSound
  <1>6. PICK e \in Builds : img[e] = hit
    BY <1>1, <1>3, <1>4 DEF EntryInv
  <1>7. img[e].part = PartOf(e) /\ Final(e) /\ FilesInv(e)
    BY <1>1, <1>6 DEF BuildInv, ImgInv
  <1>8. PartOf(e).lang = Lang(e) /\ PartOf(e).text = files[Dir(e)]
    BY <1>7, PartType DEF Final
  <1>9. Lang(e) = Lang(b) /\ files[Dir(e)] = files[Dir(b)]
    BY <1>3, <1>5, <1>6, <1>7, <1>8
  <1>10. Final(b)
    BY <1>2, <1>7, <1>9 DEF Final
  <1>11. RightLayer(b, hit)
    BY <1>1, <1>2, <1>5, <1>10, PartIsRight
  <1>12. ~Config[b].useGlobal => registry[Config[b].repo][GetCacheKey(b)] # NoLayer
    BY <1>1, <1>4
  <1> QED
    BY <1>1, <1>5, <1>10, <1>11, <1>12 DEF hit

\* KeptInv says nothing of a build that has no layer or is not through.
LEMMA NotKept ==
  ASSUME NEW b \in Builds,
         img'[b] = NoLayer \/ main'[b] \notin {"app", "store", "return", "exited"}
  PROVE  KeptInv(b)'
  BY DEF KeptInv, Cached

\* Steps up to the lookup.
LEMMA PrepareBuildInv ==
  ASSUME TypeOK, NEW b \in Builds, BuildInv(b),
         Start(b) \/ GenPackageLock(b) \/ Clean(b) \/ UpdateComposerLock(b)
  PROVE  BuildInv(b)'
  <1> USE DEF BuildInv, TypeOK, GoTo, AppendImg, Leave, dirVars, lyrVars, endVars
  <1>1. BuildStep(b) /\ Dir(b) \in Workspaces /\ Lang(b) \in {"node", "php"}
    BY ConfigType DEF BuildStep, Langs
  <1>2. FilesInv(b)' /\ (HasLock(files[Dir(b)]) => HasLock(files[Dir(b)])')
    BY <1>1, FileStep
  <1>3. img' = img /\ raised' = raised /\ stored' = stored /\ img[b] = NoLayer
        /\ main[b] \in {"new", "init", "clean", "update"}
    BY DEF Start, GenPackageLock, Clean, UpdateComposerLock, ImgInv, Described
  <1>4. KeptInv(b)'
    BY <1>3, NotKept
  <1>5. CASE Start(b)
    <2>1. /\ main[b] = "new" /\ UNCHANGED <<lyr_imgs, files, modules>>
          /\ main'[b] = IF Lang(b) = "node" THEN "init" ELSE "clean"
      BY <1>1, <1>5 DEF Start
    <2>2. StageInv(b)'
      BY <1>1, <2>1 DEF StageInv, Described, Settled
    <2> QED
      BY <1>2, <1>3, <1>4, <2>1, <2>2 DEF ImgInv, ListInv, EndInv, Described
  <1>6. CASE GenPackageLock(b)
    <2>1. main[b] = "init" /\ main'[b] = "clean" /\ UNCHANGED <<lyr_imgs, modules>>
      BY <1>6 DEF GenPackageLock
    <2>2. HasDescriptor(Given[Dir(b)]) => HasLock(files'[Dir(b)])
      <3>1. PICK e \in Descriptors : /\ Rewrite(b, e)
                                     /\ HasDescriptor(Given[Dir(b)]) => HasLock(e)
        BY <1>6, RewriteStep DEF Rewriting
      <3> QED
        BY <1>1, <3>1 DEF Rewrite
    <2>3. StageInv(b)'
      BY <2>1, <2>2 DEF StageInv, Described, Settled, Dir, HasLock
    <2> QED
      BY <1>2, <1>3, <1>4, <2>1, <2>3 DEF ImgInv, ListInv, EndInv, Described
  <1>7. CASE Clean(b)
    <2>1. /\ main[b] = "clean" /\ files' = files /\ modules'[Dir(b)] = NoModules
          /\ lyr_imgs'[b] = Append(lyr_imgs[b], BaseLayer)
          /\ main'[b] = IF ~HasDescriptor(files[Dir(b)]) THEN "app"
                         ELSE IF Lang(b) = "php" THEN "update" ELSE "lookup"
      BY <1>1, <1>7 DEF Clean
    <2>2. lyr_imgs'[b] = <<BaseLayer>>
      <3>1. lyr_imgs[b] = <<>>
        BY <2>1 DEF ListInv
      <3> QED
        BY <2>1, <3>1
    <2>3. HasDescriptor(files[Dir(b)]) <=> HasDescriptor(Given[Dir(b)])
      BY <1>1, DescribedAsGiven DEF FilesInv
    <2>4. /\ main'[b] \in {"app", "update", "lookup"}
          /\ main'[b] = "app" <=> ~HasDescriptor(Given[Dir(b)])
          /\ main'[b] = "update" => Lang(b) = "php"
          /\ main'[b] = "lookup" => Lang(b) = "node" /\ HasLock(files[Dir(b)])
      <3>1. CASE ~HasDescriptor(Given[Dir(b)])
        BY <2>1, <2>3, <3>1
      <3>2. CASE HasDescriptor(Given[Dir(b)]) /\ Lang(b) = "php"
        BY <2>1, <2>3, <3>2
      <3>3. CASE HasDescriptor(Given[Dir(b)]) /\ Lang(b) = "node"
        BY <2>1, <2>3, <3>3 DEF StageInv
      <3> QED
        BY <1>1, <3>1, <3>2, <3>3
    <2>5. StageInv(b)'
      BY <2>1, <2>4 DEF StageInv, Described, Settled
    <2>6. ListInv(b)'
      BY <2>2, <2>4 DEF ListInv, Described
    <2> QED
      BY <1>2, <1>3, <1>4, <2>4, <2>5, <2>6 DEF ImgInv, EndInv, Described
  <1>8. CASE UpdateComposerLock(b)
    <2>1. /\ main[b] = "update" /\ main'[b] = "lookup" /\ UNCHANGED lyr_imgs
          /\ Lang(b) = "php"
      BY <1>8 DEF UpdateComposerLock, StageInv
    <2>2. HasLock(files'[Dir(b)])
      <3>1. PICK e \in Descriptors : Rewrite(b, e) /\ HasLock(e)
        BY <1>8, RewriteStep DEF Rewriting
      <3> QED
        BY <1>1, <3>1 DEF Rewrite
    <2>3. modules'[Dir(b)] = PartOf(b)'
      <3>1. PICK e : /\ files' = [files EXCEPT ![Dir(b)] = e]
                     /\ modules' = [modules EXCEPT ![Dir(b)] = [lang |-> Lang(b), text |-> Text(e)]]
        BY <1>8 DEF UpdateComposerLock, Rewrite
      <3>2. files'[Dir(b)] = e /\ modules'[Dir(b)] = [lang |-> Lang(b), text |-> Text(e)]
        BY <1>1, <3>1
      <3> QED
        BY <3>2 DEF PartOf, Dir, Lang, Text
    <2>4. HasDescriptor(Given[Dir(b)])
      BY <2>1 DEF StageInv, Described
    <2>5. StageInv(b)'
      BY <2>1, <2>2, <2>3, <2>4 DEF StageInv, Described, Settled, Dir, Lang, HasLock
    <2>6. lyr_imgs'[b] = <<BaseLayer>>
      BY <2>1 DEF ListInv, Described
    <2> QED
      BY <1>2, <1>3, <1>4, <2>1, <2>5, <2>6 DEF ImgInv, ListInv, EndInv, Described
  <1> QED
    BY <1>5, <1>6, <1>7, <1>8

\* The lookup: a hit goes into the list, and its descriptors are final.
LEMMA LookupBuildInv ==
  ASSUME IInv, NEW b \in Builds, Hit(b) \/ Miss(b) \/ LostHit(b) \/ BadTtl(b)
  PROVE  BuildInv(b)'
  <1> USE DEF TypeOK, GoTo, AppendImg, Build, dirVars, lyrVars, endVars, cacheVars
  <1>1. /\ TypeOK /\ BuildStep(b) /\ BuildInv(b) /\ Dir(b) \in Workspaces
        /\ main[b] = "lookup" /\ UNCHANGED <<files, modules, stored, registry>>
        /\ key'[b] = GetCacheKey(b)
    BY ConfigType DEF IInv, BuildStep, Hit, Miss, LostHit, BadTtl, Lookup
  <1>2. /\ PartOf(b)' = PartOf(b) /\ GetCacheKey(b)' = GetCacheKey(b)
        /\ files[Dir(b)]' = files[Dir(b)] /\ modules[Dir(b)]' = modules[Dir(b)]
    BY <1>1 DEF PartOf, GetCacheKey, Dir, Lang
  <1>3. /\ FilesInv(b) /\ HasDescriptor(Given[Dir(b)]) /\ HasLock(files[Dir(b)])
        /\ modules[Dir(b)] = IF Lang(b) = "php" THEN PartOf(b) ELSE NoModules
        /\ img[b] = NoLayer /\ lyr_imgs[b] = <<BaseLayer>>
        /\ raised[b] = "none" /\ stored[b] = NoImage
    BY <1>1 DEF BuildInv, StageInv, ImgInv, ListInv, EndInv, Described, Settled
  <1>4. FilesInv(b)'
    BY <1>2, <1>3 DEF FilesInv, FromGiven
  <1>5. CASE Hit(b)
    <2> DEFINE hit == Cache!Get(GetCacheKey(b), Config[b])
    <2>1. /\ hit \in Cache!Layers /\ hit # NoLayer /\ hit.part = PartOf(b)
          /\ hit.env = Config[b].env /\ Final(b) /\ RightLayer(b, hit)
          /\ ~Config[b].useGlobal => registry[Config[b].repo][GetCacheKey(b)] # NoLayer
      BY <1>5, HitIsRight
    <2>2. /\ main'[b] = "app" /\ img'[b] = hit /\ raised' = raised
          /\ lyr_imgs'[b] = Append(lyr_imgs[b], hit)
      BY <1>1, <1>5 DEF Hit
    <2> HIDE DEF hit
    <2>3. lyr_imgs'[b] = <<BaseLayer, hit>>
      <3>1. lyr_imgs'[b] = Append(<<BaseLayer>>, hit)
        BY <1>3, <2>2
      <3> QED
        BY <3>1, AppendTwo
    <2>4. Final(b)'
      BY <1>2, <2>1 DEF Final, Dir, Lang
    <2>5. StageInv(b)'
      BY <1>2, <1>3, <2>2, <2>4 DEF StageInv, Described, Settled
    <2>6. ImgInv(b)'
      BY <1>2, <2>1, <2>2, <2>4 DEF ImgInv, Described
    <2>7. ListInv(b)'
      <3>1. lyr_imgs'[b][2] = hit
        BY <2>3
      <3>2. RightLayer(b, lyr_imgs'[b][2]) /\ lyr_imgs'[b] = <<BaseLayer, lyr_imgs'[b][2]>>
        BY <2>1, <2>3, <3>1
      <3> QED
        BY <1>3, <2>2, <3>2 DEF ListInv, Described, RightLayer, Acceptable
    <2>8. EndInv(b)'
      BY <1>1, <1>3, <2>2 DEF EndInv
    <2>9. KeptInv(b)'
      BY <1>1, <1>2, <2>1 DEF KeptInv
    <2> QED
      BY <1>4, <2>5, <2>6, <2>7, <2>8, <2>9 DEF BuildInv
  <1>6. CASE Miss(b) \/ LostHit(b)
    <2>1. /\ main'[b] \in {"gcp", "install"} /\ img' = img /\ lyr_imgs' = lyr_imgs
          /\ main'[b] = "gcp" => Lang(b) = "node"
          /\ raised' = raised
      BY <1>1, <1>6 DEF Miss, LostHit
    <2>2. StageInv(b)'
      BY <1>1, <1>2, <1>3, <2>1 DEF StageInv, Described, Settled
    <2>3. ImgInv(b)' /\ KeptInv(b)'
      BY <1>3, <2>1, NotKept DEF ImgInv
    <2>4. ListInv(b)' /\ EndInv(b)'
      BY <1>1, <1>3, <2>1 DEF ListInv, EndInv
    <2> QED
      BY <1>4, <2>2, <2>3, <2>4 DEF BuildInv
  <1>7. CASE BadTtl(b)
    <2>1. /\ main'[b] = "handle" /\ img' = img /\ lyr_imgs' = lyr_imgs
          /\ raised'[b] = "other"
      BY <1>1, <1>7 DEF BadTtl
    <2>2. StageInv(b)' /\ ImgInv(b)' /\ KeptInv(b)'
      BY <1>3, <2>1, NotKept DEF StageInv, ImgInv, Described, Settled
    <2>3. ListInv(b)' /\ EndInv(b)'
      BY <1>1, <1>3, <2>1 DEF ListInv, EndInv, Described
    <2> QED
      BY <1>4, <2>2, <2>3 DEF BuildInv
  <1> QED
    BY <1>5, <1>6, <1>7

\* The installation: npm and yarn leave descriptors that are final.
LEMMA InstallBuildInv ==
  ASSUME TypeOK, NEW b \in Builds, BuildInv(b), GcpBuild(b) \/ Install(b)
  PROVE  BuildInv(b)'
  <1> USE DEF TypeOK, GoTo, lyrVars, endVars
  <1> DEFINE d == files[Dir(b)]
  <1>1. /\ BuildStep(b) /\ Dir(b) \in Workspaces /\ Lang(b) \in {"node", "php"}
        /\ main[b] \in {"gcp", "install"}
        /\ UNCHANGED <<key, img, lyr_imgs, raised, stored>>
    BY ConfigType DEF BuildStep, Langs, GcpBuild, Install
  <1>2. FilesInv(b)'
    BY <1>1, FileStep DEF BuildInv
  <1>3. /\ HasDescriptor(Given[Dir(b)]) /\ img[b] = NoLayer /\ lyr_imgs[b] = <<BaseLayer>>
        /\ raised[b] = "none" /\ stored[b] = NoImage
        /\ Lang(b) = "php" => key[b] = GetCacheKey(b) /\ main[b] = "install"
    BY <1>1 DEF BuildInv, StageInv, ImgInv, ListInv, EndInv, Described, Settled
  <1>4. PICK e \in Descriptors :
          /\ Rewrite(b, e) /\ HasLock(e)
          /\ Lang(b) = "node" => NodeFits(e)
          /\ Install(b) /\ Lang(b) = "node" => e = AfterNpmOrYarn(d)
          /\ GcpBuild(b) => e = AfterNpmOrYarn(d)
          /\ Install(b) /\ Lang(b) = "php" => e = d
    BY <1>1, RewriteStep DEF Rewriting, BuildInv
  <1> HIDE DEF d
  <1>5. files'[Dir(b)] = e
    BY <1>1, <1>4 DEF Rewrite
  <1>6. PartOf(b)' = [lang |-> Lang(b), text |-> Text(e)]
    BY <1>5 DEF PartOf, Lang, Dir, Text
  <1>7. CASE GcpBuild(b)
    <2>1. /\ main[b] = "gcp"
          /\ main'[b] = IF UsesYarn(e) THEN "pack" ELSE "install"
          /\ modules'[Dir(b)] = IF UsesYarn(e) THEN PartOf(b)' ELSE NoModules
      BY <1>1, <1>4, <1>6, <1>7 DEF GcpBuild, Leave, d
    <2>2. Lang(b) = "node"
      BY <1>1, <1>3, <2>1
    <2>3. StageInv(b)'
      BY <1>3, <1>4, <1>5, <2>1, <2>2 DEF StageInv, Described, Settled, Dir, Lang, NodeFits
    <2>4. ImgInv(b)' /\ KeptInv(b)'
      BY <1>1, <1>3, NotKept, <2>1 DEF ImgInv
    <2>5. ListInv(b)' /\ EndInv(b)'
      BY <1>1, <1>3, <2>1 DEF ListInv, EndInv
    <2> QED
      BY <1>2, <2>3, <2>4, <2>5 DEF BuildInv
  <1>8. CASE Install(b)
    <2>1. main'[b] = "pack" /\ modules'[Dir(b)] = PartOf(b)'
      BY <1>1, <1>4, <1>6, <1>8 DEF Install, Leave, d
    <2>2. Lang(b) = "php" => GetCacheKey(b)' = GetCacheKey(b)
      BY <1>4, <1>5, <1>8 DEF GetCacheKey, PartOf, Dir, Lang, Text, d
    <2>3. StageInv(b)'
      BY <1>1, <1>3, <1>4, <1>5, <2>1, <2>2
         DEF StageInv, Described, Settled, Dir, Lang, NodeFits
    <2>4. ImgInv(b)' /\ KeptInv(b)'
      BY <1>1, <1>3, NotKept, <2>1 DEF ImgInv
    <2>5. ListInv(b)' /\ EndInv(b)'
      BY <1>1, <1>3, <2>1 DEF ListInv, EndInv, Described
    <2> QED
      BY <1>2, <2>3, <2>4, <2>5 DEF BuildInv
  <1> QED
    BY <1>7, <1>8

\* The new layer, in the list and in the cache.
LEMMA LayerBuildInv ==
  ASSUME TypeOK, NEW b \in Builds, BuildInv(b), Pack(b) \/ Upload(b)
  PROVE  BuildInv(b)'
  <1> USE DEF TypeOK, GoTo, AppendImg, Leave, dirVars, lyrVars, endVars
  <1>1. /\ BuildStep(b) /\ Dir(b) \in Workspaces /\ Lang(b) \in {"node", "php"}
        /\ main[b] \in {"pack", "upload"}
        /\ UNCHANGED <<files, key, raised, stored>>
    BY ConfigType DEF BuildStep, Langs, Pack, Upload
  <1>2. PartOf(b)' = PartOf(b) /\ GetCacheKey(b)' = GetCacheKey(b) /\ Final(b)' = Final(b)
    BY <1>1 DEF PartOf, GetCacheKey, Final
  <1>3. FilesInv(b)'
    BY <1>1 DEF BuildInv, FilesInv, FromGiven
  <1>4. /\ HasDescriptor(Given[Dir(b)]) /\ HasLock(files[Dir(b)])
        /\ lyr_imgs[b] = <<BaseLayer>> /\ raised[b] = "none" /\ stored[b] = NoImage
        /\ Lang(b) = "php" => key[b] = GetCacheKey(b)
    BY <1>1 DEF BuildInv, StageInv, ListInv, EndInv, Described, Settled
  <1>5. CASE Pack(b)
    <2> DEFINE l == Cache!NewLayer(modules[Dir(b)], Config[b].env)
    <2>1. /\ main[b] = "pack" /\ main'[b] = "upload" /\ img'[b] = l /\ lyr_imgs' = lyr_imgs
          /\ modules'[Dir(b)] = NoModules
      BY <1>1, <1>5 DEF Pack
    <2>2. modules[Dir(b)] = PartOf(b) /\ Final(b)
      BY <1>4, <2>1 DEF BuildInv, StageInv, Final
    <2>3. l \in Cache!Layers /\ l.part = PartOf(b) /\ l.env = Config[b].env
      BY <1>4, <2>2, PartType DEF BuildInv, Cache!NewLayer
    <2> HIDE DEF l
    <2>4. l # NoLayer
      BY <2>3, ValueAssumption
    <2>5. StageInv(b)'
      BY <1>1, <1>2, <1>4, <2>1 DEF StageInv, Described, Settled
    <2>6. ImgInv(b)'
      BY <1>2, <2>1, <2>2, <2>3, <2>4 DEF ImgInv, Described
    <2>7. KeptInv(b)'
      BY <2>1, NotKept
    <2>8. ListInv(b)' /\ EndInv(b)'
      BY <1>1, <1>4, <2>1 DEF ListInv, EndInv
    <2> QED
      BY <1>3, <2>5, <2>6, <2>7, <2>8 DEF BuildInv
  <1>6. CASE Upload(b)
    <2>1. /\ main[b] = "upload" /\ main'[b] = "app" /\ UNCHANGED <<img, modules>>
          /\ lyr_imgs'[b] = Append(lyr_imgs[b], img[b])
      BY <1>1, <1>6 DEF Upload
    <2>2. /\ GetCacheKey(b) \in Cache!Keys /\ img[b] \in Cache!Layers
          /\ img[b].part = PartOf(b) /\ img[b].env = Config[b].env
          /\ Cache!Set(GetCacheKey(b), img[b], Config[b])
      BY <1>1, <1>6, RegistryStep
    <2>3. img[b] # NoLayer /\ Final(b) /\ modules[Dir(b)] = NoModules
      BY <2>1 DEF BuildInv, ImgInv, StageInv
    <2>4. lyr_imgs'[b] = <<BaseLayer, img[b]>>
      <3>1. lyr_imgs'[b] = Append(<<BaseLayer>>, img[b])
        BY <1>4, <2>1
      <3> QED
        BY <3>1, AppendTwo
    <2>5. RightLayer(b, lyr_imgs'[b][2]) /\ lyr_imgs'[b] = <<BaseLayer, lyr_imgs'[b][2]>>
      <3>1. lyr_imgs'[b][2] = img[b]
        BY <2>4
      <3>2. RightLayer(b, img[b])
        BY <2>2, <2>3, PartIsRight DEF BuildInv
      <3> QED
        BY <2>4, <3>1, <3>2
    <2>6. StageInv(b)'
      BY <1>1, <1>2, <1>4, <2>1, <2>3 DEF StageInv, Described, Settled
    <2>7. ImgInv(b)'
      BY <1>2, <2>1, <2>2, <2>3 DEF ImgInv, Described
    <2>8. KeptInv(b)'
      <3>1. Config[b].upload => registry'[Config[b].repo][GetCacheKey(b)] = img[b]
        BY <2>2, SetEffect
      <3> QED
        BY <1>2, <2>3, <3>1 DEF KeptInv
    <2>9. ListInv(b)'
      BY <1>4, <2>1, <2>5 DEF ListInv, Described, RightLayer, Acceptable
    <2>10. EndInv(b)'
      BY <1>1, <1>4, <2>1 DEF EndInv
    <2> QED
      BY <1>3, <2>6, <2>7, <2>8, <2>9, <2>10 DEF BuildInv
  <1> QED
    BY <1>5, <1>6

\* The application goes on top of a list in which its dependencies are, if it
\* has any.
LEMMA AppComplete ==
  ASSUME TypeOK, NEW b \in Builds, BuildInv(b), main[b] = "app"
  PROVE  LET l == [modules |-> modules[Dir(b)], output |-> output[Dir(b)]]
         IN  Complete(b, Append(lyr_imgs[b], l))
  <1> DEFINE l == [modules |-> modules[Dir(b)], output |-> output[Dir(b)]]
             s == lyr_imgs[b]
             t == Append(s, l)
  <1>1. /\ modules[Dir(b)] \in Modules /\ output[Dir(b)] \in BOOLEAN
        /\ \/ modules[Dir(b)] = NoModules
           \/ Lang(b) = "php" /\ modules[Dir(b)] = PartOf(b) /\ Final(b)
    BY ConfigType DEF BuildInv, StageInv, TypeOK
  <1>2. l \in AppLayers /\ AppMayHold(b, l.modules)
    <2>1. l \in AppLayers /\ l.modules = modules[Dir(b)]
      BY <1>1 DEF AppLayers
    <2>2. CASE modules[Dir(b)] = NoModules
      BY <2>1, <2>2 DEF AppMayHold
    <2>3. CASE Lang(b) = "php" /\ modules[Dir(b)] = PartOf(b) /\ Final(b)
      <3>1. HasDescriptor(Given[Dir(b)]) /\ FilesInv(b)
        BY <2>3 DEF Final, BuildInv
      <3>2. PartOf(b) \in Parts /\ PartOf(b).lang = "php" /\ PartOf(b).text = files[Dir(b)]
        BY <2>3, <3>1, PartType
      <3>3. Acceptable(b, files[Dir(b)])
        BY <2>3, <3>1, FinalIsAcceptable
      <3> QED
        BY <2>1, <2>3, <3>1, <3>2, <3>3 DEF AppMayHold
    <2> QED
      BY <1>1, <2>1, <2>2, <2>3
  <1> HIDE DEF l
  <1>3. s \in Seq(ImageLayers) /\ l \in ImageLayers
    BY <1>2 DEF TypeOK, ImageLayers
  <1>4. /\ t \in Seq(ImageLayers) /\ Len(t) = Len(s) + 1 /\ t[Len(s) + 1] = l
        /\ \A i \in 1 .. Len(s) : t[i] = s[i]
    BY <1>3, AppendFacts
  <1>5. ListInv(b)
    BY DEF BuildInv
  <1>6. CASE ~HasDescriptor(Given[Dir(b)])
    <2>1. s = <<BaseLayer>>
      BY <1>5, <1>6 DEF ListInv
    <2>2. Len(s) = 1 /\ s[1] = BaseLayer
      BY <2>1
    <2> HIDE DEF s, t
    <2>3. Len(t) = 2 /\ t[1] = BaseLayer /\ t[2] = l /\ t # <<>>
      BY <1>4, <2>2
    <2>4. Complete(b, t)
      BY <1>2, <1>6, <2>3 DEF Complete
    <2> QED
      BY <2>4 DEF s, t, l
  <1>7. CASE HasDescriptor(Given[Dir(b)])
    <2>1. s = <<BaseLayer, s[2]>> /\ RightLayer(b, s[2])
      BY <1>5, <1>7 DEF ListInv
    <2>2. Len(s) = 2 /\ s[1] = BaseLayer
      BY <2>1
    <2> HIDE DEF s, t
    <2>3. Len(t) = 3 /\ t[1] = BaseLayer /\ t[2] = s[2] /\ t[3] = l /\ t # <<>>
      BY <1>4, <2>2
    <2>4. Complete(b, t)
      BY <1>2, <1>7, <2>1, <2>3 DEF Complete, RightLayer
    <2> QED
      BY <2>4 DEF s, t, l
  <1> QED
    BY <1>6, <1>7

\* What a step leaves alone when it touches neither descriptors nor layers.
LEMMA KeepBuild ==
  ASSUME NEW b \in Builds, UNCHANGED <<files, registry, key, img>>, BuildInv(b),
         Cached(b)' => Cached(b) \/ img[b] = NoLayer,
         main'[b] \in {"store", "return", "exited", "killed", "handle"}
  PROVE  FilesInv(b)' /\ StageInv(b)' /\ ImgInv(b)' /\ KeptInv(b)'
  <1>1. PartOf(b)' = PartOf(b) /\ GetCacheKey(b)' = GetCacheKey(b) /\ Final(b)' = Final(b)
    BY DEF PartOf, GetCacheKey, Final
  <1>2. FilesInv(b)'
    BY DEF BuildInv, FilesInv, FromGiven
  <1>3. StageInv(b)'
    BY DEF StageInv, Described, Settled
  <1>4. ImgInv(b)'
    BY <1>1 DEF BuildInv, ImgInv, Described
  <1>5. KeptInv(b)'
    BY <1>1 DEF BuildInv, KeptInv
  <1> QED
    BY <1>2, <1>3, <1>4, <1>5

\* A build that fails or is killed leaves its descriptors as they were if they
\* were final.
LEMMA StopBuildInv ==
  ASSUME TypeOK, NEW b \in Builds, BuildInv(b), Fail(b) \/ Kill(b)
  PROVE  BuildInv(b)'
  <1> USE DEF TypeOK, GoTo, lyrVars, endVars
  <1>1. /\ BuildStep(b) /\ UNCHANGED <<lyr_imgs, img, stored>>
        /\ main'[b] \in {"handle", "killed"}
        /\ main'[b] = "handle" =>
             raised'[b] # "none" /\ main[b] \notin {"return", "exited", "killed"}
    BY DEF BuildStep, Fail, Kill, ErrorsAt
  <1>2. FilesInv(b)' /\ (Final(b) => files' = files)
    BY <1>1, FileStep DEF BuildInv
  <1>3. StageInv(b)'
    BY <1>1 DEF StageInv, Described, Settled
  <1>4. ImgInv(b)'
    <2>1. CASE img[b] = NoLayer
      BY <1>1, <2>1 DEF ImgInv, Described
    <2>2. CASE img[b] # NoLayer
      <3>1. /\ img[b].part = PartOf(b) /\ img[b].env = Config[b].env /\ Final(b)
            /\ files' = files
        BY <1>2, <2>2 DEF BuildInv, ImgInv
      <3>2. PartOf(b)' = PartOf(b) /\ Final(b)' = Final(b)
        BY <3>1 DEF PartOf, Final
      <3> QED
        BY <1>1, <3>1, <3>2 DEF ImgInv, Described
    <2> QED
      BY <2>1, <2>2
  <1>5. KeptInv(b)'
    BY <1>1, NotKept
  <1>6. ListInv(b)' /\ EndInv(b)'
    BY <1>1 DEF BuildInv, ListInv, EndInv, Described
  <1> QED
    BY <1>2, <1>3, <1>4, <1>5, <1>6 DEF BuildInv

LEMMA EndBuildInv ==
  ASSUME TypeOK, NEW b \in Builds, BuildInv(b),
         AddApp(b) \/ Store(b) \/ Exit(b) \/ Handle(b)
  PROVE  BuildInv(b)'
  <1> USE DEF TypeOK, GoTo, AppendImg, dirVars, lyrVars, endVars, cacheVars
  <1>1. UNCHANGED <<files, registry, key, img>>
    BY DEF AddApp, Store, Exit, Handle
  <1>2. ListInv(b) /\ EndInv(b)
    BY DEF BuildInv
  <1>3. CASE AddApp(b)
    <2>1. /\ main[b] = "app" /\ main'[b] = "store" /\ UNCHANGED <<raised, stored>>
          /\ lyr_imgs'[b] = Append(lyr_imgs[b], [modules |-> modules[Dir(b)],
                                                 output |-> output[Dir(b)]])
      BY <1>3 DEF AddApp
    <2>2. Complete(b, lyr_imgs'[b])
      BY <2>1, AppComplete
    <2>3. ListInv(b)'
      BY <2>1, <2>2 DEF ListInv, Complete, Acceptable, Described
    <2>4. EndInv(b)'
      BY <1>2, <2>1 DEF EndInv
    <2> QED
      BY <1>1, <2>1, <2>3, <2>4, KeepBuild DEF BuildInv, Cached
  <1>4. CASE Store(b)
    <2>1. /\ main[b] = "store" /\ main'[b] = "return" /\ UNCHANGED <<raised, lyr_imgs>>
          /\ Wanting(b) => stored'[b] = lyr_imgs[b]
      BY <1>4 DEF Store, Wanting
    <2>2. lyr_imgs[b] # NoImage
      BY ValueAssumption
    <2>3. ListInv(b)' /\ EndInv(b)'
      BY <1>2, <2>1, <2>2 DEF ListInv, EndInv, Described, Wanting
    <2> QED
      BY <1>1, <2>1, <2>3, KeepBuild DEF BuildInv, Cached
  <1>5. CASE Exit(b) \/ Handle(b)
    <2>1. /\ main'[b] = "exited" /\ UNCHANGED <<lyr_imgs, raised, stored>>
          /\ main[b] = "return" \/ raised[b] # "none"
      BY <1>2, <1>5 DEF Exit, Handle, EndInv
    <2>2. ListInv(b)' /\ EndInv(b)'
      BY <2>1 DEF ListInv, EndInv, Described
    <2> QED
      BY <1>1, <2>1, <2>2, KeepBuild DEF BuildInv, Cached
  <1> QED
    BY <1>3, <1>4, <1>5

-------------------------------------------------------------------------------
(***************************************************************************)
(* The cache, and the whole invariant.                                     *)
(***************************************************************************)

\* An upload is of the layer that its build has.
LEMMA StepCacheSound ==
  ASSUME IInv, NEW b \in Builds, BuildStep(b)
  PROVE  CacheSound' /\ EntryInv'
  <1> USE DEF IInv
  <1>1. CASE Upload(b)
    <2> DEFINE k == GetCacheKey(b)
               l == img[b]
    <2>1. /\ k \in Cache!Keys /\ l \in Cache!Layers /\ l.part = PartOf(b)
          /\ l.env = Config[b].env /\ Cache!Set(k, l, Config[b])
      BY <1>1, RegistryStep
    <2>2. k.part = PartOf(b) /\ k.env = Config[b].env
      BY DEF GetCacheKey, Cache!KeyOf
    <2>3. img' = img
      BY <1>1 DEF Upload
    <2> HIDE DEF k, l
    <2>4. \A r \in Repos, j \in Cache!Keys :
            \/ registry'[r][j] = registry[r][j]
            \/ j = k /\ r = Config[b].repo /\ registry'[r][j] = l
      BY <2>1, SetEffect
    <2>5. CacheSound'
      <3>1. \A r \in Repos : DOMAIN registry'[r] = Cache!Keys
        BY <2>1, RegistryDomain DEF Cache!Set, TypeOK, Cache!CacheTypeOK
      <3> QED
        BY <2>1, <2>2, <2>4, <3>1, RegistryDomain DEF CacheSound
    <2>6. EntryInv'
      <3>1. ASSUME NEW r \in Repos, NEW j \in Cache!Keys, registry'[r][j] # NoLayer
            PROVE  \E e \in Builds : img[e] = registry'[r][j] /\ Config[e].repo = r
        <4>1. CASE registry'[r][j] = registry[r][j]
          BY <3>1, <4>1 DEF EntryInv
        <4>2. CASE r = Config[b].repo /\ registry'[r][j] = l
          BY <4>2 DEF l
        <4> QED
          BY <2>4, <4>1, <4>2
      <3> QED
        BY <2>3, <3>1 DEF EntryInv
    <2> QED
      BY <2>5, <2>6
  <1>2. CASE ~Upload(b)
    <2>1. registry' = registry
      BY <1>2, RegistryStep
    <2>2. \A e \in Builds : img[e] # NoLayer => img'[e] = img[e]
      <3>1. \A e \in Builds \ {b} : img'[e] = img[e]
        BY OthersSame DEF Same
      <3>2. img[b] # NoLayer => img'[b] = img[b]
        <4>1. CASE Hit(b) \/ Pack(b)
          <5>1. main[b] \in {"lookup", "pack"}
            BY <4>1 DEF Hit, Pack, Lookup
          <5> QED
            BY <5>1 DEF BuildInv, ImgInv, Described
        <4>2. CASE ~Hit(b) /\ ~Pack(b)
          BY <4>2 DEF BuildStep, Start, GenPackageLock, Clean, UpdateComposerLock, Miss,
             LostHit, BadTtl, GcpBuild, Install, Upload, AddApp, Store, Exit, Fail, Handle,
             Kill, lyrVars
        <4> QED
          BY <4>1, <4>2
      <3> QED
        BY <3>1, <3>2
    <2>3. CacheSound'
      BY <2>1 DEF CacheSound
    <2>4. EntryInv'
      <3>1. ASSUME NEW r \in Repos, NEW j \in Cache!Keys, registry'[r][j] # NoLayer
            PROVE  \E e \in Builds : img'[e] = registry'[r][j] /\ Config[e].repo = r
        <4>1. PICK e \in Builds : img[e] = registry[r][j] /\ Config[e].repo = r
          BY <2>1, <3>1 DEF EntryInv
        <4>2. img'[e] = img[e]
          BY <2>1, <2>2, <3>1, <4>1
        <4> QED
          BY <2>1, <4>1, <4>2
      <3> QED
        BY <3>1 DEF EntryInv
    <2> QED
      BY <2>3, <2>4
  <1> QED
    BY <1>1, <1>2

LEMMA InitIInv == Init => IInv
  <1> SUFFICES ASSUME Init PROVE IInv
    OBVIOUS
  <1>1. \A b \in Builds : Dir(b) \in Workspaces
    BY ConfigType
  <1>2. CacheSound /\ EntryInv
    BY DEF Init, Cache!CacheInit, CacheSound, EntryInv
  <1>3. ExclusiveInv
    BY DEF Init, ExclusiveInv, Idle
  <1>4. \A b \in Builds : BuildInv(b)
    <2> SUFFICES ASSUME NEW b \in Builds PROVE BuildInv(b)
      OBVIOUS
    <2>1. /\ files = Given /\ main[b] = "new" /\ lyr_imgs[b] = <<>> /\ img[b] = NoLayer
          /\ raised[b] = "none" /\ stored[b] = NoImage
      BY DEF Init
    <2>2. FilesInv(b)
      BY <1>1, <2>1, ConfigType DEF FilesInv, FromGiven, KeptLock, UsesYarn
    <2>3. StageInv(b)
      BY <2>1 DEF StageInv, Described, Settled
    <2>4. ImgInv(b) /\ ListInv(b) /\ EndInv(b) /\ KeptInv(b)
      BY <2>1 DEF ImgInv, ListInv, EndInv, KeptInv, Described
    <2> QED
      BY <2>2, <2>3, <2>4 DEF BuildInv
  <1> QED
    BY <1>2, <1>3, <1>4, InitTypeOK DEF IInv

LEMMA StepIInv == IInv /\ [Next]_vars => IInv'
  <1> SUFFICES ASSUME IInv, [Next]_vars PROVE IInv'
    OBVIOUS
  <1>1. ASSUME NEW b \in Builds, BuildStep(b) PROVE IInv'
    <2>1. TypeOK' /\ ExclusiveInv'
      BY <1>1, StepTypeOK, StepExclusive DEF IInv
    <2>2. BuildInv(b)'
      BY <1>1, PrepareBuildInv, LookupBuildInv, InstallBuildInv, LayerBuildInv, StopBuildInv,
         EndBuildInv
         DEF IInv, BuildStep
    <2>3. \A c \in Builds \ {b} : BuildInv(c)'
      BY <1>1, OthersBuildInv
    <2> QED
      BY <1>1, <2>1, <2>2, <2>3, StepCacheSound DEF IInv
  <1>2. CASE Publish \/ Pass \/ UNCHANGED vars
    <2>1. /\ UNCHANGED <<registry, dirVars, lyrVars, endVars, main, faults>>
          /\ now' \in Nat /\ release' \in 0 .. MaxRelease
      BY <1>2, BoundAssumption DEF Publish, Pass, Cache!Tick, vars, cacheVars, IInv, TypeOK,
         Cache!CacheTypeOK
    <2>2. TypeOK'
      BY <2>1 DEF IInv, TypeOK, Cache!CacheTypeOK, dirVars, lyrVars, endVars
    <2>3. CacheSound' /\ EntryInv' /\ ExclusiveInv'
      BY <2>1 DEF IInv, CacheSound, EntryInv, ExclusiveInv, lyrVars
    <2>4. \A c \in Builds : BuildInv(c)'
      <3> SUFFICES ASSUME NEW c \in Builds PROVE BuildInv(c)'
        OBVIOUS
      <3>1. BuildInv(c) /\ Same(c) /\ files' = files /\ modules' = modules
            /\ registry' = registry
        BY <2>1 DEF IInv, Same, dirVars, lyrVars, endVars
      <3>2. HasDescriptor(Given[Dir(c)]) => GetCacheKey(c) \in Cache!Keys
        BY PartType DEF IInv, BuildInv
      <3> QED
        BY <3>1, <3>2, FrameBuildInv
    <2> QED
      BY <2>2, <2>3, <2>4 DEF IInv
  <1> QED
    BY <1>1, <1>2 DEF Next

\* IInv holds in every reachable state of every instance.
THEOREM Inductive == Spec => []IInv
  BY InitIInv, StepIInv, PTL DEF Spec

-------------------------------------------------------------------------------
(***************************************************************************)
(* The properties.                                                         *)
(***************************************************************************)

\* Type correctness: what is in a directory, a list or the registry is what its
\* code puts there, never the None of a lookup.
THEOREM TypeCorrect == Spec => []TypeOK
  <1>1. IInv => TypeOK
    BY DEF IInv
  <1> QED
    BY <1>1, Inductive, PTL

\* Although npm, yarn and composer rewrite the descriptors between the lookup
\* and the upload, a layer is under the key of what it was installed from.
THEOREM CacheIsSound == Spec => []CacheSound
  <1>1. IInv => CacheSound
    BY DEF IInv
  <1> QED
    BY <1>1, Inductive, PTL

\* A layer that is not in its last hour is good, whatever the cut to the hour.
LEMMA FreshIsGood ==
  ASSUME TypeOK, NEW l \in Cache!Layers, Fresh(l)
  PROVE  Cache!CheckTTL(l)
  <1>1. l.built \in Nat /\ now \in Nat /\ TTL \in Nat \ {0} /\ TicksPerHour \in Nat \ {0}
    BY CacheAssumption DEF Cache!Layers, TypeOK, Cache!CacheTypeOK
  <1>2. l.built % TicksPerHour \in 0 .. TicksPerHour - 1
    BY <1>1
  <1>3. (TTL - 1) * TicksPerHour = TTL * TicksPerHour - TicksPerHour
    BY <1>1
  <1>4. TTL * TicksPerHour \in Int
    BY <1>1
  <1> HIDE DEF Cache!Layers
  <1> QED
    BY <1>1, <1>2, <1>3, <1>4 DEF Fresh, Cache!CheckTTL, Cache!CreationTime

\* A build that repeats another finds an entry, and a good one.
LEMMA RepeatHits ==
  ASSUME IInv, NEW b \in Builds, NEW c \in Builds, main[b] = "lookup", Repeats(b, c),
         Lang(b) = "node" => ~StaleLock(files[Dir(b)])
  PROVE  Cache!Get(GetCacheKey(b), Config[b]) # NoLayer
  <1> USE DEF IInv
  <1> DEFINE k == GetCacheKey(b)
             r == Config[b].repo
  <1>1. /\ BuildInv(b) /\ HasDescriptor(Given[Dir(b)]) /\ HasLock(files[Dir(b)])
        /\ k \in Cache!Keys /\ k.part = PartOf(b) /\ k.env = Config[b].env /\ r \in Repos
    BY PartType, ConfigType DEF BuildInv, StageInv, Described, Settled
  <1>2. files[Dir(b)] = files[Dir(c)]
    <2>1. Installed(b) = files[Dir(c)]
      BY DEF Repeats
    <2>2. CASE Lang(b) = "php"
      BY <2>1, <2>2 DEF Installed
    <2>3. CASE Lang(b) = "node"
      <3> DEFINE d == files[Dir(b)]
      <3>1. /\ d \in Descriptors /\ FromGiven(b, d) /\ release \in 0 .. MaxRelease
            /\ HasLock(d) /\ ~StaleLock(d)
        BY <1>1, <2>3, ConfigType DEF TypeOK, BuildInv, FilesInv
      <3>2. NodeFits(d)
        BY <3>1 DEF NodeFits, Fits, StaleLock, HasLock, UsesYarn, Descriptors
      <3>3. AfterNpmOrYarn(d) = d
        BY <1>1, <2>3, <3>1, <3>2, NpmFacts
      <3> QED
        BY <2>1, <2>3, <3>3 DEF Installed
    <2> QED
      BY <2>2, <2>3, ConfigType DEF Langs
  <1>3. /\ img[c] # NoLayer /\ Lang(b) = Lang(c) /\ Config[b].repo = Config[c].repo
        /\ Config[b].env = Config[c].env /\ Config[b].cache /\ ~Config[b].useGlobal
        /\ \A e \in Builds : SameEntry(c, e) => Fresh(img[e])
        /\ Cached(c) /\ Config[c].upload /\ ~Config[c].useGlobal
    BY DEF Repeats, Cached
  <1>4. GetCacheKey(c) = k /\ PartOf(c) = PartOf(b)
    BY <1>2, <1>3 DEF GetCacheKey, PartOf
  <1>5. img[c].part = PartOf(b) /\ img[c].env = Config[b].env
    BY <1>3, <1>4 DEF BuildInv, ImgInv
  <1>6. registry[r][k] # NoLayer
    BY <1>3, <1>4 DEF BuildInv, KeptInv
  <1> HIDE DEF k, r
  <1>7. registry[r][k] \in Cache!Layers
    BY <1>1, <1>6 DEF TypeOK, Cache!CacheTypeOK
  <1>8. PICK e \in Builds : img[e] = registry[r][k] /\ Config[e].repo = r
    BY <1>1, <1>6 DEF EntryInv
  <1>9. registry[r][k].part = PartOf(b) /\ registry[r][k].env = Config[b].env
    BY <1>1, <1>6, RegistryDomain DEF CacheSound
  <1>10. SameEntry(c, e)
    BY <1>3, <1>5, <1>6, <1>8, <1>9 DEF SameEntry, r
  <1>11. Cache!CheckTTL(registry[r][k])
    BY <1>3, <1>7, <1>8, <1>10, FreshIsGood
  <1>12. Cache!GetEntry(k, Config[b]) = registry[r][k]
    BY <1>3 DEF Cache!GetEntry, r
  <1> QED
    BY <1>3, <1>6, <1>11, <1>12 DEF Cache!Get, Cache!Found, k

\* What an earlier build has installed is not installed again while it is fresh
\* and the registry answers, although the builds of a project rewrite its
\* descriptors; a stale lock file of a Node project is excepted, which is
\* looked up under another key than its layer is stored under.
THEOREM NoRepeat == Spec => NoRepeatedInstall
  <1> DEFINE A == \A b, c \in Builds :
                    /\ main[b] = "lookup" /\ main'[b] \in {"gcp", "install"} /\ Repeats(b, c)
                    /\ Lang(b) = "node" => ~StaleLock(files[Dir(b)])
                    => faults'[b] > faults[b]
  <1>1. IInv /\ [Next]_vars => [A]_vars
    <2> SUFFICES ASSUME IInv, [Next]_vars, NEW b \in Builds, NEW c \in Builds,
                        main[b] = "lookup", main'[b] \in {"gcp", "install"}, Repeats(b, c),
                        Lang(b) = "node" => ~StaleLock(files[Dir(b)])
                 PROVE  faults'[b] > faults[b]
      OBVIOUS
    <2>1. main'[b] # main[b]
      OBVIOUS
    <2>2. BuildStep(b)
      <3>1. PICK e \in Builds : BuildStep(e)
        BY <2>1 DEF Next, Publish, Pass, vars
      <3> QED
        BY <2>1, <3>1, OthersSame DEF IInv, Same
    <2>3. Miss(b) \/ LostHit(b)
      BY <2>2 DEF BuildStep, Start, GenPackageLock, Clean, UpdateComposerLock, Hit, BadTtl,
         GcpBuild, Install, Pack, Upload, AddApp, Store, Exit, Fail, Handle, Kill, GoTo,
         IInv, TypeOK
    <2>4. ~Miss(b)
      BY RepeatHits DEF Miss
    <2>5. LostHit(b)
      BY <2>3, <2>4
    <2> QED
      BY <2>5 DEF LostHit, Fault, IInv, TypeOK
  <1> QED
    BY <1>1, Inductive, PTL DEF Spec, NoRepeatedInstall

-------------------------------------------------------------------------------
(***************************************************************************)
(* Refinement of ImageBuild.                                               *)
(***************************************************************************)

\* Steps at which a build neither begins, stores nor ends.
LEMMA Stutters ==
  ASSUME IInv, NEW b \in Builds, BuildStep(b),
         ~Start(b), ~Store(b), ~Exit(b), ~Handle(b), ~Kill(b)
  PROVE  UNCHANGED Abstract!vars
  <1> USE DEF IInv, TypeOK, GoTo, Build, Lookup, lyrVars, endVars
  <1>1. /\ stored' = stored
        /\ main[b] \notin {"new", "exited", "killed"}
        /\ main'[b] \notin {"new", "exited", "killed"}
    <2>1. CASE GenPackageLock(b) \/ Clean(b) \/ UpdateComposerLock(b)
      BY <2>1 DEF GenPackageLock, Clean, UpdateComposerLock
    <2>2. CASE Hit(b) \/ Miss(b) \/ LostHit(b) \/ BadTtl(b)
      BY <2>2 DEF Hit, Miss, LostHit, BadTtl
    <2>3. CASE GcpBuild(b) \/ Install(b) \/ Pack(b)
      BY <2>3 DEF GcpBuild, Install, Pack
    <2>4. CASE Upload(b) \/ AddApp(b)
      BY <2>4 DEF Upload, AddApp
    <2>5. CASE Fail(b)
      BY <2>5 DEF Fail, ErrorsAt
    <2> QED
      BY <2>1, <2>2, <2>3, <2>4, <2>5 DEF BuildStep
  <1>2. \A c \in Builds \ {b} : main'[c] = main[c] /\ raised'[c] = raised[c]
    BY OthersSame DEF Same
  <1>3. \A c \in Builds : Status(c)' = Status(c)
    BY <1>1, <1>2 DEF Status
  <1> QED
    BY <1>1, <1>3 DEF Abstract!vars

\* Every step of a build is a step of the abstract one, or none.
LEMMA StepImplements ==
  ASSUME IInv, [Next]_vars
  PROVE  [Abstract!Next]_(Abstract!vars)
  <1> USE DEF GoTo, IInv, TypeOK, BuildInv, EndInv
  <1>1. ASSUME NEW b \in Builds, Start(b) PROVE Abstract!Begin(b)
    <2>1. /\ main[b] = "new" /\ raised' = raised /\ stored' = stored
          /\ \E pc \in {"init", "clean"} : main' = [main EXCEPT ![b] = pc]
      BY <1>1 DEF Start, endVars
    <2>2. main'[b] \in {"init", "clean"} /\ \A c \in Builds \ {b} : main'[c] = main[c]
      BY <2>1
    <2> HIDE DEF GoTo, IInv, TypeOK, BuildInv, EndInv
    <2>3. Status(b) = "idle" /\ Status(b)' = "running"
      BY <2>1, <2>2 DEF Status
    <2>4. \A c \in Builds \ {b} : Status(c)' = Status(c)
      BY <2>1, <2>2 DEF Status
    <2> QED
      BY <2>1, <2>3, <2>4 DEF Abstract!Begin
  <1>2. ASSUME NEW b \in Builds, Store(b) PROVE Abstract!Deliver(b) \/ UNCHANGED Abstract!vars
    <2>1. /\ main[b] = "store" /\ main' = [main EXCEPT ![b] = "return"] /\ raised' = raised
      BY <1>2 DEF Store
    <2>2. [c \in Builds |-> Status(c)]' = [c \in Builds |-> Status(c)]
      BY <2>1 DEF Status
    <2>3. CASE Wanting(b)
      <3>1. stored' = [stored EXCEPT ![b] = lyr_imgs[b]]
        BY <1>2, <2>3 DEF Store, Wanting
      <3>2. stored[b] = NoImage /\ Complete(b, lyr_imgs[b]) /\ lyr_imgs[b] # NoImage
        <4>1. stored[b] = NoImage /\ Complete(b, lyr_imgs[b])
          BY <2>1 DEF ListInv
        <4>2. lyr_imgs[b] # NoImage
          BY ValueAssumption
        <4> QED
          BY <4>1, <4>2
      <3>3. stored'[b] = lyr_imgs[b] /\ Status(b) = "running"
        BY <2>1, <3>1 DEF Status
      <3> QED
        BY <2>2, <2>3, <3>1, <3>2, <3>3 DEF Abstract!Deliver, Wanting
    <2>4. CASE ~Wanting(b)
      BY <1>2, <2>2, <2>4 DEF Store, Wanting, Abstract!vars
    <2> QED
      BY <2>3, <2>4
  <1>3. ASSUME NEW b \in Builds, Exit(b) PROVE Abstract!Succeed(b)
    <2>1. /\ main[b] = "return" /\ main' = [main EXCEPT ![b] = "exited"]
          /\ raised' = raised /\ stored' = stored /\ raised[b] = "none"
          /\ Wanting(b) => stored[b] # NoImage
      BY <1>3 DEF Exit
    <2> QED
      BY <2>1 DEF Abstract!Succeed, Status, Wanting
  <1>4. ASSUME NEW b \in Builds, Handle(b) PROVE Abstract!Fail(b)
    <2>1. /\ main[b] = "handle" /\ main' = [main EXCEPT ![b] = "exited"]
          /\ raised' = raised /\ stored' = stored /\ raised[b] # "none"
      BY <1>4 DEF Handle
    <2> QED
      BY <2>1 DEF Abstract!Fail, Status
  <1>5. ASSUME NEW b \in Builds, Kill(b) PROVE Abstract!Fail(b)
    <2>1. /\ main[b] \notin {"new", "exited", "killed"} /\ main' = [main EXCEPT ![b] = "killed"]
          /\ raised' = raised /\ stored' = stored
      BY <1>5 DEF Kill, Idle, endVars
    <2> QED
      BY <2>1 DEF Abstract!Fail, Status
  <1>6. CASE Publish \/ Pass \/ UNCHANGED vars
    BY <1>6 DEF Publish, Pass, vars, endVars, Status, Abstract!vars
  <1> QED
    BY <1>1, <1>2, <1>3, <1>4, <1>5, <1>6, Stutters DEF Next, Abstract!Next

\* A build, with what it finds in its directory and in the cache, keeps the
\* promise of ImageBuild: at most one image, a complete one, and success only
\* with it.
THEOREM Implements == Spec => ImplementsImageBuild
  <1>1. Init => Abstract!Init
    BY DEF Init, Abstract!Init, Status
  <1>2. IInv /\ [Next]_vars => [Abstract!Next]_(Abstract!vars)
    BY StepImplements
  <1> QED
    BY <1>1, <1>2, Inductive, PTL DEF Spec, ImplementsImageBuild, Abstract!Spec

===============================================================================
