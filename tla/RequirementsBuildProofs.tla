------------------------ MODULE RequirementsBuildProofs ------------------------
(***************************************************************************)
(* Proofs about RequirementsBuild, for any projects, requirements files,   *)
(* threads and failures.                                                   *)
(***************************************************************************)
EXTENDS RequirementsBuild, SequenceTheorems, TLAPS

-------------------------------------------------------------------------------
(***************************************************************************)
(* The inductive invariant: what holds of every build, and of the cache.   *)
(***************************************************************************)
InterpLayer(e) == [part |-> Interp, env |-> e, built |-> 0]

\* An interpreter's tag holds that interpreter.
InterpSound ==
  \A r \in Repos, e \in Envs :
    LET layer == registry[r][Cache!KeyOf(Interp, e)]
    IN  layer # NoLayer => layer = InterpLayer(e)

\* Before the pool no package has a job; past it, and while no exception is on
\* its way, every wheel has its layer in the list.
BeforePool == {"new", "interp", "makeInterp", "putInterp", "lookup", "download", "install"}

PoolInv(b) ==
  /\ req_txt_imgs[b] = {p \in Packages : job[b][p] = "ok"}
  /\ main[b] \in BeforePool => \A p \in Packages : job[b][p] = "none"
  /\ main[b] \in {"install", "watch", "join", "stitch"} => wheels[b] = Wanted(Files(b))
  /\ main[b] \in {"watch", "join", "stitch"} =>
       \A p \in Packages \ wheels[b] : job[b][p] = "none"
  /\ main[b] = "stitch" \/ (main[b] = "join" /\ raised[b] = "none") =>
       \A p \in wheels[b] : job[b][p] = "ok"

\* The image at work when it is about to be put into the cache.
ImgInv(b) ==
  /\ main[b] = "putInterp" => img[b] = InterpLayer(Config[b].env)
  /\ main[b] = "upload" =>
       /\ img[b] = [part |-> [pkgs |-> Wanted(Files(b))], env |-> Config[b].env, built |-> 0]
       /\ img[b] # NoLayer

\* The layer that may stand for the requirements of build b.
RightLayer(b, layer) ==
  /\ layer \in Cache!Layers
  /\ IF KeyCovers(b)
       THEN layer.part = [pkgs |-> Wanted(Files(b))] /\ layer.env = Config[b].env
       ELSE Serves(layer, Text(Files(b)), Config[b].env)

\* The list of images at every control point.
ListInv(b) ==
  LET interp == InterpLayer(Config[b].env)
  IN  /\ main[b] = "new" => lyr_imgs[b] = <<>>
      /\ main[b] \in {"interp", "makeInterp", "putInterp"} => lyr_imgs[b] = <<BaseLayer>>
      /\ main[b] \in {"lookup", "download", "install", "watch", "join", "stitch", "upload"} =>
           lyr_imgs[b] = <<BaseLayer, interp>>
      /\ main[b] = "app" =>
           \/ Wanted(Files(b)) = {} /\ lyr_imgs[b] = <<BaseLayer, interp>>
           \/ /\ RightLayer(b, lyr_imgs[b][3])
              /\ lyr_imgs[b] = <<BaseLayer, interp, lyr_imgs[b][3]>>
      /\ main[b] = "store" => Complete(b, lyr_imgs[b])

Wanting(b) == Config[b].tarball \/ Config[b].upload

EndInv(b) ==
  /\ main[b] \notin {"join", "handle", "exited", "killed"} => raised[b] = "none"
  /\ main[b] = "handle" => raised[b] # "none"
  /\ main[b] \notin {"return", "exited", "killed"} => stored[b] = NoImage
  /\ main[b] = "return" /\ Wanting(b) => stored[b] # NoImage

BuildInv(b) == PoolInv(b) /\ ImgInv(b) /\ ListInv(b) /\ EndInv(b)

IInv == TypeOK /\ CachedWhole /\ InterpSound /\ \A b \in Builds : BuildInv(b)

-------------------------------------------------------------------------------
(***************************************************************************)
(* Descriptors: what the key of a project says about what pip reads.       *)
(***************************************************************************)
LEMMA TextType ==
  ASSUME NEW b \in Builds
  PROVE  /\ Files(b) \in Descriptors /\ Config[b].env \in Envs /\ Config[b].repo \in Repos
         /\ Text(Files(b)) \in Texts
  BY ConfigAssumption DEF Configs, Files, Texts

\* A text carries the Pipfile, without one also the requirements.txt, and the
\* files the latter includes.
LEMMA TextFields ==
  ASSUME NEW b \in Builds
  PROVE  LET d == Files(b)
         IN  /\ Text(d).pipfile = d.pipfile
             /\ d.pipfile = Absent => Text(d).req = d.req
             /\ \A f \in FirstLevel(d) \cap FileNames : Text(d).other[f] = d.other[f]
  <1>1. Files(b) \in Descriptors
    BY TextType
  <1> QED
    BY <1>1 DEF Text, Descriptors

\* The files a requirements.txt includes are closed under inclusion, and are
\* in every set that is.
LEMMA IncludedLeast ==
  ASSUME NEW d \in Descriptors, d.req \in Lists
  PROVE  /\ d.req.refs \subseteq Included(d) /\ Included(d) \subseteq FileNames
         /\ \A f \in Included(d) : d.other[f] # Absent => d.other[f].refs \subseteq Included(d)
         /\ \A S \in SUBSET FileNames :
              /\ d.req.refs \subseteq S
              /\ \A f \in S : d.other[f] # Absent => d.other[f].refs \subseteq S
              => Included(d) \subseteq S
  <1>1. /\ d.req.refs \subseteq FileNames
        /\ \A f \in FileNames : d.other[f] # Absent => d.other[f].refs \subseteq FileNames
    BY DEF Descriptors, Lists
  <1>2. d.req.refs \subseteq Included(d) /\ Included(d) \subseteq FileNames
    BY <1>1 DEF Included
  <1>3. ASSUME NEW f \in Included(d), d.other[f] # Absent, NEW g \in d.other[f].refs
        PROVE  g \in Included(d)
    <2>1. f \in FileNames /\ g \in FileNames
      BY <1>1, <1>2, <1>3
    <2>2. ASSUME NEW S \in SUBSET FileNames, d.req.refs \subseteq S,
                 \A h \in S : d.other[h] # Absent => d.other[h].refs \subseteq S
          PROVE  g \in S
      BY <1>3, <2>2 DEF Included
    <2> QED
      BY <2>1, <2>2 DEF Included
  <1>4. ASSUME NEW S \in SUBSET FileNames, d.req.refs \subseteq S,
               \A f \in S : d.other[f] # Absent => d.other[f].refs \subseteq S
        PROVE  Included(d) \subseteq S
    BY <1>4 DEF Included
  <1> QED
    BY <1>2, <1>3, <1>4

\* Where the key covers what pip reads, the same key means the same packages.
LEMMA SameTextSameWanted ==
  ASSUME NEW b \in Builds, NEW c \in Builds, KeyCovers(b), Text(Files(c)) = Text(Files(b))
  PROVE  Wanted(Files(c)) = Wanted(Files(b))
  <1> DEFINE d == Files(b)
             e == Files(c)
  <1>1. d \in Descriptors /\ e \in Descriptors
    BY TextType
  <1>2. d.pipfile = Absent /\ e.pipfile = Absent /\ e.req = d.req
    BY TextFields DEF KeyCovers
  <1>3. CASE d.req \in Lists
    <2>1. /\ FirstLevel(d) = d.req.refs /\ FirstLevel(e) = d.req.refs
          /\ Included(d) = d.req.refs /\ d.req.refs \subseteq FileNames
      BY <1>1, <1>2, <1>3, FileAssumption, IncludedLeast DEF FirstLevel, KeyCovers, HasList
    <2>2. \A f \in d.req.refs : e.other[f] = d.other[f]
      BY <2>1, TextFields
    <2>3. Included(e) = d.req.refs
      <3>1. \A f \in d.req.refs : e.other[f] # Absent => e.other[f].refs \subseteq d.req.refs
        BY <1>1, <1>3, <2>1, <2>2, IncludedLeast
      <3> HIDE DEF d, e
      <3>2. Included(e) \subseteq d.req.refs
        BY <1>1, <1>2, <1>3, <2>1, <3>1, IncludedLeast
      <3> QED
        BY <1>1, <1>2, <1>3, <3>2, IncludedLeast
    <2>4. UNION {e.other[f].pkgs : f \in d.req.refs} = UNION {d.other[f].pkgs : f \in d.req.refs}
      BY <2>2
    <2> HIDE DEF d, e
    <2>5. Wanted(e) = d.req.pkgs \cup UNION {e.other[f].pkgs : f \in d.req.refs}
      BY <1>2, <1>3, <2>3 DEF Wanted
    <2>6. Wanted(d) = d.req.pkgs \cup UNION {d.other[f].pkgs : f \in d.req.refs}
      BY <1>3, <2>1 DEF Wanted
    <2> QED
      BY <2>4, <2>5, <2>6 DEF d, e
  <1>4. CASE d.req \notin Lists
    BY <1>2, <1>4 DEF Wanted
  <1> QED
    BY <1>3, <1>4

\* What serves the text of a build may stand for its requirements.
LEMMA ServesIsRight ==
  ASSUME NEW b \in Builds, NEW l \in Cache!Layers, Serves(l, Text(Files(b)), Config[b].env)
  PROVE  RightLayer(b, l)
  BY SameTextSameWanted DEF RightLayer, Serves

\* Without a descriptor no package is wanted.
LEMMA NoDescriptorNothingWanted ==
  ASSUME NEW b \in Builds, ~HasDescriptor(b)
  PROVE  Wanted(Files(b)) = {}
  BY FileAssumption DEF HasDescriptor, HasList, Wanted

\* What pip can read are packages.
LEMMA WantedType ==
  ASSUME NEW b \in Builds, Readable(Files(b))
  PROVE  Wanted(Files(b)) \subseteq Packages
  <1> DEFINE d == Files(b)
  <1>1. d \in Descriptors /\ d.req \in Lists
    BY TextType DEF Readable
  <1>2. Included(d) \subseteq FileNames
    BY <1>1, IncludedLeast
  <1>3. \A f \in Included(d) : d.other[f] \in Lists
    BY <1>1, <1>2 DEF Readable, Descriptors
  <1>4. \A f \in Included(d) : d.other[f].pkgs \subseteq Packages
    BY <1>3 DEF Lists
  <1>5. d.req.pkgs \subseteq Packages
    BY <1>1 DEF Lists
  <1> HIDE DEF d
  <1>6. Wanted(d) = d.req.pkgs \cup UNION {d.other[f].pkgs : f \in Included(d)}
    BY <1>1 DEF Wanted
  <1>7. Wanted(d) \subseteq Packages
    BY <1>4, <1>5, <1>6
  <1> QED
    BY <1>7 DEF d

-------------------------------------------------------------------------------
(***************************************************************************)
(* The cache: three kinds of keys, which never meet.                       *)
(***************************************************************************)
LEMMA KeyType ==
  ASSUME NEW b \in Builds
  PROVE  /\ InterpKey(b) \in Cache!Keys /\ ReqKey(b) \in Cache!Keys
         /\ LookupKey(b) \in Cache!Keys /\ PackageKey \in Cache!Keys
  <1>1. Config[b].env \in Envs /\ Text(Files(b)) \in Texts
    BY TextType
  <1>2. (CHOOSE e \in Envs : TRUE) \in Envs
    BY <1>1
  <1> QED
    BY <1>1, <1>2 DEF InterpKey, ReqKey, LookupKey, PackageKey, Cache!KeyOf, Cache!Keys,
                      Cache!Parts

\* A hit is an entry of a repository under the key looked up.
LEMMA HitIsEntry ==
  ASSUME NEW b \in Builds, NEW k, Cache!Get(k, Config[b]) # NoLayer
  PROVE  \E r \in Repos : /\ Cache!Get(k, Config[b]) = registry[r][k]
                          /\ registry[r][k] # NoLayer
  BY TextType, CacheAssumption DEF Cache!Get, Cache!Found, Cache!GetEntry

\* Set keeps what other tags hold, and keeps the registry in shape.
LEMMA SetEffect ==
  ASSUME TypeOK, NEW b \in Builds, NEW k \in Cache!Keys, NEW l \in Cache!Layers,
         Cache!Set(k, l, Config[b])
  PROVE  /\ registry' \in [Repos -> [Cache!Keys -> Cache!Layers \cup {NoLayer}]]
         /\ \A r \in Repos, j \in Cache!Keys :
              registry'[r][j] = registry[r][j] \/ (j = k /\ registry'[r][j] = l)
  BY TextType DEF Cache!Set, TypeOK

\* What the three kinds of uploads write.
LEMMA SetSound ==
  ASSUME TypeOK, CachedWhole, InterpSound, NEW b \in Builds, NEW k \in Cache!Keys,
         NEW l \in Cache!Layers, Cache!Set(k, l, Config[b]),
         \/ k = InterpKey(b) /\ l = InterpLayer(Config[b].env)
         \/ k = ReqKey(b) /\ Serves(l, Text(Files(b)), Config[b].env)
         \/ k = PackageKey
  PROVE  CachedWhole' /\ InterpSound'
  <1>1. \A e \in Envs : /\ Cache!KeyOf(Interp, e) \in Cache!Keys
                        /\ \A t \in Texts : Cache!KeyOf(t, e) \in Cache!Keys
    BY DEF Cache!KeyOf, Cache!Keys, Cache!Parts
  <1>2. ASSUME NEW r \in Repos, NEW e \in Envs, NEW t \in Texts,
               registry'[r][Cache!KeyOf(t, e)] # NoLayer
        PROVE  Serves(registry'[r][Cache!KeyOf(t, e)], t, e)
    <2>1. CASE registry'[r][Cache!KeyOf(t, e)] = registry[r][Cache!KeyOf(t, e)]
      BY <1>2, <2>1 DEF CachedWhole
    <2>2. CASE Cache!KeyOf(t, e) = k /\ registry'[r][Cache!KeyOf(t, e)] = l
      <3>1. k.part = t /\ k.env = e
        BY <2>2 DEF Cache!KeyOf
      <3>2. k = ReqKey(b)
        BY <3>1, CacheAssumption DEF InterpKey, PackageKey, Cache!KeyOf
      <3>3. t = Text(Files(b)) /\ e = Config[b].env
        BY <3>1, <3>2 DEF ReqKey, Cache!KeyOf
      <3>4. Serves(l, Text(Files(b)), Config[b].env)
        BY <3>1, <3>2, <3>3, CacheAssumption, TextType
           DEF InterpKey, PackageKey, Cache!KeyOf
      <3> QED
        BY <2>2, <3>3, <3>4
    <2> QED
      BY <1>1, <2>1, <2>2, SetEffect
  <1>3. ASSUME NEW r \in Repos, NEW e \in Envs, registry'[r][Cache!KeyOf(Interp, e)] # NoLayer
        PROVE  registry'[r][Cache!KeyOf(Interp, e)] = InterpLayer(e)
    <2>1. CASE registry'[r][Cache!KeyOf(Interp, e)] = registry[r][Cache!KeyOf(Interp, e)]
      BY <1>3, <2>1 DEF InterpSound
    <2>2. CASE Cache!KeyOf(Interp, e) = k /\ registry'[r][Cache!KeyOf(Interp, e)] = l
      <3>1. k.part = Interp /\ k.env = e
        BY <2>2 DEF Cache!KeyOf
      <3>2. k = InterpKey(b) /\ k # ReqKey(b) /\ k # PackageKey
        BY <3>1, CacheAssumption, TextType DEF ReqKey, PackageKey, Cache!KeyOf
      <3> QED
        BY <2>2, <3>1, <3>2 DEF InterpKey, Cache!KeyOf
    <2> QED
      BY <1>1, <2>1, <2>2, SetEffect
  <1>4. CachedWhole'
    BY <1>2 DEF CachedWhole
  <1>5. InterpSound'
    BY <1>3 DEF InterpSound
  <1> QED
    BY <1>4, <1>5

-------------------------------------------------------------------------------
(***************************************************************************)
(* Type correctness.                                                       *)
(***************************************************************************)
LEMMA InitTypeOK == Init => TypeOK
  BY DEF Init, TypeOK, MainState, Idle, JobState

LEMMA LayerTypes ==
  ASSUME NEW b \in Builds
  PROVE  /\ InterpLayer(Config[b].env) \in Cache!Layers
         /\ \A S \in SUBSET Packages :
              [part |-> [pkgs |-> S], env |-> Config[b].env, built |-> 0] \in Cache!Layers
         /\ InterpLayer(Config[b].env) # NoLayer
  BY TextType, CacheAssumption DEF InterpLayer, Cache!Layers, Cache!Parts, Bundles

LEMMA LookupTypeOK ==
  ASSUME TypeOK, NEW b \in Builds,
         Start(b) \/ Hit(b) \/ Miss(b) \/ LostHit(b) \/ BadLookup(b)
  PROVE  TypeOK'
  <1> USE DEF TypeOK, GoTo, AppendImg, Raise, lyrVars, poolVars, endVars, MainState, Idle,
              AfterInterp, AfterMiss
  <1>1. CASE Start(b)
    BY <1>1 DEF Start, ImageLayers
  <1>2. CASE Hit(b)
    <2> DEFINE hit == Cache!Get(LookupKey(b), Config[b])
    <2>1. hit \in Cache!Layers
      <3>1. hit # NoLayer /\ LookupKey(b) \in Cache!Keys
        BY <1>2, KeyType DEF Hit
      <3>2. PICK r \in Repos : hit = registry[r][LookupKey(b)]
        BY <3>1, HitIsEntry
      <3> HIDE DEF hit
      <3> QED
        BY <3>1, <3>2
    <2> HIDE DEF hit
    <2>2. AppendImg(b, hit)
      BY <1>2 DEF Hit, hit
    <2>3. Append(lyr_imgs[b], hit) \in Seq(ImageLayers)
      BY <2>1 DEF ImageLayers
    <2> QED
      BY <1>2, <2>2, <2>3 DEF Hit
  <1>3. CASE Miss(b)
    BY <1>3 DEF Miss
  <1>4. CASE LostHit(b)
    BY <1>4 DEF LostHit, Fault
  <1>5. CASE BadLookup(b)
    BY <1>5 DEF BadLookup, Errors
  <1> QED
    BY <1>1, <1>2, <1>3, <1>4, <1>5

LEMMA MakeTypeOK ==
  ASSUME TypeOK, NEW b \in Builds, ImgInv(b),
         \/ MakeInterp(b) \/ PutInterp(b) \/ Download(b) \/ NothingToDownload(b) \/ Install(b)
         \/ Stitch(b) \/ Upload(b)
  PROVE  TypeOK'
  <1> USE DEF TypeOK, GoTo, SetImg, AppendImg, Raise, lyrVars, poolVars, endVars, MainState,
              Idle, AfterInterp
  <1>1. CASE MakeInterp(b)
    BY <1>1, LayerTypes DEF MakeInterp, InterpLayer
  <1>2. CASE PutInterp(b) \/ Upload(b)
    <2>1. img[b] \in Cache!Layers
      <3>1. CASE PutInterp(b)
        BY <3>1, LayerTypes DEF PutInterp, ImgInv
      <3>2. CASE Upload(b)
        BY <3>2 DEF Upload, ImgInv
      <3> QED
        BY <1>2, <3>1, <3>2
    <2>2. registry' \in [Repos -> [Cache!Keys -> Cache!Layers \cup {NoLayer}]]
      BY <1>2, <2>1, KeyType, SetEffect DEF PutInterp, Upload
    <2>3. Append(lyr_imgs[b], img[b]) \in Seq(ImageLayers)
      BY <2>1 DEF ImageLayers
    <2>4. /\ lyr_imgs' = [lyr_imgs EXCEPT ![b] = Append(lyr_imgs[b], img[b])]
          /\ img' = [img EXCEPT ![b] = NoLayer]
          /\ main' = [main EXCEPT ![b] = "lookup"] \/ main' = [main EXCEPT ![b] = "app"]
          /\ UNCHANGED <<poolVars, endVars, faults>>
      BY <1>2 DEF PutInterp, Upload
    <2> QED
      BY <2>2, <2>3, <2>4
  <1>3. CASE Download(b)
    BY <1>3, WantedType DEF Download
  <1>4. CASE NothingToDownload(b)
    BY <1>4 DEF NothingToDownload, Errors
  <1>5. CASE Install(b)
    BY <1>5 DEF Install, JobState
  <1>6. CASE Stitch(b)
    <2>1. [part |-> [pkgs |-> req_txt_imgs[b]], env |-> Config[b].env, built |-> 0]
            \in Cache!Layers
      BY LayerTypes
    <2>2. CASE req_txt_imgs[b] = {}
      BY <1>6, <2>2 DEF Stitch
    <2>3. CASE req_txt_imgs[b] # {}
      <3> DEFINE l == [part |-> [pkgs |-> req_txt_imgs[b]], env |-> Config[b].env, built |-> 0]
      <3>1. /\ img' = [img EXCEPT ![b] = l] /\ main' = [main EXCEPT ![b] = "upload"]
            /\ UNCHANGED <<registry, lyr_imgs, poolVars, endVars, faults>>
        BY <1>6, <2>3 DEF Stitch
      <3> HIDE DEF l
      <3>2. l \in Cache!Layers
        BY <2>1 DEF l
      <3> QED
        BY <3>1, <3>2
    <2> QED
      BY <2>2, <2>3
  <1> QED
    BY <1>1, <1>2, <1>3, <1>4, <1>5, <1>6

LEMMA JobTypeOK ==
  ASSUME TypeOK, NEW b \in Builds, NEW p \in Packages,
         JobStart(b, p) \/ JobPack(b, p) \/ JobAppend(b, p) \/ JobFail(b, p)
  PROVE  TypeOK'
  <1> USE DEF TypeOK, JobGoTo, lyrVars, poolVars, endVars, JobState, Active, Errors
  <1>1. CASE JobStart(b, p)
    BY <1>1 DEF JobStart
  <1>2. CASE JobPack(b, p)
    <2>1. registry' \in [Repos -> [Cache!Keys -> Cache!Layers \cup {NoLayer}]]
      BY <1>2, KeyType, LayerTypes, SetEffect DEF JobPack
    <2> QED
      BY <1>2, <2>1 DEF JobPack
  <1>3. CASE JobAppend(b, p)
    BY <1>3 DEF JobAppend
  <1>4. CASE JobFail(b, p)
    BY <1>4 DEF JobFail, Fault
  <1> QED
    BY <1>1, <1>2, <1>3, <1>4

LEMMA EndTypeOK ==
  ASSUME TypeOK, NEW b \in Builds,
         \/ ObserveFailure(b) \/ LeaveLoop(b) \/ Join(b) \/ AddApp(b) \/ Store(b) \/ Exit(b)
         \/ Fail(b) \/ Handle(b) \/ Kill(b)
  PROVE  TypeOK'
  <1> USE DEF TypeOK, GoTo, AppendImg, Raise, lyrVars, poolVars, endVars, MainState, Idle
  <1>1. CASE ObserveFailure(b)
    BY <1>1 DEF ObserveFailure
  <1>2. CASE LeaveLoop(b) \/ Join(b) \/ Exit(b) \/ Handle(b) \/ Kill(b)
    BY <1>2 DEF LeaveLoop, Join, Joined, Exit, Handle, Kill
  <1>3. CASE AddApp(b)
    BY <1>3 DEF AddApp, ImageLayers
  <1>4. CASE Store(b)
    BY <1>4 DEF Store
  <1>5. CASE Fail(b)
    BY <1>5 DEF Fail, Fault, ErrorsAt, Errors
  <1> QED
    BY <1>1, <1>2, <1>3, <1>4, <1>5

-------------------------------------------------------------------------------
(***************************************************************************)
(* Lists of images.                                                        *)
(***************************************************************************)
LEMMA AppendFacts ==
  ASSUME NEW S, NEW s \in Seq(S), NEW x \in S
  PROVE  /\ Append(s, x) \in Seq(S) /\ Len(Append(s, x)) = Len(s) + 1
         /\ \A i \in 1 .. Len(s) : Append(s, x)[i] = s[i]
         /\ Append(s, x)[Len(s) + 1] = x
  BY AppendProperties

LEMMA AppendTwo ==
  ASSUME NEW x, NEW y
  PROVE  Append(<<x>>, y) = <<x, y>>
  <1> DEFINE S == {x, y}
             s == <<x>>
             t == <<x, y>>
  <1>1. s \in Seq(S) /\ t \in Seq(S) /\ y \in S /\ Len(s) = 1 /\ s[1] = x
    OBVIOUS
  <1>2. Len(t) = 2 /\ t[1] = x /\ t[2] = y
    OBVIOUS
  <1> HIDE DEF S, s, t
  <1>3. /\ Append(s, y) \in Seq(S) /\ Len(Append(s, y)) = Len(s) + 1
        /\ \A i \in 1 .. Len(s) : Append(s, y)[i] = s[i]
        /\ Append(s, y)[Len(s) + 1] = y
    BY <1>1, AppendFacts
  <1>4. Len(Append(s, y)) = Len(t) /\ \A i \in 1 .. Len(Append(s, y)) : Append(s, y)[i] = t[i]
    BY <1>1, <1>2, <1>3
  <1>5. Append(s, y) = t
    BY <1>1, <1>3, <1>4, SeqEqual
  <1> QED
    BY <1>5 DEF s, t

LEMMA AppendThree ==
  ASSUME NEW x, NEW y, NEW z
  PROVE  Append(<<x, y>>, z) = <<x, y, z>> /\ <<x, y, z>>[3] = z
  <1> DEFINE S == {x, y, z}
             s == <<x, y>>
             t == <<x, y, z>>
  <1>1. s \in Seq(S) /\ t \in Seq(S) /\ z \in S /\ Len(s) = 2 /\ s[1] = x /\ s[2] = y
    OBVIOUS
  <1>2. Len(t) = 3 /\ t[1] = x /\ t[2] = y /\ t[3] = z
    OBVIOUS
  <1> HIDE DEF S, s, t
  <1>3. /\ Append(s, z) \in Seq(S) /\ Len(Append(s, z)) = Len(s) + 1
        /\ \A i \in 1 .. Len(s) : Append(s, z)[i] = s[i]
        /\ Append(s, z)[Len(s) + 1] = z
    BY <1>1, AppendFacts
  <1>4. Len(Append(s, z)) = Len(t) /\ \A i \in 1 .. Len(Append(s, z)) : Append(s, z)[i] = t[i]
    BY <1>1, <1>2, <1>3
  <1>5. Append(s, z) = t
    BY <1>1, <1>3, <1>4, SeqEqual
  <1> QED
    BY <1>2, <1>5 DEF s, t

-------------------------------------------------------------------------------
(***************************************************************************)
(* What a step leaves alone.                                               *)
(***************************************************************************)

\* Nothing of a build changes.
Same(c) ==
  /\ main'[c] = main[c] /\ lyr_imgs'[c] = lyr_imgs[c] /\ img'[c] = img[c]
  /\ wheels'[c] = wheels[c] /\ job'[c] = job[c] /\ req_txt_imgs'[c] = req_txt_imgs[c]
  /\ raised'[c] = raised[c] /\ stored'[c] = stored[c]

LEMMA FrameBuildInv ==
  ASSUME NEW c \in Builds, BuildInv(c), Same(c)
  PROVE  BuildInv(c)'
  <1> USE DEF Same, BuildInv
  <1>1. PoolInv(c)'
    BY DEF PoolInv
  <1>2. ImgInv(c)'
    BY DEF ImgInv
  <1>3. ListInv(c)'
    BY DEF ListInv
  <1>4. EndInv(c)'
    BY DEF EndInv
  <1> QED
    BY <1>1, <1>2, <1>3, <1>4

\* A step is of one build.
LEMMA OthersSame ==
  ASSUME TypeOK, NEW b \in Builds, BuildStep(b), NEW c \in Builds \ {b}
  PROVE  Same(c)
  <1> USE DEF TypeOK, Same, GoTo, SetImg, AppendImg, Raise, JobGoTo, lyrVars, poolVars, endVars
  <1>1. CASE Start(b) \/ Hit(b) \/ Miss(b) \/ LostHit(b) \/ BadLookup(b)
    BY <1>1 DEF Start, Hit, Miss, LostHit, BadLookup
  <1>2. CASE MakeInterp(b) \/ PutInterp(b) \/ Download(b) \/ NothingToDownload(b)
    BY <1>2 DEF MakeInterp, PutInterp, Download, NothingToDownload
  <1>3. CASE Install(b)
    BY <1>3 DEF Install
  <1>4. ASSUME NEW p \in Packages,
               JobStart(b, p) \/ JobPack(b, p) \/ JobAppend(b, p) \/ JobFail(b, p)
        PROVE  Same(c)
    BY <1>4 DEF JobStart, JobPack, JobAppend, JobFail
  <1>5. CASE ObserveFailure(b) \/ LeaveLoop(b) \/ Join(b) \/ Stitch(b) \/ Upload(b)
    BY <1>5 DEF ObserveFailure, LeaveLoop, Join, Stitch, Upload
  <1>6. CASE AddApp(b) \/ Store(b) \/ Exit(b) \/ Fail(b) \/ Handle(b) \/ Kill(b)
    BY <1>6 DEF AddApp, Store, Exit, Fail, Handle, Kill
  <1> QED
    BY <1>1, <1>2, <1>3, <1>4, <1>5, <1>6 DEF BuildStep

-------------------------------------------------------------------------------
(***************************************************************************)
(* The build that takes a step keeps what holds of it.                     *)
(***************************************************************************)

\* Steps that change neither the pool, nor the image at work, nor the list,
\* nor the ends, and only move the main thread.
LEMMA LookupBuildInv ==
  ASSUME TypeOK, CachedWhole, InterpSound, NEW b \in Builds, BuildInv(b),
         Start(b) \/ Hit(b) \/ Miss(b) \/ LostHit(b) \/ BadLookup(b)
  PROVE  BuildInv(b)'
  <1> USE DEF BuildInv, BeforePool
  <1>1. /\ UNCHANGED <<img, poolVars, exitCode, stored>>
        /\ \A c \in Builds : wheels'[c] = wheels[c] /\ job'[c] = job[c]
                             /\ req_txt_imgs'[c] = req_txt_imgs[c] /\ img'[c] = img[c]
                             /\ stored'[c] = stored[c]
    BY DEF Start, Hit, Miss, LostHit, BadLookup, Raise, lyrVars, poolVars, endVars
  <1>2. CASE Start(b)
    <2>1. /\ main[b] = "new" /\ main'[b] = "interp" /\ raised'[b] = raised[b]
          /\ lyr_imgs'[b] = <<BaseLayer>>
      BY <1>2 DEF Start, GoTo, AppendImg, TypeOK, endVars, ListInv
    <2> QED
      BY <1>1, <2>1 DEF PoolInv, ImgInv, ListInv, EndInv
  <1>3. CASE Hit(b)
    <2> DEFINE hit == Cache!Get(LookupKey(b), Config[b])
    <2>1. /\ main[b] \in {"interp", "lookup"} /\ raised'[b] = raised[b]
          /\ lyr_imgs'[b] = Append(lyr_imgs[b], hit) /\ hit # NoLayer
          /\ main'[b] = IF main[b] = "interp" THEN AfterInterp(b) ELSE "app"
      BY <1>3 DEF Hit, Lookup, GoTo, AppendImg, TypeOK, endVars
    <2>2. PICK r \in Repos : hit = registry[r][LookupKey(b)]
      BY <2>1, HitIsEntry
    <2>3. hit \in Cache!Layers
      BY <2>1, <2>2, KeyType DEF TypeOK
    <2>4. PoolInv(b)' /\ ImgInv(b)' /\ EndInv(b)'
      BY <1>1, <2>1 DEF PoolInv, ImgInv, EndInv, AfterInterp
    <2>5. CASE main[b] = "interp"
      <3>1. hit = InterpLayer(Config[b].env)
        BY <2>1, <2>2, <2>5, TextType DEF LookupKey, InterpKey, InterpSound
      <3>2. lyr_imgs'[b] = <<BaseLayer, InterpLayer(Config[b].env)>>
        BY <2>1, <2>5, <3>1, AppendTwo DEF ListInv
      <3>3. main'[b] = "lookup" \/ (main'[b] = "app" /\ ~HasDescriptor(b))
        BY <2>1, <2>5 DEF AfterInterp
      <3>4. ListInv(b)'
        BY <3>2, <3>3, NoDescriptorNothingWanted DEF ListInv
      <3> QED
        BY <2>4, <3>4
    <2>6. CASE main[b] = "lookup"
      <3>1. Serves(hit, Text(Files(b)), Config[b].env)
        BY <2>1, <2>2, <2>6, TextType DEF LookupKey, ReqKey, CachedWhole
      <3>2. RightLayer(b, hit)
        BY <2>3, <3>1, ServesIsRight
      <3> HIDE DEF hit
      <3>3. lyr_imgs'[b] = <<BaseLayer, InterpLayer(Config[b].env), hit>>
        <4>1. lyr_imgs[b] = <<BaseLayer, InterpLayer(Config[b].env)>>
          BY <2>6 DEF ListInv
        <4>2. lyr_imgs'[b] = Append(<<BaseLayer, InterpLayer(Config[b].env)>>, hit)
          BY <2>1, <4>1 DEF hit
        <4> QED
          BY <4>2, AppendThree
      <3>4. main'[b] = "app" /\ lyr_imgs'[b][3] = hit
        BY <2>1, <2>6, <3>3, AppendThree
      <3>5. ListInv(b)'
        BY <3>2, <3>3, <3>4 DEF ListInv
      <3> QED
        BY <2>4, <3>5
    <2> QED
      BY <2>1, <2>5, <2>6
  <1>4. CASE Miss(b) \/ LostHit(b)
    <2>1. /\ main[b] \in {"interp", "lookup"} /\ raised'[b] = raised[b]
          /\ lyr_imgs'[b] = lyr_imgs[b]
          /\ main'[b] = IF main[b] = "interp" THEN "makeInterp" ELSE "download"
      BY <1>4 DEF Miss, LostHit, Lookup, GoTo, AfterMiss, TypeOK, lyrVars, endVars
    <2> QED
      BY <1>1, <2>1 DEF PoolInv, ImgInv, ListInv, EndInv
  <1>5. CASE BadLookup(b)
    <2>1. main'[b] = "handle" /\ raised'[b] = "other" /\ main[b] \in {"interp", "lookup"}
      BY <1>5 DEF BadLookup, BadRef, Lookup, Raise, GoTo, TypeOK
    <2> QED
      BY <1>1, <2>1 DEF PoolInv, ImgInv, ListInv, EndInv
  <1> QED
    BY <1>2, <1>3, <1>4, <1>5

LEMMA MakeBuildInv ==
  ASSUME TypeOK, NEW b \in Builds, BuildInv(b),
         \/ MakeInterp(b) \/ PutInterp(b) \/ Download(b) \/ NothingToDownload(b) \/ Install(b)
         \/ Stitch(b) \/ Upload(b)
  PROVE  BuildInv(b)'
  <1> USE DEF BuildInv, BeforePool, GoTo, SetImg, AppendImg, Raise, lyrVars, poolVars, endVars
  <1>1. CASE MakeInterp(b)
    <2>1. /\ main[b] = "makeInterp" /\ main'[b] = "putInterp"
          /\ img'[b] = InterpLayer(Config[b].env)
          /\ UNCHANGED <<lyr_imgs, wheels, job, req_txt_imgs, raised, stored>>
      BY <1>1 DEF MakeInterp, InterpLayer, TypeOK
    <2> QED
      BY <2>1 DEF PoolInv, ImgInv, ListInv, EndInv
  <1>2. CASE PutInterp(b)
    <2>1. /\ main[b] = "putInterp"
          /\ main'[b] = "lookup" \/ (main'[b] = "app" /\ ~HasDescriptor(b))
          /\ lyr_imgs'[b] = Append(lyr_imgs[b], img[b])
          /\ UNCHANGED <<wheels, job, req_txt_imgs, raised, stored>>
      BY <1>2 DEF PutInterp, AfterInterp, TypeOK
    <2>2. lyr_imgs'[b] = <<BaseLayer, InterpLayer(Config[b].env)>>
      BY <2>1, AppendTwo DEF ImgInv, ListInv
    <2> QED
      BY <2>1, <2>2, NoDescriptorNothingWanted DEF PoolInv, ImgInv, ListInv, EndInv
  <1>3. CASE Download(b)
    <2>1. /\ main[b] = "download" /\ main'[b] = "install"
          /\ wheels'[b] = Wanted(Files(b))
          /\ UNCHANGED <<lyr_imgs, img, job, req_txt_imgs, raised, stored>>
      BY <1>3 DEF Download, TypeOK
    <2> QED
      BY <2>1 DEF PoolInv, ImgInv, ListInv, EndInv
  <1>4. CASE NothingToDownload(b)
    <2>1. /\ main[b] = "download" /\ main'[b] = "handle" /\ raised'[b] = "user"
          /\ UNCHANGED <<lyr_imgs, img, wheels, job, req_txt_imgs, stored>>
      BY <1>4 DEF NothingToDownload, TypeOK
    <2> QED
      BY <2>1 DEF PoolInv, ImgInv, ListInv, EndInv
  <1>5. CASE Install(b)
    <2>1. /\ main[b] = "install" /\ main'[b] = "watch"
          /\ job'[b] = [p \in Packages |-> IF p \in wheels[b] THEN "queued" ELSE "none"]
          /\ UNCHANGED <<lyr_imgs, img, wheels, req_txt_imgs, raised, stored>>
      BY <1>5 DEF Install, TypeOK
    <2>2. req_txt_imgs[b] = {}
      BY <2>1 DEF PoolInv
    <2>3. \A p \in Packages : /\ job'[b][p] # "ok"
                              /\ p \notin wheels[b] => job'[b][p] = "none"
      BY <2>1
    <2>4. PoolInv(b)'
      BY <2>1, <2>2, <2>3 DEF PoolInv
    <2> QED
      BY <2>1, <2>4 DEF ImgInv, ListInv, EndInv
  <1>6. CASE Stitch(b)
    <2>1. main[b] = "stitch" /\ UNCHANGED <<lyr_imgs, wheels, job, req_txt_imgs, raised, stored>>
      BY <1>6 DEF Stitch
    <2>2. req_txt_imgs[b] = Wanted(Files(b))
      BY <2>1 DEF PoolInv, TypeOK
    <2>3. CASE req_txt_imgs[b] = {}
      <3>1. main'[b] = "app" /\ img' = img
        BY <1>6, <2>3 DEF Stitch, TypeOK
      <3> QED
        BY <2>1, <2>2, <2>3, <3>1 DEF PoolInv, ImgInv, ListInv, EndInv
    <2>4. CASE req_txt_imgs[b] # {}
      <3> DEFINE l == [part |-> [pkgs |-> req_txt_imgs[b]], env |-> Config[b].env, built |-> 0]
      <3>1. main'[b] = "upload" /\ img'[b] = l
        BY <1>6, <2>4 DEF Stitch, TypeOK
      <3>2. l # NoLayer
        <4>1. req_txt_imgs[b] \in SUBSET Packages
          BY DEF TypeOK
        <4> QED
          BY <4>1, LayerTypes, CacheAssumption
      <3> QED
        BY <2>1, <2>2, <3>1, <3>2 DEF PoolInv, ImgInv, ListInv, EndInv
    <2> QED
      BY <2>3, <2>4
  <1>7. CASE Upload(b)
    <2>1. /\ main[b] = "upload" /\ main'[b] = "app"
          /\ lyr_imgs'[b] = Append(lyr_imgs[b], img[b])
          /\ UNCHANGED <<wheels, job, req_txt_imgs, raised, stored>>
      BY <1>7 DEF Upload, TypeOK
    <2>2. /\ lyr_imgs'[b] = <<BaseLayer, InterpLayer(Config[b].env), img[b]>>
          /\ lyr_imgs'[b][3] = img[b]
      <3>1. lyr_imgs[b] = <<BaseLayer, InterpLayer(Config[b].env)>>
        BY <2>1 DEF ListInv
      <3>2. lyr_imgs'[b] = Append(<<BaseLayer, InterpLayer(Config[b].env)>>, img[b])
        BY <2>1, <3>1
      <3> QED
        BY <3>2, AppendThree
    <2>3. /\ img[b] \in Cache!Layers /\ Serves(img[b], Text(Files(b)), Config[b].env)
      BY <2>1 DEF ImgInv, TypeOK, Serves
    <2>4. RightLayer(b, img[b])
      BY <2>3, ServesIsRight
    <2> QED
      BY <2>1, <2>2, <2>4 DEF PoolInv, ImgInv, ListInv, EndInv
  <1> QED
    BY <1>1, <1>2, <1>3, <1>4, <1>5, <1>6, <1>7

LEMMA JobBuildInv ==
  ASSUME TypeOK, NEW b \in Builds, BuildInv(b), NEW p \in Packages,
         JobStart(b, p) \/ JobPack(b, p) \/ JobAppend(b, p) \/ JobFail(b, p)
  PROVE  BuildInv(b)'
  <1> USE DEF BuildInv
  <1>1. UNCHANGED <<main, lyr_imgs, img, wheels, raised, stored>>
    BY DEF JobStart, JobPack, JobAppend, JobFail, lyrVars, endVars
  <1>2. ImgInv(b)' /\ ListInv(b)' /\ EndInv(b)'
    BY <1>1 DEF ImgInv, ListInv, EndInv
  <1>3. /\ job[b][p] \notin {"none", "ok"}
        /\ \A q \in Packages \ {p} : job'[b][q] = job[b][q]
        /\ JobAppend(b, p) => job'[b][p] = "ok" /\ req_txt_imgs'[b] = req_txt_imgs[b] \cup {p}
        /\ ~JobAppend(b, p) => job'[b][p] # "ok" /\ req_txt_imgs'[b] = req_txt_imgs[b]
    BY DEF JobStart, JobPack, JobAppend, JobFail, JobGoTo, TypeOK
  <1>4. PoolInv(b)'
    <2>1. req_txt_imgs'[b] = {q \in Packages : job'[b][q] = "ok"}
      BY <1>3 DEF PoolInv
    <2>2. \A q \in Packages : job[b][q] \in {"none", "ok"} => job'[b][q] = job[b][q]
      BY <1>3
    <2>3. main[b] \notin BeforePool
      BY <1>3 DEF PoolInv
    <2>4. wheels[b] \subseteq Packages
      BY DEF TypeOK
    <2> QED
      BY <1>1, <2>1, <2>2, <2>3, <2>4 DEF PoolInv, BeforePool
  <1> QED
    BY <1>2, <1>4

\* Steps at the end of the loop and of the pool.
LEMMA PoolBuildInv ==
  ASSUME TypeOK, NEW b \in Builds, BuildInv(b), ObserveFailure(b) \/ LeaveLoop(b) \/ Join(b)
  PROVE  BuildInv(b)'
  <1> USE DEF BuildInv, BeforePool
  <1>1. UNCHANGED <<lyr_imgs, img, wheels, job, req_txt_imgs, stored>>
    BY DEF ObserveFailure, LeaveLoop, Join, Raise, lyrVars, poolVars, endVars
  <1>2. CASE ObserveFailure(b)
    <2>1. main[b] = "watch" /\ main'[b] = "join" /\ raised'[b] \in Errors
      BY <1>2 DEF ObserveFailure, Raise, GoTo, TypeOK
    <2> QED
      BY <1>1, <2>1 DEF PoolInv, ImgInv, ListInv, EndInv, Errors
  <1>3. CASE LeaveLoop(b)
    <2>1. /\ main[b] = "watch" /\ main'[b] = "join" /\ raised' = raised
          /\ \A p \in wheels[b] : job[b][p] = "ok"
      BY <1>3 DEF LeaveLoop, GoTo, TypeOK, endVars
    <2> QED
      BY <1>1, <2>1 DEF PoolInv, ImgInv, ListInv, EndInv
  <1>4. CASE Join(b)
    <2>1. /\ main[b] = "join" /\ raised' = raised
          /\ main'[b] = IF raised[b] = "none" THEN "stitch" ELSE "handle"
      BY <1>4 DEF Join, Joined, GoTo, TypeOK, endVars
    <2> QED
      BY <1>1, <2>1 DEF PoolInv, ImgInv, ListInv, EndInv
  <1> QED
    BY <1>2, <1>3, <1>4

\* The application goes on top of a list in which the requirements are, if
\* there are any.
LEMMA AppComplete ==
  ASSUME TypeOK, NEW b \in Builds, ListInv(b), main[b] = "app"
  PROVE  Complete(b, Append(lyr_imgs[b], AppLayer))
  <1> DEFINE s == lyr_imgs[b]
             t == Append(s, AppLayer)
             interp == InterpLayer(Config[b].env)
  <1>1. s \in Seq(ImageLayers) /\ AppLayer \in ImageLayers
    BY DEF TypeOK, ImageLayers
  <1>2. /\ Len(t) = Len(s) + 1 /\ t[Len(s) + 1] = AppLayer
        /\ \A i \in 1 .. Len(s) : t[i] = s[i]
    BY <1>1, AppendFacts
  <1>3. CASE Wanted(Files(b)) = {} /\ s = <<BaseLayer, interp>>
    <2>1. Len(s) = 2 /\ s[1] = BaseLayer /\ s[2] = interp
      BY <1>3
    <2> HIDE DEF s, t, interp
    <2>2. Len(t) = 3 /\ t[1] = BaseLayer /\ t[2] = interp /\ t[3] = AppLayer
      BY <1>2, <2>1
    <2>3. Complete(b, t)
      BY <1>3, <2>2 DEF Complete, interp, InterpLayer
    <2> QED
      BY <2>3 DEF s, t
  <1>4. CASE RightLayer(b, s[3]) /\ s = <<BaseLayer, interp, s[3]>>
    <2>1. Len(s) = 3 /\ s[1] = BaseLayer /\ s[2] = interp
      BY <1>4
    <2> HIDE DEF s, t, interp
    <2>2. Len(t) = 4 /\ t[1] = BaseLayer /\ t[2] = interp /\ t[3] = s[3] /\ t[4] = AppLayer
      BY <1>2, <2>1
    <2>3. Complete(b, t)
      BY <1>4, <2>2 DEF Complete, RightLayer, interp, InterpLayer
    <2> QED
      BY <2>3 DEF s, t
  <1> QED
    BY <1>3, <1>4 DEF ListInv

LEMMA EndBuildInv ==
  ASSUME TypeOK, NEW b \in Builds, BuildInv(b),
         AddApp(b) \/ Store(b) \/ Exit(b) \/ Fail(b) \/ Handle(b) \/ Kill(b)
  PROVE  BuildInv(b)'
  <1> USE DEF BuildInv, BeforePool
  <1>1. UNCHANGED <<img, wheels, job, req_txt_imgs>>
    BY DEF AddApp, Store, Exit, Fail, Handle, Kill, lyrVars, poolVars
  <1>2. CASE AddApp(b)
    <2>1. /\ main[b] = "app" /\ main'[b] = "store" /\ UNCHANGED <<raised, stored>>
          /\ lyr_imgs'[b] = Append(lyr_imgs[b], AppLayer)
      BY <1>2 DEF AddApp, GoTo, AppendImg, TypeOK, endVars
    <2>2. Complete(b, lyr_imgs'[b])
      BY <2>1, AppComplete
    <2>3. ListInv(b)'
      BY <2>1, <2>2 DEF ListInv, Complete
    <2> QED
      BY <1>1, <2>1, <2>3 DEF PoolInv, ImgInv, EndInv
  <1>3. CASE Store(b)
    <2>1. /\ main[b] = "store" /\ main'[b] = "return" /\ UNCHANGED <<raised, lyr_imgs>>
          /\ Wanting(b) => stored'[b] = lyr_imgs[b]
      BY <1>3 DEF Store, Wanting, GoTo, TypeOK, lyrVars
    <2>2. lyr_imgs[b] # NoImage
      BY CacheAssumption DEF TypeOK
    <2> QED
      BY <1>1, <2>1, <2>2 DEF PoolInv, ImgInv, ListInv, EndInv
  <1>4. CASE Exit(b) \/ Handle(b) \/ Kill(b)
    <2>1. main'[b] \in {"exited", "killed"} /\ UNCHANGED <<lyr_imgs, raised, stored>>
      BY <1>4 DEF Exit, Handle, Kill, GoTo, TypeOK, lyrVars, endVars
    <2> QED
      BY <1>1, <2>1 DEF PoolInv, ImgInv, ListInv, EndInv
  <1>5. CASE Fail(b)
    <2>1. /\ main'[b] = "handle" /\ raised'[b] # "none" /\ UNCHANGED <<lyr_imgs, stored>>
          /\ main[b] \notin {"return", "exited", "killed"}
      BY <1>5 DEF Fail, ErrorsAt, Raise, GoTo, TypeOK, lyrVars
    <2> QED
      BY <1>1, <2>1 DEF PoolInv, ImgInv, ListInv, EndInv
  <1> QED
    BY <1>2, <1>3, <1>4, <1>5

-------------------------------------------------------------------------------
(***************************************************************************)
(* Every step keeps the invariant.                                         *)
(***************************************************************************)
LEMMA InitIInv == Init => IInv
  <1> SUFFICES ASSUME Init PROVE IInv
    OBVIOUS
  <1>1. CachedWhole /\ InterpSound
    BY DEF Init, CachedWhole, InterpSound, Cache!KeyOf, Cache!Keys, Cache!Parts
  <1>2. \A b \in Builds : BuildInv(b)
    BY DEF Init, BuildInv, PoolInv, ImgInv, ListInv, EndInv
  <1> QED
    BY <1>1, <1>2, InitTypeOK DEF IInv

\* Only three steps write the registry, each what its key says.
LEMMA StepCacheSound ==
  ASSUME IInv, NEW b \in Builds, BuildStep(b)
  PROVE  CachedWhole' /\ InterpSound'
  <1> USE DEF IInv
  <1>1. CASE PutInterp(b)
    <2>1. img[b] = InterpLayer(Config[b].env) /\ Cache!Set(InterpKey(b), img[b], Config[b])
      BY <1>1 DEF PutInterp, BuildInv, ImgInv
    <2> QED
      BY <2>1, KeyType, LayerTypes, SetSound
  <1>2. CASE Upload(b)
    <2>1. /\ img[b] = [part |-> [pkgs |-> Wanted(Files(b))], env |-> Config[b].env, built |-> 0]
          /\ img[b] \in Cache!Layers /\ Cache!Set(ReqKey(b), img[b], Config[b])
      BY <1>2 DEF Upload, BuildInv, ImgInv, TypeOK
    <2>2. Serves(img[b], Text(Files(b)), Config[b].env)
      BY <2>1 DEF Serves
    <2> QED
      BY <2>1, <2>2, KeyType, SetSound
  <1>3. ASSUME NEW p \in Packages, JobPack(b, p) PROVE CachedWhole' /\ InterpSound'
    <2> DEFINE l == [part |-> [pkgs |-> {p}], env |-> Config[b].env, built |-> 0]
    <2>1. l \in Cache!Layers
      BY LayerTypes
    <2>2. Cache!Set(PackageKey, l, Config[b])
      BY <1>3 DEF JobPack
    <2> HIDE DEF l
    <2> QED
      BY <2>1, <2>2, KeyType, SetSound
  <1>4. CASE ~PutInterp(b) /\ ~Upload(b) /\ ~(\E p \in Packages : JobPack(b, p))
    <2>1. registry' = registry
      BY <1>4 DEF BuildStep, Start, Hit, Miss, LostHit, BadLookup, MakeInterp, Download,
         NothingToDownload, Install, JobStart, JobAppend, JobFail, ObserveFailure, LeaveLoop,
         Join, Stitch, AddApp, Store, Exit, Fail, Handle, Kill
    <2> QED
      BY <2>1 DEF CachedWhole, InterpSound
  <1> QED
    BY <1>1, <1>2, <1>3, <1>4

LEMMA StepIInv == IInv /\ [Next]_vars => IInv'
  <1> SUFFICES ASSUME IInv, [Next]_vars PROVE IInv'
    OBVIOUS
  <1>1. ASSUME NEW b \in Builds, BuildStep(b) PROVE IInv'
    <2>1. TypeOK'
      BY <1>1, LookupTypeOK, MakeTypeOK, JobTypeOK, EndTypeOK DEF IInv, BuildInv, BuildStep
    <2>2. BuildInv(b)'
      BY <1>1, LookupBuildInv, MakeBuildInv, JobBuildInv, PoolBuildInv, EndBuildInv
         DEF IInv, BuildStep
    <2>3. \A c \in Builds \ {b} : BuildInv(c)'
      BY <1>1, OthersSame, FrameBuildInv DEF IInv
    <2> QED
      BY <1>1, <2>1, <2>2, <2>3, StepCacheSound DEF IInv
  <1>2. CASE UNCHANGED vars
    <2>1. TypeOK' /\ CachedWhole' /\ InterpSound'
      BY <1>2 DEF IInv, TypeOK, CachedWhole, InterpSound, vars, lyrVars, poolVars, endVars
    <2>2. \A c \in Builds : BuildInv(c)'
      BY <1>2, FrameBuildInv DEF IInv, Same, vars, lyrVars, poolVars, endVars
    <2> QED
      BY <2>1, <2>2 DEF IInv
  <1> QED
    BY <1>1, <1>2 DEF Next

\* IInv holds in every reachable state of every instance.
THEOREM Inductive == Spec => []IInv
  BY InitIInv, StepIInv, PTL DEF Spec

-------------------------------------------------------------------------------
(***************************************************************************)
(* The properties.                                                         *)
(***************************************************************************)

\* Type correctness: what is appended to a list or put into the registry is
\* always an image, never the None of an empty requirements.txt.
THEOREM TypeCorrect == Spec => []TypeOK
  <1>1. IInv => TypeOK
    BY DEF IInv
  <1> QED
    BY <1>1, Inductive, PTL

\* However the jobs of a pool fail, are killed and overtake each other, the
\* requirements image in the cache is a whole one.
THEOREM CacheIsWhole == Spec => []CachedWhole
  <1>1. IInv => CachedWhole
    BY DEF IInv
  <1> QED
    BY <1>1, Inductive, PTL

-------------------------------------------------------------------------------
(***************************************************************************)
(* Refinement of ImageBuild.                                               *)
(***************************************************************************)

\* Steps at which a build neither begins, stores nor ends.
LEMMA Stutters ==
  ASSUME IInv, NEW b \in Builds, BuildStep(b),
         ~Start(b), ~Store(b), ~Exit(b), ~Handle(b), ~Kill(b)
  PROVE  UNCHANGED Abstract!vars
  <1> USE DEF IInv, TypeOK, GoTo, lyrVars, poolVars, endVars
  <1>1. /\ stored' = stored
        /\ \/ UNCHANGED <<main, raised>>
           \/ /\ main[b] \notin {"new", "exited", "killed"}
              /\ main'[b] \notin {"new", "exited", "killed"}
    <2>1. CASE Hit(b) \/ Miss(b) \/ LostHit(b) \/ BadLookup(b)
      BY <2>1 DEF Hit, Miss, LostHit, BadLookup, BadRef, Lookup, AfterInterp, AfterMiss, Raise
    <2>2. CASE MakeInterp(b) \/ PutInterp(b) \/ Download(b) \/ NothingToDownload(b) \/ Install(b)
      BY <2>2 DEF MakeInterp, PutInterp, Download, NothingToDownload, Install, AfterInterp, Raise
    <2>3. ASSUME NEW p \in Packages,
                 JobStart(b, p) \/ JobPack(b, p) \/ JobAppend(b, p) \/ JobFail(b, p)
          PROVE  stored' = stored /\ UNCHANGED <<main, raised>>
      BY <2>3 DEF JobStart, JobPack, JobAppend, JobFail
    <2>4. CASE ObserveFailure(b) \/ LeaveLoop(b) \/ Join(b)
      BY <2>4 DEF ObserveFailure, LeaveLoop, Join, Joined, Raise
    <2>5. CASE Stitch(b) \/ Upload(b) \/ AddApp(b) \/ Fail(b)
      BY <2>5 DEF Stitch, Upload, AddApp, Fail, ErrorsAt, Raise
    <2> QED
      BY <2>1, <2>2, <2>3, <2>4, <2>5 DEF BuildStep
  <1>2. \A c \in Builds \ {b} : main'[c] = main[c] /\ raised'[c] = raised[c]
    BY OthersSame DEF Same
  <1>3. \A c \in Builds : Status(c)' = Status(c)
    BY <1>1, <1>2 DEF Status
  <1> QED
    BY <1>1, <1>3 DEF Abstract!vars

\* Every step of a build is a step of the abstract one, or none.
LEMMA StepImplements ==
  ASSUME IInv, [Next]_vars
  PROVE  [Abstract!Next]_(Abstract!vars)
  <1> USE DEF GoTo, IInv, TypeOK, BuildInv, EndInv
  <1>1. ASSUME NEW b \in Builds, Start(b) PROVE Abstract!Begin(b)
    <2>1. /\ main[b] = "new" /\ main' = [main EXCEPT ![b] = "interp"]
          /\ raised' = raised /\ stored' = stored
      BY <1>1 DEF Start, endVars
    <2> QED
      BY <2>1 DEF Abstract!Begin, Status
  <1>2. ASSUME NEW b \in Builds, Store(b) PROVE Abstract!Deliver(b) \/ UNCHANGED Abstract!vars
    <2>1. /\ main[b] = "store" /\ main' = [main EXCEPT ![b] = "return"] /\ raised' = raised
      BY <1>2 DEF Store
    <2>2. [c \in Builds |-> Status(c)]' = [c \in Builds |-> Status(c)]
      BY <2>1 DEF Status
    <2>3. CASE Wanting(b)
      <3>1. stored' = [stored EXCEPT ![b] = lyr_imgs[b]]
        BY <1>2, <2>3 DEF Store, Wanting
      <3>2. stored[b] = NoImage /\ Complete(b, lyr_imgs[b]) /\ lyr_imgs[b] # NoImage
        <4>1. stored[b] = NoImage /\ Complete(b, lyr_imgs[b])
          BY <2>1 DEF ListInv
        <4>2. lyr_imgs[b] # NoImage
          BY CacheAssumption
        <4> QED
          BY <4>1, <4>2
      <3>3. stored'[b] = lyr_imgs[b] /\ Status(b) = "running"
        BY <2>1, <3>1 DEF Status
      <3> QED
        BY <2>2, <2>3, <3>1, <3>2, <3>3 DEF Abstract!Deliver, Wanting
    <2>4. CASE ~Wanting(b)
      BY <1>2, <2>2, <2>4 DEF Store, Wanting, Abstract!vars
    <2> QED
      BY <2>3, <2>4
  <1>3. ASSUME NEW b \in Builds, Exit(b) PROVE Abstract!Succeed(b)
    <2>1. /\ main[b] = "return" /\ main' = [main EXCEPT ![b] = "exited"]
          /\ raised' = raised /\ stored' = stored /\ raised[b] = "none"
          /\ Wanting(b) => stored[b] # NoImage
      BY <1>3 DEF Exit
    <2> QED
      BY <2>1 DEF Abstract!Succeed, Status, Wanting
  <1>4. ASSUME NEW b \in Builds, Handle(b) PROVE Abstract!Fail(b)
    <2>1. /\ main[b] = "handle" /\ main' = [main EXCEPT ![b] = "exited"]
          /\ raised' = raised /\ stored' = stored /\ raised[b] # "none"
      BY <1>4 DEF Handle
    <2> QED
      BY <2>1 DEF Abstract!Fail, Status
  <1>5. ASSUME NEW b \in Builds, Kill(b) PROVE Abstract!Fail(b)
    <2>1. /\ main[b] \notin {"new", "exited", "killed"} /\ main' = [main EXCEPT ![b] = "killed"]
          /\ raised' = raised /\ stored' = stored
      BY <1>5 DEF Kill, Idle, endVars
    <2> QED
      BY <2>1 DEF Abstract!Fail, Status
  <1>6. CASE UNCHANGED vars
    BY <1>6 DEF vars, endVars, Status, Abstract!vars
  <1> QED
    BY <1>1, <1>2, <1>3, <1>4, <1>5, <1>6, Stutters DEF Next, Abstract!Next

\* A phase 1 build, with its pool, its failures and the cache it shares, keeps
\* the promise of ImageBuild: at most one image, a complete one, and success
\* only with it.
THEOREM Implements == Spec => ImplementsImageBuild
  <1>1. Init => Abstract!Init
    BY DEF Init, Abstract!Init, Status
  <1>2. IInv /\ [Next]_vars => [Abstract!Next]_(Abstract!vars)
    BY StepImplements
  <1> QED
    BY <1>1, <1>2, Inductive, PTL DEF Spec, ImplementsImageBuild, Abstract!Spec

===============================================================================
