-------------------------- MODULE PipfileBuildProofs --------------------------
(***************************************************************************)
(* Proofs about PipfileBuild, for any number of builds, packages, threads  *)
(* and failures.                                                           *)
(***************************************************************************)
EXTENDS PipfileBuild, TLAPS

-------------------------------------------------------------------------------
(***************************************************************************)
(* The cache.                                                              *)
(***************************************************************************)

\* The key of a part of a build is a key of the cache.
LEMMA KeyType ==
  ASSUME NEW b \in Builds
  PROVE  /\ \A p \in Parts : Key(b, p) \in Keys
         /\ Env(b) \in Envs /\ Config[b] \in Configs /\ Lock(b) \in SUBSET Deps
         /\ Interp \in Parts /\ Deps \subseteq Parts
  BY ConfigAssumption DEF Key, KeyOf, Keys, Env, Lock, Configs, Parts

\* What Get returns is None, or an entry of the global repository or of the
\* build's own under that key, which passed the ttl check.
LEMMA GetResult ==
  ASSUME CacheTypeOK, NEW b \in Builds, NEW p \in Parts,
         Get(Key(b, p), Config[b]) # NoLayer
  PROVE  /\ Get(Key(b, p), Config[b]) \in Layers
         /\ \/ Get(Key(b, p), Config[b]) = registry[Config[b].repo][Key(b, p)]
            \/ /\ Config[b].useGlobal
               /\ Get(Key(b, p), Config[b]) = registry[GlobalRepo][Key(b, p)]
         /\ CheckTTL(Get(Key(b, p), Config[b]))
  <1>1. Key(b, p) \in Keys /\ Config[b].repo \in Repos
    BY KeyType DEF Configs
  <1>2. \/ GetEntry(Key(b, p), Config[b]) = registry[Config[b].repo][Key(b, p)]
        \/ /\ Config[b].useGlobal
           /\ GetEntry(Key(b, p), Config[b]) = registry[GlobalRepo][Key(b, p)]
    BY DEF GetEntry
  <1> QED
    BY <1>1, <1>2, RepoAssumption DEF Get, Found, CacheTypeOK

\* A layer made now for a part of a build is a layer.
LEMMA NewLayerType ==
  ASSUME now \in Nat, NEW p \in Parts, NEW e \in Envs
  PROVE  NewLayer(p, e) \in Layers
  BY DEF NewLayer, Layers

\* A hit was made from what the key says.
LEMMA HitSound ==
  ASSUME CacheTypeOK, CacheSound, NEW b \in Builds, NEW p \in Parts,
         Get(Key(b, p), Config[b]) # NoLayer
  PROVE  LET l == Get(Key(b, p), Config[b])
         IN  l \in Layers /\ l.part = p /\ l.env = Env(b)
  <1>1. Key(b, p) \in Keys /\ Config[b].repo \in Repos
    BY KeyType DEF Configs
  <1>2. /\ Get(Key(b, p), Config[b]).part = Key(b, p).part
        /\ Get(Key(b, p), Config[b]).env = Key(b, p).env
    BY <1>1, GetResult, RepoAssumption DEF CacheSound
  <1> QED
    BY <1>2, GetResult DEF KeyOf, Key

\* Set keeps the shape of the registry.
LEMMA SetType ==
  ASSUME CacheTypeOK, NEW b \in Builds, NEW p \in Parts, NEW l \in Layers \cup {NoLayer},
         Set(Key(b, p), l, Config[b])
  PROVE  registry' \in [Repos -> [Keys -> Layers \cup {NoLayer}]]
  BY KeyType DEF Set, CacheTypeOK, Configs

-------------------------------------------------------------------------------
(***************************************************************************)
(* Type correctness.                                                       *)
(***************************************************************************)

LEMMA InitTypeOK == Init => TypeOK
  BY DEF Init, CacheInit, TypeOK, CacheTypeOK, MainState, JobState, ImageLayers

LEMMA MainTypeOK ==
  ASSUME TypeOK, ImgInv, PoolInv, NEW b \in Builds, Start(b) \/ MainStep(b) \/ Kill(b)
  PROVE  TypeOK'
  <1> USE KeyType DEF TypeOK, GoTo, SetImg, AppendImg, cacheVars, poolVars, endVars,
                      MainState, ImageLayers
  <1>1. CASE Start(b)
    BY <1>1 DEF Start, CacheTypeOK
  <1>2. CASE InterpHit(b)
    BY <1>2, GetResult DEF InterpHit, CacheTypeOK
  <1>3. CASE InterpMiss(b)
    BY <1>3 DEF InterpMiss, CacheTypeOK
  <1>4. CASE InterpLostHit(b)
    BY <1>4 DEF InterpLostHit, Fault, CacheTypeOK
  <1>4a. CASE InterpBadTtl(b)
    BY <1>4a DEF InterpBadTtl, CacheTypeOK, Errors
  <1>5. CASE InterpBuild(b)
    BY <1>5, NewLayerType DEF InterpBuild, CacheTypeOK
  <1>6. CASE InterpUpload(b)
    BY <1>6, SetType DEF InterpUpload, CacheTypeOK, ImgInv
  <1>7. CASE Submit(b)
    BY <1>7 DEF Submit, CacheTypeOK, JobState
  <1>8. ASSUME NEW d \in Lock(b), Observe(b, d) PROVE TypeOK'
    BY <1>8 DEF Observe, CacheTypeOK
  <1>9. ASSUME NEW d \in Lock(b), ObserveFailure(b, d) PROVE TypeOK'
    BY <1>9 DEF ObserveFailure, CacheTypeOK
  <1>10. CASE LeaveLoop(b)
    BY <1>10 DEF LeaveLoop, CacheTypeOK
  <1>11. CASE Join(b)
    BY <1>11 DEF Join, CacheTypeOK
  <1>12. CASE AddApp(b)
    BY <1>12 DEF AddApp, CacheTypeOK
  <1>13. CASE Store(b)
    BY <1>13 DEF Store, CacheTypeOK
  <1>14. CASE Exit(b)
    BY <1>14 DEF Exit, CacheTypeOK
  <1>15. CASE MainFail(b)
    <2>1. MainErrors(main[b]) \subseteq Errors
      BY DEF MainErrors, Errors
    <2> QED
      BY <1>15, <2>1 DEF MainFail, Fault, CacheTypeOK
  <1>16. CASE Handle(b)
    BY <1>16 DEF Handle, CacheTypeOK
  <1>17. CASE Kill(b)
    BY <1>17 DEF Kill, CacheTypeOK
  <1> QED
    BY <1>1, <1>2, <1>3, <1>4, <1>4a, <1>5, <1>6, <1>7, <1>8, <1>9, <1>10,
       <1>11, <1>12,
       <1>13, <1>14, <1>15, <1>16, <1>17 DEF MainStep, Interpreter

LEMMA JobTypeOK ==
  ASSUME TypeOK, ImgInv, FaultInv, NEW b \in Builds, NEW d \in Lock(b), JobStep(b, d)
  PROVE  TypeOK'
  <1> USE KeyType DEF TypeOK, JobAt, JobGoTo, SetImg, AppendImg, cacheVars, endVars,
                      JobState, Active, Finished, Errors, ImageLayers
  <1>1. CASE JobStart(b, d)
    BY <1>1 DEF JobStart, CacheTypeOK
  <1>2. CASE JobHit(b, d)
    BY <1>2, GetResult DEF JobHit, CacheTypeOK
  <1>3. CASE JobMiss(b, d)
    BY <1>3 DEF JobMiss, CacheTypeOK
  <1>4. CASE JobLostHit(b, d)
    BY <1>4 DEF JobLostHit, Fault, CacheTypeOK
  <1>4a. CASE JobBadTtl(b, d)
    BY <1>4a DEF JobBadTtl, CacheTypeOK
  <1>5. CASE JobDownload(b, d)
    BY <1>5 DEF JobDownload, WheelDir, CacheTypeOK
  <1>6. CASE JobDownloadNothing(b, d)
    BY <1>6 DEF JobDownloadNothing, Fault, CacheTypeOK
  <1>7. CASE JobResolve(b, d)
    <2>1. PICK whl \in wheels[b][d] : SetImg(b, d, NewLayer(whl, Env(b)))
      BY <1>7 DEF JobResolve, WheelDir
    <2>2. whl \in Parts /\ d \in Parts
      OBVIOUS
    <2>3. NewLayer(whl, Env(b)) \in Layers
      BY <2>2, NewLayerType DEF CacheTypeOK
    <2> QED
      BY <1>7, <2>1, <2>2, <2>3 DEF JobResolve, CacheTypeOK
  <1>8. CASE JobNotOneWheel(b, d)
    BY <1>8 DEF JobNotOneWheel, CacheTypeOK
  <1>9. CASE JobUpload(b, d)
    <2>1. img[b][d] \in Layers \cup {NoLayer} /\ d \in Parts
      OBVIOUS
    <2>2. registry' \in [Repos -> [Keys -> Layers \cup {NoLayer}]]
      BY <1>9, <2>1, SetType DEF JobUpload
    <2> QED
      BY <1>9, <2>2 DEF JobUpload, CacheTypeOK
  <1>10. CASE JobAppend(b, d)
    BY <1>10 DEF JobAppend, ImgInv, CacheTypeOK
  <1>11. CASE JobFail(b, d)
    <2>1. PICK e \in JobErrors(job[b][d]) : JobGoTo(b, d, e)
      BY <1>11 DEF JobFail
    <2>2. e \in Errors
      BY DEF JobErrors
    <2> QED
      BY <1>11, <2>1, <2>2 DEF JobFail, Fault, CacheTypeOK
  <1> QED
    BY <1>1, <1>2, <1>3, <1>4, <1>4a, <1>5, <1>6, <1>7, <1>8, <1>9, <1>10,
       <1>11 DEF JobStep

LEMMA MainImgInv ==
  ASSUME TypeOK, CacheSound, ImgInv, PoolInv, NEW b \in Builds, Start(b) \/ MainStep(b) \/ Kill(b)
  PROVE  ImgInv'
  <1> USE KeyType DEF ImgInv, TypeOK, GoTo, SetImg, AppendImg, cacheVars, poolVars, endVars
  <1>1. CASE Start(b)
    BY <1>1 DEF Start
  <1>2. CASE InterpHit(b)
    BY <1>2, HitSound DEF InterpHit
  <1>3. CASE InterpMiss(b)
    BY <1>3 DEF InterpMiss
  <1>4. CASE InterpLostHit(b)
    BY <1>4 DEF InterpLostHit, Fault
  <1>4a. CASE InterpBadTtl(b)
    BY <1>4a DEF InterpBadTtl
  <1>5. CASE InterpBuild(b)
    <2>1. NewLayer(Interp, Env(b)) # NoLayer
      BY NewLayerType, NoLayerAssumption DEF CacheTypeOK
    <2> QED
      BY <1>5, <2>1 DEF InterpBuild, NewLayer
  <1>6. CASE InterpUpload(b)
    BY <1>6 DEF InterpUpload
  <1>7. CASE Submit(b)
    BY <1>7 DEF Submit
  <1>8. ASSUME NEW d \in Lock(b), Observe(b, d) PROVE ImgInv'
    BY <1>8 DEF Observe
  <1>9. ASSUME NEW d \in Lock(b), ObserveFailure(b, d) PROVE ImgInv'
    BY <1>9 DEF ObserveFailure
  <1>10. CASE LeaveLoop(b)
    BY <1>10 DEF LeaveLoop
  <1>11. CASE Join(b)
    BY <1>11 DEF Join
  <1>12. CASE AddApp(b)
    BY <1>12 DEF AddApp
  <1>13. CASE Store(b)
    BY <1>13 DEF Store
  <1>14. CASE Exit(b)
    BY <1>14 DEF Exit
  <1>15. CASE MainFail(b)
    BY <1>15 DEF MainFail, Fault
  <1>16. CASE Handle(b)
    BY <1>16 DEF Handle
  <1>17. CASE Kill(b)
    BY <1>17 DEF Kill
  <1> QED
    BY <1>1, <1>2, <1>3, <1>4, <1>4a, <1>5, <1>6, <1>7, <1>8, <1>9, <1>10,
       <1>11,
       <1>12, <1>13, <1>14, <1>15, <1>16, <1>17 DEF MainStep, Interpreter

LEMMA JobImgInv ==
  ASSUME TypeOK, CacheSound, ImgInv, FaultInv, NEW b \in Builds, NEW d \in Lock(b), JobStep(b, d)
  PROVE  ImgInv'
  <1> USE KeyType DEF ImgInv, TypeOK, JobAt, JobGoTo, SetImg, AppendImg, cacheVars, endVars
  <1>1. CASE JobStart(b, d)
    BY <1>1 DEF JobStart
  <1>2. CASE JobHit(b, d)
    BY <1>2, HitSound DEF JobHit
  <1>3. CASE JobMiss(b, d)
    BY <1>3 DEF JobMiss
  <1>4. CASE JobLostHit(b, d)
    BY <1>4 DEF JobLostHit, Fault
  <1>4a. CASE JobBadTtl(b, d)
    BY <1>4a DEF JobBadTtl
  <1>5. CASE JobDownload(b, d)
    BY <1>5 DEF JobDownload
  <1>6. CASE JobDownloadNothing(b, d)
    BY <1>6 DEF JobDownloadNothing, Fault
  <1>7. CASE JobResolve(b, d)
    <2>1. PICK whl \in wheels[b][d] : SetImg(b, d, NewLayer(whl, Env(b)))
      BY <1>7 DEF JobResolve, WheelDir
    <2>2. whl = d
      BY DEF FaultInv
    <2>3. NewLayer(d, Env(b)) # NoLayer
      BY NewLayerType, NoLayerAssumption DEF CacheTypeOK
    <2> QED
      BY <1>7, <2>1, <2>2, <2>3 DEF JobResolve, NewLayer
  <1>8. CASE JobNotOneWheel(b, d)
    BY <1>8 DEF JobNotOneWheel
  <1>9. CASE JobUpload(b, d)
    BY <1>9 DEF JobUpload
  <1>10. CASE JobAppend(b, d)
    BY <1>10 DEF JobAppend
  <1>11. CASE JobFail(b, d)
    BY <1>11 DEF JobFail, Fault, JobErrors
  <1> QED
    BY <1>1, <1>2, <1>3, <1>4, <1>4a, <1>5, <1>6, <1>7, <1>8, <1>9, <1>10,
       <1>11 DEF JobStep

-------------------------------------------------------------------------------
(***************************************************************************)
(* The registry: only the two uploads write it, each under its own key.    *)
(***************************************************************************)

\* Set keeps CacheSound and adds exactly the one entry.
LEMMA SetSound ==
  ASSUME CacheTypeOK, CacheSound, NEW b \in Builds, NEW p \in Parts, NEW l \in Layers,
         l.part = p, l.env = Env(b), Set(Key(b, p), l, Config[b])
  PROVE  /\ CacheSound'
         /\ Config[b].upload => registry'[Config[b].repo][Key(b, p)] # NoLayer
         /\ \A r \in Repos, k \in Keys : registry[r][k] # NoLayer => registry'[r][k] # NoLayer
  <1>1. Key(b, p).part = p /\ Key(b, p).env = Env(b)
    BY DEF Key, KeyOf
  <1> QED
    BY <1>1, KeyType, NoLayerAssumption DEF Set, CacheSound, CacheTypeOK, Configs

LEMMA MainKeepsRegistry ==
  ASSUME NEW b \in Builds, Start(b) \/ MainStep(b) \/ Kill(b), ~InterpUpload(b)
  PROVE  registry' = registry
  BY DEF MainStep, Interpreter, Start, InterpHit, InterpMiss, InterpLostHit, InterpBadTtl, InterpBuild,
         Submit, Observe, ObserveFailure, LeaveLoop, Join, AddApp, Store, Exit, MainFail,
         Handle, Kill, cacheVars

LEMMA JobKeepsRegistry ==
  ASSUME NEW b \in Builds, NEW d \in Lock(b), JobStep(b, d), ~JobUpload(b, d)
  PROVE  registry' = registry
  BY DEF JobStep, JobStart, JobHit, JobMiss, JobLostHit, JobBadTtl, JobDownload, JobDownloadNothing,
         JobResolve, JobNotOneWheel, JobAppend, JobFail, cacheVars

LEMMA MainCacheSound ==
  ASSUME TypeOK, CacheSound, ImgInv, NEW b \in Builds, Start(b) \/ MainStep(b) \/ Kill(b)
  PROVE  /\ CacheSound'
         /\ \A r \in Repos, k \in Keys : registry[r][k] # NoLayer => registry'[r][k] # NoLayer
  <1>1. CASE InterpUpload(b)
    <2>1. /\ img[b][Interp] \in Layers
          /\ img[b][Interp].part = Interp /\ img[b][Interp].env = Env(b)
          /\ Interp \in Parts
      BY <1>1, KeyType DEF InterpUpload, ImgInv, TypeOK
    <2> QED
      BY <1>1, <2>1, SetSound DEF InterpUpload, TypeOK
  <1>2. CASE ~InterpUpload(b)
    BY <1>2, MainKeepsRegistry DEF CacheSound
  <1> QED
    BY <1>1, <1>2

LEMMA JobCacheSound ==
  ASSUME TypeOK, CacheSound, ImgInv, NEW b \in Builds, NEW d \in Lock(b), JobStep(b, d)
  PROVE  /\ CacheSound'
         /\ \A r \in Repos, k \in Keys : registry[r][k] # NoLayer => registry'[r][k] # NoLayer
         /\ JobUpload(b, d) /\ Config[b].upload =>
              registry'[Config[b].repo][Key(b, d)] # NoLayer
  <1>1. CASE JobUpload(b, d)
    <2>1. /\ img[b][d] \in Layers
          /\ img[b][d].part = d /\ img[b][d].env = Env(b)
          /\ d \in Parts
      BY <1>1, KeyType DEF JobUpload, JobAt, ImgInv, TypeOK
    <2> QED
      BY <1>1, <2>1, SetSound DEF JobUpload, TypeOK
  <1>2. CASE ~JobUpload(b, d)
    BY <1>2, JobKeepsRegistry DEF CacheSound
  <1> QED
    BY <1>1, <1>2

\* Only a build with a --ttl meets the TypeError, and it keeps its flags.
LEMMA BadTtlGiven ==
  ASSUME NEW b \in Builds
  PROVE  /\ TtlGiven(b)' <=> TtlGiven(b)
         /\ InterpBadTtl(b) => TtlGiven(b)
         /\ \A d \in Deps : JobBadTtl(b, d) => TtlGiven(b)
  BY DEF InterpBadTtl, JobBadTtl, TtlRaises, TtlGiven

LEMMA MainFaultInv ==
  ASSUME TypeOK, FaultInv, NEW b \in Builds, Start(b) \/ MainStep(b) \/ Kill(b)
  PROVE  FaultInv'
  <1> USE BadTtlGiven DEF FaultInv, TypeOK, GoTo, SetImg, AppendImg, cacheVars, poolVars, endVars
  <1>1. CASE Start(b)
    BY <1>1 DEF Start
  <1>2. CASE InterpHit(b)
    BY <1>2 DEF InterpHit
  <1>3. CASE InterpMiss(b)
    BY <1>3 DEF InterpMiss
  <1>4. CASE InterpLostHit(b)
    BY <1>4 DEF InterpLostHit, Fault
  <1>4a. CASE InterpBadTtl(b)
    <2>1. TtlGiven(b)
      BY <1>4a
    <2>2. /\ raised' = [raised EXCEPT ![b] = "other"]
          /\ job' = job /\ wheels' = wheels /\ faults' = faults
      BY <1>4a DEF InterpBadTtl
    <2> QED
      BY <2>1, <2>2
  <1>5. CASE InterpBuild(b)
    BY <1>5 DEF InterpBuild
  <1>6. CASE InterpUpload(b)
    BY <1>6 DEF InterpUpload
  <1>7. CASE Submit(b)
    BY <1>7 DEF Submit, Errors
  <1>8. ASSUME NEW d \in Lock(b), Observe(b, d) PROVE FaultInv'
    BY <1>8 DEF Observe
  <1>9. ASSUME NEW d \in Lock(b), ObserveFailure(b, d) PROVE FaultInv'
    <2>1. d \in Deps /\ (faults[b] # 0 \/ TtlGiven(b)) /\ faults' = faults
      BY <1>9, KeyType DEF ObserveFailure
    <2> QED
      BY <1>9, <2>1 DEF ObserveFailure
  <1>10. CASE LeaveLoop(b)
    BY <1>10 DEF LeaveLoop
  <1>11. CASE Join(b)
    BY <1>11 DEF Join
  <1>12. CASE AddApp(b)
    BY <1>12 DEF AddApp
  <1>13. CASE Store(b)
    BY <1>13 DEF Store
  <1>14. CASE Exit(b)
    BY <1>14 DEF Exit
  <1>15. CASE MainFail(b)
    BY <1>15 DEF MainFail, Fault
  <1>16. CASE Handle(b)
    BY <1>16 DEF Handle
  <1>17. CASE Kill(b)
    BY <1>17 DEF Kill
  <1> QED
    BY <1>1, <1>2, <1>3, <1>4, <1>4a, <1>5, <1>6, <1>7, <1>8, <1>9, <1>10,
       <1>11,
       <1>12, <1>13, <1>14, <1>15, <1>16, <1>17 DEF MainStep, Interpreter

LEMMA JobFaultInv ==
  ASSUME TypeOK, FaultInv, NEW b \in Builds, NEW d \in Lock(b), JobStep(b, d)
  PROVE  FaultInv'
  <1> USE KeyType, BadTtlGiven DEF FaultInv, TypeOK, Errors, JobAt, JobGoTo, SetImg, AppendImg, cacheVars, endVars
  <1>1. CASE JobStart(b, d)
    BY <1>1 DEF JobStart
  <1>2. CASE JobHit(b, d)
    BY <1>2 DEF JobHit
  <1>3. CASE JobMiss(b, d)
    BY <1>3 DEF JobMiss
  <1>4. CASE JobLostHit(b, d)
    BY <1>4 DEF JobLostHit, Fault
  <1>4a. CASE JobBadTtl(b, d)
    <2>1. TtlGiven(b) /\ d \in Deps
      BY <1>4a
    <2>2. /\ job' = [job EXCEPT ![b][d] = "other"]
          /\ raised' = raised /\ wheels' = wheels /\ faults' = faults
      BY <1>4a DEF JobBadTtl
    <2> QED
      BY <2>1, <2>2
  <1>5. CASE JobDownload(b, d)
    BY <1>5 DEF JobDownload, WheelDir
  <1>6. CASE JobDownloadNothing(b, d)
    BY <1>6 DEF JobDownloadNothing, Fault
  <1>7. CASE JobResolve(b, d)
    BY <1>7 DEF JobResolve
  <1>8. CASE JobNotOneWheel(b, d)
    <2>1. d \in Deps /\ (faults[b] # 0 \/ TtlGiven(b))
      <3>1. d \in Deps /\ job[b][d] = "resolve"
        BY <1>8 DEF JobNotOneWheel
      <3>2. faults[b] = 0 /\ ~TtlGiven(b) => wheels[b][d] = {d}
        BY <3>1
      <3>3. \A whl \in wheels[b][d] : wheels[b][d] # {whl}
        BY <1>8 DEF JobNotOneWheel, WheelDir
      <3> HIDE DEF FaultInv
      <3> QED
        BY <3>1, <3>2, <3>3
    <2> QED
      BY <1>8, <2>1 DEF JobNotOneWheel
  <1>9. CASE JobUpload(b, d)
    BY <1>9 DEF JobUpload
  <1>10. CASE JobAppend(b, d)
    BY <1>10 DEF JobAppend
  <1>11. CASE JobFail(b, d)
    BY <1>11 DEF JobFail, Fault, JobErrors
  <1> QED
    BY <1>1, <1>2, <1>3, <1>4, <1>4a, <1>5, <1>6, <1>7, <1>8, <1>9, <1>10,
       <1>11 DEF JobStep

LEMMA MainPoolInv ==
  ASSUME TypeOK, PoolInv, NEW b \in Builds, Start(b) \/ MainStep(b) \/ Kill(b)
  PROVE  PoolInv'
  <1> USE KeyType DEF PoolInv, BeforePool, AfterPool, Finished, Errors, TypeOK, GoTo, SetImg, AppendImg, cacheVars, poolVars, endVars
  <1>1. CASE Start(b)
    BY <1>1 DEF Start
  <1>2. CASE InterpHit(b)
    BY <1>2 DEF InterpHit
  <1>3. CASE InterpMiss(b)
    BY <1>3 DEF InterpMiss
  <1>4. CASE InterpLostHit(b)
    BY <1>4 DEF InterpLostHit
  <1>4a. CASE InterpBadTtl(b)
    BY <1>4a DEF InterpBadTtl
  <1>5. CASE InterpBuild(b)
    BY <1>5 DEF InterpBuild
  <1>6. CASE InterpUpload(b)
    BY <1>6 DEF InterpUpload
  <1>7. CASE Submit(b)
    BY <1>7 DEF Submit
  <1>8. ASSUME NEW d \in Lock(b), Observe(b, d) PROVE PoolInv'
    BY <1>8 DEF Observe
  <1>9. ASSUME NEW d \in Lock(b), ObserveFailure(b, d) PROVE PoolInv'
    BY <1>9 DEF ObserveFailure
  <1>10. CASE LeaveLoop(b)
    BY <1>10 DEF LeaveLoop
  <1>11. CASE Join(b)
    BY <1>11 DEF Join
  <1>12. CASE AddApp(b)
    BY <1>12 DEF AddApp
  <1>13. CASE Store(b)
    BY <1>13 DEF Store
  <1>14. CASE Exit(b)
    BY <1>14 DEF Exit
  <1>15. CASE MainFail(b)
    BY <1>15 DEF MainFail, MainErrors
  <1>16. CASE Handle(b)
    BY <1>16 DEF Handle
  <1>17. CASE Kill(b)
    BY <1>17 DEF Kill
  <1> QED
    BY <1>1, <1>2, <1>3, <1>4, <1>4a, <1>5, <1>6, <1>7, <1>8, <1>9, <1>10,
       <1>11,
       <1>12, <1>13, <1>14, <1>15, <1>16, <1>17 DEF MainStep, Interpreter

LEMMA JobPoolInv ==
  ASSUME TypeOK, PoolInv, NEW b \in Builds, NEW d \in Lock(b), JobStep(b, d)
  PROVE  PoolInv'
  <1> USE KeyType DEF PoolInv, BeforePool, AfterPool, Finished, Errors, TypeOK, JobAt, JobGoTo, SetImg, AppendImg, cacheVars, endVars
  <1>1. CASE JobStart(b, d)
    BY <1>1 DEF JobStart
  <1>2. CASE JobHit(b, d)
    BY <1>2 DEF JobHit
  <1>3. CASE JobMiss(b, d)
    BY <1>3 DEF JobMiss
  <1>4. CASE JobLostHit(b, d)
    BY <1>4 DEF JobLostHit
  <1>4a. CASE JobBadTtl(b, d)
    BY <1>4a DEF JobBadTtl
  <1>5. CASE JobDownload(b, d)
    BY <1>5 DEF JobDownload
  <1>6. CASE JobDownloadNothing(b, d)
    BY <1>6 DEF JobDownloadNothing
  <1>7. CASE JobResolve(b, d)
    BY <1>7 DEF JobResolve
  <1>8. CASE JobNotOneWheel(b, d)
    BY <1>8 DEF JobNotOneWheel
  <1>9. CASE JobUpload(b, d)
    BY <1>9 DEF JobUpload
  <1>10. CASE JobAppend(b, d)
    BY <1>10 DEF JobAppend
  <1>11. CASE JobFail(b, d)
    BY <1>11 DEF JobFail, JobErrors
  <1> QED
    BY <1>1, <1>2, <1>3, <1>4, <1>4a, <1>5, <1>6, <1>7, <1>8, <1>9, <1>10,
       <1>11 DEF JobStep

-------------------------------------------------------------------------------
(***************************************************************************)
(* What is finished stays cached; what is stored was complete.             *)
(***************************************************************************)

LEMMA MainKeepsJobs ==
  ASSUME NEW b \in Builds, Start(b) \/ MainStep(b) \/ Kill(b), ~Submit(b)
  PROVE  job' = job
  BY DEF MainStep, Interpreter, Start, InterpHit, InterpMiss, InterpLostHit, InterpBadTtl, InterpBuild,
         InterpUpload, Observe, ObserveFailure, LeaveLoop, Join, AddApp, Store, Exit,
         MainFail, Handle, Kill, poolVars

LEMMA MainKeptInv ==
  ASSUME TypeOK, CacheSound, ImgInv, KeptInv, NEW b \in Builds, Start(b) \/ MainStep(b) \/ Kill(b)
  PROVE  KeptInv'
  <1>1. \A c \in Builds : \A d \in Deps :
          job'[c][d] \in {"append", "ok"} => job'[c][d] = job[c][d]
    <2>1. CASE Submit(b)
      BY <2>1 DEF Submit, TypeOK
    <2>2. CASE ~Submit(b)
      BY <2>2, MainKeepsJobs
    <2> QED
      BY <2>1, <2>2
  <1>2. \A r \in Repos, k \in Keys : registry[r][k] # NoLayer => registry'[r][k] # NoLayer
    BY MainCacheSound
  <1>3. \A c \in Builds : \A d \in Deps : Key(c, d) \in Keys /\ Config[c].repo \in Repos
    BY KeyType DEF Configs
  <1> QED
    BY <1>1, <1>2, <1>3, RepoAssumption DEF KeptInv

\* Only a hit and an upload bring a job to its append.
LEMMA JobComesToAppend ==
  ASSUME TypeOK, NEW b \in Builds, NEW d \in Lock(b), JobStep(b, d),
         ~JobHit(b, d), ~JobUpload(b, d)
  PROVE  \A c \in Builds : \A e \in Deps :
           job'[c][e] \in {"append", "ok"} => job[c][e] \in {"append", "ok"}
  <1>1. d \in Deps
    BY KeyType
  <1>2. \E s : /\ JobGoTo(b, d, s)
               /\ s \in {"append", "ok"} => job[b][d] = "append"
    BY DEF JobStep, JobStart, JobMiss, JobLostHit, JobBadTtl, JobDownload, JobDownloadNothing,
         JobResolve, JobNotOneWheel, JobAppend, JobFail, JobErrors, JobAt
  <1> QED
    BY <1>1, <1>2 DEF JobGoTo, TypeOK

LEMMA JobKeptInv ==
  ASSUME TypeOK, CacheSound, ImgInv, KeptInv, NEW b \in Builds, NEW d \in Lock(b), JobStep(b, d)
  PROVE  KeptInv'
  <1>1. \A r \in Repos, k \in Keys : registry[r][k] # NoLayer => registry'[r][k] # NoLayer
    BY JobCacheSound
  <1>2. \A c \in Builds : \A e \in Deps : Key(c, e) \in Keys /\ Config[c].repo \in Repos
    BY KeyType DEF Configs
  <1>3. d \in Deps /\ d \in Parts
    BY KeyType
  <1>4. CASE JobHit(b, d)
    <2>1. \/ registry[Config[b].repo][Key(b, d)] # NoLayer
          \/ Config[b].useGlobal /\ registry[GlobalRepo][Key(b, d)] # NoLayer
      BY <1>3, <1>4, GetResult DEF JobHit, TypeOK
    <2>2. registry' = registry /\ job' = [job EXCEPT ![b][d] = "append"]
      BY <1>4 DEF JobHit, JobGoTo, cacheVars
    <2> QED
      BY <1>3, <2>1, <2>2 DEF KeptInv, TypeOK
  <1>5. CASE JobUpload(b, d)
    <2>1. Config[b].upload => registry'[Config[b].repo][Key(b, d)] # NoLayer
      BY <1>5, JobCacheSound
    <2>2. job' = [job EXCEPT ![b][d] = "append"]
      BY <1>5 DEF JobUpload, JobGoTo
    <2> QED
      BY <1>1, <1>2, <1>3, <2>1, <2>2, RepoAssumption DEF KeptInv, TypeOK
  <1>6. CASE ~JobHit(b, d) /\ ~JobUpload(b, d)
    BY <1>1, <1>2, <1>6, JobComesToAppend, RepoAssumption DEF KeptInv
  <1> QED
    BY <1>4, <1>5, <1>6

LEMMA MainKeepsStored ==
  ASSUME NEW b \in Builds, Start(b) \/ MainStep(b) \/ Kill(b), ~Store(b)
  PROVE  stored' = stored
  BY DEF MainStep, Interpreter, Start, InterpHit, InterpMiss, InterpLostHit, InterpBadTtl, InterpBuild,
         InterpUpload, Submit, Observe, ObserveFailure, LeaveLoop, Join, AddApp, Exit,
         MainFail, Handle, Kill, endVars

\* The jobs neither move the main thread nor touch what it leaves behind.
LEMMA JobKeepsMain ==
  ASSUME NEW b \in Builds, NEW d \in Lock(b), JobStep(b, d)
  PROVE  UNCHANGED <<now, main, seen, raised, exitCode, stored>>
  BY DEF JobStep, JobStart, JobHit, JobMiss, JobLostHit, JobBadTtl, JobDownload, JobDownloadNothing,
         JobResolve, JobNotOneWheel, JobUpload, JobAppend, JobFail, cacheVars, endVars

LEMMA MainStoredInv ==
  ASSUME TypeOK, ListInv, StoredInv, StoredComplete,
         NEW b \in Builds, Start(b) \/ MainStep(b) \/ Kill(b)
  PROVE  StoredInv' /\ StoredComplete'
  <1>1. CASE Store(b)
    <2>1. lyr_imgs[b] # NoImage /\ Complete(b, lyr_imgs[b])
      BY <1>1, NoImageAssumption DEF Store, ListInv, TypeOK
    <2> QED
      BY <1>1, <2>1 DEF Store, GoTo, StoredInv, StoredComplete, TypeOK
  <1>2. CASE ~Store(b)
    <2>1. stored' = stored
      BY <1>2, MainKeepsStored
    <2>2. /\ \A c \in Builds \ {b} : main'[c] = main[c]
          /\ main'[b] # "return"
          /\ main[b] \in {"return", "exited", "killed"} => main'[b] \in {"return", "exited", "killed"}
      BY <1>2 DEF MainStep, Interpreter, Start, InterpHit, InterpMiss, InterpLostHit, InterpBadTtl,
         InterpBuild, InterpUpload, Submit, Observe, ObserveFailure, LeaveLoop, Join, AddApp,
         Exit, MainFail, MainErrors, Handle, Kill, GoTo, TypeOK
    <2> QED
      BY <2>1, <2>2 DEF StoredInv, StoredComplete
  <1> QED
    BY <1>1, <1>2

-------------------------------------------------------------------------------
(***************************************************************************)
(* The list of images, which every thread of the pool appends to.          *)
(***************************************************************************)

LEMMA AppendFacts ==
  ASSUME NEW S, NEW s \in Seq(S), NEW x \in S
  PROVE  /\ Append(s, x) \in Seq(S) /\ Len(s) \in Nat
         /\ Len(Append(s, x)) = Len(s) + 1
         /\ Append(s, x)[Len(s) + 1] = x
         /\ \A i \in 1 .. Len(s) : Append(s, x)[i] = s[i]
  OBVIOUS

\* The interpreter's layer on top of the base, while no job has ended.
LEMMA StackedFirst ==
  ASSUME NEW b \in Builds, NEW l \in Layers, l.part = Interp, l.env = Env(b),
         \A d \in Deps : job[b][d] # "ok"
  PROVE  Stacked(b, Append(<<BaseLayer>>, l))
  <1> DEFINE s == <<BaseLayer>>
             t == Append(s, l)
  <1>1. s \in Seq(ImageLayers) /\ Len(s) = 1 /\ s[1] = BaseLayer /\ l \in ImageLayers
    BY DEF ImageLayers
  <1>2. Len(t) = 2 /\ t[1] = BaseLayer /\ t[2] = l
    BY <1>1, AppendFacts
  <1> HIDE DEF s, t
  <1>3. Stacked(b, t)
    BY <1>2 DEF Stacked
  <1> QED
    BY <1>3 DEF s, t

\* The layer of a job that ends: the list grows with the set of packages done.
LEMMA StackedAppend ==
  ASSUME TypeOK, NEW b \in Builds, NEW d \in Deps, Stacked(b, lyr_imgs[b]), job[b][d] # "ok",
         NEW l \in Layers, l.part = d, l.env = Env(b),
         job' = [job EXCEPT ![b][d] = "ok"],
         lyr_imgs' = [lyr_imgs EXCEPT ![b] = Append(lyr_imgs[b], l)]
  PROVE  Stacked(b, lyr_imgs[b])'
  <1> DEFINE s == lyr_imgs[b]
             t == Append(s, l)
  <1>1. s \in Seq(ImageLayers) /\ l \in ImageLayers
    BY DEF TypeOK, ImageLayers
  <1>2. /\ Len(s) \in Nat /\ Len(t) = Len(s) + 1 /\ t[Len(s) + 1] = l
        /\ \A i \in 1 .. Len(s) : t[i] = s[i]
    BY <1>1, AppendFacts
  <1>3. Len(s) > 1 /\ s[1] = BaseLayer /\ s[2] \in Layers /\ s[2].part = Interp
    BY DEF Stacked
  <1>4. 2 .. Len(t) = (2 .. Len(s)) \cup {Len(s) + 1}
    BY <1>2, <1>3
  <1>5. /\ job'[b][d] = "ok"
        /\ \A e \in Deps \ {d} : job'[b][e] = job[b][e]
    BY DEF TypeOK
  <1>6. \A i \in 2 .. Len(s) : /\ t[i] = s[i] /\ s[i] \in Layers /\ s[i].env = Env(b)
                               /\ s[i].part \in Parts
                               /\ s[i].part # Interp => job[b][s[i].part] = "ok"
                               /\ s[i].part # d
    BY <1>2, PartAssumption DEF Stacked, Layers
  <1> HIDE DEF t
  <1>7. Len(t) > 1 /\ t[1] = BaseLayer /\ t[2] \in Layers /\ t[2].part = Interp
    BY <1>2, <1>3
  <1>8. \A e \in Deps : job'[b][e] = "ok" =>
          \E i \in 2 .. Len(t) : t[i] \in Layers /\ t[i].part = e
    <2>1. ASSUME NEW e \in Deps \ {d}, job[b][e] = "ok"
          PROVE  \E i \in 2 .. Len(s) : s[i] \in Layers /\ s[i].part = e
      BY <2>1 DEF Stacked
    <2> QED
      BY <1>2, <1>4, <1>5, <1>6, <2>1
  <1>9. \A i \in 2 .. Len(t) : /\ t[i] \in Layers /\ t[i].env = Env(b)
                               /\ t[i].part # Interp => job'[b][t[i].part] = "ok"
    BY <1>2, <1>4, <1>5, <1>6 DEF Parts
  <1>10. \A i, j \in 2 .. Len(t) : t[i].part = t[j].part => i = j
    <2>1. \A i, j \in 2 .. Len(s) : s[i].part = s[j].part => i = j
      BY DEF Stacked
    <2> QED
      BY <1>2, <1>4, <1>6, <2>1
  <1>11. lyr_imgs'[b] = t
    BY DEF t, TypeOK
  <1> HIDE DEF s
  <1> QED
    BY ONLY <1>7, <1>8, <1>9, <1>10, <1>11 DEF Stacked, Env

\* A list stays as it is while no job comes to its end.
LEMMA StackedFrame ==
  ASSUME NEW c \in Builds, Stacked(c, lyr_imgs[c]), lyr_imgs'[c] = lyr_imgs[c],
         \A d \in Deps : job'[c][d] = "ok" <=> job[c][d] = "ok"
  PROVE  Stacked(c, lyr_imgs[c])'
  <1>1. \A i \in 2 .. Len(lyr_imgs[c]) :
          lyr_imgs[c][i].part # Interp => lyr_imgs[c][i].part \in Deps
    BY DEF Stacked, Layers, Parts
  <1> QED
    BY <1>1 DEF Stacked

\* With every job done the application's layer makes the image complete.
LEMMA StackedComplete ==
  ASSUME TypeOK, NEW b \in Builds, Stacked(b, lyr_imgs[b]),
         \A d \in Lock(b) : job[b][d] = "ok",
         \A d \in Deps : job[b][d] # "none" => d \in Lock(b)
  PROVE  Complete(b, Append(lyr_imgs[b], AppLayer))
  <1> DEFINE s == lyr_imgs[b]
             t == Append(s, AppLayer)
  <1>1. s \in Seq(ImageLayers) /\ AppLayer \in ImageLayers
    BY DEF TypeOK, ImageLayers
  <1>2. /\ Len(s) \in Nat /\ Len(t) = Len(s) + 1 /\ t[Len(s) + 1] = AppLayer
        /\ \A i \in 1 .. Len(s) : t[i] = s[i]
    BY <1>1, AppendFacts
  <1>3. Len(s) > 1 /\ s[1] = BaseLayer /\ s[2] \in Layers /\ s[2].part = Interp
    BY DEF Stacked
  <1>4. Inner(t) = 2 .. Len(s) /\ \A i \in Inner(t) : t[i] = s[i]
    BY <1>2, <1>3 DEF Inner
  <1>5. \A i \in 2 .. Len(s) : /\ s[i] \in Layers /\ s[i].env = Env(b)
                               /\ s[i].part \in Lock(b) \cup {Interp}
    BY DEF Stacked, Layers, Parts
  <1>6. \A d \in Lock(b) : \E i \in 2 .. Len(s) : s[i] \in Layers /\ s[i].part = d
    BY KeyType DEF Stacked
  <1>7. \A i, j \in 2 .. Len(s) : s[i].part = s[j].part => i = j
    BY DEF Stacked
  <1> HIDE DEF s, t
  <1>8. Complete(b, t)
    BY <1>2, <1>3, <1>4, <1>5, <1>6, <1>7 DEF Complete
  <1> QED
    BY <1>8 DEF s, t

\* Steps of the main thread that leave the list alone.
LEMMA MainKeepsList ==
  ASSUME NEW b \in Builds, Start(b) \/ MainStep(b) \/ Kill(b),
         ~Start(b), ~InterpHit(b), ~InterpUpload(b), ~AddApp(b)
  PROVE  lyr_imgs' = lyr_imgs
  BY DEF MainStep, Interpreter, InterpMiss, InterpLostHit, InterpBadTtl, InterpBuild, Submit, Observe,
         ObserveFailure, LeaveLoop, Join, Store, Exit, MainFail, Handle, Kill

\* Where those steps lead: not into the phase of another shape of the list.
LEMMA MainKeepsPhase ==
  ASSUME TypeOK, NEW b \in Builds, Start(b) \/ MainStep(b) \/ Kill(b),
         ~Start(b), ~InterpHit(b), ~InterpUpload(b), ~AddApp(b)
  PROVE  /\ \A c \in Builds \ {b} : main'[c] = main[c]
         /\ main'[b] \notin {"new", "store"}
         /\ main'[b] \in {"interpLookup", "interpBuild", "interpUpload"} =>
              main[b] \in {"interpLookup", "interpBuild", "interpUpload"}
         /\ main'[b] \in {"submit", "watch", "join", "app"} =>
              main[b] \in {"submit", "watch", "join", "app"}
  BY DEF MainStep, Interpreter, InterpMiss, InterpLostHit, InterpBadTtl, InterpBuild, Submit, Observe,
         ObserveFailure, LeaveLoop, Join, Store, Exit, MainFail, Handle, Kill, GoTo, TypeOK

\* The interpreter's layer comes into the list.
LEMMA InterpreterListInv ==
  ASSUME TypeOK, PoolInv, ListInv, NEW b \in Builds, NEW l \in Layers,
         l.part = Interp, l.env = Env(b),
         main[b] \in {"interpLookup", "interpUpload"}, main' = [main EXCEPT ![b] = "submit"],
         lyr_imgs' = [lyr_imgs EXCEPT ![b] = Append(lyr_imgs[b], l)],
         job' = job
  PROVE  ListInv'
  <1>1. lyr_imgs[b] = <<BaseLayer>> /\ \A d \in Deps : job[b][d] # "ok"
    BY DEF ListInv, PoolInv, BeforePool
  <1>2. Stacked(b, Append(<<BaseLayer>>, l))
    BY <1>1, StackedFirst
  <1>3. Stacked(b, Append(<<BaseLayer>>, l)) => Stacked(b, lyr_imgs[b])'
    BY <1>1 DEF Stacked, TypeOK
  <1>4. ASSUME NEW c \in Builds \ {b}
        PROVE  /\ main'[c] = main[c] /\ lyr_imgs'[c] = lyr_imgs[c]
               /\ Stacked(c, lyr_imgs[c]) => Stacked(c, lyr_imgs[c])'
    BY DEF TypeOK, Stacked
  <1>5. main'[b] = "submit"
    BY DEF TypeOK
  <1> QED
    BY <1>2, <1>3, <1>4, <1>5 DEF ListInv

LEMMA MainListInv ==
  ASSUME TypeOK, CacheSound, ImgInv, PoolInv, ListInv,
         NEW b \in Builds, Start(b) \/ MainStep(b) \/ Kill(b)
  PROVE  ListInv'
  <1>1. CASE Start(b)
    <2>1. lyr_imgs[b] = <<>> /\ Append(<<>>, BaseLayer) = <<BaseLayer>>
      BY <1>1 DEF Start, ListInv
    <2>2. lyr_imgs'[b] = <<BaseLayer>> /\ main'[b] = "interpLookup"
      BY <1>1, <2>1 DEF Start, AppendImg, GoTo, TypeOK
    <2>3. ASSUME NEW c \in Builds \ {b}
          PROVE  /\ main'[c] = main[c] /\ lyr_imgs'[c] = lyr_imgs[c]
                 /\ Stacked(c, lyr_imgs[c]) => Stacked(c, lyr_imgs[c])'
      BY <1>1 DEF Start, AppendImg, GoTo, TypeOK, Stacked, poolVars
    <2> QED
      BY <2>2, <2>3 DEF ListInv
  <1>2. CASE InterpHit(b)
    <2>1. Interp \in Parts
      BY KeyType
    <2> QED
      BY <1>2, <2>1, HitSound, InterpreterListInv
         DEF InterpHit, AppendImg, GoTo, poolVars, TypeOK
  <1>3. CASE InterpUpload(b)
    <2>1. /\ img[b][Interp] \in Layers
          /\ img[b][Interp].part = Interp /\ img[b][Interp].env = Env(b)
      BY <1>3, KeyType DEF InterpUpload, ImgInv, TypeOK
    <2> QED
      BY <1>3, <2>1, InterpreterListInv DEF InterpUpload, AppendImg, GoTo, poolVars
  <1>4. CASE AddApp(b)
    <2>1. Complete(b, Append(lyr_imgs[b], AppLayer))
      BY <1>4, StackedComplete DEF AddApp, ListInv, PoolInv, AfterPool
    <2>2. lyr_imgs'[b] = Append(lyr_imgs[b], AppLayer) /\ main'[b] = "store"
      BY <1>4 DEF AddApp, AppendImg, GoTo, TypeOK
    <2>3. ASSUME NEW c \in Builds \ {b}
          PROVE  /\ main'[c] = main[c] /\ lyr_imgs'[c] = lyr_imgs[c]
                 /\ Stacked(c, lyr_imgs[c]) => Stacked(c, lyr_imgs[c])'
      BY <1>4 DEF AddApp, AppendImg, GoTo, TypeOK, Stacked, poolVars
    <2> QED
      BY <2>1, <2>2, <2>3 DEF ListInv
  <1>5. CASE ~Start(b) /\ ~InterpHit(b) /\ ~InterpUpload(b) /\ ~AddApp(b)
    <2>1. lyr_imgs' = lyr_imgs
      BY <1>5, MainKeepsList
    <2>2. \A c \in Builds : \A d \in Deps : job'[c][d] = "ok" <=> job[c][d] = "ok"
      <3>1. CASE Submit(b)
        BY <3>1 DEF Submit, PoolInv, BeforePool, TypeOK
      <3>2. CASE ~Submit(b)
        BY <3>2, MainKeepsJobs
      <3> QED
        BY <3>1, <3>2
    <2>3. \A c \in Builds : Stacked(c, lyr_imgs[c]) => Stacked(c, lyr_imgs[c])'
      BY <2>1, <2>2, StackedFrame
    <2> QED
      BY <1>5, <2>1, <2>3, MainKeepsPhase DEF ListInv
  <1> QED
    BY <1>1, <1>2, <1>3, <1>4, <1>5

\* A job other than one that appends leaves the list alone, and ends no job well.
LEMMA JobKeepsList ==
  ASSUME TypeOK, NEW b \in Builds, NEW d \in Lock(b), JobStep(b, d), ~JobAppend(b, d)
  PROVE  /\ lyr_imgs' = lyr_imgs
         /\ \A c \in Builds : \A e \in Deps : job'[c][e] = "ok" <=> job[c][e] = "ok"
  <1>1. d \in Deps
    BY KeyType
  <1>2. \E s : JobGoTo(b, d, s) /\ s # "ok" /\ job[b][d] # "ok" /\ lyr_imgs' = lyr_imgs
    BY DEF JobStep, JobStart, JobHit, JobMiss, JobLostHit, JobBadTtl, JobDownload, JobDownloadNothing,
         JobResolve, JobNotOneWheel, JobUpload, JobFail, JobErrors, JobAt
  <1> QED
    BY <1>1, <1>2 DEF JobGoTo, TypeOK

LEMMA JobListInv ==
  ASSUME TypeOK, ImgInv, PoolInv, ListInv, NEW b \in Builds, NEW d \in Lock(b), JobStep(b, d)
  PROVE  ListInv'
  <1>1. d \in Deps /\ d \in Parts /\ main' = main
    BY KeyType, JobKeepsMain
  <1>2. CASE JobAppend(b, d)
    <2>1. /\ img[b][d] \in Layers /\ img[b][d].part = d /\ img[b][d].env = Env(b)
          /\ job[b][d] = "append"
      BY <1>1, <1>2 DEF JobAppend, JobAt, ImgInv, TypeOK
    <2>2. main[b] \notin BeforePool \cup AfterPool
      BY <1>1, <2>1 DEF PoolInv
    <2>3. job' = [job EXCEPT ![b][d] = "ok"] /\ AppendImg(b, img[b][d])
      BY <1>2 DEF JobAppend, JobGoTo
    <2>4. Stacked(b, lyr_imgs[b]) => Stacked(b, lyr_imgs[b])'
      BY <1>1, <2>1, <2>3, StackedAppend DEF AppendImg
    <2>5. ASSUME NEW c \in Builds \ {b}
          PROVE  /\ lyr_imgs'[c] = lyr_imgs[c]
                 /\ Stacked(c, lyr_imgs[c]) => Stacked(c, lyr_imgs[c])'
      BY <2>3 DEF AppendImg, TypeOK, Stacked
    <2> QED
      BY <1>1, <2>2, <2>4, <2>5 DEF ListInv, BeforePool, AfterPool
  <1>3. CASE ~JobAppend(b, d)
    BY <1>1, <1>3, JobKeepsList, StackedFrame DEF ListInv
  <1> QED
    BY <1>2, <1>3

-------------------------------------------------------------------------------
(***************************************************************************)
(* The invariant is inductive.                                             *)
(***************************************************************************)

LEMMA InitIInv == Init => IInv
  <1> SUFFICES ASSUME Init PROVE IInv
    OBVIOUS
  <1>1. TypeOK
    BY InitTypeOK
  <1>2. CacheSound /\ KeptInv
    BY DEF Init, CacheInit, CacheSound, KeptInv
  <1>3. ImgInv /\ FaultInv
    BY KeyType DEF Init, ImgInv, FaultInv, Errors
  <1>4. PoolInv
    BY DEF Init, PoolInv, BeforePool, AfterPool
  <1>5. ListInv /\ StoredInv /\ StoredComplete
    BY DEF Init, ListInv, StoredInv, StoredComplete
  <1> QED
    BY <1>1, <1>2, <1>3, <1>4, <1>5 DEF IInv

\* Only the clock and what is compared with it may change: everything else
\* keeps the invariant.
LEMMA StillIInv ==
  ASSUME IInv, now' \in Nat,
         UNCHANGED <<registry, poolVars, endVars, main, lyr_imgs, img, faults>>
  PROVE  IInv'
  <1> USE DEF poolVars, endVars
  <1>1. TypeOK'
    BY DEF IInv, TypeOK, CacheTypeOK
  <1>2. CacheSound' /\ KeptInv'
    BY DEF IInv, CacheSound, KeptInv
  <1>3. ImgInv' /\ FaultInv' /\ PoolInv'
    BY DEF IInv, ImgInv, FaultInv, PoolInv
  <1>4. ListInv'
    BY DEF IInv, ListInv, Stacked
  <1>5. StoredInv' /\ StoredComplete'
    BY DEF IInv, StoredInv, StoredComplete
  <1> QED
    BY <1>1, <1>2, <1>3, <1>4, <1>5 DEF IInv

LEMMA StepIInv == IInv /\ [Next]_vars => IInv'
  <1> SUFFICES ASSUME IInv, [Next]_vars PROVE IInv'
    OBVIOUS
  <1>1. ASSUME NEW b \in Builds, Start(b) \/ MainStep(b) \/ Kill(b) PROVE IInv'
    BY <1>1, MainTypeOK, MainCacheSound, MainImgInv, MainFaultInv, MainPoolInv, MainListInv,
       MainStoredInv, MainKeptInv DEF IInv
  <1>2. ASSUME NEW b \in Builds, NEW d \in Lock(b), JobStep(b, d) PROVE IInv'
    <2>1. StoredInv' /\ StoredComplete'
      BY <1>2, JobKeepsMain DEF IInv, StoredInv, StoredComplete
    <2> QED
      BY <1>2, <2>1, JobTypeOK, JobCacheSound, JobImgInv, JobFaultInv, JobPoolInv,
         JobListInv, JobKeptInv DEF IInv
  <1>3. CASE Tick /\ UNCHANGED <<poolVars, endVars, main, lyr_imgs, img, faults>>
    BY <1>3, StillIInv DEF Tick, IInv, TypeOK, CacheTypeOK
  <1>4. CASE UNCHANGED vars
    BY <1>4, StillIInv DEF vars, cacheVars, IInv, TypeOK, CacheTypeOK
  <1> QED
    BY <1>1, <1>2, <1>3, <1>4 DEF Next, BuildStep

\* IInv holds in every reachable state of every instance.
THEOREM Inductive == Spec => []IInv
  BY InitIInv, StepIInv, PTL DEF Spec

-------------------------------------------------------------------------------
(***************************************************************************)
(* The properties.                                                         *)
(***************************************************************************)

\* Type correctness, which includes that no thread uploads or appends an
\* image it does not have.
THEOREM TypeCorrect == Spec => []TypeOK
  <1>1. IInv => TypeOK
    BY DEF IInv
  <1> QED
    BY <1>1, Inductive, PTL

\* Whatever the threads of the pool do, a stored image is complete.
THEOREM StoredIsComplete == Spec => []StoredComplete
  <1>1. IInv => StoredComplete
    BY DEF IInv
  <1> QED
    BY <1>1, Inductive, PTL

\* A tag of the cache always holds what its key was computed from.
THEOREM CacheIsSound == Spec => []CacheSound
  <1>1. IInv => CacheSound
    BY DEF IInv
  <1> QED
    BY <1>1, Inductive, PTL

\* Once Build() has left the executor no job is at work.
THEOREM PoolIsQuiet == Spec => []QuietAfterJoin
  <1>1. IInv => QuietAfterJoin
    BY KeyType DEF IInv, PoolInv, QuietAfterJoin, AfterPool, Finished
  <1> QED
    BY <1>1, Inductive, PTL

\* A build fails only if something outside it has failed.
THEOREM NoSpuriousFailure == Spec => []FailsOnlyOnFault
  <1>1. IInv => FailsOnlyOnFault
    BY DEF IInv, FaultInv, FailsOnlyOnFault, TypeOK
  <1> QED
    BY <1>1, Inductive, PTL

\* The layer of every job that ended well is in the cache, for good.
THEOREM FinishedIsCached == Spec => []FinishedLayersCached
  <1>1. IInv => FinishedLayersCached
    BY KeyType DEF IInv, KeptInv, FinishedLayersCached
  <1> QED
    BY <1>1, Inductive, PTL

-------------------------------------------------------------------------------
(***************************************************************************)
(* Time to live.                                                           *)
(***************************************************************************)

\* Cutting a creation time to the hour never makes a layer younger.
LEMMA CreationTimeBound ==
  ASSUME NEW l \in Layers
  PROVE  CreationTime(l) \in Int /\ CreationTime(l) <= l.built
  <1>1. l.built \in Nat /\ TicksPerHour \in Nat \ {0}
    BY ClockAssumption DEF Layers
  <1>2. l.built % TicksPerHour \in 0 .. TicksPerHour - 1
    BY <1>1
  <1> QED
    BY <1>1, <1>2 DEF CreationTime

\* The time to live of a build is some ticks.
LEMMA TtlPositive ==
  ASSUME NEW b \in Builds
  PROVE  TTL * TicksPerHour \in Nat \ {0}
  <1>1. TTL \in Nat \ {0} /\ TicksPerHour \in Nat \ {0}
    BY ConfigAssumption, ClockAssumption DEF Configs
  <1> QED
    BY <1>1

\* What a lookup returns, and what was just made, is young enough.
LEMMA HitFresh ==
  ASSUME CacheTypeOK, NEW b \in Builds, NEW p \in Parts,
         Get(Key(b, p), Config[b]) # NoLayer
  PROVE  now - Get(Key(b, p), Config[b]).built < TTL * TicksPerHour
  <1> DEFINE l == Get(Key(b, p), Config[b])
  <1>1. l \in Layers /\ CheckTTL(l)
    BY GetResult
  <1>2. now \in Nat /\ l.built \in Nat /\ TTL * TicksPerHour \in Nat
    BY <1>1, TtlPositive DEF CacheTypeOK, Layers
  <1> HIDE DEF l
  <1>3. CreationTime(l) > now - TTL * TicksPerHour
    BY <1>1 DEF CheckTTL
  <1>4. CreationTime(l) \in Int /\ CreationTime(l) <= l.built
    BY <1>1, CreationTimeBound
  <1>5. now - l.built < TTL * TicksPerHour
    BY <1>2, <1>3, <1>4
  <1> QED
    BY <1>5 DEF l

LEMMA NewLayerFresh ==
  ASSUME now \in Nat, NEW b \in Builds, NEW p
  PROVE  now - NewLayer(p, Env(b)).built < TTL * TicksPerHour
  <1>1. NewLayer(p, Env(b)).built = now
    BY DEF NewLayer
  <1> QED
    BY <1>1, TtlPositive

\* A step that gives a builder an image takes a hit or makes a layer.
LEMMA ImgChange ==
  ASSUME TypeOK, [Next]_vars, NEW b \in Builds, NEW p \in Parts, img'[b][p] # img[b][p]
  PROVE  \/ /\ Get(Key(b, p), Config[b]) # NoLayer
            /\ img'[b][p] = Get(Key(b, p), Config[b])
         \/ \E q \in Parts : img'[b][p] = NewLayer(q, Env(b))
  <1>1. ASSUME NEW c \in Builds, NEW q \in Parts, NEW l, SetImg(c, q, l)
        PROVE  c = b /\ q = p /\ img'[b][p] = l
    BY <1>1 DEF SetImg, TypeOK
  <1>2. ASSUME NEW c \in Builds, Start(c) \/ MainStep(c) \/ Kill(c)
        PROVE  InterpHit(c) \/ InterpBuild(c)
    BY <1>2 DEF MainStep, Interpreter, Start, InterpMiss, InterpLostHit, InterpBadTtl, InterpUpload, Submit,
       Observe, ObserveFailure, LeaveLoop, Join, AddApp, Store, Exit, MainFail, Handle, Kill
  <1>3. ASSUME NEW c \in Builds, NEW d \in Lock(c), JobStep(c, d)
        PROVE  JobHit(c, d) \/ JobResolve(c, d)
    BY <1>3 DEF JobStep, JobStart, JobMiss, JobLostHit, JobBadTtl, JobDownload, JobDownloadNothing,
       JobNotOneWheel, JobUpload, JobAppend, JobFail
  <1>4. ASSUME NEW c \in Builds, InterpHit(c) \/ InterpBuild(c)
        PROVE  \/ /\ Get(Key(b, p), Config[b]) # NoLayer
                  /\ img'[b][p] = Get(Key(b, p), Config[b])
               \/ \E q \in Parts : img'[b][p] = NewLayer(q, Env(b))
    BY <1>1, <1>4, KeyType DEF InterpHit, InterpBuild
  <1>5. ASSUME NEW c \in Builds, NEW d \in Lock(c), JobHit(c, d) \/ JobResolve(c, d)
        PROVE  \/ /\ Get(Key(b, p), Config[b]) # NoLayer
                  /\ img'[b][p] = Get(Key(b, p), Config[b])
               \/ \E q \in Parts : img'[b][p] = NewLayer(q, Env(b))
    <2>1. d \in Parts /\ d \in Deps
      BY KeyType
    <2>2. CASE JobHit(c, d)
      BY <1>1, <2>1, <2>2 DEF JobHit
    <2>3. CASE JobResolve(c, d)
      <3>1. PICK whl \in wheels[c][d] : SetImg(c, d, NewLayer(whl, Env(c)))
        BY <2>3 DEF JobResolve, WheelDir
      <3>2. whl \in Parts
        BY <2>1, KeyType DEF TypeOK
      <3> QED
        BY <1>1, <2>1, <3>1, <3>2
    <2> QED
      BY <1>5, <2>2, <2>3
  <1>6. \E c \in Builds : \/ Start(c) \/ MainStep(c) \/ Kill(c)
                          \/ \E d \in Lock(c) : JobStep(c, d)
    BY DEF Next, BuildStep, vars
  <1> QED
    BY <1>2, <1>3, <1>4, <1>5, <1>6

\* No builder ever takes a layer as old as the ttl of its build.
THEOREM NeverStale == Spec => NoStaleLayer
  <1> DEFINE InTime == \A b \in Builds : \A p \in Parts :
       img'[b][p] # img[b][p] => now - img'[b][p].built < TTL * TicksPerHour
  <1>1. IInv /\ [Next]_vars => [InTime]_vars
    <2> SUFFICES ASSUME IInv, [Next]_vars, NEW b \in Builds, NEW p \in Parts,
                        img'[b][p] # img[b][p]
                 PROVE  now - img'[b][p].built < TTL * TicksPerHour
      OBVIOUS
    <2>1. TypeOK /\ CacheTypeOK /\ now \in Nat
      BY DEF IInv, TypeOK, CacheTypeOK
    <2> QED
      BY <2>1, ImgChange, HitFresh, NewLayerFresh
  <1> QED
    BY <1>1, Inductive, PTL DEF Spec, NoStaleLayer

-------------------------------------------------------------------------------
(***************************************************************************)
(* Work that is not needed.                                                *)
(***************************************************************************)

\* What cutting to the hour costs is less than an hour.
LEMMA CreationTimeLoss ==
  ASSUME NEW l \in Layers
  PROVE  CreationTime(l) \in Int /\ CreationTime(l) > l.built - TicksPerHour
  <1>1. l.built \in Nat /\ TicksPerHour \in Nat \ {0}
    BY ClockAssumption DEF Layers
  <1>2. l.built % TicksPerHour \in 0 .. TicksPerHour - 1
    BY <1>1
  <1> QED
    BY <1>1, <1>2 DEF CreationTime

\* A layer an hour short of the ttl passes the ttl check, cut as it is.
LEMMA YoungPasses ==
  ASSUME now \in Nat, NEW l \in Layers, Young(l)
  PROVE  CheckTTL(l)
  <1> DEFINE H == TicksPerHour
             T == TTL * TicksPerHour
  <1>1. l.built \in Nat /\ H \in Nat /\ TTL \in Nat /\ T \in Nat
    BY ClockAssumption DEF Layers
  <1>2. (TTL - 1) * TicksPerHour = T - H
    BY <1>1
  <1>3. CreationTime(l) \in Int /\ CreationTime(l) > l.built - H
    BY CreationTimeLoss
  <1> HIDE DEF H, T
  <1>4. now - l.built <= T - H
    BY <1>2 DEF Young
  <1>5. CreationTime(l) > now - T
    BY <1>1, <1>3, <1>4
  <1> QED
    BY <1>5 DEF CheckTTL, T

\* What the lookup finds when a layer is there to be taken is young.
LEMMA FetchableIsHit ==
  ASSUME CacheTypeOK, NEW b \in Builds, NEW p \in Parts, Fetchable(b, p)
  PROVE  Get(Key(b, p), Config[b]) # NoLayer
  <1> DEFINE own    == registry[Config[b].repo][Key(b, p)]
             global == registry[GlobalRepo][Key(b, p)]
             found  == GetEntry(Key(b, p), Config[b])
  <1>1. Key(b, p) \in Keys /\ Config[b].repo \in Repos /\ GlobalRepo \in Repos
    BY KeyType, RepoAssumption DEF Configs
  <1>2. own \in Layers \cup {NoLayer} /\ global \in Layers \cup {NoLayer}
    BY <1>1 DEF CacheTypeOK
  <1>3. Config[b].cache /\ (Young(own) \/ (Config[b].useGlobal /\ Young(global)))
    BY DEF Fetchable, ReadBy
  <1>4. Young(found)
    <2>1. CASE Config[b].useGlobal /\ global # NoLayer
      <3>1. Young(global)
        BY <2>1 DEF Fetchable, Hidden
      <3> QED
        BY <2>1, <3>1 DEF GetEntry
    <2>2. CASE ~(Config[b].useGlobal /\ global # NoLayer)
      <3>1. Young(own)
        BY <1>3, <2>2 DEF Young
      <3> QED
        BY <2>2, <3>1 DEF GetEntry
    <2> QED
      BY <2>1, <2>2
  <1>5. found \in Layers /\ found # NoLayer
    BY <1>2, <1>4 DEF GetEntry, Young
  <1>6. CheckTTL(found)
    BY <1>4, <1>5, YoungPasses DEF CacheTypeOK
  <1> QED
    BY <1>3, <1>5, <1>6 DEF Get, Found

\* The main thread turns from the lookup to the making of the interpreter
\* layer on a miss, and on a hit the registry took back.
LEMMA InterpTurns ==
  ASSUME TypeOK, [Next]_vars, NEW b \in Builds,
         main[b] = "interpLookup", main'[b] = "interpBuild"
  PROVE  InterpMiss(b) \/ InterpLostHit(b)
  <1>1. ASSUME NEW c \in Builds, NEW pc, GoTo(c, pc)
        PROVE  c = b /\ pc = "interpBuild"
    BY <1>1 DEF GoTo, TypeOK
  <1>2. main' # main
    OBVIOUS
  <1>3. ASSUME NEW c \in Builds, Start(c) \/ MainStep(c) \/ Kill(c)
        PROVE  c = b /\ (InterpMiss(c) \/ InterpLostHit(c))
    <2>1. InterpMiss(c) \/ InterpLostHit(c)
      <3> USE <1>1, <1>2 DEF poolVars, endVars
      <3>1. ~Start(c) /\ ~Kill(c)
        BY DEF Start, Kill
      <3>2. ~InterpHit(c) /\ ~InterpBadTtl(c) /\ ~InterpBuild(c) /\ ~InterpUpload(c)
        BY DEF InterpHit, InterpBadTtl, InterpBuild, InterpUpload
      <3>3. ~Submit(c) /\ ~LeaveLoop(c) /\ ~AddApp(c) /\ ~Store(c) /\ ~Exit(c)
        BY DEF Submit, LeaveLoop, AddApp, Store, Exit
      <3>4. ~Join(c)
        <4>1. (IF raised[c] = "none" THEN "app" ELSE "handle") # "interpBuild"
          OBVIOUS
        <4> QED
          BY <4>1 DEF Join
      <3>5. ~MainFail(c) /\ ~Handle(c)
        BY DEF MainFail, Handle
      <3>6. \A d \in Lock(c) : ~Observe(c, d) /\ ~ObserveFailure(c, d)
        BY DEF Observe, ObserveFailure
      <3> QED
        BY <1>3, <3>1, <3>2, <3>3, <3>4, <3>5, <3>6 DEF MainStep, Interpreter
    <2>2. c = b
      BY <1>1, <2>1 DEF InterpMiss, InterpLostHit
    <2> QED
      BY <2>1, <2>2
  <1>4. ASSUME NEW c \in Builds, NEW d \in Lock(c), JobStep(c, d)
        PROVE  FALSE
    BY <1>2, <1>4, JobKeepsMain
  <1>5. \E c \in Builds : \/ Start(c) \/ MainStep(c) \/ Kill(c)
                          \/ \E d \in Lock(c) : JobStep(c, d)
    BY <1>2 DEF Next, BuildStep, vars
  <1> QED
    BY <1>3, <1>4, <1>5

\* So does a job.
LEMMA JobTurns ==
  ASSUME TypeOK, [Next]_vars, NEW b \in Builds, NEW d \in Lock(b),
         job[b][d] = "lookup", job'[b][d] = "download"
  PROVE  JobMiss(b, d) \/ JobLostHit(b, d)
  <1>0. d \in Deps
    BY KeyType
  <1>1. ASSUME NEW c \in Builds, NEW e \in Deps, NEW s, JobGoTo(c, e, s)
        PROVE  c = b /\ e = d /\ s = "download"
    BY <1>0, <1>1 DEF JobGoTo, TypeOK
  <1>2. job' # job
    OBVIOUS
  <1>3. ASSUME NEW c \in Builds, Start(c) \/ MainStep(c) \/ Kill(c)
        PROVE  FALSE
    <2>1. CASE Submit(c)
      <3>1. job'[b] = job[b] \/ job'[b][d] \in {"queued", "none"}
        BY <1>0, <2>1 DEF Submit, TypeOK
      <3> QED
        BY <3>1
    <2>2. CASE ~Submit(c)
      BY <1>2, <1>3, <2>2, MainKeepsJobs DEF Start, Kill, poolVars
    <2> QED
      BY <2>1, <2>2
  <1>4. ASSUME NEW c \in Builds, NEW e \in Lock(c), JobStep(c, e)
        PROVE  c = b /\ e = d /\ (JobMiss(c, e) \/ JobLostHit(c, e))
    <2>1. e \in Deps
      BY KeyType
    <2>2. JobMiss(c, e) \/ JobLostHit(c, e)
      <3> USE <1>1, <2>1
      <3>1. ~JobStart(c, e) /\ ~JobHit(c, e) /\ ~JobBadTtl(c, e)
        BY DEF JobStart, JobHit, JobBadTtl
      <3>2. ~JobDownload(c, e) /\ ~JobDownloadNothing(c, e) /\ ~JobResolve(c, e)
        BY DEF JobDownload, JobDownloadNothing, JobResolve
      <3>3. ~JobNotOneWheel(c, e) /\ ~JobUpload(c, e) /\ ~JobAppend(c, e)
        BY DEF JobNotOneWheel, JobUpload, JobAppend
      <3>4. ~JobFail(c, e)
        BY DEF JobFail, JobErrors
      <3> QED
        BY <1>4, <3>1, <3>2, <3>3, <3>4 DEF JobStep
    <2>3. c = b /\ e = d
      BY <1>1, <2>1, <2>2 DEF JobMiss, JobLostHit
    <2> QED
      BY <2>2, <2>3
  <1>5. \E c \in Builds : \/ Start(c) \/ MainStep(c) \/ Kill(c)
                          \/ \E e \in Lock(c) : JobStep(c, e)
    BY <1>2 DEF Next, BuildStep, vars, poolVars
  <1> QED
    BY <1>3, <1>4, <1>5

\* A layer that is there to be taken is not made again unless the registry
\* fails: neither by a job nor by the main thread.
THEOREM NoNeedlessWork == Spec => NoNeedlessRebuild
  <1> DEFINE Needed == \A b \in Builds :
       /\ \A d \in Lock(b) :
            job[b][d] = "lookup" /\ job'[b][d] = "download" /\ Fetchable(b, d)
              => faults'[b] > faults[b]
       /\ main[b] = "interpLookup" /\ main'[b] = "interpBuild" /\ Fetchable(b, Interp)
              => faults'[b] > faults[b]
  <1>1. IInv /\ [Next]_vars => [Needed]_vars
    <2> SUFFICES ASSUME IInv, [Next]_vars PROVE Needed
      OBVIOUS
    <2>1. TypeOK /\ CacheTypeOK
      BY DEF IInv, TypeOK
    <2>2. ASSUME NEW b \in Builds, Fault(b) PROVE faults'[b] > faults[b]
      <3>1. faults[b] \in Nat /\ faults'[b] = faults[b] + 1
        BY <2>1, <2>2 DEF Fault, TypeOK
      <3> QED
        BY <3>1
    <2>3. ASSUME NEW b \in Builds, NEW d \in Lock(b),
                 job[b][d] = "lookup", job'[b][d] = "download", Fetchable(b, d)
          PROVE  faults'[b] > faults[b]
      <3>1. d \in Parts
        BY KeyType
      <3>2. ~JobMiss(b, d)
        BY <2>1, <2>3, <3>1, FetchableIsHit DEF JobMiss
      <3> QED
        BY <2>1, <2>2, <2>3, <3>2, JobTurns DEF JobLostHit
    <2>4. ASSUME NEW b \in Builds,
                 main[b] = "interpLookup", main'[b] = "interpBuild", Fetchable(b, Interp)
          PROVE  faults'[b] > faults[b]
      <3>1. ~InterpMiss(b)
        BY <2>1, <2>4, KeyType, FetchableIsHit DEF InterpMiss
      <3> QED
        BY <2>1, <2>2, <2>4, <3>1, InterpTurns DEF InterpLostHit
    <2> QED
      BY <2>3, <2>4
  <1> QED
    BY <1>1, Inductive, PTL DEF Spec, NoNeedlessRebuild

-------------------------------------------------------------------------------
(***************************************************************************)
(* Refinement of ImageBuild.                                               *)
(***************************************************************************)

\* Steps at which a build neither begins, stores nor ends.
LEMMA MainStutters ==
  ASSUME TypeOK, PoolInv, NEW b \in Builds, MainStep(b),
         ~Store(b), ~Exit(b), ~Handle(b)
  PROVE  /\ stored' = stored
         /\ [c \in Builds |-> Status(c)]' = [c \in Builds |-> Status(c)]
  <1>1. /\ stored' = stored
        /\ \A c \in Builds \ {b} : main'[c] = main[c] /\ raised'[c] = raised[c]
        /\ main[b] \notin {"new", "exited", "killed"}
        /\ main'[b] \notin {"new", "exited", "killed"}
    BY DEF MainStep, Interpreter, InterpHit, InterpMiss, InterpLostHit, InterpBadTtl, InterpBuild,
       InterpUpload, Submit, Observe, ObserveFailure, LeaveLoop, Join, AddApp, MainFail,
       MainErrors, GoTo, TypeOK, endVars
  <1>2. \A c \in Builds : Status(c)' = Status(c)
    BY <1>1 DEF Status
  <1> QED
    BY <1>1, <1>2

\* Every step of a build is a step of the abstract one, or none.
LEMMA StepImplements ==
  ASSUME IInv, [Next]_vars
  PROVE  [Abstract!Next]_(Abstract!vars)
  <1> USE DEF Abstract!vars
  <1>1. ASSUME NEW b \in Builds, Start(b) PROVE Abstract!Begin(b)
    <2>1. /\ main[b] = "new" /\ main' = [main EXCEPT ![b] = "interpLookup"]
          /\ raised' = raised /\ stored' = stored
      BY <1>1 DEF Start, GoTo, endVars
    <2> QED
      BY <2>1 DEF Abstract!Begin, Status, IInv, TypeOK
  <1>2. ASSUME NEW b \in Builds, Store(b) PROVE Abstract!Deliver(b) \/ UNCHANGED Abstract!vars
    <2>1. /\ main[b] = "store" /\ main' = [main EXCEPT ![b] = "return"] /\ raised' = raised
      BY <1>2 DEF Store, GoTo
    <2>2. [c \in Builds |-> Status(c)]' = [c \in Builds |-> Status(c)]
      BY <2>1 DEF Status, IInv, TypeOK
    <2>3. CASE Config[b].tarball \/ Config[b].upload
      <3>1. stored' = [stored EXCEPT ![b] = lyr_imgs[b]]
        BY <1>2, <2>3 DEF Store
      <3>2. stored[b] = NoImage /\ Complete(b, lyr_imgs[b]) /\ lyr_imgs[b] # NoImage
        BY <2>1, NoImageAssumption DEF IInv, StoredInv, ListInv, TypeOK
      <3>3. stored'[b] = lyr_imgs[b] /\ Status(b) = "running"
        BY <2>1, <3>1 DEF IInv, TypeOK, Status
      <3> QED
        BY <2>2, <2>3, <3>1, <3>2, <3>3 DEF Abstract!Deliver
    <2>4. CASE ~(Config[b].tarball \/ Config[b].upload)
      BY <1>2, <2>2, <2>4 DEF Store
    <2> QED
      BY <2>3, <2>4
  <1>3. ASSUME NEW b \in Builds, Exit(b) PROVE Abstract!Succeed(b)
    <2>1. /\ main[b] = "return" /\ main' = [main EXCEPT ![b] = "exited"]
          /\ raised' = raised /\ stored' = stored /\ raised[b] = "none"
      BY <1>3 DEF Exit, GoTo, IInv, PoolInv, AfterPool
    <2>2. Config[b].tarball \/ Config[b].upload => stored[b] # NoImage
      BY <2>1 DEF IInv, StoredInv
    <2> QED
      BY <2>1, <2>2 DEF Abstract!Succeed, Status, IInv, TypeOK
  <1>4. ASSUME NEW b \in Builds, Handle(b) PROVE Abstract!Fail(b)
    <2>1. /\ main[b] = "handle" /\ main' = [main EXCEPT ![b] = "exited"]
          /\ raised' = raised /\ stored' = stored /\ raised[b] # "none"
      BY <1>4 DEF Handle, GoTo, IInv, PoolInv
    <2> QED
      BY <2>1 DEF Abstract!Fail, Status, IInv, TypeOK
  <1>5. ASSUME NEW b \in Builds, Kill(b) PROVE Abstract!Fail(b)
    <2>1. /\ main[b] \notin {"new", "exited", "killed"} /\ main' = [main EXCEPT ![b] = "killed"]
          /\ raised' = raised /\ stored' = stored
      BY <1>5 DEF Kill, GoTo, endVars
    <2> QED
      BY <2>1 DEF Abstract!Fail, Status, IInv, TypeOK
  <1>6. ASSUME UNCHANGED <<main, raised, stored>> PROVE UNCHANGED Abstract!vars
    BY <1>6 DEF Status
  <1>7. ASSUME NEW b \in Builds, MainStep(b), ~Store(b), ~Exit(b), ~Handle(b)
        PROVE  UNCHANGED Abstract!vars
    BY <1>7, MainStutters DEF IInv
  <1>8. ASSUME NEW b \in Builds, NEW d \in Lock(b), JobStep(b, d)
        PROVE  UNCHANGED Abstract!vars
    BY <1>6, <1>8, JobKeepsMain
  <1>9. \/ \E b \in Builds : Start(b) \/ MainStep(b) \/ Kill(b) \/ \E d \in Lock(b) : JobStep(b, d)
        \/ UNCHANGED <<main, raised, stored>>
    BY DEF Next, BuildStep, vars, endVars
  <1> QED
    BY <1>1, <1>2, <1>3, <1>4, <1>5, <1>6, <1>7, <1>8, <1>9 DEF Abstract!Next

\* A build, with its pool, its cache and its failures, keeps the promise of
\* ImageBuild: at most one image, complete, and success only with it.
THEOREM Implements == Spec => ImplementsImageBuild
  <1>1. Init => Abstract!Init
    BY DEF Init, Abstract!Init, Status
  <1>2. IInv /\ [Next]_vars => [Abstract!Next]_(Abstract!vars)
    BY StepImplements
  <1> QED
    BY <1>1, <1>2, Inductive, PTL DEF Spec, ImplementsImageBuild, Abstract!Spec

===============================================================================
