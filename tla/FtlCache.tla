------------------------------- MODULE FtlCache -------------------------------
(***************************************************************************)
(* The layer cache that FTL builds share (ftl/common/cache.py): layers     *)
(* kept in a docker registry under a tag derived from a cache key.  A      *)
(* build writes to one repository, its own by default, and reads that one  *)
(* and, with --global-cache, first a repository common to everybody.       *)
(* Nothing ever expires inside a registry: the READER compares the         *)
(* creation time of what it finds with its ttl, TTL hours by default.  A   *)
(* --ttl on the command line stays text, which timedelta does not take: a  *)
(* build that was given one raises at the first entry it finds.            *)
(*                                                                         *)
(* A layer is abstracted to what it was made from, a part and the          *)
(* interpreter environment, and the tick at which it was made.  Time is    *)
(* counted in ticks, TicksPerHour to the hour, because the code keeps only *)
(* the hour of a layer's creation.                                         *)
(***************************************************************************)
EXTENDS Integers

CONSTANTS
  Deps,          \* pinned packages (name, version) of a Pipfile.lock
  Interp,        \* the interpreter (virtualenv) layer
  Envs,          \* raw interpreter keys: python version, virtualenv, salt
  Repos,         \* registry repositories used as a cache
  GlobalRepo,    \* constants.GLOBAL_CACHE_REGISTRY
  TTL,           \* constants.DEFAULT_TTL_HOURS
  TicksPerHour,  \* resolution of the clock
  MaxTime,       \* bound: the clock stops here
  NoLayer        \* Python's None

Parts  == Deps \cup {Interp}
Keys   == [part : Parts, env : Envs]
Layers == [part : Parts, env : Envs, built : Nat]

ASSUME ClockAssumption ==
  TTL \in Nat \ {0} /\ TicksPerHour \in Nat \ {0} /\ MaxTime \in Nat

ASSUME PartAssumption == Interp \notin Deps

ASSUME RepoAssumption == GlobalRepo \in Repos

ASSUME NoLayerAssumption == NoLayer \notin Layers

VARIABLES
  now,       \* wall clock, in ticks
  registry   \* registry[r][k]: the image tagged k in repository r

-------------------------------------------------------------------------------
\* Mutants of KeyOf: a builder whose raw key leaves out the environment, or
\* the package (as PackageLayerBuilder.GetCacheKeyRaw does).
KeyWithoutEnv(part, env)  == [part |-> part, env |-> CHOOSE e \in Envs : TRUE]
KeyWithoutPart(part, env) == [part |-> Interp, env |-> env]

\* GetCacheKeyRaw of the package and of the interpreter builder: the part and
\* the environment, and nothing else of the build.
KeyOf(part, env) == [part |-> part, env |-> env]

\* A layer made at this moment.
NewLayer(part, env) == [part |-> part, env |-> env, built |-> now]

\* generate_overrides: the creation time is cut to the hour.
CreationTime(layer) == layer.built - (layer.built % TicksPerHour)

\* Mutant of CheckTTL: the boundary included.
CheckTTLInclusive(layer) == CreationTime(layer) >= now - TTL * TicksPerHour

\* Registry.checkTTL (true when the entry is still good).
CheckTTL(layer) == CreationTime(layer) > now - TTL * TicksPerHour

\* Mutant of GetEntry: the build's own repository first.
GetEntryOwnFirst(key, cfg) ==
  IF cfg.useGlobal /\ registry[cfg.repo][key] = NoLayer
    THEN registry[GlobalRepo][key]
    ELSE registry[cfg.repo][key]

\* Registry._getEntry: the global repository first, the build's own one only
\* if the global one has no such tag.
GetEntry(key, cfg) ==
  IF cfg.useGlobal /\ registry[GlobalRepo][key] # NoLayer
    THEN registry[GlobalRepo][key]
    ELSE registry[cfg.repo][key]

Found(key, cfg) == cfg.cache /\ GetEntry(key, cfg) # NoLayer

\* Registry.Get, when it returns.
Get(key, cfg) ==
  IF Found(key, cfg) /\ CheckTTL(GetEntry(key, cfg)) THEN GetEntry(key, cfg) ELSE NoLayer

\* timedelta(hours=ttl) with a text: a TypeError, which Get does not catch.
TtlRaises(key, cfg) == Found(key, cfg) /\ cfg.ttlGiven

\* Registry.Set: always the build's own repository, and only with --upload.
Set(key, layer, cfg) ==
  registry' = IF cfg.upload
                THEN [registry EXCEPT ![cfg.repo][key] = layer]
                ELSE registry

-------------------------------------------------------------------------------
CacheInit ==
  /\ now = 0
  /\ registry = [r \in Repos |-> [k \in Keys |-> NoLayer]]

\* The clock, bounded by MaxTime.
Tick ==
  /\ now < MaxTime
  /\ now' = now + 1
  /\ UNCHANGED registry

CacheTypeOK ==
  /\ now \in Nat
  /\ registry \in [Repos -> [Keys -> Layers \cup {NoLayer}]]

===============================================================================
