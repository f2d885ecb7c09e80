------------------------------ MODULE CacheRunner ------------------------------
(***************************************************************************)
(* The runner that fills FTL's global cache (ftl/common/cache_runner.py):  *)
(* it is given a list of packages, removes from the cache what its mapping *)
(* file knows and the list does not have, builds and pushes a layer for    *)
(* every package of the list, and leaves a new mapping behind, which the   *)
(* cloud build around it (ftl/cache_cloudbuild.yaml) copies back into the  *)
(* bucket.  Runs may overlap, fail and be killed anywhere.                 *)
(*                                                                         *)
(* The mapping is one JSON object.  read_mappings says that it leads from  *)
(* keys to packages, and remove_old_entries reads it so; the runner itself *)
(* writes it from packages to keys.  Both directions are kept here, as     *)
(* .package and .key.  A layer is abstracted to its package.               *)
(***************************************************************************)
EXTENDS Integers, Sequences, FiniteSets

CONSTANTS
  Runs,       \* cloud builds of the cache runner
  Args,       \* Args[r]: the words after --packages, each the set of packages it names
  Env,        \* Env[r]: the python version of the runner's image
  Packages,   \* package==version
  Envs,       \* python versions
  OldMapping, \* what the mapping file says before the first run, key to package
  MaxFaults,  \* MaxFaults[r]: bound: answers of other services run r cannot read
  None

Keys     == [package : Packages, env : Envs]
Words    == {w \in SUBSET Packages : IsFiniteSet(w)}
Mappings == [package : [Keys -> Packages \cup {None}], key : [Packages -> Keys \cup {None}]]

ASSUME ArgsAssumption ==
  /\ Args \in [Runs -> Seq(Words)] /\ Env \in [Runs -> Envs]
  /\ MaxFaults \in [Runs -> Nat]

\* An old entry is right about its key.
ASSUME OldMappingAssumption ==
  /\ OldMapping \in [Keys -> Packages \cup {None}]
  /\ \A k \in Keys : OldMapping[k] \in {k.package, None}

\* None stands for itself.
ASSUME NoneAssumption == None \notin Packages /\ None \notin Keys /\ None \notin Nat

Languages == {"python", "php"}

VARIABLES
  language,    \* --language: each has a cache and a mapping file of its own
  registry,    \* the global cache: the package of the layer with this tag
  bucket,      \* the mapping file in the bucket
  generation,  \* how often the mapping file was written
  main,        \* control point of a run
  existing,    \* existing_entries: the tags a run was told there are
  mapping,     \* self._mappings
  basis,       \* the generation a run has read, or None
  word,        \* which word of Args[r] a run is at
  faults,      \* failures the environment has put to a run
  garbled,     \* packages whose push got an answer that cannot be decoded
  removed      \* tags that some run has removed and none has pushed since

localVars == <<existing, mapping, basis, word>>
vars == <<language, registry, bucket, generation, main, localVars, faults, garbled, removed>>

EmptyMapping == [package |-> [k \in Keys |-> None], key |-> [p \in Packages |-> None]]

\* GetCacheKey of the builder of package p.
Key(r, p) == [package |-> p, env |-> Env[r]]

\* The packages a run takes from its words: a word names one package or, for
\* package.split, too many.
Single(w)  == Cardinality(w) = 1
Listed(r)  == UNION {Args[r][i] : i \in {j \in DOMAIN Args[r] : Single(Args[r][j])}}

MainState == {"new", "list", "remove", "populate", "written", "done", "failed"}

GoTo(r, pc) == main' = [main EXCEPT ![r] = pc]

Fault(r) == faults[r] < MaxFaults[r] /\ faults' = [faults EXCEPT ![r] = @ + 1]

-------------------------------------------------------------------------------
\* Mutant of ReadMapping: a new mapping for every run.
ReadMappingNever(r) ==
  /\ main[r] = "new"
  /\ basis' = [basis EXCEPT ![r] = generation]
  /\ GoTo(r, "list")
  /\ UNCHANGED <<language, registry, bucket, generation, existing, mapping, word, faults,
                 garbled, removed>>

\* CacheRunner.__init__, read_mappings.
ReadMapping(r) ==
  /\ main[r] = "new"
  /\ mapping' = [mapping EXCEPT ![r] = bucket]
  /\ basis' = [basis EXCEPT ![r] = generation]
  /\ GoTo(r, "list")
  /\ UNCHANGED <<language, registry, bucket, generation, existing, word, faults,
                 garbled, removed>>

\* ... whose failure is logged and taken for a missing mapping.
ReadNothing(r) ==
  /\ main[r] = "new"
  /\ Fault(r)
  /\ GoTo(r, "list")
  /\ UNCHANGED <<language, registry, bucket, generation, localVars, garbled, removed>>

\* retrieve_cache_entries.
ListTags(r) ==
  /\ main[r] = "list"
  /\ existing' = [existing EXCEPT ![r] = {k \in Keys : registry[k] # None}]
  /\ GoTo(r, "remove")
  /\ UNCHANGED <<language, registry, bucket, generation, mapping, basis, word, faults,
                 garbled, removed>>

\* remove_old_entries: the tags still to be removed.
Old(r) == {k \in existing[r] : mapping[r].package[k] \notin Listed(r) \cup {None}}

\* _remove_entry.  A set has no order; a tag that is gone is an error, see Fail.
Remove(r, k) ==
  /\ main[r] = "remove" /\ k \in Old(r)
  /\ registry[k] # None
  /\ registry' = [registry EXCEPT ![k] = None]
  /\ mapping' = [mapping EXCEPT ![r].package[k] = None]
  /\ removed' = removed \cup {k}
  /\ UNCHANGED <<language, bucket, generation, main, existing, basis, word, faults, garbled>>

Removed(r) ==
  /\ main[r] = "remove" /\ Old(r) = {}
  /\ GoTo(r, "populate")
  /\ UNCHANGED <<language, registry, bucket, generation, localVars, faults, garbled, removed>>

\* populate_cache_entries: its next word.  No name of a package is ever among
\* existing_entries, which are hashes, so that every package is built.
AtWord(r)   == main[r] = "populate" /\ word[r] <= Len(Args[r])
NextWord(r) == word' = [word EXCEPT ![r] = @ + 1]

\* Mutant of Malformed: the ValueError is caught around the loop.
MalformedEndsAll(r) ==
  /\ AtWord(r) /\ ~Single(Args[r][word[r]])
  /\ word' = [word EXCEPT ![r] = Len(Args[r]) + 1]
  /\ UNCHANGED <<language, registry, bucket, generation, main, existing, mapping, basis,
                 faults, garbled, removed>>

\* A malformed word is logged and passed over.
Malformed(r) ==
  /\ AtWord(r) /\ ~Single(Args[r][word[r]])
  /\ NextWord(r)
  /\ UNCHANGED <<language, registry, bucket, generation, main, existing, mapping, basis, faults,
                 garbled, removed>>

\* Mutant of BuildAndPush: one wheel directory for all packages.
BuildFromOldWheel(r) ==
  /\ AtWord(r) /\ language = "python"
  /\ \E p \in Packages :
       /\ Args[r][word[r]] = {p}
       /\ registry' = [registry EXCEPT ![Key(r, p)] = CHOOSE q \in Listed(r) : TRUE]
       /\ mapping' = [mapping EXCEPT ![r].key[p] = Key(r, p)]
       /\ removed' = removed \ {Key(r, p)}
  /\ NextWord(r)
  /\ UNCHANGED <<language, bucket, generation, main, existing, basis, faults, garbled>>

\* _build_image_and_push: the push, and then the mapping.
BuildAndPush(r) ==
  /\ AtWord(r) /\ language = "python"
  /\ \E p \in Packages :
       /\ Args[r][word[r]] = {p}
       /\ registry' = [registry EXCEPT ![Key(r, p)] = p]
       /\ mapping' = [mapping EXCEPT ![r].key[p] = Key(r, p)]
       /\ removed' = removed \ {Key(r, p)}
  /\ NextWord(r)
  /\ UNCHANGED <<language, bucket, generation, main, existing, basis, faults, garbled>>

\* Mutant of Garbled: the mapping is written before the push.
GarbledAfterMapping(r) ==
  /\ AtWord(r) /\ language = "python"
  /\ Fault(r)
  /\ \E p \in Packages :
       /\ Args[r][word[r]] = {p}
       /\ garbled' = [garbled EXCEPT ![r] = @ \cup {p}]
       /\ mapping' = [mapping EXCEPT ![r].key[p] = Key(r, p)]
  /\ NextWord(r)
  /\ UNCHANGED <<language, registry, bucket, generation, main, existing, basis, removed>>

\* An answer that is no JSON is a ValueError, too: the push is given up and its
\* package called malformed.
Garbled(r) ==
  /\ AtWord(r) /\ language = "python"
  /\ Fault(r)
  /\ \E p \in Packages :
       /\ Args[r][word[r]] = {p}
       /\ garbled' = [garbled EXCEPT ![r] = @ \cup {p}]
  /\ NextWord(r)
  /\ UNCHANGED <<language, registry, bucket, generation, main, existing, mapping, basis,
                 removed>>

\* There is no php_builder.PhaseTwoLayerBuilder.
NoBuilder(r) ==
  /\ AtWord(r) /\ Single(Args[r][word[r]])
  /\ language = "php"
  /\ GoTo(r, "failed")
  /\ UNCHANGED <<language, registry, bucket, generation, localVars, faults, garbled, removed>>

\* write_mapping_to_workspace: only when all words are done.
WriteMapping(r) ==
  /\ main[r] = "populate" /\ word[r] > Len(Args[r])
  /\ GoTo(r, "written")
  /\ UNCHANGED <<language, registry, bucket, generation, localVars, faults, garbled, removed>>

\* The second step of the cloud build.
CopyMapping(r) ==
  /\ main[r] = "written"
  /\ bucket' = mapping[r]
  /\ generation' = generation + 1
  /\ GoTo(r, "done")
  /\ UNCHANGED <<language, registry, localVars, faults, garbled, removed>>

\* An exception, of a tag that another run has removed first, of pip, of the
\* registry, or the death of the cloud build.
Fail(r) ==
  /\ main[r] \notin {"new", "done", "failed"}
  /\ GoTo(r, "failed")
  /\ UNCHANGED <<language, registry, bucket, generation, localVars, faults, garbled, removed>>

-------------------------------------------------------------------------------
Init ==
  /\ language \in Languages
  /\ registry = [k \in Keys |-> OldMapping[k]]
  /\ bucket = [EmptyMapping EXCEPT !.package = OldMapping]
  /\ generation = 0
  /\ main = [r \in Runs |-> "new"]
  /\ existing = [r \in Runs |-> {}]
  /\ mapping = [r \in Runs |-> EmptyMapping]
  /\ basis = [r \in Runs |-> None]
  /\ word = [r \in Runs |-> 1]
  /\ faults = [r \in Runs |-> 0]
  /\ garbled = [r \in Runs |-> {}]
  /\ removed = {}

RunStep(r) ==
  \/ ReadMapping(r) \/ ReadNothing(r) \/ ListTags(r)
  \/ (\E k \in Keys : Remove(r, k)) \/ Removed(r)
  \/ Malformed(r) \/ BuildAndPush(r) \/ Garbled(r) \/ NoBuilder(r)
  \/ WriteMapping(r) \/ CopyMapping(r) \/ Fail(r)

Next == \E r \in Runs : RunStep(r)

Spec == Init /\ [][Next]_vars

-------------------------------------------------------------------------------
(***************************************************************************)
(* Properties.                                                             *)
(***************************************************************************)

TypeOK ==
  /\ language \in Languages
  /\ registry \in [Keys -> Packages \cup {None}]
  /\ \A k \in Keys : registry[k] \in {k.package, None}
  /\ bucket \in Mappings
  /\ generation \in Nat
  /\ main \in [Runs -> MainState]
  /\ existing \in [Runs -> SUBSET Keys]
  /\ mapping \in [Runs -> Mappings]
  /\ basis \in [Runs -> Nat \cup {None}]
  /\ word \in [Runs -> Nat]
  /\ faults \in [Runs -> Nat]
  /\ garbled \in [Runs -> SUBSET Packages]
  /\ removed \subseteq Keys

\* A run that ends well has put every package it could read from its list into
\* the cache, whatever else was on the list and however other runs failed, and
\* there it stays until a run with another list removes it
\* (populate_cache_entries).
SuccessPopulates ==
  \A r \in Runs : main[r] \in {"written", "done"} =>
    \A p \in Listed(r) \ garbled[r] : registry[Key(r, p)] = p \/ Key(r, p) \in removed

\* What the mapping file says of a package or of a key was pushed, even after
\* pushes that were given up and runs that died between the cache and the file
\* (_build_image_and_push, write_mapping_to_workspace).
Pushed(k, p) == k.package = p /\ (registry[k] = p \/ k \in removed)

MappingTruthful ==
  /\ \A p \in Packages : bucket.key[p] # None => Pushed(bucket.key[p], p)
  /\ \A k \in Keys : bucket.package[k] # None => Pushed(k, bucket.package[k])

\* The file forgets a package only when it is overwritten by a run that could
\* not read it, or that another run had overtaken (read_mappings, the copy in
\* cache_cloudbuild.yaml).
MappingRemembers ==
  [][\A p \in Packages : bucket.key[p] # None /\ bucket'.key[p] = None =>
       \E r \in Runs : main[r] = "written" /\ main'[r] = "done" /\ basis[r] # generation]_vars

===============================================================================
