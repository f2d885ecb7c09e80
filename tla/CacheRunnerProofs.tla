--------------------------- MODULE CacheRunnerProofs ---------------------------
(***************************************************************************)
(* Proofs about CacheRunner, for any runs, lists, mappings and failures.   *)
(***************************************************************************)
EXTENDS CacheRunner, FiniteSetTheorems, TLAPS

-------------------------------------------------------------------------------
(***************************************************************************)
(* The inductive invariant.                                                *)
(***************************************************************************)

\* What a mapping, of a run or in the bucket, says was pushed.
Truthful(m) ==
  /\ \A p \in Packages : m.key[p] # None => Pushed(m.key[p], p)
  /\ \A k \in Keys : m.package[k] # None => Pushed(k, m.package[k])

TruthInv == Truthful(bucket) /\ \A r \in Runs : Truthful(mapping[r])

\* Package p of run r is in the cache, unless some run has removed it since.
Populated(r, p) == registry[Key(r, p)] = p \/ Key(r, p) \in removed

\* The words that a run is through with.
Behind(r) == {i \in DOMAIN Args[r] : i < word[r]}

PopulateInv(r) ==
  /\ \A i \in Behind(r) : \A p \in Packages :
       Args[r][i] = {p} /\ p \notin garbled[r] => Populated(r, p)
  /\ main[r] \in {"written", "done"} => word[r] > Len(Args[r])

\* A run that nobody has overtaken knows whatever package the bucket knows.
BasisInv(r) ==
  /\ basis[r] # None => basis[r] <= generation
  /\ basis[r] = generation =>
       \A p \in Packages : bucket.key[p] # None => mapping[r].key[p] # None

IInv == TypeOK /\ TruthInv /\ \A r \in Runs : PopulateInv(r) /\ BasisInv(r)

-------------------------------------------------------------------------------
(***************************************************************************)
(* Lists and tags.                                                         *)
(***************************************************************************)
LEMMA ArgsType ==
  ASSUME NEW r \in Runs
  PROVE  /\ Args[r] \in Seq(Words) /\ Len(Args[r]) \in Nat
         /\ DOMAIN Args[r] = 1 .. Len(Args[r])
         /\ Env[r] \in Envs
  BY ArgsAssumption

LEMMA KeyType ==
  ASSUME NEW r \in Runs, NEW p \in Packages
  PROVE  Key(r, p) \in Keys /\ Key(r, p).package = p /\ Key(r, p) # None
  BY ArgsType, NoneAssumption DEF Key, Keys

\* A word that a run takes names one package.
LEMMA SingleWord ==
  ASSUME NEW w \in Words, Single(w)
  PROVE  \E p \in Packages : w = {p}
  <1>1. IsFiniteSet(w) /\ Cardinality(w) = 1 /\ w \subseteq Packages
    BY DEF Words, Single
  <1>2. \E p : w = {p}
    BY <1>1, FS_Singleton
  <1> QED
    BY <1>1, <1>2

LEMMA OneIsSingle ==
  ASSUME NEW p
  PROVE  Single({p})
  BY FS_Singleton DEF Single

-------------------------------------------------------------------------------
(***************************************************************************)
(* Type correctness.                                                       *)
(***************************************************************************)
LEMMA InitTypeOK == Init => TypeOK
  <1> SUFFICES ASSUME Init PROVE TypeOK
    OBVIOUS
  <1>1. EmptyMapping \in Mappings
    BY DEF EmptyMapping, Mappings
  <1>2. bucket \in Mappings
    BY <1>1, OldMappingAssumption DEF Init, Mappings
  <1>3. mapping \in [Runs -> Mappings]
    BY <1>1 DEF Init
  <1>4. /\ registry \in [Keys -> Packages \cup {None}]
        /\ \A k \in Keys : registry[k] \in {k.package, None}
    BY OldMappingAssumption DEF Init
  <1> QED
    BY <1>2, <1>3, <1>4 DEF Init, TypeOK, MainState

LEMMA StepTypeOK ==
  ASSUME TypeOK, NEW r \in Runs, RunStep(r)
  PROVE  TypeOK'
  <1> USE DEF TypeOK, GoTo, MainState, localVars
  <1>1. CASE ReadMapping(r) \/ ReadNothing(r) \/ ListTags(r)
    BY <1>1 DEF ReadMapping, ReadNothing, ListTags, Fault
  <1>2. ASSUME NEW k \in Keys, Remove(r, k) PROVE TypeOK'
    <2>1. mapping' = [mapping EXCEPT ![r].package[k] = None]
      BY <1>2 DEF Remove
    <2>2. mapping' \in [Runs -> Mappings]
      BY <2>1 DEF Mappings
    <2>3. registry' \in [Keys -> Packages \cup {None}]
      BY <1>2 DEF Remove
    <2>4. \A j \in Keys : registry'[j] \in {j.package, None}
      BY <1>2 DEF Remove
    <2> QED
      BY <1>2, <2>2, <2>3, <2>4 DEF Remove
  <1>3. CASE Removed(r) \/ NoBuilder(r) \/ WriteMapping(r) \/ Fail(r)
    BY <1>3 DEF Removed, NoBuilder, WriteMapping, Fail
  <1>4. CASE Malformed(r)
    BY <1>4 DEF Malformed, NextWord
  <1>5. CASE BuildAndPush(r)
    <2>1. PICK p \in Packages :
            /\ registry' = [registry EXCEPT ![Key(r, p)] = p]
            /\ mapping' = [mapping EXCEPT ![r].key[p] = Key(r, p)]
            /\ removed' = removed \ {Key(r, p)}
      BY <1>5 DEF BuildAndPush
    <2>2. Key(r, p) \in Keys /\ Key(r, p).package = p
      BY KeyType
    <2>3. mapping' \in [Runs -> Mappings]
      BY <2>1, <2>2 DEF Mappings
    <2>4. registry' \in [Keys -> Packages \cup {None}]
      BY <2>1, <2>2
    <2>5. \A j \in Keys : registry'[j] \in {j.package, None}
      BY <2>1, <2>2
    <2>6. removed' \subseteq Keys
      BY <2>1
    <2> QED
      BY <1>5, <2>3, <2>4, <2>5, <2>6 DEF BuildAndPush, NextWord
  <1>6. CASE Garbled(r)
    BY <1>6 DEF Garbled, Fault, NextWord
  <1>7. CASE CopyMapping(r)
    BY <1>7 DEF CopyMapping
  <1> QED
    BY <1>1, <1>2, <1>3, <1>4, <1>5, <1>6, <1>7 DEF RunStep

-------------------------------------------------------------------------------
(***************************************************************************)
(* What was pushed.                                                        *)
(***************************************************************************)

\* A tag leaves the cache only by being removed, and is no longer removed only
\* when it is pushed.
LEMMA StepKeepsPushed ==
  ASSUME TypeOK, NEW r \in Runs, RunStep(r),
         NEW k \in Keys, NEW p \in Packages, Pushed(k, p)
  PROVE  Pushed(k, p)'
  <1> USE DEF Pushed, TypeOK
  <1>1. ASSUME NEW j \in Keys, Remove(r, j) PROVE Pushed(k, p)'
    BY <1>1 DEF Remove
  <1>2. CASE BuildAndPush(r)
    <2>1. PICK q \in Packages :
            /\ registry' = [registry EXCEPT ![Key(r, q)] = q]
            /\ removed' = removed \ {Key(r, q)}
      BY <1>2 DEF BuildAndPush
    <2>2. Key(r, q) \in Keys /\ Key(r, q).package = q
      BY KeyType
    <2> QED
      BY <2>1, <2>2
  <1>3. CASE ~BuildAndPush(r) /\ ~(\E j \in Keys : Remove(r, j))
    BY <1>3 DEF RunStep, ReadMapping, ReadNothing, ListTags, Removed, Malformed, Garbled,
       NoBuilder, WriteMapping, CopyMapping, Fail
  <1> QED
    BY <1>1, <1>2, <1>3

\* A run writes into its mapping what it has just pushed, and takes out what it
\* has just removed.
LEMMA StepTruthful ==
  ASSUME TypeOK, TruthInv, NEW r \in Runs, RunStep(r)
  PROVE  TruthInv'
  <1>1. /\ bucket \in Mappings /\ mapping \in [Runs -> Mappings]
        /\ Truthful(bucket) /\ \A s \in Runs : Truthful(mapping[s])
    BY DEF TypeOK, TruthInv
  <1>2. \A m \in Mappings : Truthful(m) =>
          /\ \A p \in Packages : m.key[p] # None => Pushed(m.key[p], p)'
          /\ \A k \in Keys : m.package[k] # None => Pushed(k, m.package[k])'
    BY StepKeepsPushed DEF Truthful, Mappings
  <1>3. ASSUME NEW k \in Keys, Remove(r, k) PROVE TruthInv'
    <2>1. bucket' = bucket /\ mapping' = [mapping EXCEPT ![r].package[k] = None]
      BY <1>3 DEF Remove
    <2>2. /\ mapping'[r].key = mapping[r].key
          /\ \A j \in Keys : mapping'[r].package[j] \in {mapping[r].package[j], None}
          /\ \A s \in Runs \ {r} : mapping'[s] = mapping[s]
      BY <1>1, <2>1 DEF Mappings
    <2>3. Truthful(mapping[r])'
      BY <1>1, <1>2, <2>2 DEF Truthful
    <2>4. \A s \in Runs \ {r} : Truthful(mapping[s])'
      BY <1>1, <1>2, <2>2 DEF Truthful
    <2>5. Truthful(bucket)'
      BY <1>1, <1>2, <2>1 DEF Truthful
    <2> QED
      BY <2>3, <2>4, <2>5 DEF TruthInv
  <1>4. CASE BuildAndPush(r)
    <2>1. PICK p \in Packages :
            /\ registry' = [registry EXCEPT ![Key(r, p)] = p]
            /\ mapping' = [mapping EXCEPT ![r].key[p] = Key(r, p)]
            /\ bucket' = bucket
      BY <1>4 DEF BuildAndPush
    <2>2. Key(r, p) \in Keys /\ Key(r, p).package = p
      BY KeyType
    <2>3. registry'[Key(r, p)] = p
      BY <2>1, <2>2 DEF TypeOK
    <2>4. /\ mapping'[r].package = mapping[r].package
          /\ mapping'[r].key[p] = Key(r, p)
          /\ \A q \in Packages \ {p} : mapping'[r].key[q] = mapping[r].key[q]
          /\ \A s \in Runs \ {r} : mapping'[s] = mapping[s]
      BY <1>1, <2>1 DEF Mappings
    <2>5. Pushed(Key(r, p), p)'
      BY <2>2, <2>3 DEF Pushed, Key
    <2>6. Truthful(mapping[r])'
      BY <1>1, <1>2, <2>2, <2>3, <2>4 DEF Truthful, Pushed
    <2>7. \A s \in Runs \ {r} : Truthful(mapping[s])'
      BY <1>1, <1>2, <2>4 DEF Truthful
    <2>8. Truthful(bucket)'
      BY <1>1, <1>2, <2>1 DEF Truthful
    <2> QED
      BY <2>6, <2>7, <2>8 DEF TruthInv
  <1>5. CASE ~BuildAndPush(r) /\ ~(\E k \in Keys : Remove(r, k))
    <2>1. /\ bucket' = bucket \/ bucket' = mapping[r]
          /\ \A s \in Runs : mapping'[s] = mapping[s] \/ mapping'[s] = bucket
      BY <1>1, <1>5 DEF RunStep, ReadMapping, ReadNothing, ListTags, Removed, Malformed,
         Garbled, NoBuilder, WriteMapping, CopyMapping, Fail, localVars
    <2>2. Truthful(bucket)'
      BY <1>1, <1>2, <2>1 DEF Truthful
    <2>3. \A s \in Runs : Truthful(mapping[s])'
      BY <1>1, <1>2, <2>1 DEF Truthful
    <2> QED
      BY <2>2, <2>3 DEF TruthInv
  <1> QED
    BY <1>3, <1>4, <1>5

-------------------------------------------------------------------------------
(***************************************************************************)
(* The list of a run.                                                      *)
(***************************************************************************)

\* What is behind a run stays in the cache, or was removed.
LEMMA StepKeepsPopulated ==
  ASSUME TypeOK, NEW r \in Runs, RunStep(r), NEW s \in Runs, NEW p \in Packages,
         Populated(s, p)
  PROVE  Populated(s, p)'
  <1>1. Key(s, p) \in Keys /\ Pushed(Key(s, p), p)
    BY KeyType DEF Populated, Pushed
  <1>2. Pushed(Key(s, p), p)'
    BY <1>1, StepKeepsPushed DEF Pushed, Key
  <1> QED
    BY <1>2 DEF Pushed, Populated, Key

\* The run that steps: its next word is passed over, pushed or given up.
LEMMA StepPopulates ==
  ASSUME TypeOK, NEW r \in Runs, PopulateInv(r), RunStep(r)
  PROVE  PopulateInv(r)'
  <1>1. DOMAIN Args[r] = 1 .. Len(Args[r]) /\ Len(Args[r]) \in Nat /\ word[r] \in Nat
    BY ArgsType DEF TypeOK
  <1>2. \A p \in Packages : Populated(r, p) => Populated(r, p)'
    BY StepKeepsPopulated
  <1>3. CASE Malformed(r) \/ BuildAndPush(r) \/ Garbled(r)
    <2> DEFINE i == word[r]
    <2>1. /\ main' = main /\ main[r] = "populate" /\ word'[r] = word[r] + 1
          /\ \A p \in garbled[r] : p \in garbled'[r]
      BY <1>3 DEF Malformed, BuildAndPush, Garbled, AtWord, NextWord, TypeOK
    <2>2. Behind(r)' = Behind(r) \cup ({i} \cap DOMAIN Args[r])
      BY <1>1, <2>1 DEF Behind
    <2>3. ASSUME NEW p \in Packages, Args[r][i] = {p}, p \notin garbled'[r]
          PROVE  Populated(r, p)'
      <3>1. ~Malformed(r)
        BY <2>3, OneIsSingle DEF Malformed
      <3>2. ~Garbled(r)
        BY <2>3 DEF Garbled, TypeOK
      <3>3. BuildAndPush(r)
        BY <1>3, <3>1, <3>2
      <3>4. registry' = [registry EXCEPT ![Key(r, p)] = p]
        BY <2>3, <3>3 DEF BuildAndPush
      <3>5. registry'[Key(r, p)] = p
        BY <3>4, KeyType DEF TypeOK
      <3> QED
        BY <3>5 DEF Populated, Key
    <2> HIDE DEF i
    <2>4. \A j \in Behind(r)' : \A p \in Packages :
            Args[r][j] = {p} /\ p \notin garbled'[r] => Populated(r, p)'
      BY <1>2, <2>1, <2>2, <2>3 DEF PopulateInv
    <2> QED
      BY <2>1, <2>4 DEF PopulateInv
  <1>4. CASE ~(Malformed(r) \/ BuildAndPush(r) \/ Garbled(r))
    <2>1. /\ word' = word /\ garbled' = garbled
          /\ main'[r] \in {"written", "done"} =>
               main[r] \in {"written", "done"} \/ word[r] > Len(Args[r])
      BY <1>4 DEF RunStep, ReadMapping, ReadNothing, ListTags, Remove, Removed, NoBuilder,
         WriteMapping, CopyMapping, Fail, localVars, GoTo, TypeOK
    <2>2. Behind(r)' = Behind(r)
      BY <2>1 DEF Behind
    <2> QED
      BY <1>2, <2>1, <2>2 DEF PopulateInv
  <1> QED
    BY <1>3, <1>4

\* A step is of one run.
LEMMA OthersSame ==
  ASSUME TypeOK, NEW r \in Runs, RunStep(r), NEW s \in Runs \ {r}
  PROVE  /\ main'[s] = main[s] /\ mapping'[s] = mapping[s] /\ basis'[s] = basis[s]
         /\ word'[s] = word[s] /\ garbled'[s] = garbled[s]
  BY DEF RunStep, ReadMapping, ReadNothing, ListTags, Remove, Removed, Malformed, BuildAndPush,
     Garbled, NoBuilder, WriteMapping, CopyMapping, Fail, NextWord, GoTo, localVars, TypeOK

LEMMA OthersPopulate ==
  ASSUME TypeOK, NEW r \in Runs, RunStep(r), NEW s \in Runs \ {r}, PopulateInv(s)
  PROVE  PopulateInv(s)'
  <1>1. main'[s] = main[s] /\ word'[s] = word[s] /\ garbled'[s] = garbled[s]
    BY OthersSame
  <1>2. \A p \in Packages : Populated(s, p) => Populated(s, p)'
    BY StepKeepsPopulated
  <1>3. Behind(s)' = Behind(s)
    BY <1>1 DEF Behind
  <1> QED
    BY <1>1, <1>2, <1>3 DEF PopulateInv

-------------------------------------------------------------------------------
(***************************************************************************)
(* Runs that overtake each other.                                          *)
(***************************************************************************)

\* No run forgets a key, but for the one that reads the bucket anew.
LEMMA KeysStay ==
  ASSUME TypeOK, NEW r \in Runs, RunStep(r), ~ReadMapping(r), NEW s \in Runs,
         NEW p \in Packages, mapping[s].key[p] # None
  PROVE  mapping'[s].key[p] # None
  <1>1. mapping \in [Runs -> Mappings]
    BY DEF TypeOK
  <1>2. ASSUME NEW k \in Keys, Remove(r, k) PROVE mapping'[s].key[p] # None
    <2>1. mapping' = [mapping EXCEPT ![r].package[k] = None]
      BY <1>2 DEF Remove
    <2> QED
      BY <1>1, <2>1 DEF Mappings
  <1>3. CASE BuildAndPush(r)
    <2>1. PICK q \in Packages : mapping' = [mapping EXCEPT ![r].key[q] = Key(r, q)]
      BY <1>3 DEF BuildAndPush
    <2>2. Key(r, q) # None
      BY KeyType
    <2> QED
      BY <1>1, <2>1, <2>2 DEF Mappings
  <1>4. CASE ~BuildAndPush(r) /\ ~(\E k \in Keys : Remove(r, k))
    BY <1>4 DEF RunStep, ReadNothing, ListTags, Removed, Malformed, Garbled, NoBuilder,
       WriteMapping, CopyMapping, Fail, localVars
  <1> QED
    BY <1>2, <1>3, <1>4

LEMMA StepBasis ==
  ASSUME TypeOK, NEW r \in Runs, RunStep(r), \A s \in Runs : BasisInv(s)
  PROVE  \A s \in Runs : BasisInv(s)'
  <1> SUFFICES ASSUME NEW s \in Runs PROVE BasisInv(s)'
    OBVIOUS
  <1> USE DEF TypeOK
  <1>1. CASE ReadMapping(r)
    <2>1. /\ mapping' = [mapping EXCEPT ![r] = bucket] /\ bucket' = bucket
          /\ basis' = [basis EXCEPT ![r] = generation] /\ generation' = generation
      BY <1>1 DEF ReadMapping
    <2> QED
      BY <2>1 DEF BasisInv
  <1>2. CASE CopyMapping(r)
    <2>1. generation' = generation + 1 /\ basis' = basis
      BY <1>2 DEF CopyMapping, localVars
    <2>2. basis[s] # None => basis[s] <= generation
      BY DEF BasisInv
    <2>3. basis'[s] # generation' /\ (basis'[s] # None => basis'[s] <= generation')
      <3>1. CASE basis[s] = None
        BY <2>1, <3>1, NoneAssumption
      <3>2. CASE basis[s] # None
        BY <2>1, <2>2, <3>2
      <3> QED
        BY <3>1, <3>2
    <2> QED
      BY <2>3 DEF BasisInv
  <1>3. CASE ~ReadMapping(r) /\ ~CopyMapping(r)
    <2>1. bucket' = bucket /\ generation' = generation /\ basis' = basis
      BY <1>3 DEF RunStep, ReadNothing, ListTags, Remove, Removed, Malformed, BuildAndPush,
         Garbled, NoBuilder, WriteMapping, Fail, localVars
    <2>2. \A p \in Packages : mapping[s].key[p] # None => mapping'[s].key[p] # None
      BY <1>3, KeysStay
    <2> QED
      BY <2>1, <2>2 DEF BasisInv
  <1> QED
    BY <1>1, <1>2, <1>3

-------------------------------------------------------------------------------
(***************************************************************************)
(* Every step keeps the invariant.                                         *)
(***************************************************************************)
LEMMA InitIInv == Init => IInv
  <1> SUFFICES ASSUME Init PROVE IInv
    OBVIOUS
  <1>1. Truthful(bucket)
    <2>1. /\ \A p \in Packages : bucket.key[p] = None
          /\ \A k \in Keys : bucket.package[k] = OldMapping[k] /\ registry[k] = OldMapping[k]
      BY OldMappingAssumption DEF Init, EmptyMapping
    <2> QED
      BY <2>1, OldMappingAssumption DEF Truthful, Pushed
  <1>2. \A r \in Runs : Truthful(mapping[r])
    BY DEF Init, EmptyMapping, Truthful
  <1>3. \A r \in Runs : PopulateInv(r)
    BY ArgsType DEF Init, PopulateInv, Behind
  <1>4. \A r \in Runs : BasisInv(r)
    BY NoneAssumption DEF Init, BasisInv
  <1> QED
    BY <1>1, <1>2, <1>3, <1>4, InitTypeOK DEF IInv, TruthInv

LEMMA StepIInv == IInv /\ [Next]_vars => IInv'
  <1> SUFFICES ASSUME IInv, [Next]_vars PROVE IInv'
    OBVIOUS
  <1>1. ASSUME NEW r \in Runs, RunStep(r) PROVE IInv'
    BY <1>1, StepTypeOK, StepTruthful, StepPopulates, OthersPopulate, StepBasis DEF IInv
  <1>2. CASE UNCHANGED vars
    BY <1>2 DEF vars, localVars, IInv, TypeOK, TruthInv, Truthful, Pushed, PopulateInv, Behind,
       Populated, BasisInv
  <1> QED
    BY <1>1, <1>2 DEF Next

\* IInv holds in every reachable state of every instance.
THEOREM Inductive == Spec => []IInv
  BY InitIInv, StepIInv, PTL DEF Spec

-------------------------------------------------------------------------------
(***************************************************************************)
(* The properties.                                                         *)
(***************************************************************************)

\* Type correctness: under the tag of a package's key is that package or
\* nothing, whichever wheels and runs there were.
THEOREM TypeCorrect == Spec => []TypeOK
  <1>1. IInv => TypeOK
    BY DEF IInv
  <1> QED
    BY <1>1, Inductive, PTL

\* A run that ends well has put all its list into the cache, whatever else was
\* on it and however the other runs failed, and there it stays until it is
\* removed.
THEOREM SuccessMeansPopulated == Spec => []SuccessPopulates
  <1>1. IInv => SuccessPopulates
    <2> SUFFICES ASSUME IInv, NEW r \in Runs, main[r] \in {"written", "done"},
                        NEW p \in Listed(r) \ garbled[r]
                 PROVE  registry[Key(r, p)] = p \/ Key(r, p) \in removed
      BY DEF SuccessPopulates
    <2>1. PopulateInv(r) /\ word[r] \in Nat
      BY DEF IInv, TypeOK
    <2>2. PICK i \in DOMAIN Args[r] : Single(Args[r][i]) /\ p \in Args[r][i]
      BY DEF Listed
    <2>3. i \in 1 .. Len(Args[r]) /\ Args[r][i] \in Words /\ Len(Args[r]) \in Nat
      BY <2>2, ArgsType
    <2>4. i \in Behind(r)
      BY <2>1, <2>2, <2>3 DEF PopulateInv, Behind
    <2>5. Args[r][i] = {p} /\ p \in Packages
      BY <2>2, <2>3, SingleWord
    <2> QED
      BY <2>1, <2>4, <2>5 DEF PopulateInv, Populated
  <1> QED
    BY <1>1, Inductive, PTL

\* What the mapping file says was pushed, even after pushes that were given up
\* and runs that died between the cache and the file.
THEOREM MappingIsTruthful == Spec => []MappingTruthful
  <1>1. IInv => MappingTruthful
    BY DEF IInv, TruthInv, Truthful, MappingTruthful
  <1> QED
    BY <1>1, Inductive, PTL

\* The file forgets a package only by a run that did not read it as it is.
THEOREM MappingIsRemembered == Spec => MappingRemembers
  <1> DEFINE A == \A p \in Packages : bucket.key[p] # None /\ bucket'.key[p] = None =>
       \E r \in Runs : main[r] = "written" /\ main'[r] = "done" /\ basis[r] # generation
  <1>1. IInv /\ [Next]_vars => [A]_vars
    <2> SUFFICES ASSUME IInv, [Next]_vars, NEW p \in Packages,
                        bucket.key[p] # None, bucket'.key[p] = None
                 PROVE  \E r \in Runs : /\ main[r] = "written" /\ main'[r] = "done"
                                        /\ basis[r] # generation
      OBVIOUS
    <2>1. bucket' # bucket
      OBVIOUS
    <2>2. PICK r \in Runs : RunStep(r)
      BY <2>1 DEF Next, vars
    <2>3. CopyMapping(r)
      BY <2>1, <2>2 DEF RunStep, ReadMapping, ReadNothing, ListTags, Remove, Removed,
         Malformed, BuildAndPush, Garbled, NoBuilder, WriteMapping, Fail
    <2>4. main[r] = "written" /\ main'[r] = "done" /\ bucket' = mapping[r]
      BY <2>3 DEF CopyMapping, GoTo, IInv, TypeOK
    <2>5. basis[r] # generation
      BY <2>4 DEF IInv, BasisInv
    <2> QED
      BY <2>4, <2>5
  <1> QED
    BY <1>1, Inductive, PTL DEF Spec, MappingRemembers

===============================================================================
