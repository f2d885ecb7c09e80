-------------------------- MODULE TagReconcilerProofs --------------------------
(***************************************************************************)
(* Theorems about TagReconciler, for any number of runs, files, entries,   *)
(* repositories and images; and about TagIntegrity, the test of the same   *)
(* registries.                                                             *)
(***************************************************************************)
EXTENDS TagReconciler, TagIntegrity, TLAPS

\* A run that has the digest of the entry it is at.
Holds(r) == pc[r] \in {"default", "inspect", "list", "source", "push", "log"}

\* Where a run can be.
PosInv ==
  \A r \in Runs :
    /\ pc[r] \in {"new", "resolve", "default"} => at[r].registry = 1
    /\ Holds(r) => InEntry(r) /\ at[r].registry \in 1..Len(Registries(Here(r))) + 1
    /\ pc[r] \in {"inspect", "list", "source", "push"} =>
         at[r].registry \in DOMAIN Registries(Here(r))
    /\ pc[r] = "log" => at[r].registry = Len(Registries(Here(r))) + 1
    /\ pc[r] = "push" => r \notin DryRun
    /\ pc[r] = "ended" <=> exitCode[r] # "none"
    /\ exitCode[r] = "ok" => ~InFile(r)

\* The entries a run has left behind.
Passed(r, f, i) ==
  /\ f \in DOMAIN Files[r] /\ i \in DOMAIN Files[r][f]
  /\ f < at[r].file \/ (f = at[r].file /\ i < at[r].entry)

\* The digest a run holds is one its entry means, and is still there.
DigestInv ==
  \A r \in Runs : Holds(r) =>
    digest[r] \in Here(r).prefix /\ (~lost => digest[r] \in stored[Here(r).base])

\* Two runs at one entry hold the same digest.
AgreeInv ==
  ~lost => \A r1, r2 \in Runs :
    (Holds(r1) /\ Holds(r2) /\ Here(r1) = Here(r2)) => digest[r1] = digest[r2]

\* All tags of an entry name one image, which is the one that any run finds.
Settled(e) ==
  \E d \in Matches(e.base, e.prefix) :
    /\ \A p \in Places(e) : tagged[p][e.tag] = d
    /\ \A r \in Runs : (Holds(r) /\ Here(r) = e) => digest[r] = d

\* What a run has done of the entry it is at, and of the entries before.
BehindInv ==
  Consistent /\ ~lost => \A r \in Runs \ DryRun :
    Holds(r) => \A g \in DOMAIN Registries(Here(r)) :
      g < at[r].registry => tagged[Registries(Here(r))[g]][Here(r).tag] = digest[r]

PassedInv ==
  Consistent /\ ~lost => \A r \in Runs \ DryRun : \A f, i \in Nat :
    Passed(r, f, i) => Settled(Files[r][f][i])

IInv == Types /\ PosInv /\ DigestInv /\ AgreeInv /\ BehindInv /\ PassedInv

-------------------------------------------------------------------------------
(***************************************************************************)
(* The data the runs are given.                                            *)
(***************************************************************************)

LEMMA EntryRegistries ==
  ASSUME NEW e \in Entry
  PROVE  /\ Registries(e) \in Seq(Repos)
         /\ Len(Registries(e)) = Len(e.mirrors) + 1
         /\ DOMAIN Registries(e) = 1..Len(e.mirrors) + 1
         /\ Registries(e)[Len(e.mirrors) + 1] = e.base
         /\ \A g \in DOMAIN Registries(e) : Registries(e)[g] \in Places(e) \cap Repos
         /\ e.base \in Places(e) /\ Places(e) \subseteq Repos
<1>1. e.mirrors \in Seq(Repos) /\ e.base \in Repos
  BY DEF Entry
<1> DEFINE s == e.mirrors
<1>2. /\ Append(s, e.base) \in Seq(Repos)
      /\ Len(Append(s, e.base)) = Len(s) + 1
      /\ DOMAIN Append(s, e.base) = 1..Len(s) + 1
      /\ Append(s, e.base)[Len(s) + 1] = e.base
      /\ \A g \in DOMAIN Append(s, e.base) : Append(s, e.base)[g] \in Repos
  BY <1>1
<1>3. Len(s) + 1 \in DOMAIN Append(s, e.base)
  BY <1>1, <1>2
<1> QED
  BY <1>2, <1>3 DEF Registries, Places

\* Files are sequences of sequences of entries.
LEMMA EntryOf ==
  ASSUME NEW r \in Runs, NEW f \in DOMAIN Files[r], NEW i \in DOMAIN Files[r][f]
  PROVE  /\ Files[r] \in Seq(Seq(Entry)) /\ Files[r][f] \in Seq(Entry)
         /\ Files[r][f][i] \in Entry
         /\ Files[r][f][i] \in Entries(r)
         /\ r \notin DryRun => Files[r][f][i] \in AllEntries
<1>1. Files[r] \in Seq(Seq(Entry))
  BY FilesAssumption
<1>2. Files[r][f] \in Seq(Entry)
  BY <1>1
<1>3. Files[r][f][i] \in Entry
  BY <1>2
<1>4. Files[r][f][i] \in Entries(r)
  BY DEF Entries
<1> QED
  BY <1>1, <1>2, <1>3, <1>4 DEF AllEntries

LEMMA HereIsEntry ==
  ASSUME NEW r \in Runs, InEntry(r)
  PROVE  /\ Here(r) \in Entry /\ Here(r) \in Entries(r)
         /\ r \notin DryRun => Here(r) \in AllEntries
BY EntryOf DEF InEntry, InFile, Here

-------------------------------------------------------------------------------
(***************************************************************************)
(* Type correctness.                                                       *)
(***************************************************************************)

LEMMA TypeInit == Init => Types
<1> SUFFICES ASSUME Init PROVE Types
  OBVIOUS
<1>1. RegistryTypeOK
  BY DEF Init, RegistryInit, RegistryTypeOK
<1>2. at \in [Runs -> Positions]
  BY DEF Init, Positions
<1> QED
  BY <1>1, <1>2 DEF Init, Types, States

LEMMA PosInit == Init => PosInv
BY DEF Init, PosInv, Holds

-------------------------------------------------------------------------------
(***************************************************************************)
(* The shape of a step of a run.                                           *)
(***************************************************************************)

\* All that Move and GoTo do.
LEMMA Moved ==
  ASSUME Types, NEW r \in Runs, NEW p \in Positions, Move(r, p)
  PROVE  /\ at' \in [Runs -> Positions] /\ at'[r] = p
         /\ \A q \in Runs \ {r} : at'[q] = at[q]
BY DEF Types, Move

LEMMA Gone ==
  ASSUME Types, NEW r \in Runs, NEW s \in States, GoTo(r, s)
  PROVE  /\ pc' \in [Runs -> States] /\ pc'[r] = s
         /\ \A q \in Runs \ {r} : pc'[q] = pc[q]
BY DEF Types, GoTo

\* The end of a turn of the loop over the registries.
LEMMA TurnEnds ==
  ASSUME Types, PosInv, NEW r \in Runs, NextRegistry(r),
         pc[r] \in {"list", "source", "push"}
  PROVE  /\ at' \in [Runs -> Positions] /\ pc' \in [Runs -> States]
         /\ \A q \in Runs \ {r} : pc'[q] = pc[q] /\ at'[q] = at[q]
         /\ at'[r] = [at[r] EXCEPT !.registry = at[r].registry + 1]
         /\ at[r].registry \in DOMAIN Registries(Here(r))
         /\ \/ /\ pc'[r] = "inspect"
               /\ at[r].registry + 1 \in DOMAIN Registries(Here(r))
            \/ /\ pc'[r] = "log"
               /\ at[r].registry = Len(Registries(Here(r)))
<1>1. InEntry(r) /\ at[r].registry \in DOMAIN Registries(Here(r))
  BY DEF PosInv, Holds
<1>2. Here(r) \in Entry
  BY <1>1, HereIsEntry
<1>3. Registries(Here(r)) \in Seq(Repos)
  BY <1>2, EntryRegistries
<1> DEFINE p == [at[r] EXCEPT !.registry = at[r].registry + 1]
           s == IF at[r].registry < Len(Registries(Here(r))) THEN "inspect" ELSE "log"
<1>4. p \in Positions /\ s \in States
  BY DEF Types, Positions, States
<1>5. Move(r, p) /\ GoTo(r, s)
  BY DEF NextRegistry
<1> HIDE DEF p, s
<1>6. at' \in [Runs -> Positions] /\ at'[r] = p /\ pc' \in [Runs -> States] /\ pc'[r] = s
      /\ \A q \in Runs \ {r} : pc'[q] = pc[q] /\ at'[q] = at[q]
  BY <1>4, <1>5, Moved, Gone
<1> QED
  BY <1>1, <1>3, <1>6 DEF p, s

\* A step of a run leaves the others' variables alone, and the types right.
LEMMA StepFrame ==
  ASSUME Types, PosInv, DigestInv, NEW r \in Runs, Start(r) \/ Step(r)
  PROVE  /\ Types'
         /\ \A q \in Runs \ {r} : /\ pc'[q] = pc[q] /\ at'[q] = at[q]
                                  /\ digest'[q] = digest[q] /\ exitCode'[q] = exitCode[q]
<1> DEFINE Frame == \A q \in Runs \ {r} :
             /\ pc'[q] = pc[q] /\ at'[q] = at[q]
             /\ digest'[q] = digest[q] /\ exitCode'[q] = exitCode[q]
           RunTypes == /\ pc' \in [Runs -> States] /\ at' \in [Runs -> Positions]
                       /\ digest' \in [Runs -> Digests \cup {NoDigest}]
                       /\ exitCode' \in [Runs -> {"none", "ok", "error"}]
<1> USE DEF Types
<1>0. NextFilePos(r) \in Positions /\ NextEntryPos(r) \in Positions
  <2>1. at[r] \in Positions
    OBVIOUS
  <2> QED
    BY <2>1 DEF NextFilePos, NextEntryPos, Positions
<1>1. ASSUME NEW code \in {"ok", "error"}, End(r, code), UNCHANGED <<at, digest>>
      PROVE  RunTypes /\ Frame
  BY <1>1, Gone DEF End, States
<1>2. ASSUME NEW s \in States, GoTo(r, s), UNCHANGED <<at, digest, exitCode>>
      PROVE  RunTypes /\ Frame
  BY <1>2, Gone
<1>3. CASE Start(r)
  BY <1>2, <1>3 DEF Start, States, registryVars, RegistryTypeOK
<1>4. CASE NextFile(r)
  BY <1>0, <1>4, Moved DEF NextFile, registryVars, RegistryTypeOK
<1>5. CASE Finish(r)
  BY <1>1, <1>5 DEF Finish, registryVars, RegistryTypeOK
<1>6. CASE Resolve(r)
  <2>1. /\ pc' \in [Runs -> States] /\ \A q \in Runs \ {r} : pc'[q] = pc[q]
    BY <1>6, Gone DEF Resolve, States
  <2>2. /\ digest' \in [Runs -> Digests \cup {NoDigest}]
        /\ \A q \in Runs \ {r} : digest'[q] = digest[q]
    BY <1>6 DEF Resolve
  <2> QED
    BY <1>6, <2>1, <2>2 DEF Resolve, registryVars, RegistryTypeOK
<1>7. CASE BadPrefix(r)
  BY <1>1, <1>7 DEF BadPrefix, registryVars, RegistryTypeOK
<1>8. CASE CheckDefault(r)
  BY <1>2, <1>8 DEF CheckDefault, States, registryVars, RegistryTypeOK
<1>9. CASE BailOut(r)
  BY <1>0, <1>9, Moved, Gone DEF BailOut, States, registryVars, RegistryTypeOK
<1>10. CASE Inspect(r)
  <2>1. (IF Exists(Repo(r), digest[r]) THEN "list" ELSE "source") \in States
    BY DEF States
  <2> QED
    BY <1>2, <1>10, <2>1 DEF Inspect, registryVars, RegistryTypeOK
<1>11. CASE AlreadyTagged(r)
  BY <1>11, TurnEnds DEF AlreadyTagged, registryVars, RegistryTypeOK
<1>12. CASE NotTagged(r)
  BY <1>2, <1>12 DEF NotTagged, States, registryVars, RegistryTypeOK
<1>13. CASE SkipTag(r)
  BY <1>13, TurnEnds DEF SkipTag, registryVars, RegistryTypeOK
<1>14. CASE FindSource(r)
  BY <1>2, <1>14 DEF FindSource, States, registryVars, RegistryTypeOK
<1>15. CASE Push(r)
  <2>1. digest[r] \in Here(r).prefix /\ Here(r) \in Entry
    BY <1>15, HereIsEntry DEF Push, PosInv, DigestInv, Holds
  <2>2. Here(r).prefix \subseteq Digests
    BY <2>1 DEF Entry
  <2>3. RegistryTypeOK'
    BY <1>15, <2>1, <2>2 DEF Push, Upload, RegistryTypeOK
  <2> QED
    BY <1>15, <2>3, TurnEnds DEF Push
<1>16. CASE LogTags(r)
  BY <1>0, <1>16, Moved, Gone DEF LogTags, States, registryVars, RegistryTypeOK
<1>17. CASE Fail(r)
  BY <1>1, <1>17 DEF Fail, registryVars, RegistryTypeOK
<1> QED
  BY <1>3, <1>4, <1>5, <1>6, <1>7, <1>8, <1>9, <1>10, <1>11, <1>12, <1>13, <1>14, <1>15, <1>16, <1>17
  DEF Step

\* A run that holds a digest after its step found it just now, or is still at
\* the same entry.
LEMMA StepHolds ==
  ASSUME Types, PosInv, DigestInv, NEW r \in Runs, Start(r) \/ Step(r), Holds(r)'
  PROVE  \/ Resolve(r)
         \/ /\ Holds(r) /\ digest'[r] = digest[r]
            /\ at'[r].file = at[r].file /\ at'[r].entry = at[r].entry
            /\ Here(r)' = Here(r)
<1> DEFINE Same == /\ Holds(r) /\ digest'[r] = digest[r]
                   /\ at'[r].file = at[r].file /\ at'[r].entry = at[r].entry
<1>1. Same => Here(r)' = Here(r)
  BY DEF Here
<1>2. at[r] \in Positions
  BY DEF Types
<1>3. pc \in [Runs -> States]
  BY DEF Types
<1>4. CASE Start(r) \/ NextFile(r) \/ Finish(r) \/ BadPrefix(r) \/ BailOut(r) \/ LogTags(r) \/ Fail(r)
  <2>1. pc'[r] \in {"resolve", "ended"}
    BY <1>3, <1>4 DEF Start, NextFile, Finish, BadPrefix, BailOut, LogTags, Fail, End, GoTo
  <2> QED
    BY <2>1 DEF Holds
<1>5. CASE CheckDefault(r) \/ Inspect(r) \/ NotTagged(r) \/ FindSource(r)
  BY <1>1, <1>5 DEF CheckDefault, Inspect, NotTagged, FindSource, Holds
<1>6. CASE AlreadyTagged(r) \/ SkipTag(r) \/ Push(r)
  <2>1. NextRegistry(r) /\ digest' = digest /\ pc[r] \in {"list", "source", "push"}
    BY <1>6 DEF AlreadyTagged, SkipTag, Push
  <2>2. at'[r] = [at[r] EXCEPT !.registry = at[r].registry + 1]
    BY <2>1, TurnEnds
  <2> QED
    BY <1>1, <1>2, <2>1, <2>2 DEF Holds, Positions
<1> QED
  BY <1>4, <1>5, <1>6 DEF Step

LEMMA PosNext ==
  ASSUME Types, PosInv, DigestInv, NEW r \in Runs, Start(r) \/ Step(r)
  PROVE  PosInv'
<1> DEFINE Pos(q) ==
      /\ pc[q] \in {"new", "resolve", "default"} => at[q].registry = 1
      /\ Holds(q) => InEntry(q) /\ at[q].registry \in 1..Len(Registries(Here(q))) + 1
      /\ pc[q] \in {"inspect", "list", "source", "push"} =>
           at[q].registry \in DOMAIN Registries(Here(q))
      /\ pc[q] = "log" => at[q].registry = Len(Registries(Here(q))) + 1
      /\ pc[q] = "push" => q \notin DryRun
      /\ pc[q] = "ended" <=> exitCode[q] # "none"
      /\ exitCode[q] = "ok" => ~InFile(q)
<1>1. ASSUME NEW q \in Runs \ {r} PROVE Pos(q)'
  <2>1. pc'[q] = pc[q] /\ at'[q] = at[q] /\ exitCode'[q] = exitCode[q]
    BY StepFrame
  <2>2. Pos(q)
    BY DEF PosInv
  <2> QED
    BY <2>1, <2>2 DEF Holds, InEntry, InFile, Here
<1>2. Pos(r)'
  <2>0. /\ Pos(r) /\ pc \in [Runs -> States] /\ at \in [Runs -> Positions]
        /\ exitCode \in [Runs -> {"none", "ok", "error"}]
    BY DEF PosInv, Types
  <2>1. ASSUME UNCHANGED at, pc'[r] \in {"inspect", "list", "source", "push"},
               Holds(r), at[r].registry \in DOMAIN Registries(Here(r)),
               pc'[r] = "push" => r \notin DryRun, UNCHANGED exitCode
        PROVE  Pos(r)'
    BY <2>0, <2>1 DEF Holds, InEntry, InFile, Here
  <2>2. CASE Start(r)
    BY <2>0, <2>2 DEF Start, GoTo, Holds, InFile, InEntry, Here
  <2>3. CASE NextFile(r) \/ BailOut(r) \/ LogTags(r)
    <3>1. pc'[r] = "resolve" /\ at'[r].registry = 1 /\ exitCode'[r] = "none"
      BY <2>0, <2>3 DEF NextFile, BailOut, LogTags, GoTo, Move, NextFilePos, NextEntryPos, Holds
    <3> QED
      BY <3>1 DEF Holds
  <2>4. CASE Finish(r) \/ BadPrefix(r) \/ Fail(r)
    <3>1. pc'[r] = "ended" /\ exitCode'[r] \in {"ok", "error"} /\ at' = at
          /\ (exitCode'[r] = "ok" => ~InFile(r))
      BY <2>0, <2>4 DEF Finish, BadPrefix, Fail, End, GoTo
    <3> QED
      BY <3>1 DEF Holds, InFile
  <2>5. CASE Resolve(r)
    <3>1. pc'[r] = "default" /\ at' = at /\ exitCode' = exitCode
          /\ pc[r] = "resolve" /\ InEntry(r)
      BY <2>0, <2>5 DEF Resolve, GoTo
    <3>2. Registries(Here(r)) \in Seq(Repos)
      BY <3>1, HereIsEntry, EntryRegistries
    <3>3. Len(Registries(Here(r))) \in Nat
      BY <3>2
    <3> QED
      BY <2>0, <3>1, <3>3 DEF Holds, InEntry, InFile, Here
  <2>6. CASE CheckDefault(r)
    <3>1. pc'[r] = "inspect" /\ at' = at /\ exitCode' = exitCode /\ Holds(r)
          /\ at[r].registry = 1 /\ InEntry(r)
      BY <2>0, <2>6 DEF CheckDefault, GoTo, Holds
    <3>2. Here(r).mirrors \in Seq(Repos) /\ DOMAIN Registries(Here(r)) = 1..Len(Here(r).mirrors) + 1
      BY <3>1, HereIsEntry, EntryRegistries DEF Entry
    <3>3. Len(Here(r).mirrors) \in Nat
      BY <3>2
    <3>4. 1 \in DOMAIN Registries(Here(r))
      BY <3>2, <3>3
    <3> QED
      BY <2>1, <3>1, <3>4
  <2>7. CASE Inspect(r) \/ NotTagged(r) \/ FindSource(r)
    <3>1. /\ pc'[r] \in {"inspect", "list", "source", "push"}
          /\ pc'[r] = "push" => r \notin DryRun
          /\ at' = at /\ exitCode' = exitCode /\ Holds(r)
          /\ at[r].registry \in DOMAIN Registries(Here(r))
      BY <2>0, <2>7 DEF Inspect, NotTagged, FindSource, GoTo, Holds
    <3> QED
      BY <2>1, <3>1
  <2>8. CASE AlreadyTagged(r) \/ SkipTag(r) \/ Push(r)
    <3>1. NextRegistry(r) /\ pc[r] \in {"list", "source", "push"} /\ exitCode' = exitCode
      BY <2>8 DEF AlreadyTagged, SkipTag, Push
    <3>2. /\ at'[r] = [at[r] EXCEPT !.registry = at[r].registry + 1]
          /\ at[r].registry \in DOMAIN Registries(Here(r))
          /\ \/ /\ pc'[r] = "inspect"
                /\ at[r].registry + 1 \in DOMAIN Registries(Here(r))
             \/ /\ pc'[r] = "log"
                /\ at[r].registry = Len(Registries(Here(r)))
      BY <3>1, TurnEnds
    <3>3. InEntry(r) /\ InEntry(r)' /\ Here(r)' = Here(r) /\ exitCode[r] = "none"
          /\ at'[r].registry = at[r].registry + 1
      BY <2>0, <3>1, <3>2 DEF Holds, InEntry, InFile, Here, Positions
    <3>4. Registries(Here(r)) \in Seq(Repos)
      BY <3>3, HereIsEntry, EntryRegistries
    <3>5. Len(Registries(Here(r))) \in Nat /\ DOMAIN Registries(Here(r)) = 1..Len(Registries(Here(r)))
      BY <3>4
    <3> QED
      BY <3>1, <3>2, <3>3, <3>5 DEF Holds
  <2> QED
    BY <2>2, <2>3, <2>4, <2>5, <2>6, <2>7, <2>8 DEF Step
<1> QED
  BY <1>1, <1>2 DEF PosInv

-------------------------------------------------------------------------------
(***************************************************************************)
(* What a step of a run does to the registries, and to what runs know.     *)
(***************************************************************************)

\* Only Push touches the registries, and it only adds to them.
LEMMA StepRegistries ==
  ASSUME Types, PosInv, DigestInv, NEW r \in Runs, Start(r) \/ Step(r)
  PROVE  /\ lost' = lost
         /\ \A p \in Repos : stored[p] \subseteq stored'[p]
         /\ ~Push(r) => UNCHANGED tagged
         /\ Push(r) =>
              /\ Holds(r) /\ Here(r) \in AllEntries
              /\ Repo(r) \in Places(Here(r)) \cap Repos
              /\ \A p \in Repos, t \in TagNames :
                   tagged'[p][t] = IF p = Repo(r) /\ t = Here(r).tag
                                     THEN digest[r] ELSE tagged[p][t]
<1>1. CASE Push(r)
  <2>1. /\ Holds(r) /\ InEntry(r) /\ at[r].registry \in DOMAIN Registries(Here(r))
        /\ r \notin DryRun
    BY <1>1 DEF Push, PosInv, Holds
  <2>2. Here(r) \in Entry /\ Here(r) \in AllEntries
    BY <2>1, HereIsEntry
  <2>3. Repo(r) \in Places(Here(r)) \cap Repos
    BY <2>1, <2>2, EntryRegistries DEF Repo
  <2>4. Here(r).tag \in TagNames
    BY <2>2 DEF Entry
  <2>5. /\ stored' = [stored EXCEPT ![Repo(r)] = stored[Repo(r)] \cup {digest[r]}]
        /\ tagged' = [tagged EXCEPT ![Repo(r)][Here(r).tag] = digest[r]]
        /\ lost' = lost
    BY <1>1 DEF Push, Upload
  <2>6. /\ stored \in [Repos -> SUBSET Digests]
        /\ tagged \in [Repos -> [TagNames -> Digests \cup {NoDigest}]]
    BY DEF Types, RegistryTypeOK
  <2> HIDE DEF Repo, Here
  <2>7. \A p \in Repos : stored[p] \subseteq stored'[p]
    BY <2>3, <2>5, <2>6
  <2>8. \A p \in Repos, t \in TagNames :
          tagged'[p][t] = IF p = Repo(r) /\ t = Here(r).tag THEN digest[r] ELSE tagged[p][t]
    BY <2>3, <2>4, <2>5, <2>6
  <2>9. /\ Holds(r) /\ Here(r) \in AllEntries
        /\ Repo(r) \in Places(Here(r)) \cap Repos
    BY <2>1, <2>2, <2>3
  <2> QED
    BY <1>1, <2>5, <2>7, <2>8, <2>9, Zenon
<1>2. CASE ~Push(r)
  <2>1. UNCHANGED registryVars
    BY <1>2 DEF Start, Step, NextFile, Finish, Resolve, BadPrefix, CheckDefault, BailOut,
      Inspect, AlreadyTagged, NotTagged, SkipTag, FindSource, LogTags, Fail
  <2> QED
    BY <1>2, <2>1 DEF registryVars
<1> QED
  BY <1>1, <1>2

\* What get_digest_from_prefix found is the only image that matches.
LEMMA Resolved ==
  ASSUME Types, NEW r \in Runs, Resolve(r)
  PROVE  /\ InEntry(r) /\ Here(r)' = Here(r) /\ at' = at /\ at[r].registry \in Nat
         /\ Matches(Here(r).base, Here(r).prefix) = {digest'[r]}
<1>1. PICK d \in Digests : /\ Matches(Here(r).base, Here(r).prefix) = {d}
                           /\ digest' = [digest EXCEPT ![r] = d]
  BY DEF Resolve
<1>2. digest'[r] = d
  BY <1>1 DEF Types
<1> QED
  BY <1>1, <1>2 DEF Resolve, Here, Types, Positions

\* A run other than the one that moves holds what it held.
LEMMA OthersHold ==
  ASSUME Types, PosInv, DigestInv, NEW r \in Runs, Start(r) \/ Step(r),
         NEW q \in Runs, q # r
  PROVE  /\ Holds(q)' = Holds(q) /\ Here(q)' = Here(q)
         /\ digest'[q] = digest[q] /\ at'[q] = at[q]
BY StepFrame DEF Holds, Here

LEMMA DigestNext ==
  ASSUME Types, PosInv, DigestInv, NEW r \in Runs, Start(r) \/ Step(r)
  PROVE  DigestInv'
<1> SUFFICES ASSUME NEW q \in Runs, Holds(q)'
             PROVE  /\ digest'[q] \in Here(q)'.prefix
                    /\ ~lost' => digest'[q] \in stored'[Here(q)'.base]
  BY DEF DigestInv
<1>1. PosInv'
  BY PosNext
<1>2. Here(q)' \in Entry
  <2>1. InEntry(q)'
    BY <1>1 DEF PosInv
  <2> QED
    BY <2>1, EntryOf DEF InEntry, InFile, Here
<1>3. Here(q)'.base \in Repos
  BY <1>2 DEF Entry
<1>4. CASE /\ Holds(q) /\ Here(q)' = Here(q) /\ digest'[q] = digest[q]
  BY <1>3, <1>4, StepRegistries DEF DigestInv
<1>5. CASE q = r /\ Resolve(r)
  BY <1>3, <1>5, Resolved, StepRegistries DEF Matches
<1> QED
  BY <1>4, <1>5, OthersHold, StepHolds

LEMMA AgreeNext ==
  ASSUME Types, PosInv, DigestInv, AgreeInv, NEW r \in Runs, Start(r) \/ Step(r)
  PROVE  AgreeInv'
<1> SUFFICES ASSUME ~lost', NEW r1 \in Runs, NEW r2 \in Runs,
                    Holds(r1)', Holds(r2)', Here(r1)' = Here(r2)'
             PROVE  digest'[r1] = digest'[r2]
  BY DEF AgreeInv
<1> DEFINE Kept(q) == Holds(q) /\ Here(q)' = Here(q) /\ digest'[q] = digest[q]
<1>1. ~lost
  BY StepRegistries
<1>2. \A q \in {r1, r2} : Kept(q) \/ (q = r /\ Resolve(r))
  BY OthersHold, StepHolds
<1>3. CASE Kept(r1) /\ Kept(r2)
  BY <1>1, <1>3 DEF AgreeInv
<1>4. ASSUME NEW q1 \in {r1, r2}, NEW q2 \in {r1, r2}, q1 = r, Resolve(r), Kept(q2)
      PROVE  digest'[q1] = digest'[q2]
  <2>1. digest[q2] \in Matches(Here(q2).base, Here(q2).prefix)
    BY <1>1, <1>4 DEF DigestInv, Matches
  <2>2. Here(q2) = Here(q1)
    BY <1>4, Resolved
  <2> QED
    BY <1>4, <2>1, <2>2, Resolved
<1> QED
  BY <1>2, <1>3, <1>4

\* Two entries for one tag of one repository are one entry.
LEMMA SameTagSameEntry ==
  ASSUME Consistent, NEW e1 \in AllEntries, NEW e2 \in AllEntries,
         NEW p \in Places(e1) \cap Places(e2), e1.tag = e2.tag
  PROVE  e1 = e2
BY DEF Consistent

\* What is settled stays so while runs go on.
LEMMA SettledKept ==
  ASSUME Types, PosInv, DigestInv, Consistent, ~lost,
         NEW r \in Runs, Start(r) \/ Step(r),
         NEW e \in AllEntries, e \in Entry, Settled(e)
  PROVE  Settled(e)'
<1>1. PICK d \in Matches(e.base, e.prefix) :
        /\ \A p \in Places(e) : tagged[p][e.tag] = d
        /\ \A q \in Runs : (Holds(q) /\ Here(q) = e) => digest[q] = d
  BY DEF Settled
<1>2. d \in Matches(e.base, e.prefix)'
  BY <1>1, StepRegistries DEF Matches, Entry
<1>3. ASSUME NEW p \in Places(e) PROVE tagged'[p][e.tag] = d
  <2>1. p \in Repos /\ e.tag \in TagNames
    BY <1>3, EntryRegistries DEF Entry
  <2>2. CASE Push(r) /\ p = Repo(r) /\ e.tag = Here(r).tag
    <3>1. Holds(r) /\ Here(r) \in AllEntries /\ p \in Places(Here(r))
      BY <2>2, StepRegistries
    <3>2. Here(r) = e
      BY <1>3, <2>2, <3>1, SameTagSameEntry
    <3> QED
      BY <1>1, <1>3, <2>1, <2>2, <3>1, <3>2, StepRegistries
  <2>3. CASE ~(Push(r) /\ p = Repo(r) /\ e.tag = Here(r).tag)
    BY <1>1, <1>3, <2>1, <2>3, StepRegistries
  <2> QED
    BY <2>2, <2>3
<1>4. ASSUME NEW q \in Runs, Holds(q)', Here(q)' = e PROVE digest'[q] = d
  <2>1. CASE Holds(q) /\ Here(q)' = Here(q) /\ digest'[q] = digest[q]
    BY <1>1, <1>4, <2>1
  <2>2. CASE q = r /\ Resolve(r)
    BY <1>1, <1>4, <2>2, Resolved
  <2> QED
    BY <1>4, <2>1, <2>2, OthersHold, StepHolds
<1> QED
  BY <1>2, <1>3, <1>4 DEF Settled

LEMMA BehindNext ==
  ASSUME Types, PosInv, DigestInv, AgreeInv, BehindInv,
         NEW r \in Runs, Start(r) \/ Step(r)
  PROVE  BehindInv'
<1> SUFFICES ASSUME Consistent, ~lost', NEW q \in Runs \ DryRun, Holds(q)',
                    NEW g \in DOMAIN Registries(Here(q)'), g < at'[q].registry
             PROVE  tagged'[Registries(Here(q)')[g]][Here(q)'.tag] = digest'[q]
  BY DEF BehindInv, Consistent, AllEntries, Entries, Places, Registries
<1> DEFINE p == Registries(Here(q))[g]
           t == Here(q).tag
<1>1. ~lost
  BY StepRegistries
<1>2. CASE q = r /\ Resolve(r)
  <2>1. at'[q].registry = 1 /\ Here(q)' = Here(q) /\ InEntry(q)
    BY <1>2, Resolved DEF PosInv, Resolve
  <2>2. Registries(Here(q)) \in Seq(Repos)
    BY <2>1, HereIsEntry, EntryRegistries
  <2>3. g \in Nat \ {0}
    BY <2>1, <2>2
  <2> QED
    BY <2>1, <2>3
<1>3. CASE Holds(q) /\ Here(q)' = Here(q) /\ digest'[q] = digest[q]
  <2>1. InEntry(q) /\ Here(q) \in Entry /\ Here(q) \in AllEntries
    BY <1>3, HereIsEntry DEF PosInv
  <2>2. g \in Nat /\ p \in Places(Here(q)) /\ p \in Repos /\ t \in TagNames
    BY <1>3, <2>1, EntryRegistries DEF Entry
  <2>3. CASE tagged[p][t] = digest[q]
    <3>1. CASE Push(r) /\ p = Repo(r) /\ t = Here(r).tag
      <4>1. Here(r) \in AllEntries /\ p \in Places(Here(r)) /\ Holds(r)
        BY <3>1, StepRegistries
      <4>2. Here(r) = Here(q)
        BY <2>1, <2>2, <3>1, <4>1, SameTagSameEntry
      <4>3. digest[r] = digest[q]
        BY <1>1, <1>3, <4>1, <4>2 DEF AgreeInv
      <4> QED
        BY <1>3, <2>2, <3>1, <4>3, StepRegistries
    <3>2. CASE ~(Push(r) /\ p = Repo(r) /\ t = Here(r).tag)
      BY <1>3, <2>2, <2>3, <3>2, StepRegistries
    <3> QED
      BY <3>1, <3>2
  <2>4. CASE g < at[q].registry
    BY <1>1, <1>3, <2>3, <2>4 DEF BehindInv
  <2>5. CASE ~(g < at[q].registry)
    <3>1. q = r /\ at'[r] # at[r]
      BY <2>5, OthersHold
    <3>2. AlreadyTagged(r) \/ SkipTag(r) \/ Push(r)
      <4>1. ~Start(r) /\ ~Finish(r) /\ ~Resolve(r) /\ ~BadPrefix(r) /\ ~CheckDefault(r)
            /\ ~Inspect(r) /\ ~NotTagged(r) /\ ~FindSource(r) /\ ~Fail(r)
        BY <3>1 DEF Start, Finish, Resolve, BadPrefix, CheckDefault, Inspect, NotTagged,
          FindSource, Fail
      <4>2. ~NextFile(r)
        BY <1>3, <3>1 DEF NextFile, Holds
      <4>3. ~BailOut(r) /\ ~LogTags(r)
        BY <1>3, <3>1 DEF BailOut, LogTags, GoTo, Holds, Types
      <4> QED
        BY <4>1, <4>2, <4>3 DEF Step
    <3>3. NextRegistry(r) /\ pc[r] \in {"list", "source", "push"}
      BY <3>2 DEF AlreadyTagged, SkipTag, Push
    <3>4. at'[r].registry = at[r].registry + 1
      <4>1. at'[r] = [at[r] EXCEPT !.registry = at[r].registry + 1] /\ at[r] \in Positions
        BY <3>3, TurnEnds DEF Types
      <4> QED
        BY <4>1 DEF Positions
    <3>5. g = at[r].registry /\ p = Repo(r)
      BY <2>2, <2>5, <3>1, <3>4 DEF Types, Positions, Repo
    <3>6. CASE AlreadyTagged(r)
      BY <2>3, <3>1, <3>5, <3>6 DEF AlreadyTagged, TaggedDigest
    <3>7. CASE SkipTag(r)
      BY <1>1, <1>3, <3>1, <3>7 DEF SkipTag, DigestInv, Exists
    <3>8. CASE Push(r)
      BY <1>3, <2>2, <3>1, <3>5, <3>8, StepRegistries DEF Push, Upload, Types, RegistryTypeOK
    <3> QED
      BY <3>2, <3>6, <3>7, <3>8
  <2> QED
    BY <2>4, <2>5
<1> QED
  BY <1>2, <1>3, OthersHold, StepHolds

\* An entry whose last registry a run has done is settled.
LEMMA DoneIsSettled ==
  ASSUME Types, PosInv, DigestInv, AgreeInv, BehindInv, Consistent, ~lost,
         NEW r \in Runs \ DryRun, pc[r] = "log"
  PROVE  Settled(Here(r))
<1> DEFINE e == Here(r)
<1>1. Holds(r) /\ InEntry(r) /\ at[r].registry = Len(Registries(e)) + 1
  BY DEF PosInv, Holds
<1>2. e \in Entry /\ Registries(e) \in Seq(Repos)
  BY <1>1, HereIsEntry, EntryRegistries
<1>3. digest[r] \in Matches(e.base, e.prefix)
  BY <1>1 DEF DigestInv, Matches
<1>4. ASSUME NEW p \in Places(e) PROVE tagged[p][e.tag] = digest[r]
  <2>1. PICK g \in DOMAIN Registries(e) : p = Registries(e)[g]
    BY <1>4 DEF Places
  <2>2. g < at[r].registry
    BY <1>1, <1>2
  <2> QED
    BY <1>1, <2>1, <2>2 DEF BehindInv
<1>5. \A q \in Runs : (Holds(q) /\ Here(q) = e) => digest[q] = digest[r]
  BY <1>1 DEF AgreeInv
<1> QED
  BY <1>3, <1>4, <1>5 DEF Settled

LEMMA PassedNext ==
  ASSUME Types, PosInv, DigestInv, AgreeInv, BehindInv, PassedInv,
         NEW r \in Runs, Start(r) \/ Step(r)
  PROVE  PassedInv'
<1> SUFFICES ASSUME Consistent, ~lost', NEW q \in Runs \ DryRun,
                    NEW f \in Nat, NEW i \in Nat, Passed(q, f, i)'
             PROVE  Settled(Files[q][f][i])'
  BY DEF PassedInv, Consistent, AllEntries, Entries, Places, Registries
<1> DEFINE e == Files[q][f][i]
<1>1. ~lost
  BY StepRegistries
<1>2. f \in DOMAIN Files[q] /\ i \in DOMAIN Files[q][f]
  BY DEF Passed
<1>3. e \in Entry /\ e \in AllEntries /\ Files[q] \in Seq(Seq(Entry)) /\ Files[q][f] \in Seq(Entry)
  BY <1>2, EntryOf
<1>4. SUFFICES Settled(e)
  BY <1>1, <1>3, SettledKept
<1>5. CASE Passed(q, f, i)
  BY <1>1, <1>5 DEF PassedInv
<1>6. CASE ~Passed(q, f, i)
  <2>1. q = r /\ (at'[r].file # at[r].file \/ at'[r].entry # at[r].entry)
    BY <1>6, OthersHold DEF Passed
  <2>2. at \in [Runs -> Positions] /\ pc \in [Runs -> States]
    BY DEF Types
  <2>3. NextFile(r) \/ BailOut(r) \/ LogTags(r)
    <3>1. ~Start(r) /\ ~Finish(r) /\ ~Resolve(r) /\ ~BadPrefix(r) /\ ~CheckDefault(r)
          /\ ~Inspect(r) /\ ~NotTagged(r) /\ ~FindSource(r) /\ ~Fail(r)
      BY <2>1 DEF Start, Finish, Resolve, BadPrefix, CheckDefault, Inspect, NotTagged,
        FindSource, Fail
    <3>2. ~(AlreadyTagged(r) \/ SkipTag(r) \/ Push(r))
      <4>1. SUFFICES ASSUME AlreadyTagged(r) \/ SkipTag(r) \/ Push(r) PROVE FALSE
        OBVIOUS
      <4>2. NextRegistry(r) /\ pc[r] \in {"list", "source", "push"}
        BY <4>1 DEF AlreadyTagged, SkipTag, Push
      <4>3. at'[r] = [at[r] EXCEPT !.registry = at[r].registry + 1]
        BY <4>2, TurnEnds
      <4> QED
        BY <2>1, <2>2, <4>3 DEF Positions
    <3> QED
      BY <3>1, <3>2 DEF Step
  <2>4. CASE NextFile(r)
    <3>1. at'[r].file = at[r].file + 1 /\ at'[r].entry = 1
      BY <2>2, <2>4 DEF NextFile, Move, NextFilePos
    <3>2. i >= 1 /\ f = at[r].file /\ ~(i < at[r].entry)
      BY <1>2, <1>3, <1>6, <2>1, <2>2, <3>1 DEF Passed, Positions
    <3>3. at[r].entry \in DOMAIN Files[r][at[r].file]
      BY <1>2, <1>3, <2>1, <2>2, <3>2 DEF Positions
    <3> QED
      BY <1>2, <2>1, <2>4, <3>2, <3>3 DEF NextFile, InEntry
  <2>5. CASE BailOut(r)
    BY <1>1, <2>5 DEF BailOut, DigestInv, Holds, Exists
  <2>6. CASE LogTags(r)
    <3>1. at'[r].file = at[r].file /\ at'[r].entry = at[r].entry + 1
      BY <2>2, <2>6 DEF LogTags, Move, NextEntryPos
    <3>2. f = at[r].file /\ i = at[r].entry
      BY <1>2, <1>6, <2>1, <2>2, <3>1 DEF Passed, Positions
    <3> QED
      BY <1>1, <2>1, <2>6, <3>2, DoneIsSettled DEF LogTags, Here
  <2> QED
    BY <2>3, <2>4, <2>5, <2>6
<1> QED
  BY <1>5, <1>6

-------------------------------------------------------------------------------
(***************************************************************************)
(* The environment, and the induction.                                     *)
(***************************************************************************)

\* New images disturb nothing, and after a deletion little is claimed.
LEMMA EnvironmentKeeps ==
  ASSUME IInv, Environment
  PROVE  IInv'
<1> USE DEF IInv
<1>1. UNCHANGED <<pc, at, digest, exitCode>>
  BY DEF Environment
<1>2. Types'
  <2>1. RegistryTypeOK'
    <3>1. PICK p \in Repos, d \in Digests : NewImage(p, d) \/ Delete(p, d)
      BY DEF Environment, Others
    <3>2. /\ stored \in [Repos -> SUBSET Digests] /\ lost \in BOOLEAN
          /\ tagged \in [Repos -> [TagNames -> Digests \cup {NoDigest}]]
      BY DEF Types, RegistryTypeOK
    <3>3. CASE NewImage(p, d)
      BY <3>2, <3>3 DEF NewImage, RegistryTypeOK
    <3>4. CASE Delete(p, d)
      <4> DEFINE left == [t \in TagNames |-> IF tagged[p][t] = d THEN NoDigest ELSE tagged[p][t]]
      <4>1. left \in [TagNames -> Digests \cup {NoDigest}]
        BY <3>2
      <4>2. /\ stored' = [stored EXCEPT ![p] = stored[p] \ {d}]
            /\ tagged' = [tagged EXCEPT ![p] = left] /\ lost' = TRUE
        BY <3>4 DEF Delete
      <4> HIDE DEF left
      <4> QED
        BY <3>2, <4>1, <4>2 DEF RegistryTypeOK
    <3> QED
      BY <3>1, <3>3, <3>4
  <2> QED
    BY <1>1, <2>1 DEF Types
<1>3. PosInv'
  BY <1>1 DEF PosInv, Holds, InEntry, InFile, Here
<1>4. \A q \in Runs : Holds(q)' = Holds(q) /\ Here(q)' = Here(q)
  BY <1>1 DEF Holds, Here
<1>5. CASE lost'
  BY <1>1, <1>2, <1>3, <1>4, <1>5 DEF DigestInv, AgreeInv, BehindInv, PassedInv
<1>6. CASE ~lost'
  <2>1. /\ UNCHANGED <<tagged, lost>>
        /\ \A p \in Repos : stored[p] \subseteq stored'[p]
    BY <1>6 DEF Environment, Others, NewImage, Delete, Types, RegistryTypeOK
  <2>2. DigestInv'
    <3>1. SUFFICES ASSUME NEW q \in Runs, Holds(q)
                   PROVE  digest[q] \in Here(q).prefix /\ digest[q] \in stored'[Here(q).base]
      BY <1>1, <1>4 DEF DigestInv
    <3>2. Here(q).base \in Repos
      BY <3>1, HereIsEntry DEF PosInv, Entry
    <3> QED
      BY <1>6, <2>1, <3>1, <3>2 DEF DigestInv
  <2>3. AgreeInv' /\ BehindInv'
    BY <1>1, <1>4, <2>1 DEF AgreeInv, BehindInv
  <2>4. PassedInv'
    <3>1. SUFFICES ASSUME Consistent, NEW q \in Runs \ DryRun, NEW f \in Nat, NEW i \in Nat,
                          Passed(q, f, i)
                   PROVE  Settled(Files[q][f][i])'
      BY <1>1 DEF PassedInv, Passed, Consistent, AllEntries, Entries, Places, Registries
    <3>2. Files[q][f][i].base \in Repos
      BY <3>1, EntryOf DEF Passed, Entry
    <3>3. Settled(Files[q][f][i])
      BY <1>6, <2>1, <3>1 DEF PassedInv
    <3> QED
      BY <1>1, <1>4, <2>1, <3>2, <3>3 DEF Settled, Matches
  <2> QED
    BY <1>2, <1>3, <2>2, <2>3, <2>4
<1> QED
  BY <1>5, <1>6

\* What holds of a run that has not begun.
LEMMA InitInv == Init => IInv
<1> SUFFICES ASSUME Init PROVE IInv
  OBVIOUS
<1>1. \A r \in Runs : ~Holds(r)
  BY DEF Init, Holds
<1>2. ASSUME NEW r \in Runs, NEW f \in Nat, NEW i \in Nat PROVE ~Passed(r, f, i)
  <2>1. at[r].file = 1 /\ at[r].entry = 1
    BY DEF Init
  <2>2. ASSUME f \in DOMAIN Files[r], i \in DOMAIN Files[r][f] PROVE f >= 1 /\ i >= 1
    BY <2>2, EntryOf
  <2> QED
    BY <2>1, <2>2 DEF Passed
<1>3. DigestInv /\ AgreeInv /\ BehindInv /\ PassedInv
  BY <1>1, <1>2 DEF DigestInv, AgreeInv, BehindInv, PassedInv
<1> QED
  BY <1>3, TypeInit, PosInit DEF IInv

LEMMA NextInv == IInv /\ [Next]_vars => IInv'
<1> SUFFICES ASSUME IInv, [Next]_vars PROVE IInv'
  OBVIOUS
<1>1. CASE UNCHANGED vars
  <2>1. /\ \A q \in Runs : Holds(q)' = Holds(q) /\ Here(q)' = Here(q) /\ InFile(q)' = InFile(q)
        /\ \A q \in Runs : InEntry(q)' = InEntry(q)
    BY <1>1 DEF vars, Holds, Here, InFile, InEntry
  <2>2. Types' /\ PosInv'
    BY <1>1, <2>1 DEF IInv, vars, registryVars, Types, RegistryTypeOK, PosInv
  <2>3. DigestInv' /\ AgreeInv' /\ BehindInv'
    BY <1>1, <2>1 DEF IInv, vars, registryVars, DigestInv, AgreeInv, BehindInv
  <2>4. PassedInv'
    BY <1>1, <2>1 DEF IInv, vars, registryVars, PassedInv, Passed, Settled, Matches
  <2> QED
    BY <2>2, <2>3, <2>4 DEF IInv
<1>2. CASE Environment
  BY <1>2, EnvironmentKeeps
<1>3. ASSUME NEW r \in Runs, Start(r) \/ Step(r) PROVE IInv'
  BY <1>3, StepFrame, PosNext, DigestNext, AgreeNext, BehindNext, PassedNext DEF IInv
<1> QED
  BY <1>1, <1>2, <1>3 DEF Next

\* IInv holds in every reachable state.
THEOREM Inductive == Spec => []IInv
BY InitInv, NextInv, PTL DEF Spec

\* The type invariant.
THEOREM TypeCorrect == Spec => []TypeOK
<1>1. IInv => TypeOK
  BY DEF IInv, PosInv, TypeOK, Holds
<1> QED
  BY <1>1, Inductive, PTL

-------------------------------------------------------------------------------
(***************************************************************************)
(* What the runs achieve.                                                  *)
(***************************************************************************)

\* All entries of a run that ended well are settled.
LEMMA ReconciledIsSettled ==
  ASSUME IInv, Consistent, ~lost, NEW r \in Runs, Reconciled(r), NEW e \in Entries(r)
  PROVE  Settled(e) /\ e \in Entry /\ e \in AllEntries
<1>1. PICK f \in DOMAIN Files[r] : \E i \in DOMAIN Files[r][f] : e = Files[r][f][i]
  BY DEF Entries
<1> PICK i \in DOMAIN Files[r][f] : e = Files[r][f][i]
  BY <1>1
<1>2. /\ Files[r] \in Seq(Seq(Entry)) /\ Files[r][f] \in Seq(Entry)
      /\ e \in Entry /\ e \in AllEntries
  BY <1>1, EntryOf DEF Reconciled
<1>3. f \in Nat /\ i \in Nat /\ f <= Len(Files[r]) /\ Len(Files[r]) \in Nat
  BY <1>2
<1>4. at[r].file \notin DOMAIN Files[r] /\ at[r].file \in Nat \ {0}
  BY DEF IInv, PosInv, Reconciled, InFile, Types, Positions
<1>5. f < at[r].file
  BY <1>2, <1>3, <1>4
<1>6. Passed(r, f, i)
  BY <1>1, <1>5 DEF Passed
<1> QED
  BY <1>1, <1>2, <1>3, <1>6 DEF IInv, PassedInv, Reconciled

LEMMA SettledIsInPlace == IInv => SuccessReconciles
<1> SUFFICES ASSUME IInv, Consistent, ~lost, NEW r \in Runs, Reconciled(r), NEW e \in Entries(r)
             PROVE  InPlace(e)
  BY DEF SuccessReconciles
<1> QED
  BY ReconciledIsSettled DEF Settled, InPlace, Matches

\* A run that ends with status 0 has put the tags of its files in place, and
\* they stay there.
THEOREM TagsInPlace == Spec => []SuccessReconciles
BY Inductive, SettledIsInPlace, PTL

\* What a push changes while files are consistent and nothing is deleted.
LEMMA TagsMoveByPush ==
  ASSUME IInv, [Next]_vars, ~lost', NEW e \in Entry, NEW p \in Places(e),
         tagged'[p][e.tag] # tagged[p][e.tag]
  PROVE  /\ ~lost
         /\ \E r \in Runs : /\ Push(r) /\ Holds(r) /\ Here(r) \in AllEntries
                            /\ p = Repo(r) /\ e.tag = Here(r).tag
                            /\ tagged'[p][e.tag] = digest[r]
<1>1. p \in Repos /\ e.tag \in TagNames
  BY EntryRegistries DEF Entry
<1>2. ~UNCHANGED tagged
  OBVIOUS
<1>3. ~Environment
  BY <1>2 DEF Environment, Others, NewImage, Delete
<1>4. PICK r \in Runs : Start(r) \/ Step(r)
  BY <1>2, <1>3 DEF Next, vars, registryVars
<1> QED
  BY <1>1, <1>2, <1>4, StepRegistries DEF IInv

\* A second run moves no tag that the first has put in place.
THEOREM Idempotent == Spec => SecondRunChangesNothing
<1>1. IInv /\ [Next]_vars =>
        (Consistent /\ ~lost' =>
           \A r \in Runs : Reconciled(r) =>
             \A e \in Entries(r) : \A p \in Places(e) : tagged'[p][e.tag] = tagged[p][e.tag])
  <2> SUFFICES ASSUME IInv, [Next]_vars, Consistent, ~lost', NEW r \in Runs, Reconciled(r),
                      NEW e \in Entries(r), NEW p \in Places(e),
                      tagged'[p][e.tag] # tagged[p][e.tag]
               PROVE  FALSE
    OBVIOUS
  <2>1. e \in Entry /\ e \in AllEntries
    BY EntryOf DEF Entries, Reconciled
  <2>2. ~lost
    BY <2>1, TagsMoveByPush
  <2>3. PICK q \in Runs : /\ Push(q) /\ Holds(q) /\ Here(q) \in AllEntries
                          /\ p = Repo(q) /\ e.tag = Here(q).tag
                          /\ tagged'[p][e.tag] = digest[q]
    BY <2>1, TagsMoveByPush
  <2>4. p \in Places(Here(q))
    BY <2>3, StepRegistries DEF IInv, Step
  <2>5. Here(q) = e
    BY <2>1, <2>3, <2>4, SameTagSameEntry
  <2>6. Settled(e)
    BY <2>2, ReconciledIsSettled
  <2> QED
    BY <2>3, <2>5, <2>6 DEF Settled
<1> QED
  BY <1>1, Inductive, PTL DEF Spec, SecondRunChangesNothing

\* The base registry gets a tag after all the mirrors.
THEOREM BaseLast == Spec => BaseComesLast
<1>1. IInv /\ [Next]_vars =>
        (Consistent /\ ~lost' =>
           \A e \in AllEntries :
             tagged'[e.base][e.tag] # tagged[e.base][e.tag] =>
               \A p \in Places(e) : tagged'[p][e.tag] = tagged'[e.base][e.tag])
  <2> SUFFICES ASSUME IInv, [Next]_vars, Consistent, ~lost', NEW e \in AllEntries,
                      tagged'[e.base][e.tag] # tagged[e.base][e.tag], NEW p \in Places(e)
               PROVE  tagged'[p][e.tag] = tagged'[e.base][e.tag]
    OBVIOUS
  <2>1. e \in Entry
    BY EntryOf DEF AllEntries, Entries
  <2>2. e.base \in Places(e) /\ Registries(e) \in Seq(Repos) /\ e.mirrors \in Seq(Repos)
    BY <2>1, EntryRegistries DEF Entry
  <2>3. ~lost
    BY <2>1, <2>2, TagsMoveByPush
  <2>4. PICK q \in Runs : /\ Push(q) /\ Holds(q) /\ Here(q) \in AllEntries
                          /\ e.base = Repo(q) /\ e.tag = Here(q).tag
                          /\ tagged'[e.base][e.tag] = digest[q]
    BY <2>1, <2>2, TagsMoveByPush
  <2>5. e.base \in Places(Here(q))
    BY <2>4, StepRegistries DEF IInv, Step
  <2>6. Here(q) = e
    BY <2>2, <2>4, <2>5, SameTagSameEntry
  <2>7. InEntry(q) /\ at[q].registry \in DOMAIN Registries(e)
    BY <2>4, <2>6 DEF IInv, PosInv, Push
  <2>8. \A g \in DOMAIN e.mirrors : e.mirrors[g] # e.base
    BY <2>6, <2>7, MirrorsAssumption DEF InEntry, InFile, Here
  <2>9. at[q].registry = Len(e.mirrors) + 1
    <3>1. Registries(e)[at[q].registry] = e.base
      BY <2>4, <2>6 DEF Repo
    <3>2. \A g \in DOMAIN e.mirrors : Registries(e)[g] = e.mirrors[g]
      BY <2>1, <2>2 DEF Registries, Entry
    <3>3. DOMAIN Registries(e) = 1..Len(e.mirrors) + 1 /\ DOMAIN e.mirrors = 1..Len(e.mirrors)
          /\ Len(e.mirrors) \in Nat
      BY <2>1, <2>2, EntryRegistries
    <3> QED
      BY <2>7, <2>8, <3>1, <3>2, <3>3
  <2>10. PICK g \in DOMAIN Registries(e) : p = Registries(e)[g]
    BY DEF Places
  <2>11. DOMAIN Registries(e) = 1..Len(e.mirrors) + 1 /\ Len(e.mirrors) \in Nat
         /\ Registries(e)[Len(e.mirrors) + 1] = e.base
    BY <2>1, <2>2, EntryRegistries
  <2>12. CASE g = Len(e.mirrors) + 1
    BY <2>10, <2>11, <2>12
  <2>13. CASE g < at[q].registry
    <3>1. q \notin DryRun
      BY <2>4 DEF IInv, PosInv, Push
    <3>2. tagged[p][e.tag] = digest[q]
      BY <2>3, <2>4, <2>6, <2>10, <2>13, <3>1 DEF IInv, BehindInv
    <3>3. p \in Repos /\ e.tag \in TagNames
      BY <2>1, EntryRegistries DEF Entry
    <3>4. tagged'[p][e.tag] \in {tagged[p][e.tag], digest[q]}
      BY <2>4, <3>3, StepRegistries DEF IInv, Step
    <3> QED
      BY <2>4, <3>2, <3>4
  <2> QED
    BY <2>9, <2>10, <2>11, <2>12, <2>13
<1> QED
  BY <1>1, Inductive, PTL DEF Spec, BaseComesLast

-------------------------------------------------------------------------------
(***************************************************************************)
(* Refinement.                                                             *)
(***************************************************************************)

\* A push grants a part of a wish.
LEMMA PushIsMove ==
  ASSUME IInv, NEW r \in Runs, Push(r)
  PROVE  Desired!Move(r)
<1>1. Holds(r) /\ InEntry(r) /\ r \notin DryRun /\ exitCode[r] = "none"
      /\ at[r].registry \in DOMAIN Registries(Here(r))
  BY DEF IInv, PosInv, Types, Push, Holds
<1>2. Here(r) \in Entry /\ Here(r) \in Entries(r) /\ Repo(r) \in Places(Here(r))
  BY <1>1, HereIsEntry, EntryRegistries DEF Repo
<1> DEFINE w == [places |-> Places(Here(r)), tag |-> Here(r).tag, digests |-> Here(r).prefix]
<1>3. w \in Wishes[r]
  BY <1>2 DEF Wishes
<1>4. tagged' = [tagged EXCEPT ![Repo(r)][w.tag] = digest[r]] /\ lost' = lost
  BY DEF Push, Upload
<1>5. digest[r] \in w.digests /\ Repo(r) \in w.places
  BY <1>1, <1>2 DEF IInv, DigestInv
<1>6. Status[r] = "running" /\ UNCHANGED Status
  BY <1>1 DEF Status, Push
<1> QED
  BY <1>1, <1>3, <1>4, <1>5, <1>6 DEF Desired!Move

\* The run that ends well succeeds.
LEMMA FinishIsSucceed ==
  ASSUME IInv, NEW r \in Runs, Finish(r)
  PROVE  Desired!Succeed(r)
<1>1. exitCode[r] = "none" /\ exitCode \in [Runs -> {"none", "ok", "error"}]
  BY DEF IInv, PosInv, Types, Finish
<1>2. exitCode' = [exitCode EXCEPT ![r] = "ok"] /\ UNCHANGED <<tagged, lost, at, registryVars>>
  BY DEF Finish, End, registryVars
<1>3. Status[r] = "running" /\ Status' = [Status EXCEPT ![r] = "succeeded"]
  BY <1>1, <1>2 DEF Status
<1>4. ASSUME r \in Runs \ DryRun, Consistent, ~lost, NEW w \in Wishes[r]
      PROVE  Desired!Granted(w)
  <2>1. PICK e \in Entries(r) : w = [places |-> Places(e), tag |-> e.tag, digests |-> e.prefix]
    BY <1>4 DEF Wishes
  <2>2. IInv'
    BY NextInv DEF Next, Step
  <2>3. Reconciled(r)'
    BY <1>1, <1>2, <1>4 DEF Reconciled
  <2>4. SuccessReconciles'
    BY <2>2, SettledIsInPlace, PTL
  <2>5. InPlace(e)
    BY <1>2, <1>4, <2>3, <2>4 DEF SuccessReconciles, InPlace, Consistent, AllEntries, Entries, Places, Registries
  <2> QED
    BY <2>1, <2>5 DEF InPlace, Desired!Granted
<1> QED
  BY <1>2, <1>3, <1>4 DEF Desired!Succeed

\* Every other step leaves the abstract state alone or is one of its steps.
LEMMA StepRefines ==
  ASSUME IInv, [Next]_vars
  PROVE  [Desired!Next]_(Desired!vars)
<1> DEFINE Stays == UNCHANGED <<tagged, lost, exitCode>>
<1>1. ASSUME Stays PROVE UNCHANGED Desired!vars
  BY <1>1 DEF Desired!vars, Status
<1>2. CASE UNCHANGED vars
  BY <1>1, <1>2 DEF vars, registryVars
<1>3. CASE Environment
  <2>1. PICK p \in Repos, d \in Digests : NewImage(p, d) \/ Delete(p, d)
    BY <1>3 DEF Environment, Others
  <2>2. UNCHANGED exitCode
    BY <1>3 DEF Environment
  <2>3. CASE NewImage(p, d)
    BY <1>1, <2>2, <2>3 DEF NewImage
  <2>4. CASE Delete(p, d)
    <3>1. tagged \in [Repos -> [TagNames -> Digests \cup {NoDigest}]]
      BY DEF IInv, Types, RegistryTypeOK
    <3> DEFINE left == [t \in TagNames |-> IF tagged[p][t] = d THEN NoDigest ELSE tagged[p][t]]
    <3>2. tagged' = [tagged EXCEPT ![p] = left] /\ lost' = TRUE
      BY <2>4 DEF Delete
    <3>3. \A t \in TagNames : left[t] \in {tagged[p][t], NoDigest}
      OBVIOUS
    <3> HIDE DEF left
    <3>4. DOMAIN tagged = Repos /\ \A q \in Repos : DOMAIN tagged[q] = TagNames
      BY <3>1
    <3>5. \A q \in DOMAIN tagged : \A t \in DOMAIN tagged[q] :
            tagged'[q][t] \in {tagged[q][t], NoDigest}
      BY <3>1, <3>2, <3>3, <3>4
    <3>6. UNCHANGED Status
      BY <2>2 DEF Status
    <3> QED
      BY <3>2, <3>5, <3>6 DEF Desired!Lose, Desired!Next
  <2> QED
    BY <2>1, <2>3, <2>4
<1>4. ASSUME NEW r \in Runs, Start(r) \/ Step(r) PROVE [Desired!Next]_(Desired!vars)
  <2>1. CASE Push(r)
    BY <2>1, PushIsMove DEF Desired!Next
  <2>2. CASE Finish(r)
    BY <2>2, FinishIsSucceed DEF Desired!Next
  <2>3. CASE BadPrefix(r) \/ Fail(r)
    <3>1. exitCode[r] = "none" /\ exitCode \in [Runs -> {"none", "ok", "error"}]
      BY <2>3 DEF IInv, PosInv, Types, BadPrefix, Fail
    <3>2. exitCode' = [exitCode EXCEPT ![r] = "error"] /\ UNCHANGED <<tagged, lost>>
      BY <2>3 DEF BadPrefix, Fail, End, registryVars
    <3>3. Status[r] = "running" /\ Status' = [Status EXCEPT ![r] = "failed"]
      BY <3>1, <3>2 DEF Status
    <3> QED
      BY <3>2, <3>3 DEF Desired!Fail, Desired!Next
  <2>4. CASE ~(Push(r) \/ Finish(r) \/ BadPrefix(r) \/ Fail(r))
    BY <1>1, <1>4, <2>4 DEF Start, Step, NextFile, Resolve, CheckDefault, BailOut, Inspect,
      AlreadyTagged, NotTagged, SkipTag, FindSource, LogTags, registryVars
  <2> QED
    BY <2>1, <2>2, <2>3, <2>4
<1> QED
  BY <1>2, <1>3, <1>4 DEF Next

\* Runs move only the tags they are asked to, to images those may name, and end
\* well only with all of them in place.
THEOREM Implements == Spec => ImplementsDesiredTags
<1>1. Init => Desired!Init
  BY DEF Init, RegistryInit, Desired!Init, Status
<1> QED
  BY <1>1, StepRefines, Inductive, PTL DEF Spec, ImplementsDesiredTags, Desired!Spec

-------------------------------------------------------------------------------
(***************************************************************************)
(* The test of the same registries, reconciletags_main --data-integrity.   *)
(***************************************************************************)

\* The entries of project p up to the one the test is at.
Behind(p, i) ==
  /\ p \in DOMAIN Projects /\ i \in DOMAIN Projects[p].images
  /\ p < project \/ (p = project /\ testPc \in {"image", "tags"} /\ i < image)

\* As long as nothing is deleted, the images that were there at the start are
\* listed, and a test that has not failed has left no entry behind whose tag is
\* missing, nor one image of the entry it is at; as long as nobody does anything,
\* only such images are looked at, and a failure has its reason.
TestInv ==
  /\ TestTypeOK
  /\ testPc = "ended" => project = Len(Projects) + 1
  /\ lost => touched
  /\ testPc = "tags" => todo \subseteq TestEntry.prefix
  /\ ~lost =>
       /\ \A p \in Repos : began[p] \subseteq stored[p]
       /\ testPc \in {"image", "tags"} => began[Base] \subseteq real_digests
       /\ ~failed =>
            /\ \A p, i \in Nat : Behind(p, i) => ~Missing(p, i)
            /\ testPc = "tags" =>
                 began[Base] \cap TestEntry.prefix \subseteq todo
                   \/ tagged[Base][TestEntry.tag] # NoDigest
  /\ ~touched =>
       /\ began = stored
       /\ testPc \in {"image", "tags"} => real_digests = began[Base]
       /\ failed => \E p \in DOMAIN Projects : \E i \in DOMAIN Projects[p].images : Missing(p, i)

\* The repository and the entry the test is at.
LEMMA ProjectEntries ==
  ASSUME TestTypeOK
  PROVE  /\ Len(Projects) \in Nat /\ DOMAIN Projects = 1..Len(Projects)
         /\ \A p \in DOMAIN Projects :
              /\ Projects[p].base \in Repos /\ Len(Projects[p].images) \in Nat
              /\ DOMAIN Projects[p].images = 1..Len(Projects[p].images)
              /\ \A i \in DOMAIN Projects[p].images :
                   /\ Projects[p].images[i].prefix \subseteq Digests
                   /\ Projects[p].images[i].tag \in TagNames
         /\ project \in Nat /\ image \in Nat
<1>1. Len(Projects) \in Nat /\ DOMAIN Projects = 1..Len(Projects)
  BY ProjectsAssumption
<1>2. ASSUME NEW p \in DOMAIN Projects
      PROVE  Projects[p].base \in Repos /\ Projects[p].images \in Seq(Image)
  <2>1. Projects[p] \in Project
    BY ProjectsAssumption
  <2> QED
    BY <2>1 DEF Project
<1>3. ASSUME NEW p \in DOMAIN Projects, NEW i \in DOMAIN Projects[p].images
      PROVE  /\ Projects[p].images[i].prefix \subseteq Digests
             /\ Projects[p].images[i].tag \in TagNames
  <2>1. Projects[p].images[i] \in Image
    BY <1>2
  <2> QED
    BY <2>1 DEF Image
<1> QED
  BY <1>1, <1>2, <1>3 DEF TestTypeOK

LEMMA InitTestInv == TestInit => TestInv
<1> SUFFICES ASSUME TestInit PROVE TestInv
  OBVIOUS
<1>1. TestTypeOK
  <2>1. Len(Projects) \in Nat
    BY ProjectsAssumption
  <2>2. 1 \in 1..Len(Projects) + 1
    BY <2>1
  <2>3. RegistryTypeOK
    BY DEF TestInit, RegistryInit, RegistryTypeOK
  <2>4. /\ project = 1 /\ image = 1 /\ testPc = "digests" /\ real_digests = {} /\ todo = {}
        /\ failed = FALSE /\ touched = FALSE
    BY DEF TestInit
  <2>5. project \in 1..Len(Projects) + 1
    BY <2>2, <2>4
  <2>6. image \in Nat \ {0} /\ real_digests \subseteq Digests /\ todo \subseteq real_digests
    BY <2>4
  <2>7. failed \in BOOLEAN /\ touched \in BOOLEAN /\ began \in [Repos -> SUBSET Digests]
    BY <2>3, <2>4 DEF TestInit, RegistryTypeOK
  <2>8. testPc \in {"digests", "image", "tags", "ended", "error"} /\ testPc \notin {"image", "tags"}
    BY <2>4
  <2> QED
    BY <2>3, <2>5, <2>6, <2>7, <2>8 DEF TestTypeOK
<1>2. \A p, i \in Nat : ~Behind(p, i)
  BY ProjectsAssumption DEF TestInit, Behind
<1> QED
  BY <1>1, <1>2 DEF TestInit, RegistryInit, TestInv

\* The steps that only move on keep what is known.
LEMMA TestMovesOn ==
  ASSUME TestInv,
         GetDigests \/ NextImage \/ NextProject \/ LeaveImage
  PROVE  TestInv'
<1> USE DEF registryVars
<1>1. TestTypeOK
  BY DEF TestInv
<1>2. /\ Len(Projects) \in Nat /\ DOMAIN Projects = 1..Len(Projects)
      /\ \A p \in DOMAIN Projects : DOMAIN Projects[p].images = 1..Len(Projects[p].images)
      /\ \A p \in DOMAIN Projects : Projects[p].base \in Repos
      /\ \A p \in DOMAIN Projects : Len(Projects[p].images) \in Nat
      /\ project \in 1..Len(Projects) + 1 /\ image \in Nat \ {0}
  BY <1>1, ProjectEntries DEF TestTypeOK
<1>3. /\ stored' = stored /\ tagged' = tagged /\ lost' = lost /\ failed' = failed
      /\ touched' = touched /\ began' = began /\ testPc' \in {"image", "tags", "digests"}
  BY DEF GetDigests, NextImage, NextProject, LeaveImage
<1>4. CASE GetDigests
  <2>1. /\ testPc = "digests" /\ project \in DOMAIN Projects /\ project' = project
        /\ real_digests' = stored[Base] /\ todo' = {} /\ image' = 1 /\ testPc' = "image"
    BY <1>4 DEF GetDigests
  <2>2. stored[Base] \subseteq Digests
    BY <1>1, <1>2, <2>1 DEF TestTypeOK, RegistryTypeOK, Base
  <2>3. TestTypeOK'
    BY <1>1, <1>3, <2>1, <2>2 DEF TestTypeOK, RegistryTypeOK
  <2>4. \A p, i \in Nat : Behind(p, i)' => Behind(p, i)
    BY <1>2, <2>1 DEF Behind
  <2>5. Base \in Repos /\ Base' = Base
    BY <1>2, <2>1 DEF Base
  <2> QED
    BY <1>3, <2>1, <2>3, <2>4, <2>5 DEF TestInv, Missing
<1>5. CASE NextImage
  <2>1. /\ testPc = "image" /\ image \in DOMAIN Projects[project].images
        /\ todo' = real_digests \cap TestEntry.prefix /\ testPc' = "tags"
        /\ project' = project /\ image' = image /\ real_digests' = real_digests
    BY <1>5 DEF NextImage
  <2>2. TestTypeOK'
    BY <1>1, <1>3, <2>1 DEF TestTypeOK, RegistryTypeOK
  <2>3. \A p, i \in Nat : Behind(p, i)' => Behind(p, i)
    BY <2>1 DEF Behind
  <2>4. Base' = Base /\ TestEntry' = TestEntry
    BY <2>1 DEF Base, TestEntry
  <2>5. todo' \subseteq TestEntry.prefix
        /\ (~lost => began[Base] \cap TestEntry.prefix \subseteq todo')
    BY <2>1 DEF TestInv
  <2> QED
    BY <1>3, <2>1, <2>2, <2>3, <2>4, <2>5 DEF TestInv, Missing
<1>6. CASE NextProject
  <2>1. /\ testPc = "image" /\ image \notin DOMAIN Projects[project].images
        /\ project' = project + 1 /\ testPc' = "digests" /\ image' = image
        /\ real_digests' = real_digests /\ todo' = todo
    BY <1>6 DEF NextProject
  <2>2. project \in DOMAIN Projects
    BY <1>1, <2>1 DEF TestTypeOK
  <2>3. TestTypeOK'
    BY <1>1, <1>2, <1>3, <2>1, <2>2 DEF TestTypeOK, RegistryTypeOK
  <2>4. \A p, i \in Nat : Behind(p, i)' => Behind(p, i)
    <3>1. \A i \in DOMAIN Projects[project].images : i < image
      BY <1>2, <2>1, <2>2
    <3> QED
      BY <1>2, <2>1, <3>1 DEF Behind
  <2> QED
    BY <1>3, <2>1, <2>3, <2>4 DEF TestInv, Missing
<1>7. CASE LeaveImage
  <2>1. /\ testPc = "tags" /\ todo = {} /\ image' = image + 1 /\ testPc' = "image"
        /\ project' = project /\ real_digests' = real_digests /\ todo' = todo
    BY <1>7 DEF LeaveImage
  <2>2. project \in DOMAIN Projects /\ image \in DOMAIN Projects[project].images
    BY <1>1, <2>1 DEF TestTypeOK
  <2>3. TestTypeOK'
    BY <1>1, <1>3, <2>1, <2>2 DEF TestTypeOK, RegistryTypeOK
  <2>4. ~lost /\ ~failed => ~Missing(project, image)
    BY <2>1 DEF TestInv, Missing, Base, TestEntry
  <2>5. \A p, i \in Nat : Behind(p, i)' => Behind(p, i) \/ (p = project /\ i = image)
    BY <1>2, <2>1 DEF Behind
  <2>6. Base' = Base
    BY <2>1 DEF Base
  <2> QED
    BY <1>3, <2>1, <2>3, <2>4, <2>5, <2>6 DEF TestInv, Missing
<1> QED
  BY <1>4, <1>5, <1>6, <1>7

LEMMA TestStep ==
  TestInv /\ [TestNext]_testState => TestInv'
<1> SUFFICES ASSUME TestInv, [TestNext]_testState
             PROVE  TestInv'
  OBVIOUS
<1> USE DEF registryVars
<1>1. TestTypeOK
  BY DEF TestInv
<1>2. CASE GetTags
  <2>1. PICK d \in todo : failed' = (failed \/ tagged[Base][TestEntry.tag] = NoDigest)
                          /\ todo' = todo \ {d}
    BY <1>2 DEF GetTags
  <2>2. /\ testPc = "tags" /\ testPc' = testPc /\ project' = project /\ image' = image
        /\ real_digests' = real_digests /\ touched' = touched /\ began' = began
        /\ stored' = stored /\ tagged' = tagged /\ lost' = lost
    BY <1>2 DEF GetTags
  <2>3. failed \in BOOLEAN /\ todo \subseteq real_digests
    BY <1>1 DEF TestTypeOK
  <2>4. failed' \in BOOLEAN
    BY <2>1, <2>3, Zenon
  <2>5. TestTypeOK'
    BY <1>1, <2>1, <2>2, <2>4 DEF TestTypeOK, RegistryTypeOK
  <2>6. Base' = Base /\ TestEntry' = TestEntry
    BY <2>2 DEF Base, TestEntry
  <2>7. ~failed' => ~failed /\ tagged[Base][TestEntry.tag] # NoDigest
    BY <2>1, <2>3, Zenon
  <2>8. failed' => failed \/ tagged[Base][TestEntry.tag] = NoDigest
    BY <2>1, <2>3, Zenon
  <2>9. \A p, i : Behind(p, i)' = Behind(p, i) /\ Missing(p, i)' = Missing(p, i)
    BY <2>2 DEF Behind, Missing
  <2>10. project \in DOMAIN Projects /\ image \in DOMAIN Projects[project].images
    BY <1>1, <2>2 DEF TestTypeOK
  <2>11. ~touched /\ tagged[Base][TestEntry.tag] = NoDigest => Missing(project, image)
    <3>1. ~touched => d \in began[Base] /\ d \in TestEntry.prefix
      BY <2>2, <2>3 DEF TestInv
    <3> QED
      BY <3>1 DEF Missing, Base, TestEntry
  <2>12. ~touched' /\ failed' =>
           \E p \in DOMAIN Projects : \E i \in DOMAIN Projects[p].images : Missing(p, i)'
    BY <2>2, <2>8, <2>9, <2>10, <2>11 DEF TestInv
  <2>13. todo' \subseteq TestEntry.prefix
    BY <2>1, <2>2 DEF TestInv
  <2> QED
    BY <2>2, <2>5, <2>6, <2>7, <2>9, <2>12, <2>13 DEF TestInv
<1>3. CASE TestEnds
  <2>1. /\ testPc = "digests" /\ project \notin DOMAIN Projects /\ testPc' = "ended"
        /\ project' = project /\ image' = image /\ real_digests' = real_digests
        /\ todo' = todo /\ failed' = failed /\ touched' = touched /\ began' = began
        /\ stored' = stored /\ tagged' = tagged /\ lost' = lost
    BY <1>3 DEF TestEnds
  <2>2. TestTypeOK'
    BY <1>1, <2>1 DEF TestTypeOK, RegistryTypeOK
  <2>3. project = Len(Projects) + 1
    BY <1>1, <2>1, ProjectEntries DEF TestTypeOK
  <2>4. \A p, i : (Behind(p, i)' => Behind(p, i)) /\ Missing(p, i)' = Missing(p, i)
    BY <2>1 DEF Behind, Missing
  <2> QED
    BY <2>1, <2>2, <2>3, <2>4 DEF TestInv
<1>4. CASE TestFails
  <2>1. /\ testPc' = "error" /\ failed' = failed /\ began' = began
        /\ project' = project /\ image' = image /\ real_digests' = real_digests
        /\ todo' = todo /\ stored' = stored /\ tagged' = tagged /\ lost' = lost
        /\ touched' = touched
    BY <1>4 DEF TestFails
  <2>2. TestTypeOK'
    BY <1>1, <2>1 DEF TestTypeOK, RegistryTypeOK
  <2>3. \A p, i : (Behind(p, i)' => Behind(p, i)) /\ Missing(p, i)' = Missing(p, i)
    BY <2>1 DEF Behind, Missing
  <2> QED
    BY <2>1, <2>2, <2>3 DEF TestInv
<1>5. CASE Meddling
  <2>1. /\ touched' = TRUE /\ testPc' = testPc /\ project' = project /\ image' = image
        /\ real_digests' = real_digests /\ todo' = todo /\ failed' = failed /\ began' = began
    BY <1>5 DEF Meddling, testVars
  <2>2. RegistryTypeOK'
    <3>1. RegistryTypeOK
      BY <1>1 DEF TestTypeOK
    <3>2. PICK p \in Repos, d \in Digests :
            NewImage(p, d) \/ Delete(p, d) \/ \E t \in TagNames : Upload(p, t, d)
      BY <1>5 DEF Meddling, Others
    <3>3. CASE NewImage(p, d)
      BY <3>1, <3>3 DEF NewImage, RegistryTypeOK
    <3>4. CASE Delete(p, d)
      <4> DEFINE left == [t \in TagNames |-> IF tagged[p][t] = d THEN NoDigest ELSE tagged[p][t]]
      <4>1. left \in [TagNames -> Digests \cup {NoDigest}]
        BY <3>1 DEF RegistryTypeOK
      <4>2. /\ stored' = [stored EXCEPT ![p] = stored[p] \ {d}]
            /\ tagged' = [tagged EXCEPT ![p] = left] /\ lost' = TRUE
        BY <3>4 DEF Delete
      <4> HIDE DEF left
      <4> QED
        BY <3>1, <4>1, <4>2 DEF RegistryTypeOK
    <3>5. ASSUME NEW t \in TagNames, Upload(p, t, d)
          PROVE  RegistryTypeOK'
      BY <3>1, <3>5 DEF Upload, RegistryTypeOK
    <3> QED
      BY <3>2, <3>3, <3>4, <3>5
  <2>3. TestTypeOK'
    BY <1>1, <2>1, <2>2 DEF TestTypeOK
  <2>4. ~lost' => /\ ~lost
                  /\ \A p \in Repos : stored[p] \subseteq stored'[p]
                  /\ \A p \in Repos, t \in TagNames :
                       tagged[p][t] # NoDigest => tagged'[p][t] # NoDigest
    <3>1. RegistryTypeOK
      BY <1>1 DEF TestTypeOK
    <3>2. PICK p \in Repos, d \in Digests :
            NewImage(p, d) \/ Delete(p, d) \/ \E t \in TagNames : Upload(p, t, d)
      BY <1>5 DEF Meddling, Others
    <3>3. CASE NewImage(p, d)
      BY <3>1, <3>3 DEF NewImage, RegistryTypeOK
    <3>4. CASE Delete(p, d)
      BY <3>4 DEF Delete
    <3>5. ASSUME NEW t \in TagNames, Upload(p, t, d)
          PROVE  /\ lost' = lost
                 /\ \A q \in Repos : stored[q] \subseteq stored'[q]
                 /\ \A q \in Repos, u \in TagNames :
                      tagged[q][u] # NoDigest => tagged'[q][u] # NoDigest
      BY <3>1, <3>5, NoDigestAssumption DEF Upload, RegistryTypeOK
    <3> QED
      BY <3>2, <3>3, <3>4, <3>5
  <2>5. Base' = Base /\ TestEntry' = TestEntry
        /\ \A p, i : Behind(p, i)' => Behind(p, i)
    BY <2>1 DEF Base, TestEntry, Behind
  <2>6. ASSUME ~lost', NEW p \in Nat, NEW i \in Nat, Behind(p, i), ~Missing(p, i)
        PROVE  ~Missing(p, i)'
    <3>1. Projects[p].base \in Repos /\ Projects[p].images[i].tag \in TagNames
      BY <1>1, <2>6, ProjectEntries DEF Behind
    <3> QED
      BY <2>1, <2>4, <2>6, <3>1 DEF Missing
  <2>7. ASSUME ~lost', testPc = "tags"
        PROVE  tagged[Base][TestEntry.tag] # NoDigest => tagged'[Base][TestEntry.tag] # NoDigest
    <3>1. Base \in Repos /\ TestEntry.tag \in TagNames
      BY <1>1, <2>7, ProjectEntries DEF TestTypeOK, Base, TestEntry
    <3> QED
      BY <2>4, <2>7, <3>1
  <2>8. ~lost' /\ ~failed' => \A p, i \in Nat : Behind(p, i)' => ~Missing(p, i)'
    BY <2>1, <2>4, <2>5, <2>6 DEF TestInv
  <2>9. ~lost' => \A p \in Repos : began'[p] \subseteq stored'[p]
    BY <2>1, <2>4 DEF TestInv
  <2> QED
    BY <2>1, <2>3, <2>4, <2>5, <2>7, <2>8, <2>9 DEF TestInv
<1>6. CASE UNCHANGED testState
  <2>1. /\ testPc' = testPc /\ project' = project /\ image' = image
        /\ real_digests' = real_digests /\ todo' = todo /\ failed' = failed
        /\ touched' = touched /\ stored' = stored /\ tagged' = tagged /\ lost' = lost
        /\ began' = began
    BY <1>6 DEF testState, testVars
  <2>2. \A p, i : Behind(p, i)' = Behind(p, i) /\ Missing(p, i)' = Missing(p, i)
    BY <2>1 DEF Behind, Missing
  <2>3. TestTypeOK'
    BY <1>1, <2>1 DEF TestTypeOK, RegistryTypeOK
  <2>4. Base' = Base /\ TestEntry' = TestEntry
    BY <2>1 DEF Base, TestEntry
  <2> QED
    BY <2>1, <2>2, <2>3, <2>4 DEF TestInv
<1> QED
  BY <1>2, <1>3, <1>4, <1>5, <1>6, TestMovesOn DEF TestNext

\* What holds of the test of any projects, in every state.
THEOREM TestInductive == TestSpec => []TestInv
<1>1. TestInit => TestInv
  BY InitTestInv
<1>2. TestInv /\ [TestNext]_testState => TestInv'
  BY TestStep
<1> QED
  BY <1>1, <1>2, PTL DEF TestSpec

\* The test looks only at digests it has been told of, entry by entry.
THEOREM TestTypeCorrect == TestSpec => []TestTypeOK
<1>1. TestInv => TestTypeOK
  BY DEF TestInv
<1> QED
  BY <1>1, TestInductive, PTL

\* A test that passes while nothing is deleted has found the tag of every entry
\* with an image, and one that fails while nobody does anything fails for a tag
\* that is not there.
THEOREM VerdictIsTruthful == TestSpec => []VerdictMeans
<1>1. TestInv => VerdictMeans
  <2> SUFFICES ASSUME TestInv, testPc = "ended"
               PROVE  /\ ~failed /\ ~lost => \A p \in DOMAIN Projects :
                           \A i \in DOMAIN Projects[p].images : ~Missing(p, i)
                      /\ failed /\ ~touched => \E p \in DOMAIN Projects :
                           \E i \in DOMAIN Projects[p].images : Missing(p, i)
    BY DEF VerdictMeans
  <2>1. ASSUME NEW p \in DOMAIN Projects, NEW i \in DOMAIN Projects[p].images
        PROVE  Behind(p, i) /\ p \in Nat /\ i \in Nat
    <3>1. /\ Len(Projects) \in Nat /\ DOMAIN Projects = 1..Len(Projects)
          /\ DOMAIN Projects[p].images = 1..Len(Projects[p].images)
          /\ Len(Projects[p].images) \in Nat
      BY ProjectEntries DEF TestInv
    <3>2. project = Len(Projects) + 1 /\ p < project /\ p \in Nat /\ i \in Nat
      BY <3>1 DEF TestInv
    <3> QED
      BY <3>2 DEF Behind
  <2> QED
    BY <2>1 DEF TestInv
<1> QED
  BY <1>1, TestInductive, PTL

===============================================================================
