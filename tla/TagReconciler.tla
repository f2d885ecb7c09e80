----------------------------- MODULE TagReconciler -----------------------------
(***************************************************************************)
(* appengine/reconciletags: runs of reconciletags_main, each of which      *)
(* reads its files, finds the image of every entry in the base registry    *)
(* and gives it its tag in every registry, the base registry last.  Runs   *)
(* know nothing of each other, and every request of a run may come after   *)
(* what somebody else did in the meantime.                                 *)
(***************************************************************************)
EXTENDS TagRegistry, Sequences

CONSTANTS
  Runs,     \* runs of reconciletags_main without --data-integrity
  Files,    \* Files[r]: the entries of the files r is given, file by file
  DryRun,   \* the runs with --dry-run
  Together  \* bound: the sets of runs that may share a behaviour

\* One image of one project: the loops over projects and images are one loop.
Entry == [base : Repos, mirrors : Seq(Repos), prefix : SUBSET Digests, tag : TagNames]

ASSUME FilesAssumption == Files \in [Runs -> Seq(Seq(Entry))] /\ DryRun \subseteq Runs

\* additional_registries does not repeat base_registry.
ASSUME MirrorsAssumption ==
  \A r \in Runs : \A f \in DOMAIN Files[r] : \A i \in DOMAIN Files[r][f] :
    \A g \in DOMAIN Files[r][f][i].mirrors : Files[r][f][i].mirrors[g] # Files[r][f][i].base

States == {"new", "resolve", "default", "inspect", "list", "source", "push",
           "log", "ended"}

VARIABLES
  pc,       \* control point of a run
  at,       \* the file, entry and registry a run is at
  digest,   \* the full digest get_digest_from_prefix returned
  exitCode  \* "none", "ok" or "error"

vars == <<registryVars, pc, at, digest, exitCode>>

\* Mutant of Registries: registries.insert(0, default_registry).
BaseFirst(e) == <<e.base>> \o e.mirrors

\* registries.append(default_registry)
Registries(e) == Append(e.mirrors, e.base)

InFile(r)  == at[r].file \in DOMAIN Files[r]
InEntry(r) == InFile(r) /\ at[r].entry \in DOMAIN Files[r][at[r].file]
Here(r)    == Files[r][at[r].file][at[r].entry]
Repo(r)    == Registries(Here(r))[at[r].registry]

-------------------------------------------------------------------------------
GoTo(r, s) == pc' = [pc EXCEPT ![r] = s]
Move(r, p) == at' = [at EXCEPT ![r] = p]

NextFilePos(r)  == [file |-> at[r].file + 1, entry |-> 1, registry |-> 1]
NextEntryPos(r) == [file |-> at[r].file, entry |-> at[r].entry + 1, registry |-> 1]

\* Mutant of NextRegistry: one registry too many.
NextRegistryTooFar(r) ==
  /\ Move(r, [at[r] EXCEPT !.registry = @ + 1])
  /\ GoTo(r, IF at[r].registry <= Len(Registries(Here(r))) THEN "inspect" ELSE "log")

\* The end of one turn of the loop over the registries.
NextRegistry(r) ==
  /\ Move(r, [at[r] EXCEPT !.registry = @ + 1])
  /\ GoTo(r, IF at[r].registry < Len(Registries(Here(r))) THEN "inspect" ELSE "log")

End(r, code) ==
  /\ GoTo(r, "ended")
  /\ exitCode' = [exitCode EXCEPT ![r] = code]

-------------------------------------------------------------------------------
\* main: a dry run first runs the test of the files, and ignores its result.
Start(r) ==
  /\ pc[r] = "new"
  /\ \E group \in Together : {r} \cup {x \in Runs : pc[x] # "new"} \subseteq group
  /\ GoTo(r, "resolve")
  /\ UNCHANGED <<registryVars, at, digest, exitCode>>

NextFile(r) ==
  /\ pc[r] = "resolve" /\ InFile(r) /\ ~InEntry(r)
  /\ Move(r, NextFilePos(r))
  /\ UNCHANGED <<registryVars, pc, digest, exitCode>>

Finish(r) ==
  /\ pc[r] = "resolve" /\ ~InFile(r)
  /\ End(r, "ok")
  /\ UNCHANGED <<registryVars, at, digest>>

\* Mutant of Resolve: the first match will do.
ResolveAny(r) ==
  /\ pc[r] = "resolve" /\ InEntry(r)
  /\ \E d \in Matches(Here(r).base, Here(r).prefix) : digest' = [digest EXCEPT ![r] = d]
  /\ GoTo(r, "default")
  /\ UNCHANGED <<registryVars, at, exitCode>>

\* get_digest_from_prefix: exactly one image must match.
Resolve(r) ==
  /\ pc[r] = "resolve" /\ InEntry(r)
  /\ \E d \in Digests :
       /\ Matches(Here(r).base, Here(r).prefix) = {d}
       /\ digest' = [digest EXCEPT ![r] = d]
  /\ GoTo(r, "default")
  /\ UNCHANGED <<registryVars, at, exitCode>>

BadPrefix(r) ==
  /\ pc[r] = "resolve" /\ InEntry(r)
  /\ \A d \in Digests : Matches(Here(r).base, Here(r).prefix) # {d}
  /\ End(r, "error")
  /\ UNCHANGED <<registryVars, at, digest>>

CheckDefault(r) ==
  /\ pc[r] = "default"
  /\ Exists(Here(r).base, digest[r])
  /\ GoTo(r, "inspect")
  /\ UNCHANGED <<registryVars, at, digest, exitCode>>

\* The image went away since Resolve: return from reconcile_tags, which leaves
\* the rest of the file and goes on to the next one.
BailOut(r) ==
  /\ pc[r] = "default"
  /\ ~Exists(Here(r).base, digest[r])
  /\ Move(r, NextFilePos(r))
  /\ GoTo(r, "resolve")
  /\ UNCHANGED <<registryVars, digest, exitCode>>

Inspect(r) ==
  /\ pc[r] = "inspect"
  /\ GoTo(r, IF Exists(Repo(r), digest[r]) THEN "list" ELSE "source")
  /\ UNCHANGED <<registryVars, at, digest, exitCode>>

\* "Don't retag an image if the tag already exists"
AlreadyTagged(r) ==
  /\ pc[r] = "list"
  /\ TaggedDigest(Repo(r), Here(r).tag, digest[r])
  /\ NextRegistry(r)
  /\ UNCHANGED <<registryVars, digest, exitCode>>

NotTagged(r) ==
  /\ pc[r] = "list"
  /\ ~TaggedDigest(Repo(r), Here(r).tag, digest[r])
  /\ GoTo(r, "source")
  /\ UNCHANGED <<registryVars, at, digest, exitCode>>

\* add_tags of a dry run, or of an image that is no longer there.
SkipTag(r) ==
  /\ pc[r] = "source"
  /\ r \in DryRun \/ ~Exists(Here(r).base, digest[r])
  /\ NextRegistry(r)
  /\ UNCHANGED <<registryVars, digest, exitCode>>

\* Mutant of FindSource: add_tags without its test of dry_run.
FindSourceDry(r) ==
  /\ pc[r] = "source"
  /\ Exists(Here(r).base, digest[r])
  /\ GoTo(r, "push")
  /\ UNCHANGED <<registryVars, at, digest, exitCode>>

FindSource(r) ==
  /\ pc[r] = "source" /\ r \notin DryRun
  /\ Exists(Here(r).base, digest[r])
  /\ GoTo(r, "push")
  /\ UNCHANGED <<registryVars, at, digest, exitCode>>

Push(r) ==
  /\ pc[r] = "push"
  /\ Upload(Repo(r), Here(r).tag, digest[r])
  /\ NextRegistry(r)
  /\ UNCHANGED <<digest, exitCode>>

\* get_existing_tags, for the log; then the next image.
LogTags(r) ==
  /\ pc[r] = "log"
  /\ Move(r, NextEntryPos(r))
  /\ GoTo(r, "resolve")
  /\ UNCHANGED <<registryVars, digest, exitCode>>

\* No request is guarded against an error: the exception ends the process,
\* at any point.  So does a kill.
Fail(r) ==
  /\ pc[r] \notin {"new", "ended"}
  /\ End(r, "error")
  /\ UNCHANGED <<registryVars, at, digest>>

-------------------------------------------------------------------------------
Init ==
  /\ RegistryInit
  /\ pc = [r \in Runs |-> "new"]
  /\ at = [r \in Runs |-> [file |-> 1, entry |-> 1, registry |-> 1]]
  /\ digest = [r \in Runs |-> NoDigest]
  /\ exitCode = [r \in Runs |-> "none"]

Step(r) ==
  \/ NextFile(r) \/ Finish(r) \/ Resolve(r) \/ BadPrefix(r)
  \/ CheckDefault(r) \/ BailOut(r) \/ Inspect(r) \/ AlreadyTagged(r)
  \/ NotTagged(r) \/ SkipTag(r) \/ FindSource(r) \/ Push(r) \/ LogTags(r)
  \/ Fail(r)

Environment == Others /\ UNCHANGED <<pc, at, digest, exitCode>>

Next == Environment \/ \E r \in Runs : Start(r) \/ Step(r)

Spec == Init /\ [][Next]_vars

-------------------------------------------------------------------------------
(***************************************************************************)
(* Properties.                                                             *)
(***************************************************************************)
Entries(r) == UNION {{Files[r][f][i] : i \in DOMAIN Files[r][f]} : f \in DOMAIN Files[r]}
AllEntries == UNION {Entries(r) : r \in Runs \ DryRun}
Places(e)  == {Registries(e)[g] : g \in DOMAIN Registries(e)}

\* No two entries, of one run or of two, ask for one tag in different ways; what
\* a dry run asks for does not matter.
Consistent ==
  \A e1, e2 \in AllEntries :
    (e1.tag = e2.tag /\ Places(e1) \cap Places(e2) # {}) => e1 = e2

\* The entry's tag names one and the same matching image in all registries.
InPlace(e) == \E d \in e.prefix : \A p \in Places(e) : tagged[p][e.tag] = d

\* Runs that ended well and could push.
Reconciled(r) == exitCode[r] = "ok" /\ r \notin DryRun

Positions == [file : Nat \ {0}, entry : Nat \ {0}, registry : Nat \ {0}]

Types ==
  /\ RegistryTypeOK
  /\ pc \in [Runs -> States]
  /\ at \in [Runs -> Positions]
  /\ digest \in [Runs -> Digests \cup {NoDigest}]
  /\ exitCode \in [Runs -> {"none", "ok", "error"}]

\* Every run is at an entry, and at a registry of it, whenever it needs one
\* (the loops of reconcile_tags).
TypeOK ==
  /\ Types
  /\ \A r \in Runs :
       /\ pc[r] \in {"default", "inspect", "list", "source", "push", "log"} => InEntry(r)
       /\ pc[r] \in {"inspect", "list", "source", "push"} =>
            at[r].registry \in DOMAIN Registries(Here(r))

\* When a run of consistent files ends with status 0, every tag of its files
\* names the right image in every registry and still does after whatever other
\* runs, failed ones too, do next, as long as nobody deletes images
\* (reconcile_tags, add_tags).
SuccessReconciles ==
  Consistent /\ ~lost =>
    \A r \in Runs : Reconciled(r) => \A e \in Entries(r) : InPlace(e)

\* "Run reconciler again and make sure nothing changed": what a successful run
\* has put in place, no other run moves (reconciletags_e2e_test, testTagReconciler).
SecondRunChangesNothing ==
  [][Consistent /\ ~lost' =>
       \A r \in Runs : Reconciled(r) =>
         \A e \in Entries(r) : \A p \in Places(e) : tagged'[p][e.tag] = tagged[p][e.tag]]_vars

\* The base registry, from which everybody reads and which the integrity test
\* compares, gets a tag only after all the mirrors have it: a run that stops in
\* the middle leaves the base registry behind, never ahead.
BaseComesLast ==
  [][Consistent /\ ~lost' =>
       \A e \in AllEntries :
         tagged'[e.base][e.tag] # tagged[e.base][e.tag] =>
           \A p \in Places(e) : tagged'[p][e.tag] = tagged'[e.base][e.tag]]_vars

\* Runs do what DesiredTags says.
Status ==
  [r \in Runs |-> CASE exitCode[r] = "none" -> "running"
                    [] exitCode[r] = "ok" -> "succeeded"
                    [] exitCode[r] = "error" -> "failed"]
Wishes ==
  [r \in Runs |-> {[places |-> Places(e), tag |-> e.tag, digests |-> e.prefix] : e \in Entries(r)}]

Desired == INSTANCE DesiredTags WITH
  status <- Status, Wishes <- Wishes, Pushing <- Runs \ DryRun, Compatible <- Consistent

ImplementsDesiredTags == Desired!Spec

===============================================================================
