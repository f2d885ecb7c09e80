------------------------------ MODULE TagIntegrity ------------------------------
(***************************************************************************)
(* reconciletags_main --data-integrity: the test of data_integrity_test,   *)
(* which looks in the base registries for the tags of the entries, with a  *)
(* request per matching image, while others may change the registries.     *)
(***************************************************************************)
EXTENDS TagRegistry, Sequences

CONSTANT Projects  \* the projects of all files, in the order they are read

Image   == [prefix : SUBSET Digests, tag : TagNames]
Project == [base : Repos, images : Seq(Image)]

ASSUME ProjectsAssumption == Projects \in Seq(Project)

VARIABLES
  testPc,        \* "digests", "image", "tags", "ended", or "error" of a request
  project,       \* the project and the image the test is at
  image,
  real_digests,  \* of the project's base repository, when it was asked
  todo,          \* matching digests the test has still to look at
  failed,        \* the test has failed, or will: failed_digests is not empty
  began,         \* history: the images that were there at the start
  touched        \* history: others have changed a registry since the start

testVars  == <<testPc, project, image, real_digests, todo, failed>>
testState == <<registryVars, testVars, began, touched>>

\* The types, and that the test looks only at digests it has been told of.
TestTypeOK ==
  /\ RegistryTypeOK
  /\ testPc \in {"digests", "image", "tags", "ended", "error"}
  /\ project \in 1..Len(Projects) + 1 /\ image \in Nat \ {0}
  /\ real_digests \subseteq Digests /\ todo \subseteq real_digests
  /\ failed \in BOOLEAN /\ touched \in BOOLEAN
  /\ began \in [Repos -> SUBSET Digests]
  /\ testPc \in {"image", "tags"} => project \in DOMAIN Projects
  /\ testPc = "tags" => image \in DOMAIN Projects[project].images

TestInit ==
  /\ RegistryInit
  /\ testPc = "digests" /\ project = 1 /\ image = 1
  /\ real_digests = {} /\ todo = {}
  /\ failed = FALSE /\ touched = FALSE /\ began = stored

Base      == Projects[project].base
TestEntry == Projects[project].images[image]

\* _get_digests
GetDigests ==
  /\ testPc = "digests" /\ project \in DOMAIN Projects
  /\ real_digests' = stored[Base]
  /\ todo' = {}
  /\ image' = 1 /\ testPc' = "image"
  /\ UNCHANGED <<registryVars, project, failed, began, touched>>

\* Mutant of NextImage: the digests are asked for again.
NextImageFresh ==
  /\ testPc = "image" /\ image \in DOMAIN Projects[project].images
  /\ todo' = stored[Base] \cap TestEntry.prefix
  /\ testPc' = "tags"
  /\ UNCHANGED <<registryVars, project, image, real_digests, failed, began, touched>>

NextImage ==
  /\ testPc = "image" /\ image \in DOMAIN Projects[project].images
  /\ todo' = real_digests \cap TestEntry.prefix
  /\ testPc' = "tags"
  /\ UNCHANGED <<registryVars, project, image, real_digests, failed, began, touched>>

NextProject ==
  /\ testPc = "image" /\ image \notin DOMAIN Projects[project].images
  /\ project' = project + 1 /\ testPc' = "digests"
  /\ UNCHANGED <<registryVars, image, real_digests, todo, failed, began, touched>>

\* Mutant of GetTags: an entry that is right makes up for those before.
GetTagsForgives ==
  /\ testPc = "tags"
  /\ \E d \in todo :
       /\ failed' = (tagged[Base][TestEntry.tag] = NoDigest)
       /\ todo' = todo \ {d}
  /\ UNCHANGED <<registryVars, testPc, project, image, real_digests, began, touched>>

\* _get_tags, for each match in the order of a dictionary: it is asked for one
\* digest, and what it answers is the list of tags of the whole repository.
GetTags ==
  /\ testPc = "tags"
  /\ \E d \in todo :
       /\ failed' = (failed \/ tagged[Base][TestEntry.tag] = NoDigest)
       /\ todo' = todo \ {d}
  /\ UNCHANGED <<registryVars, testPc, project, image, real_digests, began, touched>>

LeaveImage ==
  /\ testPc = "tags" /\ todo = {}
  /\ image' = image + 1 /\ testPc' = "image"
  /\ UNCHANGED <<registryVars, project, real_digests, todo, failed, began, touched>>

\* The verdict is what the suite prints; run_test does not look at it, and the
\* exit status is 0 whatever it says.
TestEnds ==
  /\ testPc = "digests" /\ project \notin DOMAIN Projects
  /\ testPc' = "ended"
  /\ UNCHANGED <<registryVars, project, image, real_digests, todo, failed, began, touched>>

\* A request that fails ends the test with an error and no verdict.
TestFails ==
  /\ testPc \in {"digests", "tags"}
  /\ testPc' = "error"
  /\ UNCHANGED <<registryVars, project, image, real_digests, todo, failed, began, touched>>

\* Others push, tag and delete.
Meddling ==
  /\ Others \/ \E p \in Repos, t \in TagNames, d \in Digests : Upload(p, t, d)
  /\ touched' = TRUE
  /\ UNCHANGED <<testVars, began>>

TestNext ==
  \/ GetDigests \/ NextImage \/ NextProject \/ GetTags \/ LeaveImage
  \/ TestEnds \/ TestFails \/ Meddling

TestSpec == TestInit /\ [][TestNext]_testState

-------------------------------------------------------------------------------
(***************************************************************************)
(* Properties.                                                             *)
(***************************************************************************)

\* The repository of entry i of project p has no such tag, although an image
\* the entry may mean was there when the test began.
Missing(p, i) ==
  /\ began[Projects[p].base] \cap Projects[p].images[i].prefix # {}
  /\ tagged[Projects[p].base][Projects[p].images[i].tag] = NoDigest

\* What a verdict of test_data_consistency is worth.  A pass says that every
\* entry with an image had its tag in the repository, on whichever image, also
\* when others were pushing and tagging meanwhile, as long as nothing was
\* deleted; a failure says, as long as nobody did anything, that some entry
\* with an image lacks its tag.
VerdictMeans ==
  testPc = "ended" =>
    /\ ~failed /\ ~lost =>
         \A p \in DOMAIN Projects : \A i \in DOMAIN Projects[p].images : ~Missing(p, i)
    /\ failed /\ ~touched =>
         \E p \in DOMAIN Projects : \E i \in DOMAIN Projects[p].images : Missing(p, i)

===============================================================================
