------------------------------ MODULE TagRegistry ------------------------------
(***************************************************************************)
(* The container registries as the tools of appengine/reconciletags see    *)
(* them: repositories that hold images, named by digest, and tags, each of *)
(* which names one image of its repository.  Image contents are left out,  *)
(* and a prefix of digests is the set of digests that start with it.       *)
(***************************************************************************)
EXTENDS Naturals

CONSTANTS
  Repos,      \* registry + '/' + repository
  Digests,
  TagNames,
  NoDigest,   \* the tag does not exist
  Deletable   \* bound: the images somebody may delete, <<repo, digest>>

ASSUME NoDigestAssumption == NoDigest \notin Digests

VARIABLES
  stored,  \* stored[p]: the images of repository p
  tagged,  \* tagged[p][t]: the image tag t of repository p names
  lost     \* history: some image has been deleted

registryVars == <<stored, tagged, lost>>

RegistryTypeOK ==
  /\ stored \in [Repos -> SUBSET Digests]
  /\ tagged \in [Repos -> [TagNames -> Digests \cup {NoDigest}]]
  /\ lost \in BOOLEAN

\* Whatever was pushed before: a tag names an image that is there.
RegistryInit ==
  /\ stored \in [Repos -> SUBSET Digests]
  /\ tagged \in [Repos -> [TagNames -> Digests \cup {NoDigest}]]
  /\ \A p \in Repos, t \in TagNames : tagged[p][t] \in stored[p] \cup {NoDigest}
  /\ lost = FALSE

\* docker_image.FromRegistry(p@d).exists()
Exists(p, d) == d \in stored[p]

\* The digests of manifests() that start with a prefix.
Matches(p, prefix) == stored[p] \cap prefix

\* Mutant of TaggedDigest: is there a tag of that name, whatever it names?
TaggedAtAll(p, t, d) == tagged[p][t] # NoDigest

\* get_tagged_digest, and what its caller compares it with.
TaggedDigest(p, t, d) == tagged[p][t] = d

\* docker_session.Push(p:t).upload: the image appears with its tag.
Upload(p, t, d) ==
  /\ stored' = [stored EXCEPT ![p] = @ \cup {d}]
  /\ tagged' = [tagged EXCEPT ![p][t] = d]
  /\ UNCHANGED lost

\* Somebody builds an image; no tag of the configuration is moved by it.
NewImage(p, d) ==
  /\ d \notin stored[p]
  /\ stored' = [stored EXCEPT ![p] = @ \cup {d}]
  /\ UNCHANGED <<tagged, lost>>

\* Somebody deletes an image with all its tags.
Delete(p, d) ==
  /\ <<p, d>> \in Deletable /\ d \in stored[p]
  /\ stored' = [stored EXCEPT ![p] = @ \ {d}]
  /\ tagged' = [tagged EXCEPT ![p] =
                  [t \in TagNames |-> IF tagged[p][t] = d THEN NoDigest ELSE tagged[p][t]]]
  /\ lost' = TRUE

Others == \E p \in Repos, d \in Digests : NewImage(p, d) \/ Delete(p, d)

===============================================================================
