------------------------------ MODULE DesiredTags ------------------------------
(***************************************************************************)
(* What the tag reconciler promises: it moves only the tags it is asked    *)
(* to, only to images they may name, and reports success only when all of  *)
(* them are where they were asked to be.                                   *)
(***************************************************************************)
CONSTANTS
  Runs,       \* runs of reconciletags_main
  Wishes,     \* Wishes[r]: what run r is asked for, records [places, tag, digests]
  Pushing,    \* the runs that are not dry runs
  Compatible, \* no two wishes ask for different things
  NoDigest

VARIABLES
  tagged,  \* tagged[p][t]: the image tag t of repository p names
  lost,    \* some image has been deleted
  status   \* "running", "succeeded" or "failed"

vars == <<tagged, lost, status>>

\* A wish is granted when one image it allows carries the tag everywhere.
Granted(w) ==
  \E d \in w.digests : \A p \in w.places : tagged[p][w.tag] = d

Init ==
  /\ lost = FALSE
  /\ status = [r \in Runs |-> "running"]

Move(r) ==
  /\ status[r] = "running" /\ r \in Pushing
  /\ \E w \in Wishes[r] : \E p \in w.places, d \in w.digests :
       tagged' = [tagged EXCEPT ![p][w.tag] = d]
  /\ UNCHANGED <<lost, status>>

Succeed(r) ==
  /\ status[r] = "running"
  /\ r \in Pushing /\ Compatible /\ ~lost => \A w \in Wishes[r] : Granted(w)
  /\ status' = [status EXCEPT ![r] = "succeeded"]
  /\ UNCHANGED <<tagged, lost>>

Fail(r) ==
  /\ status[r] = "running"
  /\ status' = [status EXCEPT ![r] = "failed"]
  /\ UNCHANGED <<tagged, lost>>

\* Somebody deletes an image, which takes its tags away.
Lose ==
  /\ \A p \in DOMAIN tagged : \A t \in DOMAIN tagged[p] :
       tagged'[p][t] \in {tagged[p][t], NoDigest}
  /\ lost' = TRUE
  /\ UNCHANGED status

Next == Lose \/ \E r \in Runs : Move(r) \/ Succeed(r) \/ Fail(r)

Spec == Init /\ [][Next]_vars

===============================================================================
