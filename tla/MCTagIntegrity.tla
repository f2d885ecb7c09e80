----------------------------- MODULE MCTagIntegrity -----------------------------
(***************************************************************************)
(* An instance of TagIntegrity for TLC.                                    *)
(***************************************************************************)
EXTENDS TagIntegrity

CONSTANTS gcr, old, new, newer, latest, stable

Deletions == Repos \X Digests

\* Two images of one project, then one of another project in the same
\* repository.
TwoProjects ==
  << [base |-> gcr, images |-> << [prefix |-> {new, newer}, tag |-> latest],
                                  [prefix |-> {old}, tag |-> stable] >>],
     [base |-> gcr, images |-> << [prefix |-> {new}, tag |-> latest] >>] >>

===============================================================================
