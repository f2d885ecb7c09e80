---------------------------- MODULE MCTagReconciler ----------------------------
(***************************************************************************)
(* Instances of TagReconciler for TLC: the files each run is given.        *)
(***************************************************************************)
EXTENDS TagReconciler, TLC

CONSTANTS gcr, us, old, new, newer, latest, r1, r2, r3, r4

\* "latest" is the image whose digest starts like that of new and newer; the
\* short prefix stops being unique when both are there.
Latest == [base |-> gcr, mirrors |-> <<us>>, prefix |-> {new, newer}, tag |-> latest]

\* The same file for two runs, another one for a dry run, and two files for a
\* run of its own, the first with a project that is listed twice.
MCFiles ==
  r1 :> << <<Latest>> >> @@
  r2 :> << <<Latest>> >> @@
  r3 :> << <<[Latest EXCEPT !.prefix = {old}]>> >> @@
  r4 :> << <<Latest, Latest>>, <<Latest>> >>
MCTogether == {{r1, r2}, {r1, r3}, {r4}}

\* Somebody deletes the image that latest should name.
NewInBase == {<<gcr, new>>}

===============================================================================
