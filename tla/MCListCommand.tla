----------------------------- MODULE MCListCommand -----------------------------
(***************************************************************************)
(* Instances of ListCommand for TLC.                                       *)
(***************************************************************************)
EXTENDS ListCommand

\* A header, two objects with a string between them.
Table == <<"header", "first", "rule", "second">>
Words == {"header", "rule"}

===============================================================================
