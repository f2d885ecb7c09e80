----------------------------- MODULE MCCacheRunner -----------------------------
(***************************************************************************)
(* An instance of CacheRunner for TLC: three runs, two of them at least    *)
(* with lists that differ, and a mapping that knows an old key.            *)
(***************************************************************************)
EXTENDS CacheRunner, TLC

CONSTANTS click, flask, r1, r2, r3, py2, py3

\* r1 has one word for each package, r2 a word that is no package==version and
\* a list without click, r3 the other interpreter.
MCArgs ==
  r1 :> <<{click}, {flask}>> @@
  r2 :> <<{click, flask}, {flask}>> @@
  r3 :> <<{click}>>
MCEnv        == r1 :> py3 @@ r2 :> py3 @@ r3 :> py2
MCOldMapping == [k \in Keys |-> IF k = [package |-> click, env |-> py2] THEN click ELSE None]
MCFaults     == r1 :> 1 @@ r2 :> 1 @@ r3 :> 0

===============================================================================
