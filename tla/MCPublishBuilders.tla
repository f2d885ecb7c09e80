--------------------------- MODULE MCPublishBuilders ---------------------------
(***************************************************************************)
(* An instance of PublishBuilders for TLC: one publisher with every        *)
(* manifest of three names, two that overlap with the run that makes their *)
(* builders and with each other.                                           *)
(***************************************************************************)
EXTENDS PublishBuilders, TLC

CONSTANTS a, b, c, f1, f2, java, t1, t2, p1, p2, p3

Entry(target) == [target |-> target, deprecated |-> FALSE]
Gone          == [target |-> EmptyTarget, deprecated |-> TRUE]
File(f)       == Entry([file |-> f])
Alias(n)      == Entry([runtime |-> n])

Manifest(runtimes) == [schema |-> TRUE, runtimes |-> runtimes]

\* Every graph over three names, and what is wrong before there is a graph.
Graphs == {Manifest(e) : e \in [Names -> {None, Gone, File(f1)} \cup {Alias(n) : n \in Names}]}
Wrong  ==
  LET One(e) == Manifest(a :> e @@ b :> File(None) @@ c :> File(f1))
  IN  {One(e) : e \in {Entry(NoTarget), Entry(EmptyTarget), Entry(OtherTarget), File(Prefixed),
                       Alias(None)}}
        \cup {[One(Gone) EXCEPT !.schema = FALSE]}

\* Aliases for the first and for the second builder, and one for nothing.
Straight == Manifest(a :> Alias(b) @@ b :> File(f1) @@ c :> File(f2))
Crossed  == Manifest(a :> Alias(c) @@ b :> None @@ c :> File(f2))
Lost     == Manifest(a :> Alias(c) @@ b :> File(f1) @@ c :> None)

MCCandidates ==
  p1 :> Graphs \cup Wrong @@ p2 :> {Straight} @@ p3 :> {Crossed, Lost}
MCConfigs ==
  p1 :> {} @@
  p2 :> {[project |-> java, latest |-> f1], [project |-> None, latest |-> f2]} @@
  p3 :> {[project |-> java, latest |-> f2]}
MCOutput   == t1 :> <<f1, f2>> @@ t2 :> <<f1>>
MCTogether == {{t2, p1}, {t1, p2, p3}}

===============================================================================
