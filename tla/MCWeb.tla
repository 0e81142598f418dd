------------------------------- MODULE MCWeb -------------------------------
(* Small instances of Web: routes and paths of up to MaxSegments segments.  *)
(* Parameters and asterisks stand at the start of a segment, as in all that *)
(* the repository sets.                                                     *)
EXTENDS Web

CONSTANT MaxSegments

Names == <<"x", "y", "z">>

Joined(n, seg(_, _), kinds) ==
  {FlattenSeq([i \in 1..n |-> <<slash>> \o seg(i, f[i])]) : f \in [1..n -> kinds]}

\* Empty, static, a parameter or the rest; two parameters of a route differ in
\* their names.
RouteSeg(i, k) == CASE k = 1 -> <<>>
                    [] k = 2 -> <<"a">>
                    [] k = 3 -> <<colon, Names[i]>>
                    [] k = 4 -> <<asterisk, Names[i]>>

PathSeg(i, s) == s

\* One static segment is the start of another, and one parameter goes by two
\* names.
MCRoutes ==
  UNION {Joined(n, RouteSeg, 1..4) : n \in 1..MaxSegments}
    \cup {<<slash, "a", "b">>, <<slash, colon, "z">>}
MCPaths ==
  UNION {Joined(n, PathSeg, {<<>>, <<"a">>, <<"a", "b">>}) : n \in 1..MaxSegments}

MCServedTrees == {Set(New, <<slash, "a">>)}
MCServedPaths == {<<slash, "a">>, <<slash, "b">>}
=============================================================================
