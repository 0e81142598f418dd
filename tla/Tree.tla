-------------------------------- MODULE Tree --------------------------------
(***************************************************************************)
(* The routing tree (utree/tree.go) and the parameters that a handler reads *)
(* from a route found in it (uweb/context.go).  A route or a path is a      *)
(* sequence of bytes.  A node is named by the bytes that lead to it, and a  *)
(* tree maps its nodes to the route set there.  The method that precedes    *)
(* each route is left out: it is a prefix like any other.                   *)
(***************************************************************************)
EXTENDS Integers, Sequences, SequencesExt, FiniteSetsExt

slash == "/"
colon == ":"
asterisk == "*"

NoRoute == <<"none">>   \* a node without a value
NoNode == <<"nil">>

New == [k \in {<<>>} |-> NoRoute]

\* The first slash of a at i or after it, or the end.
slashReader(a, i) ==
  Min({j \in i..Len(a) : a[j] = slash} \cup {Len(a) + 1})

\* The node that Set reaches: a parameter's name and the slash after it are
\* skipped, and nothing counts after an asterisk.
KeyOf(a) ==
  LET key[i \in 1..(Len(a) + 2)] ==
        IF i > Len(a) THEN <<>>
        ELSE IF a[i] = colon
             THEN <<colon>> \o key[slashReader(a, i) + 1]
             ELSE IF a[i] = asterisk THEN <<asterisk>>
                                     ELSE <<a[i]>> \o key[i + 1]
  IN  key[1]

Set(t, a) ==
  LET k == KeyOf(a)
      new == {SubSeq(k, 1, n) : n \in 0..Len(k)}
  IN  [x \in DOMAIN t \cup new |->
         IF x = k THEN a ELSE IF x \in DOMAIN t THEN t[x] ELSE NoRoute]

\* Fault: the slash after a parameter is not skipped.
getKeepsSlash(t, a) ==
  LET at[i \in 1..(Len(a) + 2), k \in DOMAIN t] ==
        IF i > Len(a) THEN k
        ELSE IF Append(k, asterisk) \in DOMAIN t THEN Append(k, asterisk)
        ELSE IF Append(k, colon) \in DOMAIN t
             THEN at[slashReader(a, i), Append(k, colon)]
        ELSE IF Append(k, a[i]) \notin DOMAIN t THEN NoNode
                                                ELSE at[i + 1, Append(k, a[i])]
  IN  at[1, <<>>]

\* It never turns back: an asterisk goes before a colon, and either before the
\* byte itself.
get(t, a) ==
  LET at[i \in 1..(Len(a) + 2), k \in DOMAIN t] ==
        IF i > Len(a) THEN k
        ELSE IF Append(k, asterisk) \in DOMAIN t THEN Append(k, asterisk)
        ELSE IF Append(k, colon) \in DOMAIN t
             THEN at[slashReader(a, i) + 1, Append(k, colon)]
        ELSE IF Append(k, a[i]) \notin DOMAIN t THEN NoNode
                                                ELSE at[i + 1, Append(k, a[i])]
  IN  at[1, <<>>]

Get(t, a) == LET k == get(t, a) IN IF k = NoNode THEN NoRoute ELSE t[k]

\* The node stays, and goes on taking the paths that lead to it.
Delete(t, a) ==
  LET k == get(t, a) IN IF k = NoNode THEN t ELSE [t EXCEPT ![k] = NoRoute]

\* The routes that Dump lists.
Dump(t) == {t[k] : k \in DOMAIN t \ {<<>>}} \ {NoRoute}

\* strings.Split(a, "/")
Split(a) ==
  LET cuts == SetToSortSeq({0, Len(a) + 1} \cup {i \in 1..Len(a) : a[i] = slash}, <)
  IN  [n \in 1..(Len(cuts) - 1) |-> SubSeq(a, cuts[n] + 1, cuts[n + 1] - 1)]

IsParam(s) == s # <<>> /\ s[1] = colon
IsRest(s) == s # <<>> /\ s[1] = asterisk

\* Every parameter of the route by its name, as Param fills c.parmas.
Param(route, path) ==
  LET R == Split(route)
      P == Split(path)
      I == {i \in 1..Min({Len(R), Len(P)}) :
              /\ IsParam(R[i]) \/ IsRest(R[i])
              /\ \A j \in 1..(i - 1) : ~ IsRest(R[j])}
  IN  [x \in {Tail(R[i]) : i \in I} |->
         LET n == Max({i \in I : Tail(R[i]) = x})
         IN  IF IsParam(R[n]) THEN P[n]
             ELSE FoldLeft(LAMBDA u, s : u \o <<slash>> \o s, P[n],
                           SubSeq(P, n + 1, Len(P)))]

-----------------------------------------------------------------------------
(* What a route stands for, segment by segment.                             *)

\* A slash after a parameter that ends the route adds nothing.
Trim(R) ==
  IF Len(R) > 1 /\ Last(R) = <<>> /\ IsParam(R[Len(R) - 1]) THEN Front(R) ELSE R

\* A parameter stands for one segment, which may be empty if a slash follows;
\* an asterisk for one byte or more.
Matches(route, path) ==
  LET R == Trim(Split(route))
      P == Split(path)
      Same(n) == \A i \in 1..n : IsParam(R[i]) \/ R[i] = P[i]
      stars == {i \in DOMAIN R : IsRest(R[i])}
      n == IF stars = {} THEN Len(R) ELSE Min(stars)
  IN  /\ Len(P) >= n
      /\ IF stars # {}
         THEN Same(n - 1) /\ (Len(P) > n \/ P[n] # <<>>)
         ELSE /\ Same(n)
              /\ IF IsParam(R[n])
                 THEN \/ Len(P) = n /\ P[n] # <<>>
                      \/ Len(P) = n + 1 /\ P[n + 1] = <<>>
                 ELSE Len(P) = n

\* The route without the names of its parameters.
Shape(route) ==
  LET R == Trim(Split(route))
      stars == {i \in DOMAIN R : IsRest(R[i])}
  IN  [i \in 1..(IF stars = {} THEN Len(R) ELSE Min(stars)) |->
         IF IsParam(R[i]) \/ IsRest(R[i]) THEN <<R[i][1]>> ELSE R[i]]

\* No place in the tree has both a parameter, or an asterisk, and something
\* else below it.
Unmixed(t) ==
  \A k \in DOMAIN t :
    (Append(k, colon) \in DOMAIN t \/ Append(k, asterisk) \in DOMAIN t) =>
      \A x, y \in DOMAIN t :
        (Len(x) = Len(k) + 1 /\ Len(y) = Len(x)
           /\ SubSeq(x, 1, Len(k)) = k /\ SubSeq(y, 1, Len(k)) = k) => x = y

\* The path with the parameters put in the place of their names.
Filled(route, args) ==
  LET R == Trim(Split(route))
      seg(s) == IF IsParam(s) \/ IsRest(s) THEN args[Tail(s)] ELSE s
      stars == {i \in DOMAIN R : IsRest(R[i])}
      n == IF stars = {} THEN Len(R) ELSE Min(stars)
  IN  FoldLeft(LAMBDA u, s : u \o <<slash>> \o seg(s), seg(R[1]), SubSeq(R, 2, n))
=============================================================================
