-------------------------------- MODULE MCQuery --------------------------------
(***************************************************************************)
(* Small programs over graphs: edges between three nodes, paths in several  *)
(* formulations, and queries with and without variables.                   *)
(***************************************************************************)
EXTENDS QueryMeaning, Scoping

X == Variable(<<"X">>)
Y == Variable(<<"Y">>)
Z == Variable(<<"Z">>)
a == Constant(<<"a">>)
b == Constant(<<"b">>)
c == Constant(<<"c">>)
one == Number(<<"1">>)

edge(t, u) == Literal(<<"edge">>, <<t, u>>)
path(t, u) == Literal(<<"path">>, <<t, u>>)
path1(t) == Literal(<<"path">>, <<t>>)

Base == Rule(path(X, Y), <<edge(X, Y)>>)
RightRecursive == Rule(path(X, Y), <<edge(X, Z), path(Z, Y)>>)
LeftRecursive == Rule(path(X, Y), <<path(X, Z), edge(Z, Y)>>)
Symmetric == Rule(path(X, Y), <<path(Y, X)>>)
OtherArity == Rule(path1(X), <<edge(X, X)>>)
EmptyBody == Rule(path(X, Y), << >>)

MCIndividuals == {a, b, c}

(* The variables that a binding set binds or mentions. *)
BoundVars(bound) == DOMAIN bound \cup UNION {ToSet(VarOccurrences(bound[v])) : v \in DOMAIN bound}

(* Ground queries: cycles in the data and in the rules. *)
CyclicFacts == {edge(a, b), edge(b, a), edge(b, c)}
GroundRules == {Base, RightRecursive, Symmetric, EmptyBody}
GroundQueries == {path(a, c), path(b, a)}

(* Open queries: acyclic data. *)
AcyclicFacts == {edge(a, b), edge(b, c), edge(a, c)}
OpenRules == {Base, RightRecursive, OtherArity}
OpenQueries == {path(a, Y), path(X, Y), path(X, X), edge(Y, c), path(X, c)}

(* Evaluations that may not end. *)
DivergingRules == {Base, RightRecursive, LeftRecursive}
DivergingQueries == {path(a, c), path(a, Y)}

(* A fact that holds of everyone, used twice in one derivation. *)
knows(t, u) == Literal(<<"knows">>, <<t, u>>)
UniversalFacts == {knows(X, c), edge(a, b)}
TwiceRules == {Rule(path(X, Y), <<knows(X, c), knows(Y, c)>>)}
TwiceQueries == {path(a, b), path(a, a)}

(* A query whose variables are named like the ones the evaluator generates. *)
GeneratedNameQueries == {path(Variable(<<"Y", 1>>), c)}

==============================================================================
