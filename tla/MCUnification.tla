---------------------------- MODULE MCUnification ----------------------------
(***************************************************************************)
(* A small instance of Unification: eleven terms over three variables, with *)
(* an atom, a number, compounds, the empty list and cons cells, and the     *)
(* interpretations that give each variable one of four ground trees.         *)
(***************************************************************************)
EXTENDS UnificationRefinement

X == Variable(<<"X">>)
Y == Variable(<<"Y">>)
Z == Variable(<<"Z">>)
a == Constant(<<"a">>)
one == Number(<<"1">>)
f(t) == Compound(<<"f">>, <<t>>)

MCUniverse == {X, Y, Z, a, one, f(X), f(Y), EmptyList, ConsCell(X, Y), ConsCell(a, Z), ConsCell(a, EmptyList)}

p(t) == Literal("p", <<t>>)
r(t, u) == Literal("r", <<t, u>>)

(***************************************************************************)
(* Every term alone, and pairs whose unification shares variables between   *)
(* the positions, binds variables to each other, or closes a cycle through  *)
(* two bindings.                                                           *)
(***************************************************************************)
MCLiterals ==
    {p(t) : t \in MCUniverse}
        \cup {r(X, Y), r(Y, X), r(f(Y), f(X)), r(Z, a), r(ConsCell(X, Y), Z), Literal("p", <<X, Y>>)}

(* Literals that share their variables. *)
FewLiterals ==
    {p(X), p(f(X)), p(one), r(X, Y), r(Y, X), r(f(Y), f(X)), r(ConsCell(X, Y), ConsCell(a, Z))}

Ground == {a, f(a), EmptyList, ConsCell(a, EmptyList)}

RECURSIVE Value(_, _)
Value(t, s) ==
    IF IsVariable(t) THEN s[t]
    ELSE [t EXCEPT !.args = [i \in DOMAIN t.args |-> Value(t.args[i], s)]]

RECURSIVE Depth(_)
Depth(t) ==
    IF t.args = << >> THEN 0
    ELSE 1 + LET ds == {Depth(t.args[i]) : i \in DOMAIN t.args}
             IN  CHOOSE d \in ds : \A e \in ds : e <= d

MCInterp ==
    {[val |-> [t \in MCUniverse |-> Value(t, s)],
      size |-> [t \in MCUniverse |-> Depth(Value(t, s))]] : s \in [{X, Y, Z} -> Ground]}

(* The trees are those of terms, whichever the values of the variables are. *)
ASSUME TreesBuilt == \A I, J \in MCInterp : BuildAlike(I, J)

ASSUME TermsFinite == TermsAreFinite

ASSUME TermsToldByParts == ToldByParts

--------------------------------------------------------------------------------
(***************************************************************************)
(* The two translations of Unifier::unify side by side: the step machine    *)
(* that the theorems are about, and the recursion that the evaluator runs   *)
(* with.                                                                   *)
(***************************************************************************)
Ops == INSTANCE TermOps

(***************************************************************************)
(* Every call returns what the recursive definition gives for its arguments. *)
(***************************************************************************)
AgreesWithRecursion ==
    [][pc' = "idle" =>
           Ops!UnifyLiterals(goal', fact', held)
               = IF result' = "bindings" THEN <<held'>> ELSE << >>]_vars

(***************************************************************************)
(* Under the bindings of a successful call, resolveTerm makes goal and fact  *)
(* the same literal, with no bound variable left in it.                     *)
(***************************************************************************)
ResolvedAlike ==
    result = "bindings" =>
        /\ Ops!Substitute(goal, held) = Ops!Substitute(fact, held)
        /\ Ops!VarsIn(Ops!Substitute(goal, held)) \cap DOMAIN held = {}

==============================================================================
