------------------------------ MODULE MCHypotheses ------------------------------
(***************************************************************************)
(* The theorems on the evaluator hold for any unifier, renaming and keys    *)
(* that do what their hypotheses say.  Here TLC evaluates what they ask of  *)
(* those of the code: for all literals over a variable, its first           *)
(* renaming and an individual, and all acyclic binding sets of the two.     *)
(***************************************************************************)
EXTENDS MCQuery

X0 == Variable(<<"X", 0>>)

Named == {X, X0}
Known == {a, b}

TheLiterals ==
    {Literal(p, <<t, u>>) : p \in {<<"edge">>, <<"path">>}, t \in Named \cup {a}, u \in Named \cup {b}}

(* Neither a variable bound to itself nor two bound to each other. *)
TheBindingSets ==
    {bound \in UNION {[V -> Named \cup Known] : V \in SUBSET Named} :
        \A v \in DOMAIN bound : v \notin ToSet(VarOccurrences(ResolveOnce(bound[v], bound))) \cup {bound[v]}}

TheRule == Rule(path(X, b), <<edge(a, X), edge(X, b)>>)

NamesUpTo(n) == IF n = 0 THEN {X} ELSE Named

TheTerms == Named \cup Known

--------------------------------------------------------------------------------
(* Valuations: a variable stands for an individual. *)

ValueOf(w, v) == w[v]

MeaningOf(w, l) == LiteralInstance(l, w)

SolvedUnder(w, bound) == \A v \in DOMAIN bound : w[v] = InstanceOf(bound[v], w)

TreesUnder(w) ==
    [val |-> [t \in TheTerms |-> InstanceOf(t, w)], size |-> [t \in TheTerms |-> 0]]

(* A result is reached if it unifies with the values of the variables. *)
ReachesHere(w, V, bound) ==
    LET inTurn == SetToSeq(V)
    IN  UnifyInTurn(inTurn, [i \in DOMAIN inTurn |-> w[inTurn[i]]], bound) # << >>

(* Worlds: a valuation, and the ground literals that are true. *)
TheWorlds ==
    [value : [Named -> Known],
     model : {{}, {edge(a, b), path(a, b)}, {edge(a, b), edge(b, b), path(b, b)}}]

HoldsUnder(w, l) == MeaningOf(w.value, l) \in w.model
SolvesUnder(w, bound) == SolvedUnder(w.value, bound)
TreesIn(w) == TreesUnder(w.value)

--------------------------------------------------------------------------------
Follow ==
    INSTANCE ConsequenceProofs
    WITH FactInputs <- {edge(a, b), edge(X, b)}, RuleInputs <- {TheRule},
         QueryInputs <- {path(a, X), path(X, X)},
         Literals <- TheLiterals, BindingSets <- TheBindingSets, NamesBefore <- NamesUpTo,
         Universe <- TheTerms, TreesOf <- TreesIn,
         Worlds <- TheWorlds, Holds <- HoldsUnder, Solves <- SolvesUnder

Find ==
    INSTANCE CompletenessProofs
    WITH FactInputs <- {edge(a, b), edge(X, b)}, RuleInputs <- {TheRule},
         QueryInputs <- {path(a, X), path(X, X)},
         Literals <- TheLiterals, BindingSets <- TheBindingSets, NamesBefore <- NamesUpTo,
         Universe <- TheTerms, TreesOf <- TreesUnder,
         Valuations <- [Named -> Known], Value <- ValueOf, Meaning <- MeaningOf,
         SolvedBy <- SolvedUnder, Reaches <- ReachesHere, Derivations <- {}

(* Literals, binding sets, worlds and valuations are made of terms. *)
ASSUME MadeOfTerms ==
    /\ Find!UniverseAssumption /\ Find!OverTerms
    /\ Follow!WorldsOfTrees /\ Find!ValuationsOfTrees

(* Variables may stand for what others do, and literals mean what the theorems take them to. *)
ASSUME MeaningsRight == Find!ValuationsFree /\ Find!Meanings

(* unify keeps to the names it is given, admits no solution and loses none. *)
ASSUME UnifierRight == Find!UnifierKeepsNames /\ Find!UnifierComplete /\ Follow!UnifierSound

(***************************************************************************)
(* The first renaming of the rule replaces its variables only, takes new    *)
(* names only and says what the rule does.                                 *)
(***************************************************************************)
ASSUME RenamingRight ==
    /\ \A n \in {0, 1} : NamesUpTo(n) \subseteq Find!Vars
    /\ Find!RenamesApart(TheRule, 0)
    /\ Find!NamedAs(TheRule, 0) /\ Find!NamedAnew(TheRule, 0) /\ Find!SaysTheSame(TheRule, 0)

(* Goals are told apart by their keys. *)
ASSUME KeysRight == Find!SubstitutesByTerms /\ Find!KeysTellGoals /\ Find!KeysTellMeanings

================================================================================
