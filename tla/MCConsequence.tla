----------------------------- MODULE MCConsequence -----------------------------
(***************************************************************************)
(* Worlds for the programs of MCQuery: least models of some of the clauses, *)
(* with variables that stand for individuals according to the letter and,   *)
(* for a renamed variable, to whether its number is even or odd.  A renamed *)
(* variable with an odd number stands for what the one with an even number  *)
(* does, or for the next individual.                                       *)
(***************************************************************************)
EXTENDS MCHypotheses, DatabaseRefinement

RoundFacts == {edge(a, b), edge(b, a)}
RoundRules == {Base, RightRecursive, OtherArity}

Letters == {"X", "Y", "Z"}

NextOf(i) == CASE i = a -> b [] i = b -> c [] OTHER -> a

World(model, value, shifted) == [model |-> model, value |-> value, shifted |-> shifted]

ValueIn(w, v) ==
    IF Len(v) = 2 /\ v[2] % 2 = 1 /\ w.shifted THEN NextOf(w.value[v[1]]) ELSE w.value[v[1]]

MCModels == {LeastModel(F, RoundRules, MCIndividuals) : F \in SUBSET RoundFacts}

MCWorlds ==
    {World(M, value, shifted) : M \in MCModels, value \in [Letters -> MCIndividuals], shifted \in BOOLEAN}

TermIn(w, t) == IF IsVariable(t) THEN ValueIn(w, t.value) ELSE t

MCHolds(w, l) == Literal(l.predicate, [i \in DOMAIN l.terms |-> TermIn(w, l.terms[i])]) \in w.model

MCSolves(w, bound) == \A v \in DOMAIN bound : TermIn(w, v) = TermIn(w, bound[v])

(* All instances of the rule are true. *)
MCRuleTrue(w, r) == Consequences(w.model, {r}, MCIndividuals) \subseteq w.model

--------------------------------------------------------------------------------
(***************************************************************************)
(* Derivations for Completeness: what some of the clauses derive, each      *)
(* literal at the height at which it is first derived.  A valuation gives   *)
(* the values of the variables that clauses and queries are written with.   *)
(***************************************************************************)
MCValuations == [{X, Y, Z} -> MCIndividuals]

RECURSIVE Raise(_, _, _)
Raise(heights, next, ruleSet) ==
    LET new == Consequences(DOMAIN heights, ruleSet, MCIndividuals) \ DOMAIN heights
    IN  IF new = {} THEN heights ELSE Raise(heights @@ [l \in new |-> next], next + 1, ruleSet)

MCDerivations ==
    {Raise([l \in F |-> 0], 1, R) : F \in SUBSET RoundFacts, R \in SUBSET RoundRules}

ConsequenceQueries == {path(a, Y), path(X, Y), path(a, a)}

--------------------------------------------------------------------------------
(* What the refinement takes is so. *)
ASSUME RulesAlike ==
    \A w \in MCWorlds, r \in RoundRules, n \in 0..3 : NamedAlike(w, r, n)

ASSUME Free == StartsFree

ASSUME Listed == AnswersListed(TheBindingSets)

==============================================================================
