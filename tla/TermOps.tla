------------------------------- MODULE TermOps --------------------------------
(***************************************************************************)
(* The pure algorithms on terms and literals, as the recursions the code    *)
(* has: class Unifier, Fact::toString as far as it tells literals apart,    *)
(* and the renaming of a rule.  The evaluator (KnowledgeBase) takes them as *)
(* parameters; its instances for TLC get them from here.                   *)
(***************************************************************************)
EXTENDS Terms, FiniteSets, SequencesExt

--------------------------------------------------------------------------------
(* class Unifier.  A nullopt is << >>, a binding set b is <<b>>. *)

RECURSIVE ResolveTerm(_, _)
(* A mutant: the value of a variable is not resolved further. *)
ResolveOnce(t, b) ==
    IF IsVariable(t)
    THEN IF t \in DOMAIN b THEN b[t] ELSE t
    ELSE [t EXCEPT !.args = [i \in DOMAIN t.args |-> ResolveTerm(t.args[i], b)]]

ResolveTerm(t, b) ==
    IF IsVariable(t)
    THEN IF t \in DOMAIN b THEN ResolveTerm(b[t], b) ELSE t
    ELSE [t EXCEPT !.args = [i \in DOMAIN t.args |-> ResolveTerm(t.args[i], b)]]

RECURSIVE Occurs(_, _, _)
Occurs(var, t, b) ==
    IF IsVariable(t)
    THEN t = var \/ (t \in DOMAIN b /\ Occurs(var, b[t], b))
    ELSE \E i \in DOMAIN t.args : Occurs(var, t.args[i], b)

RECURSIVE UnifyTerm(_, _, _)

(* A mutant: a binding of the other variable is not looked up. *)
UnifyVariableOneSided(var, t, b) ==
    CASE var \in DOMAIN b -> UnifyTerm(b[var], t, b)
      [] OTHER -> IF Occurs(var, t, b) THEN << >> ELSE <<AddBinding(b, var, t)>>

UnifyVariable(var, t, b) ==
    CASE var \in DOMAIN b -> UnifyTerm(b[var], t, b)
      [] var \notin DOMAIN b /\ t \in DOMAIN b -> UnifyTerm(var, b[t], b)
      [] OTHER -> IF Occurs(var, t, b) THEN << >> ELSE <<AddBinding(b, var, t)>>

(* The loops over arguments: each pair starts from the bindings of the last. *)
RECURSIVE UnifyInTurn(_, _, _)
UnifyInTurn(s, t, b) ==
    IF s = << >> THEN <<b>>
    ELSE LET first == UnifyTerm(Head(s), Head(t), b)
         IN  IF first = << >> THEN << >> ELSE UnifyInTurn(Tail(s), Tail(t), first[1])

UnifyTerm(s, t, b) ==
    CASE Identical(s, t) -> <<b>>
      [] ~Identical(s, t) /\ IsVariable(s) -> UnifyVariable(s, t, b)
      [] ~IsVariable(s) /\ IsVariable(t) -> UnifyVariable(t, s, b)
      [] ~IsVariable(s) /\ ~IsVariable(t) /\ Decomposable(s, t) -> UnifyInTurn(s.args, t.args, b)
      [] OTHER -> << >>

UnifyLiterals(goal, fact, b) ==
    IF SameSignature(goal, fact) THEN UnifyInTurn(goal.terms, fact.terms, b) ELSE << >>

Substitute(literal, b) ==
    [literal EXCEPT !.terms = [i \in DOMAIN @ |-> ResolveTerm(@[i], b)]]

--------------------------------------------------------------------------------
(***************************************************************************)
(* toString: a variable prints as ? and its name, atoms and numbers both    *)
(* print as their bare text, compounds and lists as the texts of their      *)
(* arguments in brackets of their own kind.                                *)
(***************************************************************************)
RECURSIVE TermText(_)
TermText(t) ==
    [text |-> IF IsVariable(t) THEN <<"?">> \o t.value ELSE t.value,
     brackets |-> CASE IsCompound(t) -> "()" [] IsList(t) -> "[]" [] OTHER -> "",
     args |-> [i \in DOMAIN t.args |-> TermText(t.args[i])]]

LiteralText(literal) ==
    <<literal.predicate, [i \in DOMAIN literal.terms |-> TermText(literal.terms[i])]>>

(* Mutants: the key is that of the goal as written, or leaves out its terms. *)
GoalKeyAsWritten(goal, b) == LiteralText(goal)
GoalKeyOfPredicate(goal, b) == goal.predicate

(* The key under which evaluateGoal enters a goal into its visited set. *)
GoalKey(goal, b) == LiteralText(Substitute(goal, b))

--------------------------------------------------------------------------------
(* The occurrences of variables in a term, from left to right. *)
RECURSIVE VarOccurrences(_)
VarOccurrences(t) ==
    IF IsVariable(t) THEN <<t>>
    ELSE FlattenSeq([i \in DOMAIN t.args |-> VarOccurrences(t.args[i])])

(* collectVars: the variables of a literal in the order the code visits them. *)
CollectVars(literal) ==
    FlattenSeq([i \in DOMAIN literal.terms |-> VarOccurrences(literal.terms[i])])

VarsIn(literal) == ToSet(CollectVars(literal))

--------------------------------------------------------------------------------
(* A rule: a head and the goals of its body. *)
Rule(head, body) == [head |-> head, body |-> body]

RuleVarOccurrences(rule) ==
    CollectVars(rule.head)
        \o FlattenSeq([i \in DOMAIN rule.body |-> CollectVars(rule.body[i])])

RuleVars(rule) == ToSet(RuleVarOccurrences(rule))

(***************************************************************************)
(* renameVariables: the k-th distinct variable, in order of first           *)
(* occurrence, gets the name of the variable, an underscore and the value   *)
(* of the counter, which goes up by one for each.                           *)
(***************************************************************************)
Renaming(rule, counter) ==
    LET occurrences == RuleVarOccurrences(rule)
        First(v) == CHOOSE i \in DOMAIN occurrences :
                        /\ occurrences[i] = v
                        /\ \A j \in 1..(i - 1) : occurrences[j] # v
        Rank(v) == Cardinality({w \in RuleVars(rule) : First(w) < First(v)})
    IN  [v \in RuleVars(rule) |-> Variable(Append(v.value, counter + Rank(v)))]

RECURSIVE RenameTerm(_, _)
RenameTerm(t, renaming) ==
    IF IsVariable(t) THEN renaming[t]
    ELSE [t EXCEPT !.args = [i \in DOMAIN t.args |-> RenameTerm(t.args[i], renaming)]]

RenameLiteral(literal, renaming) ==
    [literal EXCEPT !.terms = [i \in DOMAIN @ |-> RenameTerm(@[i], renaming)]]

RenameVariables(rule, counter) ==
    LET renaming == Renaming(rule, counter)
    IN  Rule(RenameLiteral(rule.head, renaming),
             [i \in DOMAIN rule.body |-> RenameLiteral(rule.body[i], renaming)])

(* A mutant: the counter is taken by value. *)
NewNamesByValue(rule) == 0

(* By how much renameVariables advances the counter. *)
NewNames(rule) == Cardinality(RuleVars(rule))

--------------------------------------------------------------------------------
(***************************************************************************)
(* What query() makes of one result: the query's variables resolved, those  *)
(* that resolve to themselves left out; the result is dropped if that       *)
(* leaves nothing and the query has variables.                              *)
(***************************************************************************)
AnswerFrom(goal, b) ==
    LET told == {v \in VarsIn(goal) : ResolveTerm(v, b) # v}
    IN  IF told = {} /\ VarsIn(goal) # {} THEN << >>
        ELSE << [v \in told |-> ResolveTerm(v, b)] >>

================================================================================
