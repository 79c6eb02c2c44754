-------------------------- MODULE DatabaseRefinement --------------------------
(***************************************************************************)
(* KnowledgeBase implements LogicDatabase.  A question has been answered    *)
(* within the knowledge base when evaluateGoal returns to query(); what the *)
(* evaluator does before that leaves no trace that a client can see.        *)
(***************************************************************************)
EXTENDS Consequence, Completeness

CONSTANT RuleTrue(_, _)     \* whether a rule is true in a world, under whatever names

ReturnsToQuery == pc = "return" /\ stack = << >>

StatusNow ==
    IF pc = "client" THEN "ready"
    ELSE IF pc = "crashed" THEN "crashed"
    ELSE IF ReturnsToQuery THEN "found" ELSE "asked"

ResultsNow == IF ReturnsToQuery THEN ToSet(ret) ELSE {}

MatchesQuestion(v, q, result) == Reaches(v, LiteralVars(q), result)

SaidOf(q, result) == ToSet(Answer(q, result))

Database == INSTANCE LogicDatabase WITH
                Facts <- FactInputs, Rules <- RuleInputs, Questions <- QueryInputs,
                TrueIn <- Holds, Matches <- MatchesQuestion, Said <- SaidOf,
                known <- ToSet(facts), implied <- ToSet(rules), status <- StatusNow,
                question <- asked, results <- ResultsNow, answers <- ToSet(answers)

(***************************************************************************)
(* Whatever the order of the clauses, however deep the evaluation and       *)
(* whatever it cuts off, query() does what a logic database does: its       *)
(* answers are told of results that follow from the clauses stored when it  *)
(* was asked and that miss nothing those clauses derive, and nothing else   *)
(* that a client can see ever changes.                                     *)
(***************************************************************************)
ImplementsDatabase == Database!DatabaseSpec

--------------------------------------------------------------------------------
(* What the theorem takes, beyond what soundness and completeness take. *)

(* A rule that is true in a world is true there under every name it is given. *)
NamedAlike(w, r, n) == RuleTrue(w, r) => RuleHolds(w, Rename(r, n))

RulesNamedAlike == \A w \in Worlds, r \in RuleInputs, n \in Nat : NamedAlike(w, r, n)

(* A query starts from bindings that every valuation solves. *)
StartsFree == \A v \in Valuations : SolvedBy(v, NoBindingSet)

(* What is told of a result is a list. *)
AnswersListed(S) == \A q \in QueryInputs : \A b \in S : Answer(q, b) \in Seq(ToSet(Answer(q, b)))

================================================================================
