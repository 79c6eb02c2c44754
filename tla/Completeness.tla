----------------------------- MODULE Completeness -----------------------------
(***************************************************************************)
(* What the results of the evaluator must have of what the clauses derive,  *)
(* for any terms and any unifier: the other half of Consequence.  A         *)
(* valuation says what every variable stands for, and so makes every        *)
(* literal a ground one; a derivation gives ground literals heights.        *)
(***************************************************************************)
EXTENDS Scoping

CONSTANTS
    Valuations,
    Value(_, _),        \* what a variable stands for
    Meaning(_, _),      \* the ground literal that a literal then is
    SolvedBy(_, _),     \* whether a valuation solves a binding set
    Reaches(_, _, _),   \* whether one does that agrees with it on some variables
    Derivations         \* functions from ground literals to heights

Agree(w, v, V) == \A x \in V : Value(w, x) = Value(v, x)

(* A fact without variables.  (Those of a fact with variables are not       *)
(* renamed: it may be used once in a derivation, see the README.)           *)
GroundFact(l, fact) == \A v \in Valuations : Meaning(v, fact) = l

(* The rule derives a literal from literals of smaller height. *)
Derives(rule, m, l) ==
    \E u \in Valuations :
        /\ Meaning(u, rule.head) = l
        /\ \A j \in DOMAIN rule.body :
               Meaning(u, rule.body[j]) \in DOMAIN m /\ m[Meaning(u, rule.body[j])] < m[l]

(* All that a derivation derives, the clauses do. *)
Supported(m) ==
    \A l \in DOMAIN m :
        \/ \E i \in DOMAIN facts : GroundFact(l, facts[i])
        \/ \E i \in DOMAIN rules : Derives(rules[i], m, l)

(***************************************************************************)
(* What evaluateGoal returns to query() misses nothing: every instance of   *)
(* the query that the clauses derive is an instance under one of the        *)
(* results, although every goal took what it found from the results of the  *)
(* goals before it, rules were tried under fresh names, and goals already   *)
(* under evaluation were cut off.                                          *)
(***************************************************************************)
ResultsComplete ==
    pc = "return" /\ stack = << >> =>
        \A m \in Derivations : Supported(m) =>
            \A w \in Valuations :
                SolvedBy(w, NoBindingSet) /\ Meaning(w, asked[1]) \in DOMAIN m =>
                    \E i \in DOMAIN ret : Reaches(w, LiteralVars(asked[1]), ret[i])

--------------------------------------------------------------------------------
(* Why: what each activation owes its caller, and who will pay for it. *)

TaskOf(frame) == IF frame.fn = "evaluateGoal" THEN <<frame.goal>> ELSE frame.goals

(* The variables that matter to the first k activations. *)
VarsBelow(s, q, k) == LiteralVars(q) \cup UNION {FrameVars(s[i]) : i \in 1..k}

(***************************************************************************)
(* A solution that goals called above the first k activations must find:    *)
(* it derives the goals, and lower down than any goal under evaluation.     *)
(***************************************************************************)
OwedBy(m, w, s, k, goals, b) ==
    /\ SolvedBy(w, b)
    /\ \A j \in DOMAIN goals : Meaning(w, goals[j]) \in DOMAIN m
    /\ \A i \in 1..k : s[i].fn = "evaluateGoal" =>
           /\ SolvedBy(w, s[i].bindings)
           /\ Meaning(w, s[i].goal) \in DOMAIN m
           /\ \A j \in DOMAIN goals : m[Meaning(w, goals[j])] < m[Meaning(w, s[i].goal)]

(* The same, as far as the first k activations can tell. *)
HandedDown(m, s, q, k, goals, b) ==
    {w \in Valuations : \E v \in Valuations :
        Agree(w, v, VarsBelow(s, q, k)) /\ OwedBy(m, v, s, k, goals, b)}

FoundIn(results, V) ==
    {w \in Valuations : \E i \in DOMAIN results : \E v \in Valuations :
        Agree(w, v, V) /\ SolvedBy(v, results[i])}

(* A clause that the loops of an evaluateGoal have not come to. *)
Ahead(m, w, frame, p) ==
    LET l == Meaning(w, frame.goal)
    IN  \/ \E i \in DOMAIN p.facts : i >= frame.fact /\ GroundFact(l, p.facts[i])
        \/ \E i \in DOMAIN p.rules : i >= frame.next /\ Derives(p.rules[i], m, l)

(* An activation has found a solution, will find it, or has just been paid it. *)
Accounted(m, w, frame, V, paid, p) ==
    \/ w \in paid
    \/ /\ frame.fn = "evaluateGoal"
       /\ w \in FoundIn(frame.results, V) \/ Ahead(m, w, frame, p)
    \/ /\ frame.fn = "evaluateConjunction" /\ frame.at = "rest"
       /\ w \in FoundIn(frame.results, V) \/ w \in FoundIn(frame.todo, V)

(* What the callee of the first k activations will give them. *)
Paid(m, s, q, k, paid) ==
    IF k = Len(s) THEN paid ELSE HandedDown(m, s, q, k, TaskOf(s[k + 1]), s[k + 1].bindings)

Accounts(m, s, q, paid, p) ==
    /\ \A w \in Valuations :
           SolvedBy(w, NoBindingSet) /\ Meaning(w, q) \in DOMAIN m => w \in Paid(m, s, q, 0, paid)
    /\ \A k \in DOMAIN s : \A w \in Valuations :
           OwedBy(m, w, s, k - 1, TaskOf(s[k]), s[k].bindings) =>
               Accounted(m, w, s[k], VarsBelow(s, q, k), Paid(m, s, q, k, paid), p)

(* What the step under way gives the topmost activation. *)
PaidNow(m) ==
    IF pc = "goal" THEN HandedDown(m, stack, asked[1], Len(stack), <<call.goal>>, call.bindings)
    ELSE IF pc = "return" THEN FoundIn(ret, VarsBelow(stack, asked[1], Len(stack)))
    ELSE {}

Program == [facts |-> facts, rules |-> rules]

AccountsNow(m) == Accounts(m, stack, asked[1], PaidNow(m), Program)

(* The inductive invariant: nothing that is owed is ever forgotten. *)
NothingForgotten ==
    pc \in {"goal", "run", "return"} =>
        \A m \in Derivations : Supported(m) => AccountsNow(m)

================================================================================
