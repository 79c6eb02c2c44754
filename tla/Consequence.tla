------------------------------ MODULE Consequence ------------------------------
(***************************************************************************)
(* What a result of the evaluator must have to do with the clauses, for any *)
(* terms and any unifier.  A world says which literals are true and what    *)
(* every variable stands for; a binding set is solved by the worlds in      *)
(* which every variable bound stands for the same as its value.            *)
(***************************************************************************)
EXTENDS KnowledgeBase

CONSTANTS
    Worlds,
    Holds(_, _),    \* whether a world makes a literal true
    Solves(_, _)    \* whether a world solves a binding set

AllHold(w, goals) == \A i \in DOMAIN goals : Holds(w, goals[i])

(* The rule as an implication. *)
RuleHolds(w, r) == AllHold(w, r.body) => Holds(w, r.head)

(* A world of which the clauses, under the names used so far, are true. *)
ClausesHold(w) ==
    /\ AllHold(w, facts)
    /\ \A i \in DOMAIN rules : \A n \in 0..varCounter : RuleHolds(w, Rename(rules[i], n))

(* A result with which the caller's bindings are solved and its goals true. *)
Justifies(w, result, goals, b) == Solves(w, result) => Solves(w, b) /\ AllHold(w, goals)

(***************************************************************************)
(* What evaluateGoal returns to query() follows from the clauses: wherever  *)
(* they are true and a result is solved, the query is true, although the    *)
(* results were made under bindings that other goals, several levels up,    *)
(* had left, and handed on one at a time.                                  *)
(***************************************************************************)
ResultsFollow ==
    pc = "return" /\ stack = << >> =>
        \A w \in Worlds :
            ClausesHold(w) => \A i \in DOMAIN ret : Justifies(w, ret[i], asked, NoBindingSet)

--------------------------------------------------------------------------------
(* Why it does: what each frame may assume of what it is returned. *)

(* What a frame has still to prove, and what it has its callee prove. *)
Task(frame) == IF frame.fn = "evaluateGoal" THEN <<frame.goal>> ELSE frame.goals

Wanted(frame) ==
    IF frame.fn = "evaluateConjunction" /\ frame.at = "first" THEN <<frame.goals[1]>> ELSE Task(frame)

Demand(goals, b) == [goals |-> goals, bindings |-> b]

(* What is demanded of what runs on top of the first n frames. *)
DemandAt(s, n, q) ==
    IF n = 0 THEN Demand(q, NoBindingSet) ELSE Demand(Wanted(s[n]), s[n].bindings)

AllJustified(w, results, d) ==
    \A i \in DOMAIN results : Justifies(w, results[i], d.goals, d.bindings)

(* Proving goals from b is enough for a demand. *)
Serves(w, goals, b, d) == Solves(w, b) /\ AllHold(w, goals) => Solves(w, d.bindings) /\ AllHold(w, d.goals)

FrameFollows(w, frame) ==
    /\ AllJustified(w, frame.results, Demand(Task(frame), frame.bindings))
    /\ frame.fn = "evaluateConjunction" =>
           /\ frame.at \in {"first", "rest"}
           /\ frame.todo # << >> => frame.at = "rest" /\ Len(frame.goals) # 1
           /\ AllJustified(w, frame.todo, Demand(<<frame.goals[1]>>, frame.bindings))

StackFollows(w, s, q) ==
    \A i \in DOMAIN s :
        /\ FrameFollows(w, s[i])
        /\ Serves(w, Task(s[i]), s[i].bindings, DemandAt(s, i - 1, q))

EvaluationFollows(w) ==
    /\ StackFollows(w, stack, asked)
    /\ pc = "goal" => Serves(w, <<call.goal>>, call.bindings, DemandAt(stack, Len(stack), asked))
    /\ pc = "return" => AllJustified(w, ret, DemandAt(stack, Len(stack), asked))

(* The inductive invariant: ResultsFollow for every call on the stack. *)
EvaluationsFollow == \A w \in Worlds : EvaluationFollows(w) \/ ~ClausesHold(w)

================================================================================
