---------------------------- MODULE KnowledgeBase -----------------------------
(***************************************************************************)
(* class KnowledgeBase: the clause store and the evaluator behind query().  *)
(*                                                                         *)
(* The evaluator is the mutual recursion of evaluateGoal and                *)
(* evaluateConjunction.  Its activations are the frames of `stack', top     *)
(* last; a step is what an activation does between two calls or returns.    *)
(* The set of goal keys that guards against infinite recursion is passed by *)
(* reference through the whole recursion, so it is one variable, visited.   *)
(* The counter of renameVariables is a static local: it is never reset and  *)
(* outlives the query.                                                     *)
(*                                                                         *)
(* The C++ stack is finite: an evaluateGoal that would need a frame beyond  *)
(* MaxDepth ends the process.                                              *)
(*                                                                         *)
(* What the evaluator asks of terms is a parameter: nothing here depends on *)
(* how unification, substitution, printing or renaming work (TermOps).      *)
(***************************************************************************)
EXTENDS Naturals, SequencesExt

CONSTANTS
    FactInputs,     \* the facts a client may add
    RuleInputs,     \* the rules a client may add
    QueryInputs,    \* the goals a client may ask
    MaxFacts,       \* bound on the facts stored
    MaxRules,       \* bound on the rules stored
    MaxQueries,     \* bound on the queries asked
    MaxDepth,       \* frames that fit on the C++ stack
    NoBindingSet,   \* the binding set a query starts from
    Unify(_, _, _),     \* Unifier::unify: << >> for nullopt, <<b>> for bindings b
    KeyOf(_, _),        \* substitute and toString of a goal under bindings
    Rename(_, _),       \* renameVariables of a rule with a counter
    Advance(_),         \* by how much that advances the counter
    Answer(_, _)        \* what query() makes of a result: << >> or <<answer>>

ASSUME BoundsAssumption ==
    MaxFacts \in Nat /\ MaxRules \in Nat /\ MaxQueries \in Nat /\ MaxDepth \in Nat

ASSUME AdvanceAssumption == \A r \in RuleInputs : Advance(r) \in Nat

VARIABLES
    facts,      \* facts_, in the order they were added
    rules,      \* rules_
    varCounter, \* the static counter of evaluateGoal
    pc,         \* "client": no query runs; "goal": evaluateGoal is called with `call';
                \* "run": the top frame goes on; "return": `ret' is returned to it;
                \* "crashed": the C++ stack has overflown
    stack,      \* the activations of evaluateGoal and evaluateConjunction
    visited,    \* the keys of the goals under evaluation
    call, ret,  \* what is passed down and what is passed up
    asked,      \* the last query, as <<goal>>; << >> once the clauses have changed
    answers,    \* what it returned
    queries     \* number of queries so far

store == <<facts, rules>>
evaluation == <<stack, visited, call, ret>>
vars == <<facts, rules, varCounter, pc, stack, visited, call, ret, asked, answers, queries>>

NoCall == [goal |-> << >>, bindings |-> NoBindingSet]

Init ==
    /\ facts = << >> /\ rules = << >>
    /\ varCounter = 0
    /\ pc = "client"
    /\ stack = << >> /\ visited = {} /\ call = NoCall /\ ret = << >>
    /\ asked = << >> /\ answers = << >>
    /\ queries = 0

--------------------------------------------------------------------------------
(* The client's operations.  A name is a text, << >> the empty one. *)

AddFact(f) ==
    /\ pc = "client"
    /\ Len(facts) < MaxFacts
    /\ f.predicate # << >>
    /\ facts' = Append(facts, f)
    /\ asked' = << >> /\ answers' = << >>
    /\ UNCHANGED <<rules, varCounter, pc, evaluation, queries>>

IsValid(r) == r.head.predicate # << >> /\ r.body # << >>

AddRule(r) ==
    /\ pc = "client"
    /\ Len(rules) < MaxRules
    /\ IsValid(r)
    /\ rules' = Append(rules, r)
    /\ asked' = << >> /\ answers' = << >>
    /\ UNCHANGED <<facts, varCounter, pc, evaluation, queries>>

Query(g) ==
    /\ pc = "client"
    /\ queries < MaxQueries
    /\ queries' = queries + 1
    /\ asked' = <<g>> /\ answers' = << >>
    /\ visited' = {}
    /\ call' = [goal |-> g, bindings |-> NoBindingSet]
    /\ pc' = "goal"
    /\ UNCHANGED <<store, varCounter, stack, ret>>

--------------------------------------------------------------------------------
(* Frames and control. *)

GoalFrame(g, b, key) ==
    [fn |-> "evaluateGoal", goal |-> g, bindings |-> b, key |-> key,
     results |-> << >>, fact |-> 1, next |-> 1]

ConjunctionFrame(goals, b) ==
    [fn |-> "evaluateConjunction", goals |-> goals, bindings |-> b,
     at |-> "first", todo |-> << >>, results |-> << >>]

Top == stack[Len(stack)]

InGoal == stack # << >> /\ Top.fn = "evaluateGoal"
InConjunction == stack # << >> /\ Top.fn = "evaluateConjunction"

CallGoal(g, b) == pc' = "goal" /\ call' = [goal |-> g, bindings |-> b] /\ ret' = << >>

ReturnToCaller(results) == pc' = "return" /\ ret' = results /\ call' = NoCall

ResumeTop(frame) ==
    /\ stack' = [stack EXCEPT ![Len(stack)] = frame]
    /\ pc' = "run"
    /\ ret' = << >>
    /\ UNCHANGED call

PopFrame == stack' = SubSeq(stack, 1, Len(stack) - 1)

(* evaluateConjunction is entered with goals left to prove: isValid keeps   *)
(* out rules with an empty body, and a rest is only built if there is one.  *)
CallConjunction(under, goals, b) ==
    /\ stack' = Append(under, ConjunctionFrame(goals, b))
    /\ CallGoal(goals[1], b)

Unchanged == UNCHANGED <<store, asked, answers, queries>>

--------------------------------------------------------------------------------
(* evaluateGoal *)

GoalVisited ==
    /\ pc = "goal"
    /\ KeyOf(call.goal, call.bindings) \in visited
    /\ ReturnToCaller(<< >>)
    /\ Unchanged /\ UNCHANGED <<varCounter, stack, visited>>

GoalEnter ==
    /\ pc = "goal"
    /\ KeyOf(call.goal, call.bindings) \notin visited
    /\ Len(stack) < MaxDepth
    /\ LET key == KeyOf(call.goal, call.bindings)
       IN  /\ visited' = visited \cup {key}
           /\ stack' = Append(stack, GoalFrame(call.goal, call.bindings, key))
    /\ pc' = "run"
    /\ call' = NoCall
    /\ Unchanged /\ UNCHANGED <<varCounter, ret>>

StackOverflow ==
    /\ pc = "goal"
    /\ KeyOf(call.goal, call.bindings) \notin visited
    /\ Len(stack) >= MaxDepth
    /\ pc' = "crashed"
    /\ Unchanged /\ UNCHANGED <<varCounter, evaluation>>

AtFact == pc = "run" /\ InGoal /\ Top.fact <= Len(facts)

(* A mutant: the facts are matched under no bindings. *)
FactUnifierFromScratch ==
    IF facts[Top.fact].predicate = Top.goal.predicate
    THEN Unify(Top.goal, facts[Top.fact], NoBindingSet) ELSE << >>

(* A mutant: the first fact that matches is the only one. *)
FactUnifierOnce ==
    IF facts[Top.fact].predicate = Top.goal.predicate /\ Top.results = << >>
    THEN Unify(Top.goal, facts[Top.fact], Top.bindings) ELSE << >>

(* getFacts finds the facts of the goal's predicate, in their order. *)
FactUnifier ==
    IF facts[Top.fact].predicate = Top.goal.predicate
    THEN Unify(Top.goal, facts[Top.fact], Top.bindings) ELSE << >>

TryFact ==
    /\ AtFact
    /\ ResumeTop([Top EXCEPT !.results = @ \o FactUnifier, !.fact = @ + 1])
    /\ Unchanged /\ UNCHANGED <<varCounter, visited>>

FactsTried == pc = "run" /\ InGoal /\ Top.fact > Len(facts)

AtRule == FactsTried /\ Top.next <= Len(rules)

CurrentRule == rules[Top.next]

(* A mutant: the loop advances twice. *)
NextRuleTwice == [Top EXCEPT !.next = @ + 2]

NextRule == [Top EXCEPT !.next = @ + 1]

RenamedRule == Rename(CurrentRule, varCounter)

HeadUnifier == Unify(Top.goal, RenamedRule.head, Top.bindings)

SkipRule ==
    /\ AtRule
    /\ CurrentRule.head.predicate # Top.goal.predicate
    /\ ResumeTop(NextRule)
    /\ Unchanged /\ UNCHANGED <<varCounter, visited>>

RuleFails ==
    /\ AtRule
    /\ CurrentRule.head.predicate = Top.goal.predicate
    /\ HeadUnifier = << >>
    /\ varCounter' = varCounter + Advance(CurrentRule)
    /\ ResumeTop(NextRule)
    /\ Unchanged /\ UNCHANGED visited

RuleBody ==
    /\ AtRule
    /\ CurrentRule.head.predicate = Top.goal.predicate
    /\ HeadUnifier # << >>
    /\ varCounter' = varCounter + Advance(CurrentRule)
    /\ CallConjunction([stack EXCEPT ![Len(stack)] = NextRule], RenamedRule.body, HeadUnifier[1])
    /\ Unchanged /\ UNCHANGED visited

RuleReturned ==
    /\ pc = "return" /\ InGoal
    /\ ResumeTop([Top EXCEPT !.results = @ \o ret])
    /\ Unchanged /\ UNCHANGED <<varCounter, visited>>

(* A mutant: the key is not erased. *)
GoalReturnKeepsKey ==
    /\ FactsTried /\ Top.next > Len(rules)
    /\ PopFrame
    /\ ReturnToCaller(Top.results)
    /\ Unchanged /\ UNCHANGED <<varCounter, visited>>

GoalReturn ==
    /\ FactsTried /\ Top.next > Len(rules)
    /\ visited' = visited \ {Top.key}
    /\ PopFrame
    /\ ReturnToCaller(Top.results)
    /\ Unchanged /\ UNCHANGED varCounter

--------------------------------------------------------------------------------
(* evaluateConjunction *)

(* A single goal: its results are the conjunction's. *)
OnlyGoalReturned ==
    /\ pc = "return" /\ InConjunction /\ Len(Top.goals) = 1
    /\ PopFrame
    /\ ReturnToCaller(ret)
    /\ Unchanged /\ UNCHANGED <<varCounter, visited>>

FirstGoalReturned ==
    /\ pc = "return" /\ InConjunction /\ Len(Top.goals) # 1 /\ Top.at = "first"
    /\ ResumeTop([Top EXCEPT !.at = "rest", !.todo = ret])
    /\ Unchanged /\ UNCHANGED <<varCounter, visited>>

(* The loop over the results of the first goal. *)
NextResult ==
    /\ pc = "run" /\ InConjunction /\ Top.todo # << >>
    /\ CallConjunction([stack EXCEPT ![Len(stack)] = [Top EXCEPT !.todo = Tail(@)]],
                       Tail(Top.goals), Head(Top.todo))
    /\ Unchanged /\ UNCHANGED <<varCounter, visited>>

RestReturned ==
    /\ pc = "return" /\ InConjunction /\ Len(Top.goals) # 1 /\ Top.at = "rest"
    /\ ResumeTop([Top EXCEPT !.results = @ \o ret])
    /\ Unchanged /\ UNCHANGED <<varCounter, visited>>

ConjunctionReturn ==
    /\ pc = "run" /\ InConjunction /\ Top.todo = << >>
    /\ PopFrame
    /\ ReturnToCaller(Top.results)
    /\ Unchanged /\ UNCHANGED <<varCounter, visited>>

--------------------------------------------------------------------------------
(* The end of query(): every result is made an answer or dropped. *)
QueryReturn ==
    /\ pc = "return" /\ stack = << >>
    /\ pc' = "client"
    /\ answers' = FlattenSeq([i \in DOMAIN ret |-> Answer(asked[1], ret[i])])
    /\ ret' = << >>
    /\ UNCHANGED <<store, varCounter, stack, visited, call, asked, queries>>

Evaluate ==
    \/ GoalVisited \/ GoalEnter \/ StackOverflow \/ TryFact
    \/ SkipRule \/ RuleFails \/ RuleBody \/ RuleReturned \/ GoalReturn
    \/ OnlyGoalReturned \/ FirstGoalReturned \/ NextResult \/ RestReturned \/ ConjunctionReturn
    \/ QueryReturn

Next ==
    \/ \E f \in FactInputs : AddFact(f)
    \/ \E r \in RuleInputs : AddRule(r)
    \/ \E g \in QueryInputs : Query(g)
    \/ Evaluate

(***************************************************************************)
(* query() is synchronous: the thread that calls it runs the evaluation to  *)
(* its end.  This is weak fairness of Evaluate, which is enabled exactly    *)
(* while a query runs and is then all that can happen; it is written out    *)
(* because ENABLED Evaluate is slow to compute.                             *)
(***************************************************************************)
QueryRuns == pc \notin {"client", "crashed"}

Fairness == []<>(~QueryRuns) \/ []<><<QueryRuns>>_vars

Spec == Init /\ [][Next]_vars /\ Fairness

--------------------------------------------------------------------------------
(* Properties *)

GoalFrames(s) == {i \in DOMAIN s : s[i].fn = "evaluateGoal"}

(* Every frame has the fields of its function, and a goal's place in the clauses. *)
FrameOK(frame, nrules) ==
    \/ /\ frame.fn = "evaluateGoal"
       /\ frame = [fn |-> "evaluateGoal", goal |-> frame.goal, bindings |-> frame.bindings,
                    key |-> frame.key, results |-> frame.results,
                    fact |-> frame.fact, next |-> frame.next]
       /\ frame.fact \in Nat \ {0}
       /\ frame.next \in 1..(nrules + 1)
    \/ /\ frame.fn = "evaluateConjunction"
       /\ frame = [fn |-> "evaluateConjunction", goals |-> frame.goals,
                    bindings |-> frame.bindings,
                    at |-> frame.at, todo |-> frame.todo, results |-> frame.results]

TypeOK ==
    /\ facts \in Seq(FactInputs) /\ Len(facts) <= MaxFacts
    /\ rules \in Seq(RuleInputs) /\ Len(rules) <= MaxRules
    /\ \A i \in DOMAIN rules : IsValid(rules[i])
    /\ varCounter \in Nat
    /\ pc \in {"client", "goal", "run", "return", "crashed"}
    /\ stack \in Seq({stack[i] : i \in DOMAIN stack})
    /\ \A i \in DOMAIN stack : FrameOK(stack[i], Len(rules))
    /\ pc = "run" => stack # << >>
    /\ asked = << >> \/ \E g \in QueryInputs : asked = <<g>>
    /\ pc # "client" => asked # << >>
    /\ queries \in 0..MaxQueries

(***************************************************************************)
(* The recursion guard is exact: visited holds the keys of the goals that   *)
(* are under evaluation and nothing else, and no goal is under evaluation   *)
(* twice under the same key.  A key that outlived its goal would make later *)
(* goals of the same query fail; a goal entered twice would recurse for     *)
(* ever.                                                                   *)
(***************************************************************************)
Guards(keys, s) ==
    /\ keys = {s[i].key : i \in GoalFrames(s)}
    /\ \A i, j \in GoalFrames(s) : s[i].key = s[j].key => i = j

GuardExact == Guards(visited, stack)

(***************************************************************************)
(* The recursion guard stops every infinite recursion before the C++ stack  *)
(* overflows (it does not; see the README).                                 *)
(***************************************************************************)
NeverOverflows == pc # "crashed"

================================================================================
