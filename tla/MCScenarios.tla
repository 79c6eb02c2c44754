------------------------------ MODULE MCScenarios ------------------------------
(***************************************************************************)
(* The programs of MCQuery and MCLists side by side: each behaviour is      *)
(* about one of them, whose clauses are added in any order and whose        *)
(* queries are asked at any moment.                                        *)
(***************************************************************************)
EXTENDS MCLists

VARIABLE scenario   \* the program that a behaviour is about

Program(factInputs, ruleInputs, queryInputs, maxFacts, maxRules, maxQueries) ==
    [factInputs |-> factInputs, ruleInputs |-> ruleInputs, queryInputs |-> queryInputs,
     maxFacts |-> maxFacts, maxRules |-> maxRules, maxQueries |-> maxQueries]

Programs ==
    [ground    |-> Program(CyclicFacts, GroundRules, GroundQueries, 2, 3, 1),
     open      |-> Program(AcyclicFacts, OpenRules, OpenQueries, 3, 2, 1),
     diverging |-> Program(CyclicFacts, DivergingRules, DivergingQueries, 2, 2, 2),
     lists     |-> Program(ListFacts, ListRules, ListQueries, 2, 2, 2)]

Scenarios == DOMAIN Programs

AllFacts == UNION {Programs[s].factInputs : s \in Scenarios}
AllRules == UNION {Programs[s].ruleInputs : s \in Scenarios}
AllQueries == UNION {Programs[s].queryInputs : s \in Scenarios}

Within(program) ==
    /\ ToSet(facts) \subseteq program.factInputs /\ Len(facts) <= program.maxFacts
    /\ ToSet(rules) \subseteq program.ruleInputs /\ Len(rules) <= program.maxRules
    /\ ToSet(asked) \subseteq program.queryInputs /\ queries <= program.maxQueries

ScenarioInit == Init /\ scenario \in Scenarios

ScenarioSpec ==
    /\ ScenarioInit
    /\ [][UNCHANGED scenario /\ Next /\ Within(Programs[scenario])']_<<vars, scenario>>
    /\ Fairness

(***************************************************************************)
(* Over graphs every answer follows from the clauses, also where other      *)
(* queries overflow the C++ stack.                                         *)
(***************************************************************************)
GraphAnswersSound == scenario # "lists" => Sound

(***************************************************************************)
(* Ground queries over cyclic graphs, and queries with variables over       *)
(* acyclic ones, are answered completely.                                  *)
(***************************************************************************)
GraphAnswersComplete == scenario \in {"ground", "open"} => Complete

(***************************************************************************)
(* Every query returns to its caller, unless a rule recurses through its    *)
(* first goal.                                                             *)
(***************************************************************************)
QueriesReturnHere ==
    (pc = "goal" /\ scenario # "diverging") ~> pc = "client"

==============================================================================
