\* Four programs: ground queries, open queries, evaluations that may not end, lists.
SPECIFICATION ScenarioSpec
CONSTANTS
    FactInputs <- AllFacts
    RuleInputs <- AllRules
    QueryInputs <- AllQueries
    MaxFacts = 3
    MaxRules = 3
    MaxQueries = 2
    MaxDepth = 20
    NoBindingSet <- NoBindings
    Unify <- UnifyLiterals
    KeyOf <- GoalKey
    Rename <- RenameVariables
    Advance <- NewNames
    Answer <- AnswerFrom
    LiteralVars <- VarsIn
    BindingVars <- BoundVars
    Substituted <- Substitute
    Individuals <- MCIndividuals
INVARIANTS TypeOK GuardExact GraphAnswersSound GraphAnswersComplete RenamedApart CutsOnlyRepeats ListAnswersRight
PROPERTY QueriesReturnHere
CHECK_DEADLOCK FALSE
