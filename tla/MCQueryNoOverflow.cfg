\* The guard against infinite recursion, on a left-recursive rule.
SPECIFICATION Spec
CONSTANTS
    FactInputs <- CyclicFacts
    RuleInputs <- DivergingRules
    QueryInputs <- DivergingQueries
    MaxFacts = 1
    MaxRules = 1
    MaxQueries = 1
    MaxDepth = 9
    NoBindingSet <- NoBindings
    Unify <- UnifyLiterals
    KeyOf <- GoalKey
    Rename <- RenameVariables
    Advance <- NewNames
    Answer <- AnswerFrom
    LiteralVars <- VarsIn
    BindingVars <- BoundVars
    Substituted <- Substitute
    Individuals <- MCIndividuals
INVARIANT NeverOverflows
CHECK_DEADLOCK FALSE
