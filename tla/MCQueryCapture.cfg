\* A query variable named like a generated one.
SPECIFICATION Spec
CONSTANTS
    FactInputs <- AcyclicFacts
    RuleInputs <- OpenRules
    QueryInputs <- GeneratedNameQueries
    MaxFacts = 2
    MaxRules = 2
    MaxQueries = 1
    MaxDepth = 20
    NoBindingSet <- NoBindings
    Unify <- UnifyLiterals
    KeyOf <- GoalKey
    Rename <- RenameVariables
    Advance <- NewNames
    Answer <- AnswerFrom
    LiteralVars <- VarsIn
    BindingVars <- BoundVars
    Substituted <- Substitute
    Individuals <- MCIndividuals
INVARIANT RenamedApart
CHECK_DEADLOCK FALSE
