\* A fact with a variable, used twice in a derivation.
SPECIFICATION Spec
CONSTANTS
    FactInputs <- UniversalFacts
    RuleInputs <- TwiceRules
    QueryInputs <- TwiceQueries
    MaxFacts = 2
    MaxRules = 1
    MaxQueries = 1
    MaxDepth = 12
    NoBindingSet <- NoBindings
    Unify <- UnifyLiterals
    KeyOf <- GoalKey
    Rename <- RenameVariables
    Advance <- NewNames
    Answer <- AnswerFrom
    LiteralVars <- VarsIn
    BindingVars <- BoundVars
    Substituted <- Substitute
    Individuals <- MCIndividuals
INVARIANT Complete
CHECK_DEADLOCK FALSE
