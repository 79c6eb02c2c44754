\* Queries over a cycle, some of which overflow the stack, in worlds where more or less is true.
SPECIFICATION Spec
CONSTANTS
    FactInputs <- RoundFacts
    RuleInputs <- RoundRules
    QueryInputs <- ConsequenceQueries
    MaxFacts = 2
    MaxRules = 2
    MaxQueries = 1
    MaxDepth = 8
    NoBindingSet <- NoBindings
    Unify <- UnifyLiterals
    KeyOf <- GoalKey
    Rename <- RenameVariables
    Advance <- NewNames
    Answer <- AnswerFrom
    LiteralVars <- VarsIn
    BindingVars <- BoundVars
    Substituted <- Substitute
    Individuals <- MCIndividuals
    Worlds <- MCWorlds
    Holds <- MCHolds
    Solves <- MCSolves
    RuleTrue <- MCRuleTrue
    Valuations <- MCValuations
    Value <- ValueOf
    Meaning <- MeaningOf
    SolvedBy <- SolvedUnder
    Reaches <- ReachesHere
    Derivations <- MCDerivations
INVARIANTS ResultsFollow ResultsComplete
PROPERTY ImplementsDatabase
CHECK_DEADLOCK FALSE
