\* Clients of the text interface, sessions of the REPL and runs of simple_query.
SPECIFICATION ProgramsSpec
CONSTANTS
    FactInputs <- WrittenFacts
    RuleInputs <- MCRules
    QueryInputs <- Goals
    MaxFacts = 4
    MaxRules = 4
    MaxQueries = 2
    MaxDepth = 20
    NoBindingSet <- NoBindings
    Unify <- UnifyLiterals
    KeyOf <- GoalKey
    Rename <- RenameVariables
    Advance <- NewNames
    Answer <- AnswerFrom
    Individuals <- MCIndividuals
    Words <- MCWords
    Uppercase <- MCUppercase
    Digits = {}
    ParseFact <- ParseText
    Files <- AllFiles
    QueryTexts <- MCQueryTexts
    MaxLoads = 2
    Assertions <- MCAssertions
    RuleTexts <- MCRuleTexts
    MaxCommands = 2
INVARIANTS StoreIsWhatIsWritten AnswersWhatIsWritten PrintsTheTruth WholeFileRead
PROPERTY DrivesKnowledgeBase
CHECK_DEADLOCK FALSE
