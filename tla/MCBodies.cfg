\* Every body of up to three short goals, and bodies of two with one mistake.
SPECIFICATION BodiesSpec
CONSTANTS
    FactInputs = {}
    RuleInputs = {}
    QueryInputs = {}
    MaxFacts = 1
    MaxRules = 1
    MaxQueries = 0
    MaxDepth = 0
    NoBindingSet <- NoBindings
    Unify <- UnifyLiterals
    KeyOf <- GoalKey
    Rename <- RenameVariables
    Advance <- NewNames
    Answer <- AnswerFrom
    Words <- MCWords
    Uppercase = {"X"}
    Digits = {}
    ParseFact <- ParseText
    Files <- BodyFiles
    QueryTexts = {}
    MaxGoal = 8
    MaxShort = 6
    MaxLoads = 1
INVARIANT GoalsAreWritten
PROPERTY BodiesKept
CHECK_DEADLOCK FALSE
