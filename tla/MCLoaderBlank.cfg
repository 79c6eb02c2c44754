\* A file with a blank line and CRLF ends of line.
SPECIFICATION LoaderSpec
CONSTANTS
    FactInputs <- WrittenFacts
    RuleInputs <- MCRules
    QueryInputs = {}
    MaxFacts = 4
    MaxRules = 4
    MaxQueries = 0
    MaxDepth = 0
    NoBindingSet <- NoBindings
    Unify <- UnifyLiterals
    KeyOf <- GoalKey
    Rename <- RenameVariables
    Advance <- NewNames
    Answer <- AnswerFrom
    Individuals = {}
    Words <- MCWords
    Uppercase <- MCUppercase
    Digits = {}
    ParseFact <- ParseText
    Files <- BlankFiles
    QueryTexts = {}
    MaxLoads = 1
PROPERTY BlankLinesSkipped
CHECK_DEADLOCK FALSE
