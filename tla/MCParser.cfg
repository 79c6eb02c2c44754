\* Every input of up to MaxTokens tokens, in both modes.
SPECIFICATION Spec
CONSTANTS
    Words <- MCWords
    Uppercase = {"X"}
    Digits = {"1"}
    MaxTokens = 8
INVARIANTS TypeOK AcceptsRight RejectsRight PrintsBack AgreesWithFunction
PROPERTY ParsesEnd
