\* A few literals that share variables, and two calls in a row.
SPECIFICATION Spec
CONSTANTS
    Universe <- MCUniverse
    Literals <- FewLiterals
    Interp <- MCInterp
    MaxCalls = 2
PROPERTIES ImplementsStore CallsReturn
CHECK_DEADLOCK FALSE
