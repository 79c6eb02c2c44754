\* Two calls in a row, over all the literals.
SPECIFICATION Spec
CONSTANTS
    Universe <- MCUniverse
    Literals <- MCLiterals
    Interp <- MCInterp
    MaxCalls = 2
INVARIANTS TypeOK BindingsAcyclic SolutionsPreserved MostGeneral NulloptIsRight ResolvedAlike
PROPERTIES BindingsOnlyGrow AgreesWithRecursion
CHECK_DEADLOCK FALSE
