CONSTANTS
    Runs <- MCRuns
    ObjectNames <- MCObjectNames
    PullSecrets = TRUE
    Label <- MCLabel
    Again <- MCAgain
    Quantity <- MCQuantity
    Expressions <- MCExpressions
SPECIFICATION Spec
INVARIANTS
    TypeOK
    ReferencesResolve
    ValuesHaveSchema
    
    RequiredHaveValues
    
    ImagesKept
    TextsKept
CHECK_DEADLOCK FALSE
