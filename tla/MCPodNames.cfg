CONSTANTS
    Runs <- MCRuns
    ObjectNames <- MCObjectNames
    PullSecrets = FALSE
    Label <- MCLabel
    Again <- MCAgain
    Quantity <- MCQuantity
    Expressions <- MCExpressions
SPECIFICATION Spec
INVARIANT NamesFollowObjects
CHECK_DEADLOCK FALSE
