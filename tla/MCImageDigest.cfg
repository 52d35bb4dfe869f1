CONSTANTS
    Runs <- DigestRuns
    ObjectNames <- MCObjectNames
    PullSecrets = FALSE
    Label <- MCLabel
    Again <- MCAgain
    Quantity <- MCQuantity
    Expressions <- MCExpressions
SPECIFICATION Spec
INVARIANT DigestsKept
CHECK_DEADLOCK FALSE
