CONSTANTS
    Char <- MCChar
    Separators <- MCSeparators
    Names <- MCSetNames
    Namespaces <- MCNamespaces
    OriginalName = FALSE
    MaxLoads = 3
SPECIFICATION Spec
INVARIANT PrefixIsCommon
CHECK_DEADLOCK FALSE
