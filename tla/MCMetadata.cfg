CONSTANTS
    Char <- MCChar
    Separators <- MCSeparators
    Names <- MCNames
    Namespaces <- MCNamespaces
    OriginalName = FALSE
    MaxLoads = 3
SPECIFICATION Spec
INVARIANTS
    TypeOK
    PrefixExactWhenShared
    TrimKeepsNamesApart
    NamespaceIsLastNamed
    NoEmptyRendering
PROPERTIES
    PrefixOnlyShrinks
CHECK_DEADLOCK FALSE
