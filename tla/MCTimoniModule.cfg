CONSTANTS
    Inputs <- MCInputs
    TemplateFiles <- MCTemplateFiles
    CueFiles <- MCTemplateFiles
    Camel <- MCCamel
    Dashless <- MCDashless
    Identifiers <- MCIdentifiers
    Faults = {"write", "vendor", "stat", "merge", "crash"}
    MaxRuns = 3
SPECIFICATION Spec
INVARIANTS
    TypeOK
    ConfigNotAhead
    InstanceIsRun
    VendorFailureEndsRun
PROPERTIES
    TimoniCueKept
    ImplementsPublication
CHECK_DEADLOCK FALSE
