CONSTANTS
    Inputs <- OneObject
    TemplateFiles <- FilesOfOne
    CueFiles <- FilesOfOne
    Camel <- MCCamel
    Dashless <- MCDashless
    Identifiers <- MCIdentifiers
    Faults = {"write"}
    MaxRuns = 1
SPECIFICATION Spec
INVARIANT SkeletonComplete
CHECK_DEADLOCK FALSE
