CONSTANTS
    Inputs <- TwoDeployments
    TemplateFiles <- FilesOfDeployments
    CueFiles <- FilesOfDeployments
    Camel <- MCCamel
    Dashless <- MCDashless
    Identifiers <- MCIdentifiers
    Faults = {}
    MaxRuns = 1
SPECIFICATION Spec
INVARIANT ObjectsDefined
CHECK_DEADLOCK FALSE
