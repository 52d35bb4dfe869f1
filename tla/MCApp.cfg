CONSTANTS
    Docs <- MCDocs
    Decodable <- MCDecodable
    BufferSize = 1
    MaxDocs = 3
    Char <- MCChar
    Separators <- MCSeparators
    Names <- MCNames
    Namespaces <- MCNamespaces
    OriginalName = FALSE
    MaxLoads = 6
    Object <- MCObject
    Deployments <- MCDeployments
    Faulty <- MCFaulty
    DeploymentFile <- MCDeploymentFile
    Entry <- MCEntry
    Requests <- MCRequests
    MaxGone = 1
    StdinStreams <- MCStdinStreams
    Contents <- MCContents
SPECIFICATION Spec
INVARIANTS
    TypeOK
    OutputComplete
    RenderedWithFinalMetadata
    FilenamesMatchTemplates
    AllOrNothing
PROPERTIES
    EndsUnlessInputHangs
    SignalEnds
    ImplementsConversion
CHECK_DEADLOCK FALSE
