CONSTANTS
    Docs <- MCDocs
    Decodable <- MCDecodable
    BufferSize = 1
    MaxDocs = 1
    Char <- MCChar
    Separators <- MCSeparators
    Names <- MCNames
    Namespaces <- MCNamespaces
    OriginalName = FALSE
    MaxLoads = 6
    Object <- MCObject
    Deployments <- MCDeployments
    Faulty <- MCFaulty
    DeploymentFile <- MCDeploymentFile
    Entry <- MCEntry
    Requests <- MCRequests
    MaxGone = 0
    StdinStreams <- MCStdinStreams
    Contents <- MCContents
SPECIFICATION Spec
INVARIANT InterruptedWritesNothing
CHECK_DEADLOCK FALSE
