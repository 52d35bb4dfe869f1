CONSTANTS
    Docs <- MCDocs
    Decodable <- MCDecodable
    BufferSize = 1
    MaxDocs = 4
SPECIFICATION Spec
INVARIANTS
    TypeOK
    InOrderNoLoss
    CompleteUnlessStopped
PROPERTIES
    EndedStreamEnds
    StopEnds
    ImplementsObjectStream
CHECK_DEADLOCK FALSE
