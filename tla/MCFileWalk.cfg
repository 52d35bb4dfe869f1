CONSTANTS
    Entry <- MCEntry
    Requests <- MCRequests
    MaxGone = 2
SPECIFICATION Spec
INVARIANTS
    TypeOK
    NoFileLostQuietly
    StreamsAreFiles
    HandedAsAsked
    PanicsOnlyUnopened
PROPERTY
    WalkEnds
CHECK_DEADLOCK FALSE
