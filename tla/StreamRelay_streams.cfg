SPECIFICATION StreamSpec
CONSTANTS
    Modes <- MCModes
    Chunks <- MCChunks
INVARIANTS
    ClientCanFollow
    AnswerIsWhole
    StoredIsSent
    UsageLogged
PROPERTIES
    LoggedLast
    Ends
CHECK_DEADLOCK FALSE
