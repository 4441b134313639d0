SPECIFICATION FeaturesSpec
CONSTANTS
    MaxCalls = 3
    MaxSessions = 1
    MaxFiles = 2
    Blocks = 2
    UpMaxFiles = 2
    UpBlocks = 2
    Impls = {"hide", "exclude"}
    MaxCommands = 2
    WireNames <- MCWireNames
    MaxPuts = 2
INVARIANTS
    FeaturesTypeOK
    MicrophoneFollowsCall
    PageAndSessionAgree
    ReceivedIsWhole
    SentIsWhole
    
    NeverStranded
    FarewellIsFinal
    ReleasedOnLeave
    ReadsWhatWasWritten
CHECK_DEADLOCK FALSE
