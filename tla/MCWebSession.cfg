SPECIFICATION FairWebSpec
CONSTANTS
    Codecs <- MCCodecs
    MaxFrames = 2
    MaxChanges = 2
INVARIANTS
    WebTypeOK
    
    LoginIsTrusted
    DecodersAgree
    EveryPictureAcknowledged
PROPERTIES
    
    Settles
CHECK_DEADLOCK FALSE
