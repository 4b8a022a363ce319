SPECIFICATION PresenceSpec
CONSTANTS
    InitialBackoff <- MCInitialBackoff
    MaxBackoff <- MCMaxBackoff
    MaxUplink <- MCMaxUplink
INVARIANTS
    PresenceTypeOK
    OneRetryPerDrop
    StrandedOnlyByStartRace
    FlagFollowsClient
    ResetLostOnlyByRace
    BirthOutlivesWill
PROPERTIES
    ParkedRetried
    ImplementsBrokerRetry
    VanishedShownOffline
    StableShownOnline
