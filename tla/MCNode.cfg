SPECIFICATION Spec
CONSTANTS
    EventQueueSize <- MCEventQueueSize
    MaxAttempts <- MCMaxAttempts
    InitialBackoff <- MCInitialBackoff
    MaxBackoff <- MCMaxBackoff
INVARIANTS
    TypeOK
    FalseRunningOnlyByFailedBirth
PROPERTIES
    StableNetworkReconnects
    FlaggedSessionDropped
    ImplementsNodeSession
