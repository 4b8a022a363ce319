SPECIFICATION Spec
CONSTANTS
    EventQueueSize <- MCEventQueueSize
    MaxAttempts <- MCMaxAttempts
    InitialBackoff <- MCInitialBackoff
    MaxBackoff <- MCMaxBackoff
PROPERTIES
    WifiLossEndsSession
