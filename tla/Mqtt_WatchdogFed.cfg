SPECIFICATION Spec
CONSTANTS
    InitialBackoff <- MCInitialBackoff
    MaxBackoff <- MCMaxBackoff
INVARIANTS
    WatchdogFed
