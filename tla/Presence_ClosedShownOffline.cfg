SPECIFICATION PresenceSpec
CONSTANTS
    InitialBackoff <- MCInitialBackoff
    MaxBackoff <- MCMaxBackoff
    MaxUplink <- MCMaxUplink
INVARIANTS
    ClosedShownOffline
