SPECIFICATION Spec
CONSTANTS
    EventQueueSize <- MCEventQueueSize
    MaxAttempts <- MCMaxAttempts
INVARIANTS
    TypeOK
    ViewAfterDrain
    NoEventDropped
    NotRetryingMeansSpent
PROPERTIES
    BudgetSpentIsFinal
    DownLinkRetried
    ImplementsLinkRetry
