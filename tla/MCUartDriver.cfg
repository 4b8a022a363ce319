SPECIFICATION Spec
CONSTANTS
    QueueSize <- MCQueueSize
    RingSize <- MCRingSize
INVARIANTS
    UartTypeOK
    TaskHasDriver
    NothingLeftBehind
PROPERTIES
    AnnouncedIsRead
