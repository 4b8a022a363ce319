SPECIFICATION SessionSpec
CONSTANTS
    Urls = {urlA, urlB}
    NoUrl = noUrl
    CommandUrls = {urlA, noUrl}
    StoredUrls = {urlB, noUrl}
    ImageSize <- MCImageSize
    MaxQueue <- MCMaxQueue
INVARIANTS
    SessionTypeOK
    RunsWhatWasAccepted
    BootSlotComplete
    ErrorMeansIdle
PROPERTIES
    RestartsIntoUpdate
    NothingLost
    AcceptedIsRun
    ImplementsUpdate
    QueueDrains
