SPECIFICATION SessionSpec
CONSTANTS
    Urls = {urlA, urlB}
    NoUrl = noUrl
    CommandUrls = {urlA, noUrl}
    StoredUrls = {urlB, noUrl}
    ImageSize <- MCImageSize
    MaxQueue <- MCMaxQueue
PROPERTY CommandsGetThrough
