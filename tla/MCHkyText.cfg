CONSTANTS
    MaxInt = 131071
    MaxSize = 127
    MaxOff = 1023
    MaxTime = 32767
    IntWidth = 11
    PointerWidth = 6
    HaveInet6 = TRUE
    HaveUnix = TRUE
    SunPath = 4
    Points = {0, 1, 2, 3}
    Rooms = {0, 1, 2, 3, 4, 5, 7, 9, 12, 40}
    Lines <- MCLines
    Numbers <- MCNumbers
    Formats <- MCFormats
    Blobs <- MCBlobs
    Base64Texts <- MCBase64Texts
    Characters <- MCCharacters
    RawTexts <- MCRawTexts
    Behinds <- MCBehinds
    Plains <- MCPlains
    Quoteds <- MCQuoteds
    Names <- MCNames
    Haystacks <- MCHaystacks
    Needles <- MCNeedles
    NameLists <- MCNameLists
    InetTexts <- MCInetTexts
    Inets <- MCInets
    Inet6Texts <- MCInet6Texts
    Inet6s <- MCInet6s
    Urls <- MCUrls
    Answers <- MCAnswers
    Days <- MCDays
    Titles <- MCTitles
    Options <- MCOptions
    Inherits <- MCInherits
    Paths <- MCPaths
    ZoneSizes <- MCZoneSizes
    PageSize = 16
    Slots = 2
    PoolHeader = 9
    PageHeader = 3
    StatSize = 4
SPECIFICATION Spec
INVARIANTS NumbersRight FormatBounded CodecsInvert OrdersSound AddressesRight DatesRight SetUpRight
CHECK_DEADLOCK FALSE
