\* The bounds of each part.
CONSTANTS
    \* Notifications, with the limiter
    Users = {alice}
    Window = 2
    Max = 1
    Second = 1
    PruneAbove = 1
    MaxTime = 2
    MaxCount = 3
    Calls = {k1, k2}
    NoCall = NoCall
    \* Monitoring
    SeriesSets <- MCSeriesSets
    Limit = 1
    Null = Null
    MaxRefreshes = 2
    \* Schema
    Processes = {p1, p2, p3}
    MaxLosses = 1
    \* Accounts
    Tabs = {t1, t2}
    Emails = {e1, e2}
    Passwords = {pw}
    MaxSubmits = 2
    MaxBoots = 1
    MaxLost = 1
    \* Configuration
    Unset = Unset
    Blank = Blank
    Word = Word
    Origins = {"local", "*", "mine"}
    AnyOrigin = "*"
    NoOrigin = ""
    \* Versions
    Starts = {"s1"}
    Release = "r"
    NoRun = "none"
    Contents = {1, 2}
    MaxEdits = 2
    MaxFaults = 1
    Attempts = 2
    \* BrowserSession
    Windows = {"a", "b"}
    MaxReleases = 2
    MaxOpens = 2
    \* ConversationList
    Chats = {1, 2, 3}
    ListPage = 1
    LastSecond = 2
    MaxLoads = 3
    NoRetry = NoRetry
    \* MessageHistory
    LastRow = 4
    HistoryPage = 1
    Questions = {1, 3}
    MaxLoadings = 3
    MaxAsked = 1
    NothingFailed = NothingFailed
    \* Chunking
    MaxLength = 5
    MaxChunkSize = 4
SPECIFICATION PartsSpec
VIEW PartsView
INVARIANTS
    TabTellsTheTruth
    GatewayIsSpared
    StartsDoNotClash
    OneAccountPerAddress
    ActsAsShownUser
    StartedIsSound
    VersionsTellSourcesApart
    MapsAreFound
    ReloadsOncePerVersion
    ListIsWhole
    HistoryIsWhole
    TextIsCovered
PROPERTIES
    FailedIsNotANumber
CHECK_DEADLOCK FALSE
