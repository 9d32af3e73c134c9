\* The bounds of each part.
CONSTANTS
    \* Lifecycle: every reason of a shutdown, three connections
    Clients = {c1, c2, c3}
    Signals = {"SIGTERM", "SIGINT"}
    Errors = {"uncaughtException", "unhandledRejection"}
    \* RateLimit: two requests per window of three ticks; a second is two ticks
    Users = {alice, bob}
    Window = 3
    Max = 2
    Second = 2
    PruneAbove = 1
    MaxTime = 6
    MaxCount = 4
    \* ConversationPages: two to a page, three seconds
    ConversationIds = {1, 2, 3, 4}
    ConversationPageSize = 2
    LastTime = 3
    \* MessagePages: six rows, two to a page
    MessagePageSize = 2
    MetadataIsText = TRUE
    MaxId = 6
SPECIFICATION ServerSpec
INVARIANTS
    PoolOutlivesRequests
    ExitCodeIsTrue
    BurstIsBounded
    ListedOnce
    QuietIsListed
    GivenOnce
    NothingLeftOut
PROPERTIES
    ReadyIsStillTrue
    RetryAfterIsHonest
    ScrollingEnds
    ShutdownEnds
CHECK_DEADLOCK FALSE
