\* Two tabs of one user in one conversation, both providers, a failing query and a
\* crash.
CONSTANTS
    alice = alice
    bob = bob
    c1 = c1
    c2 = c2
    r1 = r1
    r2 = r2
    r3 = r3
    openai = openai
    azure = azure
    Users = {alice, bob}
    Conversations = {c1}
    Requests = {r1, r2}
    Providers = {openai, azure}
    HistoryLimit = 2
    UserOf <- OneUser
    Registry <- MCRegistry
    ToolProviders = {openai}
    PromptLimit = 2
    MaxToolCalls = 1
    MaxFaults = 1
    MaxCrashes = 1
SPECIFICATION FairSpec
INVARIANTS
    QuestionReachesProviders
    AnswersFollowTheirQuestion
    OneRowPerAnswer
    ReplyAgreesWithStore
PROPERTIES
    NothingAfterTheReply
    ImplementsContract
    EveryRequestEnds
CHECK_DEADLOCK FALSE
