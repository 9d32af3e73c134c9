\* Two requests of one user and one of another, which can name any conversation.
CONSTANTS
    alice = alice
    bob = bob
    c1 = c1
    c2 = c2
    r1 = r1
    r2 = r2
    r3 = r3
    openai = openai
    azure = azure
    Users = {alice, bob}
    Conversations = {c1, c2}
    Requests = {r1, r2, r3}
    Providers = {openai, azure}
    HistoryLimit = 2
    UserOf <- MCUserOf
    Registry <- MCRegistry
    ToolProviders = {openai, azure}
    PromptLimit = 2
    MaxToolCalls = 0
    MaxFaults = 0
    MaxCrashes = 0
SPECIFICATION Spec
INVARIANTS
    ConversationsAreSeparate
    PromptIsOwnAndSuccessful
SYMMETRY Symmetric
CHECK_DEADLOCK FALSE
