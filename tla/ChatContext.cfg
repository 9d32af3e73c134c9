\* A prompt limit below the configured history limit, as in the code.
CONSTANTS
    alice = alice
    bob = bob
    c1 = c1
    c2 = c2
    r1 = r1
    r2 = r2
    r3 = r3
    openai = openai
    azure = azure
    Users = {alice, bob}
    Conversations = {c1, c2}
    Requests = {r1, r2}
    Providers = {openai, azure}
    HistoryLimit = 2
    UserOf <- OneUser
    Registry <- MCRegistry
    ToolProviders = {openai}
    PromptLimit = 1
    MaxToolCalls = 1
    MaxFaults = 0
    MaxCrashes = 0
SPECIFICATION Spec
INVARIANTS
    ContextIsConfigured
SYMMETRY Symmetric
CHECK_DEADLOCK FALSE
