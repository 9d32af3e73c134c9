\* Two users, two conversations, two questions.
CONSTANTS
    Users = {alice, bob}
    Conversations = {c1, c2}
    MaxQuestions = 2
    MaxLoads = 2
SPECIFICATION FairSpec
INVARIANTS
    ShownOnce
    PaneShowsConversation
PROPERTIES
    LoadingEnds
CHECK_DEADLOCK FALSE
