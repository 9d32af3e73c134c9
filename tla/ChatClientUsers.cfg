\* Two users of one tab, one question.
CONSTANTS
    Users = {alice, bob}
    Conversations = {c1, c2}
    MaxQuestions = 1
    MaxLoads = 2
SPECIFICATION Spec
INVARIANTS
    PaneIsOwn
CHECK_DEADLOCK FALSE
