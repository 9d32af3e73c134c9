\* Metadata that cannot be parsed, and is null in the answer.
CONSTANTS
    MessagePageSize = 2
    MetadataIsText = FALSE
    MaxId = 4
SPECIFICATION MessagePagesSpec
INVARIANTS
    PageIsServed
CHECK_DEADLOCK FALSE
