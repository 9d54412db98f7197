\* Four tokens, batches of two, a buffer of two lines, two changes by the user.
CONSTANTS
    Kinds = {a}
    Blank = blank
    BatchSize = 2
    BufferSize = 2
    MaxPartial = 1
    CommitChunk = 1
    MaxTokens = 4
    MaxChanges = 2
SPECIFICATION FairTextSpec
\* The log ends and the user rests.
CHECK_DEADLOCK FALSE
INVARIANTS
    TextTypeOK
    TextKeptInOrder
    ViewShowsBuffer
PROPERTIES
    EverythingArrives
