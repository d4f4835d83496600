SPECIFICATION FairSpec
CONSTANTS
    Readers = {r1, r2}
    inQueueLimit = 2
    MaxChunk = 2
    MaxBytes = 3
    MaxItems = 3
    MaxCmds = 2
INVARIANTS TypedKept InOrder ReplyOwn SizeIsQueued ReadersWake
PROPERTIES TypedIsRead
