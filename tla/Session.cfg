SPECIFICATION MCSpec
CONSTANTS
    Kinds <- AllInput
    LineCap = 1
    inQueueLimit = 1
    OnExits = {TRUE, FALSE}
    MaxKeys = 2
    MaxLines = 3
    MaxPosts = 1
    MaxCtl = 2
INVARIANTS KeysOrdered EofOnlyIfAsked
PROPERTIES StopsWhenTold LinesDrain
CHECK_DEADLOCK FALSE
