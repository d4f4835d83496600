SPECIFICATION FairSpec
CONSTANTS
    Kinds <- NoInput
    LineCap = 2
    inQueueLimit = 1
    OnExits = {FALSE}
    MaxKeys = 0
    MaxLines = 4
    MaxPosts = 0
    MaxCtl = 0
PROPERTIES CallbackReturns
CHECK_DEADLOCK FALSE
