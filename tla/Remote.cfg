SPECIFICATION Spec
CONSTANTS
    Setups <- MCSetups
    QueueCap = 1
CHECK_DEADLOCK FALSE
INVARIANTS ServerMeant KeysTold ShowsNewest
PROPERTIES HostsKept SessionsReturn
