SPECIFICATION Spec
CONSTANTS
    ip1 = ip1
    eth = eth
    ip2 = ip2
    String = String
    Ip = {ip1, ip2}
    Interface = {eth}
    GetIp <- MCGetIp
    StartLists <- MCStartLists
    Answers <- MCAnswers
    Chunks = 2
    MaxAge = 2
    Interval = 6
    MaxCasts = 2
    MaxStarts = 2
    MaxFaults = 1
INVARIANTS
    OneStream
PROPERTIES
    RetryDelivers
    
CHECK_DEADLOCK FALSE
