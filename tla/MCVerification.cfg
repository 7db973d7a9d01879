SPECIFICATION VSpec
CONSTANTS
    v1 = v1
    v2 = v2
    v3 = v3
    k0 = k0
    k1 = k1
    k2 = k2
    k3 = k3
    h1 = h1
    x1 = x1
    x2 = x2
    x3 = x3
    u1 = u1
    u2 = u2
    u3 = u3
    NoPeer = NoPeer
    NoName = NoName
    NoKeys = NoKeys
    Absent = Absent
    Unreadable = Unreadable
    Garbled = Garbled
    Nothing = Nothing
    Idle = Idle
    Vk <- MCVk
    Pk <- MCPk
    OurPk = k0
    Host = {h1}
    Addr <- MCAddr
    Subnet <- MCSubnet
    VulaUla <- NetUla
    Ula <- NetUla
    Domain <- MCDomain
    Descs <- MCDescs
    DefaultPrefs <- DefPrefs
    SysStates <- MCSysStates
    UserAddrs = {}
    EditFields = {"pinned"}
    PrefFields = {}
    SaveFaults = TRUE
    Identity <- MCIdentity
    Others = {v3}
    MaxCrashes = 2
    MaxCommands = 2
INVARIANTS
    OneIdentity
    

    
CHECK_DEADLOCK FALSE
