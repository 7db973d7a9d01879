SPECIFICATION DaemonSpec
CONSTANTS
    v1 = v1
    v2 = v2
    v3 = v3
    k0 = k0
    k1 = k1
    k2 = k2
    k3 = k3
    h1 = h1
    h2 = h2
    x1 = x1
    x2 = x2
    y1 = y1
    u1 = u1
    u2 = u2
    u3 = u3
    NoPeer = NoPeer
    NoName = NoName
    NoPk = NoPk
    Default = Default
    Vk <- TwoVk
    Pk <- MCPk
    OurPk = k0
    Host <- TwoHost
    Addr <- MCAddr
    Subnet <- MCSubnet
    VulaUla <- NetUla
    Ula <- NetUla
    LinkLocal = {}
    Domain <- TwoDomain
    DefaultPrefs <- DefPrefs
    Descs <- RivalDescs
    SysStates <- NetsAndGateway
    UserAddrs = {}
    EditFields = {"enabled"}
    PrefFields = {}
    SaveFaults = TRUE
    Commands = {"remove", "repair"}
    MaxEvents = 2
    MaxChanges = 2
    MaxCrashes = 1
CHECK_DEADLOCK FALSE
INVARIANTS
    DaemonTypeOK
    RepairRestores
