SPECIFICATION FSpec
CONSTANTS
    v1 = v1
    v2 = v2
    k0 = k0
    k1 = k1
    k2 = k2
    h1 = h1
    h2 = h2
    x1 = x1
    x2 = x2
    u1 = u1
    u2 = u2
    NoPeer = NoPeer
    NoName = NoName
    Unnamed = Unnamed
    Joined = Joined
    Closed = Closed
    Vk <- MCVk
    Pk <- MCPk
    OurPk = k0
    Host = {h1, h2}
    Addr <- MCAddr
    Subnet <- MCSubnet
    VulaUla <- NetUla
    Ula <- NetUla
    Domain <- MCDomain
    Descs <- MCDescs
    DefaultPrefs <- DefPrefs
    SysStates <- MCSysStates
    UserAddrs = {x2}
    EditFields = {"nicknames", "petname", "enabled"}
    PrefFields = {"local_domains", "pin_new_peers"}
    SaveFaults = FALSE
    PerPage = 1
    MaxEvents = 3
    MaxClicks = 5
CHECK_DEADLOCK FALSE
INVARIANTS
    NicknamesHoldHostname
PROPERTIES
    HiddenNameStaysHidden
    ClickActsOnShown
    SaveKeepsChanges
    WindowCatchesUp
