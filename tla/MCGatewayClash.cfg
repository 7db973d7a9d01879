SPECIFICATION Spec
CONSTANTS
    v1 = v1
    v2 = v2
    v3 = v3
    k0 = k0
    k1 = k1
    k2 = k2
    k3 = k3
    h1 = h1
    h2 = h2
    x1 = x1
    x2 = x2
    y1 = y1
    u1 = u1
    u2 = u2
    u3 = u3
    NoPeer = NoPeer
    NoName = NoName
    Vk <- TwoVk
    Pk <- MCPk
    OurPk = k0
    Host <- TwoHost
    Addr <- MCAddr
    Subnet <- MCSubnet
    VulaUla <- NetUla
    Ula <- NetUla
    Domain <- TwoDomain
    Descs <- PlainDescs
    DefaultPrefs <- DefPrefs
    SysStates <- GatewaySysStates
    UserAddrs = {}
    EditFields = {}
    PrefFields = {}
    SaveFaults = FALSE
PROPERTIES
    GatewayClashIsExplained
