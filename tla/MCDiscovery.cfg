SPECIFICATION Spec
CONSTANTS
    k0 = k0
    k1 = k1
    w0 = w0
    w1 = w1
    Invalid = Invalid
    None = None
    NoCall = NoCall
    Nobody = Nobody
    OurKey <- MCOurKey
    OurPk <- MCOurPk
    PrimaryIp <- MCPrimary
    Allowed <- MCAllowed
    V4Enabled = TRUE
    V6Enabled = TRUE
    Interfaces <- MCInterfaces
    Iface = {"eth", "wlan"}
    Name = {"n1"}
    Announcements <- MCAnnouncements
    MaxWork = 1
    MaxAnnounce = 1
INVARIANTS
    AcceptedAsAnnounced
    
PROPERTIES
    CallsReturn
    AnnouncementsArrive
CHECK_DEADLOCK FALSE
