\* A link beyond the daemon's, reported by the two hosts on both.
CONSTANTS
    a = a
    b = b
    c = c
    d = d
    e = e
    Host <- MCHost
    NoHost <- MCNoHost
    Iface = {0, 1, 2, 3, 4}
    NoIface = 0
    Name <- MCHost
    Ident = {0, 1000}
    NoIdent = 0
    Pfx <- MCPfx
    NoPfx <- MCNone
    Timeout = 0
    Self = a
    Attached <- Beyond
    Hostname <- MCHostname
    DetailsAt <- CampusDetails
    Wifi = {4}
    MidPacket = TRUE
SPECIFICATION Spec
INVARIANTS RemoteLinksShown
