\* A chain of four hosts that report their neighbours.
CONSTANTS
    a = a
    b = b
    c = c
    d = d
    left = left
    right = right
    Host <- Chain4Hosts
    NoHost <- MCNoHost
    Iface = {left, right, ""}
    NoIface <- MCNoIface
    Name <- Chain4Hosts
    Ident <- MCIdent
    NoIdent <- MCNone
    Pfx = {"none"}
    NoPfx <- MCNone
    Timeout = 1
    Attached <- Chain4
    Hostname <- MCHostname
    DetailsAt <- MCDetailsAt
    Gossips = {a, b, c, d}
    MayCrash = {}
    MaxInFlight = 1
SPECIFICATION Spec
CONSTRAINT ClockStopped
INVARIANTS EdgesAreLinks KnowledgeStopsAtTwoLinks
