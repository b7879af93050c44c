\* A wired and a wireless link of the daemon, two more of its neighbours.
CONSTANTS
    a = a
    b = b
    c = c
    d = d
    e = e
    Host <- MCHost
    NoHost <- MCNoHost
    Iface = {0, 1, 2, 3, 4}
    NoIface = 0
    Name <- MCHost
    Ident = {0, 1000}
    NoIdent = 0
    Pfx <- MCPfx
    NoPfx <- MCNone
    Timeout = 0
    Self = a
    Attached <- Campus
    Hostname <- MCHostname
    DetailsAt <- CampusDetails
    Wifi = {4}
    MidPacket = FALSE
SPECIFICATION Spec
SYMMETRY CampusSymmetry
INVARIANTS SegmentsTypeOK LocalLinksShown MembersHaveEdges MembersShareLink SegmentsApart OneSegmentPerInterface AnsweredLinksShown HiddenLinksAreOfSegments LinesEndAtInterfaces SegmentPortsOnLink ProcessedLinksAreOfSegments DrawnLinksArePeerNetworks
