\* Three hosts on one link that report their neighbours.
CONSTANTS
    a = a
    b = b
    c = c
    d = d
    left = left
    right = right
    Host <- Chain3Hosts
    NoHost <- MCNoHost
    Iface = {left, right, ""}
    NoIface <- MCNoIface
    Name <- Chain3Hosts
    Ident <- MCIdent
    NoIdent <- MCNone
    Pfx = {"none"}
    NoPfx <- MCNone
    Timeout = 1
    Attached <- Lan3
    Hostname <- MCHostname
    DetailsAt <- MCDetailsAt
    Gossips = {a, b}
    MayCrash = {c}
    MaxInFlight = 1
SPECIFICATION FairSpec
PROPERTIES DownHostsForgotten
