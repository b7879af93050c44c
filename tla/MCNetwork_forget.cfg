\* A chain of three hosts, the last of which comes and goes.
CONSTANTS
    a = a
    b = b
    c = c
    d = d
    left = left
    right = right
    Host <- Chain3Hosts
    NoHost <- MCNoHost
    Iface = {left, right, ""}
    NoIface <- MCNoIface
    Name <- Chain3Hosts
    Ident <- MCIdent
    NoIdent <- MCNone
    Pfx = {"none"}
    NoPfx <- MCNone
    Timeout = 0
    Attached <- Chain3
    Hostname <- MCHostname
    DetailsAt <- MCDetailsAt
    Gossips = {a, b}
    MayCrash = {c}
    MaxInFlight = 1
SPECIFICATION FairSpec
INVARIANTS TypeOK StoresWellFormed
PROPERTIES DownHostsForgotten DaemonsImplementMembership DownHostsFade
