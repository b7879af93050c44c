\* A packet arrives during an export.
CONSTANTS
    a = a
    b = b
    eth = eth
    ib = ib
    one = one
    two = two
    Host <- OnePeer
    NoHost <- MCNoHost
    Iface = {eth, ib, ""}
    NoIface = ""
    Name = {one}
    Ident = {one, two}
    NoIdent = one
    Pfx = {one}
    NoPfx = one
    Timeout = 0
    Self = a
    LocalIfaces <- OwnIfaces
    RecvIface = {eth}
    PeerIface = {eth}
    ShowSegments = TRUE
SPECIFICATION ExporterSpec
INVARIANTS UnflaggedStoreIsExported
