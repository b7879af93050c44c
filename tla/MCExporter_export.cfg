\* A peer heard on two interfaces comes and goes and changes its address while exports
\* run and fail.
CONSTANTS
    a = a
    b = b
    eth = eth
    ib = ib
    one = one
    two = two
    Host <- OnePeer
    NoHost <- MCNoHost
    Iface = {eth, ib, ""}
    NoIface = ""
    Name = {one}
    Ident = {one, two}
    NoIdent = one
    Pfx = {one}
    NoPfx = one
    Timeout = 0
    Self = a
    LocalIfaces <- OwnIfaces
    RecvIface = {eth, ib}
    PeerIface = {eth}
    ShowSegments = TRUE
SPECIFICATION LocalSpec
INVARIANTS ExporterTypeOK OnlyRacedChangesAreLost ExportedHostsStillKnown
PROPERTIES FlaggedChangesAreExported
