\* Requests while two peers, one of which reports the other, come and go.
CONSTANTS
    a = a
    b = b
    c = c
    one = one
    two = two
    Host <- TwoPeers
    NoHost <- MCNoHost
    Link <- ChainLinks
    SegmentLinks <- OfEachLink
    Self = a
    Value = {one, two}
SPECIFICATION ServerSpec
SYMMETRY ValueSymmetry
INVARIANTS ServerTypeOK MissingEndsAreNewcomers ReportedLinksUntorn
