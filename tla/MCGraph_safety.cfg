\* Two peers that send from one interface, whose addresses change, and report each
\* other's links on another.
CONSTANTS
    a = a
    b = b
    c = c
    eth = eth
    ib = ib
    one = one
    two = two
    Host <- TwoPeers
    NoHost <- MCNoHost
    NoIface <- MCNoIface
    Iface = {eth, ib, ""}
    Name = {one}
    Ident = {one, two}
    NoIdent = one
    Pfx = {one}
    NoPfx = one
    Timeout = 0
    Self = a
    LocalIfaces <- OwnIfaces
    RecvIface = {eth}
    PeerIface = {ib}
SPECIFICATION Spec
SYMMETRY PeerSymmetry
INVARIANTS TypeOK EdgeEndsKnown EdgeProvenanceKnown
PROPERTIES TopologyChangesFlagged ImplementsMembership
