\* A packet arrives while an answer is written.
CONSTANTS
    a = a
    b = b
    c = c
    one = one
    two = two
    Host <- TwoPeers
    NoHost <- MCNoHost
    Link <- HeardLinks
    SegmentLinks <- OfHeard
    Self = a
    Value = {one, two}
SPECIFICATION ServerSpec
SYMMETRY ValueSymmetry
INVARIANTS AnswersUntorn
