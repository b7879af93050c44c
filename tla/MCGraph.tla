------------------------------ MODULE MCGraph -------------------------------
(* Small instances of Graph for TLC: a daemon "a" and its peers.           *)
EXTENDS Graph, TLC

CONSTANTS a, b, c, eth, ib, one, two

MCNoHost == "no host"
MCNoIface == ""

(* Two peers that reach each other and the daemon.                         *)
TwoPeers == {a, b, c}

(* The daemon's one interface, as it was at start.                         *)
OwnIfaces == [i \in {eth} |-> [ident |-> one, pfx |-> one]]

PeerSymmetry == Permutations({b, c})
=============================================================================
