------------------------------ MODULE MCServer ------------------------------
(* Small instances of Server for TLC: a daemon "a" and its peers.          *)
EXTENDS Server, TLC

CONSTANTS a, b, c, one, two

MCNoHost == "no host"

TwoPeers == {a, b, c}

(* A chain: the daemon hears b, and b reports c.  Each link is a segment,  *)
(* as if one more host, which nothing happens to, were on both.            *)
ChainLinks == {[src |-> a, dst |-> b], [src |-> b, dst |-> c]}
OfEachLink == {{l} : l \in ChainLinks}

(* The daemon hears both on one interface: a segment of three hosts.       *)
HeardLinks == {[src |-> a, dst |-> b], [src |-> a, dst |-> c]}
OfHeard == {HeardLinks}

ValueSymmetry == Permutations({one, two})
=============================================================================
