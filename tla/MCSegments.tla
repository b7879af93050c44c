----------------------------- MODULE MCSegments -----------------------------
(* Small instances of Segments for TLC: a daemon "a" and the hosts around  *)
(* it.                                                                     *)
EXTENDS Export

CONSTANTS a, b, c, d, e

MCNoHost == "no host"
MCHost == {a, b, c, d, e}
MCPfx == SUBSET {1, 2, 3, 4}
MCNone == {}
MCHostname == [h \in Host |-> h]

(* The daemon is on a wired link (1) and on WiFi (2).  A third link joins  *)
(* its neighbours, and a fourth reuses the interface name of the first.    *)
Campus ==
    {<<a, 1, 1>>, <<b, 2, 1>>, <<c, 2, 1>>}
    \cup ({a, b, c, d} \X {4} \X {2})
    \cup ({b, c, d} \X {3} \X {3})
    \cup ({d, e} \X {2} \X {4})

AttachedPorts == {<<at[1], at[2]>> : at \in Attached}

(* Each wired link has prefixes of its own; the speed of WiFi is unknown.  *)
CampusDetails ==
    [p \in AttachedPorts |->
        [ident |-> IF p[2] = 4 THEN 0 ELSE 1000,
         pfx |-> CASE p[2] = 1 -> {1, 2}
                   [] p[2] = 2 -> IF p[1] \in {d, e} THEN {4} ELSE {1, 2}
                   [] p[2] = 3 -> {3}
                   [] OTHER -> {}]]

CampusSymmetry == Permutations({b, c})

(* Three hosts on a link, two of them also on the daemon's link.           *)
Beyond == ({a, b, c} \X {1} \X {1}) \cup ({b, c, d} \X {3} \X {2})

(* What the theorems ask of the links.                                     *)
ASSUME LinksAssumption ==
    PortsOnOneLink /\ PrefixesOnOneLink /\ NamesOnOneLink /\ OnePortPerLink /\ SamePrefixes
=============================================================================
