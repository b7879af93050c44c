----------------------------- MODULE MCNetwork ------------------------------
(* Small instances of Network for TLC.                                     *)
EXTENDS Network

CONSTANTS a, b, c, d, left, right

MCNoHost == "no host"
MCNoIface == ""
MCNone == "none"

(* A chain: each host shares one link with the next.                       *)
Chain3Hosts == {a, b, c}
Chain3 == {<<a, right, 1>>, <<b, left, 1>>, <<b, right, 2>>, <<c, left, 2>>}

Chain4Hosts == {a, b, c, d}
Chain4 == Chain3 \cup {<<c, right, 3>>, <<d, left, 3>>}

(* Three hosts on one link.                                                *)
Lan3 == {<<a, left, 1>>, <<b, left, 1>>, <<c, left, 1>>}

(* Every host has its own name and every interface its own address.        *)
MCHostname == [h \in Host |-> h]
MCIdent == (Host \X Iface) \cup {MCNone}
MCDetailsAt == [hi \in Host \X Iface |-> [ident |-> hi, pfx |-> MCNone]]

(* Runs about what is reported to whom stop the clock: nothing ages.       *)
ClockStopped ==
    /\ \A h \in Host : \A x \in DOMAIN graph[h].nodes : graph[h].nodes[x].age = 0
    /\ \A m \in net : ~m.old
=============================================================================
