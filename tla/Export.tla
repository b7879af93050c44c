------------------------------- MODULE Export -------------------------------
(***************************************************************************)
(* What the two exporters make of a store and its segments: the lines of   *)
(* the DOT file (internal/export/dot.go) and the networks of the nwdiag    *)
(* diagram (internal/export/nwdiag.go).  Both are pure functions of the    *)
(* nodes, the edges and the segments; here they are operators on the state *)
(* in which GetNetworkSegments returns.  Labels, colours and widths are    *)
(* left out; what is kept is which hosts, interfaces and links appear.     *)
(*                                                                         *)
(* A port is a pair <<host, interface>>.                                   *)
(***************************************************************************)
EXTENDS Segments

NodeIfaces(h) == IF h = g.local THEN g.localIfaces ELSE g.nodes[h].ifaces

Flipped(k) == [src |-> k.dst, dst |-> k.src, lif |-> k.rif, rif |-> k.lif]

-----------------------------------------------------------------------------
(* DOT: the interfaces of the members of a segment.                        *)

(* EdgeInfo names one interface of a member, the remote one of its edge;   *)
(* the prefixes may name more.                                             *)
InfoIfaces(s, n) == IF n \in DOMAIN s.info THEN {s.info[n].rif} \ {NoIface} ELSE {}

PrefixIfacesOfAny(s, n) == {i \in DOMAIN NodeIfaces(n) : NodeIfaces(n)[i].pfx # {}}

PrefixIfaces(s, n) == {i \in DOMAIN NodeIfaces(n) : NodeIfaces(n)[i].pfx \cap s.prefixes # {}}

OwnIfacesOfInfo(s, n) == InfoIfaces(s, n)

OwnIfaces(s, n) == InfoIfaces(s, n) \cup PrefixIfaces(s, n)

ReferenceIfaces(s) == {s.info[n].lif : n \in DOMAIN s.info} \ {NoIface}

(* The interfaces whose links the segment stands for.                      *)
MarkedIfaces(s, n) ==
    IF OwnIfaces(s, n) # {}
    THEN OwnIfaces(s, n)
    ELSE IF ReferenceIfaces(s) # {} THEN ReferenceIfaces(s) ELSE {s.iface}

HiddenBetweenMembers(k) == \E s \in Result : {k.src, k.dst} \subseteq s.nodes

(* segmentEdgeMap: the interfaces of both members are marked for the pair, *)
(* and an edge is hidden by the name of its local interface.               *)
Hidden(k) ==
    \E s \in Result :
        /\ {k.src, k.dst} \subseteq s.nodes
        /\ k.lif \in MarkedIfaces(s, k.src) \cup MarkedIfaces(s, k.dst)

(* The lines between two ports; the two directions of a link are one.      *)
Lines == {{<<k.src, k.lif>>, <<k.dst, k.rif>>} : k \in {x \in DOMAIN g.edges : ~Hidden(x)}}

ConnectedIfaces(h) ==
    {k.lif : k \in {x \in DOMAIN g.edges : x.src = h}} \cup {k.rif : k \in {x \in DOMAIN g.edges : x.dst = h}}

(* The interfaces a segment may be drawn to: a member none is found of is  *)
(* joined by one of its connected interfaces, the first of a map iteration.*)
SegmentPorts(s, n) == IF OwnIfaces(s, n) # {} THEN OwnIfaces(s, n) ELSE ConnectedIfaces(n)

(* The interface nodes of a host's cluster.                                *)
Boxes == UNION {{h} \X (DOMAIN NodeIfaces(h) \cap ConnectedIfaces(h)) : h \in GetNodes(g)}

-----------------------------------------------------------------------------
(* nwdiag.                                                                 *)

(* What is taken for the local host: the member EdgeInfo does not list.    *)
(* The code takes the first such member; there is never a second one.      *)
Unlisted(s) == s.nodes \ DOMAIN s.info

ProcessedByInfo(s) ==
    {[src |-> r, dst |-> n, lif |-> s.info[n].lif, rif |-> s.info[n].rif] :
        r \in Unlisted(s), n \in {x \in DOMAIN s.info : NoIface \notin {s.info[x].lif, s.info[x].rif}}}

ProcessedByMembers(s) == {k \in DOMAIN g.edges : {k.src, k.dst} \subseteq s.nodes}

ProcessedByPrefix(s) ==
    {k \in DOMAIN g.edges :
        /\ {k.src, k.dst} \subseteq s.nodes
        /\ (g.edges[k].ldet.pfx \cup g.edges[k].rdet.pfx) \cap s.prefixes # {}}

(* makeEdgeKeyWithInterfaces: the two directions of a link share a key.    *)
Processed ==
    LET ks == UNION {ProcessedByInfo(s) \cup ProcessedByPrefix(s) : s \in Result}
    IN  ks \cup {Flipped(k) : k \in ks}

(* The links shown as networks of two hosts.                               *)
PeerNetworks ==
    {{<<k.src, k.lif>>, <<k.dst, k.rif>>} :
        k \in {x \in DOMAIN g.edges \ Processed : {x.src, x.dst} \subseteq GetNodes(g)}}

-----------------------------------------------------------------------------
(* What holds of both diagrams.                                            *)

(* The links a port is attached to: at most one.                           *)
LinksAt(p) == {at[3] : at \in {x \in Attached : x[1] = p[1] /\ x[2] = p[2]}}

(* The links all members of a segment are attached to.                     *)
LinksOf(s) == {l \in {at[3] : at \in Attached} : \A n \in s.nodes : \E at \in Attached : at[1] = n /\ at[3] = l}

LinkOf(k) == LinksAt(<<k.src, k.lif>>)

(* What the properties below depend on, beside an interface and a prefix   *)
(* being on one link.  First: a host on a link has no interface on another *)
(* link with a name that one of the first link's interfaces has.           *)
NamesOnOneLink ==
    \A at1, at2, at3 \in Attached :
        at1[2] = at2[2] /\ at3[1] = at1[1] /\ at3[3] = at2[3] => at1[3] = at2[3]

(* A host has one interface on a link.                                     *)
OnePortPerLink == \A at1, at2 \in Attached : at1[1] = at2[1] /\ at1[3] = at2[3] => at1[2] = at2[2]

(* The interfaces on a link have the same prefixes.                        *)
SamePrefixes ==
    \A at1, at2 \in Attached :
        at1[3] = at2[3] => DetailsAt[at1[1], at1[2]].pfx = DetailsAt[at2[1], at2[2]].pfx

(* An edge the DOT file leaves out is one of the link that a segment with  *)
(* both its ends stands for, although edges are told apart by interface    *)
(* names only.                                                             *)
HiddenLinksAreOfSegments ==
    \A k \in DOMAIN g.edges : Hidden(k) =>
        \E s \in Result : {k.src, k.dst} \subseteq s.nodes /\ LinkOf(k) \subseteq LinksOf(s)

(* A line, and a segment joined to a member, ends at an interface that is  *)
(* drawn in its host's cluster; with other ends Graphviz would make up     *)
(* nodes outside the clusters.  A segment is joined to every member.       *)
LinesEndAtInterfaces ==
    /\ phase = "done" => UNION Lines \subseteq Boxes
    /\ \A s \in Result : \A n \in s.nodes :
           SegmentPorts(s, n) # {} /\ {n} \X SegmentPorts(s, n) \subseteq Boxes

(* A segment is joined to its members by interfaces on a link that all     *)
(* members share, but for one case: the local host, when the segment has   *)
(* no prefix of its interfaces, is joined by any interface it has links    *)
(* over, and one of those is on the link.                                  *)
SegmentPortsOnLink ==
    \A s \in Result : \A n \in s.nodes :
        IF n = g.local /\ OwnIfaces(s, n) = {}
        THEN \E i \in SegmentPorts(s, n) : LinksAt(<<n, i>>) \subseteq LinksOf(s)
        ELSE \A i \in SegmentPorts(s, n) : LinksAt(<<n, i>>) \subseteq LinksOf(s)

(* An edge nwdiag takes for part of a segment is one of its link.          *)
ProcessedLinksAreOfSegments ==
    \A k \in DOMAIN g.edges \cap Processed :
        \E s \in Result : {k.src, k.dst} \subseteq s.nodes /\ LinkOf(k) \subseteq LinksOf(s)

(* The diagrams agree: a link that the DOT file draws by itself has a      *)
(* network of its own in nwdiag, although the one looks at names and the   *)
(* other at prefixes to tell the links of a segment.                       *)
DrawnLinksArePeerNetworks == phase = "done" => Lines \subseteq PeerNetworks
=============================================================================
