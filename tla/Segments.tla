------------------------------ MODULE Segments ------------------------------
(***************************************************************************)
(* GetNetworkSegments (internal/graph/graph.go) with its two merges: the   *)
(* hosts of a store are grouped into segments, the sets of hosts that      *)
(* share a link.  Every loop over a Go map is a choice of the order.  The  *)
(* call holds the read lock throughout; the rounds of its loops are steps  *)
(* of their own here, between which the store does not change.             *)
(*                                                                         *)
(* The stores are those a daemon on the links of Attached can have: it has *)
(* heard some hosts on the links they share, and these have reported some  *)
(* of their neighbours, a neighbour on all its links at a time.            *)
(*                                                                         *)
(* Names are numbers in the order sort.Strings puts them.  "pfx" is a set  *)
(* of prefixes, "ident" is the speed, the one compared field segments use. *)
(***************************************************************************)
EXTENDS GraphOps, SequencesExt

CONSTANTS
    Self,        \* the local host
    Attached,    \* triples <<host, interface, link>>: the active interfaces
    Hostname,    \* host -> its name
    DetailsAt,   \* <<host, interface>> -> the details of that interface, if it is active
    Wifi,        \* the interfaces whose name contains "wl"
    MidPacket    \* a bound: FALSE keeps the calls apart from the handling of packets

ASSUME HostAssumption == IsFiniteSet(Host)
ASSUME SelfAssumption == Self \in Host
ASSUME IfaceAssumption == Iface \subseteq Nat /\ NoIface = 0 /\ Wifi \subseteq Iface
ASSUME PfxAssumption ==
    /\ IsFiniteSet(UNION Pfx) /\ Pfx = SUBSET UNION Pfx
    /\ UNION Pfx \subseteq Nat \ {0} /\ NoPfx = {}
ASSUME IdentAssumption == Ident \subseteq Nat /\ NoIdent = 0
ASSUME MidPacketAssumption == MidPacket \in BOOLEAN
ASSUME HostnameAssumption == Hostname \in [Host -> Name]
ASSUME AttachedAssumption ==
    /\ \A at \in Attached : at \in Host \X (Iface \ {NoIface}) \X {at[3]}
    /\ DetailsAt \in [{<<at[1], at[2]>> : at \in Attached} -> Details]

VARIABLES
    g,          \* the store
    handling,   \* the reporter and the neighbours the receive handler has yet to store
    phase,      \* what GetNetworkSegments does next; "idle" while it is not called
    todo,       \* the interface names whose groups this phase has yet to visit
    segs,       \* the segments found so far
    iface,      \* the interface name of the group being searched, or NoIface
    nodeEdges,  \* the hosts of that group, each with an edge
    visited,    \* those of them the search has visited
    result,     \* the segments a merge has made so far
    merged,     \* the indices of the segments it has taken up
    maxSpeed    \* the speed of the interface it has chosen for the last one

search == <<iface, nodeEdges, visited>>
merge == <<result, merged, maxSpeed>>
vars == <<g, handling, phase, todo, segs, search, merge>>

NoPrefix == 0

(* A NetworkSegment.  EdgeInfo maps a host to an edge of the store.        *)
IsSegment(s) ==
    /\ s \in [iface : Iface, primary : (UNION Pfx) \cup {NoPrefix}, prefixes : Pfx,
              nodes : SUBSET Host, info : {s.info}]
    /\ IsPartialMap(s.info, s.nodes, DOMAIN g.edges)

-----------------------------------------------------------------------------
(* The stores.                                                             *)

(* The pairs of interfaces that join two hosts.                            *)
Joined(h1, h2) ==
    {<<p[1][2], p[2][2]>> : p \in
        {x \in Attached \X Attached : x[1][1] = h1 /\ x[2][1] = h2 /\ x[1][3] = x[2][3]}}

NeighborOn(r, h, pair) ==
    [id |-> h, name |-> Hostname[h], lif |-> pair[1], ldet |-> DetailsAt[r, pair[1]],
     rif |-> pair[2], rdet |-> DetailsAt[h, pair[2]]]

NoPacket == [from |-> NoHost, rest |-> {}]

Init ==
    /\ g \in {NewGraph,
              SetLocalNode(NewGraph, Self,
                  [i \in {at[2] : at \in {x \in Attached : x[1] = Self}} |-> DetailsAt[Self, i]])}
    /\ handling = NoPacket
    /\ phase = "idle"
    /\ todo = {}
    /\ segs = <<>>
    /\ iface = NoIface /\ nodeEdges = EmptyMap /\ visited = {}
    /\ result = <<>> /\ merged = {} /\ maxSpeed = 0

(* The daemon hears a host on one of the links they share.                 *)
Hear(h) ==
    /\ phase = "idle" /\ handling = NoPacket
    /\ h # Self
    /\ \E p \in Joined(Self, h) :
           g' = AddOrUpdate(g, h, Hostname[h], p[2], DetailsAt[h, p[2]], p[1], TRUE, NoHost)
    /\ UNCHANGED <<handling, phase, todo, segs, search, merge>>

(* A host the daemon has heard reports its links with another host.        *)
Report(r, h) ==
    /\ phase = "idle" /\ handling = NoPacket
    /\ r \in {k.dst : k \in {x \in DOMAIN g.edges : g.edges[x].direct}}
    /\ h \notin {r, Self}
    /\ Joined(r, h) # {}
    /\ handling' = [from |-> r, rest |-> {NeighborOn(r, h, p) : p \in Joined(r, h)}]
    /\ UNCHANGED <<g, phase, todo, segs, search, merge>>

(* One round of the handler's loop.                                        *)
ReceiveNeighbor(nb) ==
    /\ phase = "idle"
    /\ nb \in handling.rest
    /\ g' = HandleNeighbor(g, nb, handling.from)
    /\ handling' = IF handling.rest = {nb} THEN NoPacket ELSE [handling EXCEPT !.rest = @ \ {nb}]
    /\ UNCHANGED <<phase, todo, segs, search, merge>>

-----------------------------------------------------------------------------
(* The segments of the local interfaces.                                   *)

FirstPrefix(ps) == IF ps = {} THEN NoPrefix ELSE Min(ps)

(* getAllPrefixes: the prefixes of the local interface for the local host, *)
(* those of the remote interface of its edge for any other.                *)
AllPrefixes(nodes, info) ==
    UNION ({PrefixOf(g.localIfaces, info[n].lif) : n \in IF g.local \in nodes THEN DOMAIN info ELSE {}}
           \cup {PrefixOf(g.nodes[n].ifaces, info[n].rif) : n \in (nodes \ {g.local}) \cap DOMAIN info})

NewSegment(i, nodes, info) ==
    LET ps == AllPrefixes(nodes, info)
    IN  [iface |-> i, primary |-> FirstPrefix(ps), prefixes |-> ps, nodes |-> nodes, info |-> info]

LocalEdges(i) == {k \in DOMAIN g.edges : k.src = g.local /\ k.lif = i}

Reached(i) == {k.dst : k \in LocalEdges(i)}

SegmentIfacesOfThree == {i \in Iface : Cardinality(Reached(i)) >= 3}

(* An interface makes a segment with two hosts or more.                    *)
SegmentIfaces == {i \in Iface : Cardinality(Reached(i)) >= 2}

(* One edge for each host, a direct one if there is any.                   *)
LocalInfos(i) ==
    {f \in [Reached(i) -> LocalEdges(i)] : \A n \in Reached(i) :
        /\ f[n].dst = n
        /\ g.edges[f[n]].direct \/ \A k \in LocalEdges(i) : k.dst = n => ~g.edges[k].direct}

(* The call may come between two neighbours of a packet.  Without a local  *)
(* node there are no segments.                                             *)
Call ==
    /\ phase = "idle"
    /\ handling = NoPacket \/ MidPacket
    /\ IF g.local = NoHost
       THEN phase' = "done" /\ todo' = {}
       ELSE phase' = "local" /\ todo' = SegmentIfaces
    /\ UNCHANGED <<g, handling, segs, search, merge>>

FindLocal(i) ==
    /\ phase = "local"
    /\ i \in todo
    /\ \E info \in LocalInfos(i) : segs' = Append(segs, NewSegment(i, Reached(i) \cup {g.local}, info))
    /\ todo' = todo \ {i}
    /\ UNCHANGED <<g, handling, phase, search, merge>>

-----------------------------------------------------------------------------
(* The segments the local host is not in, from the edges of other hosts    *)
(* that have the same interface name on both sides.                        *)

RemoteEdges(i) ==
    {k \in DOMAIN g.edges : k.src # g.local /\ k.dst # g.local /\ k.lif = i /\ k.rif = i}

Group(i) == UNION {{k.src, k.dst} : k \in RemoteEdges(i)}

RemoteIfacesOfAll == {i \in Iface : RemoteEdges(i) # {}}

(* Names of local segments are skipped.                                    *)
RemoteIfaces ==
    {i \in Iface : RemoteEdges(i) # {} /\ \A x \in DOMAIN segs : segs[x].iface # i}

Sources(i) == {k.src : k \in RemoteEdges(i)}

(* The source whose visit lists a host: the first one that touches it.     *)
Touching(i, order, n) ==
    LET touching == {s \in Sources(i) : n = s \/ \E k \in RemoteEdges(i) : k.src = s /\ k.dst = n}
    IN  CHOOSE s \in touching : \A t \in touching : order[s] <= order[t]

FirstEdgesOfOwner(i, order, first) ==
    [n \in Group(i) |->
        LET s == Touching(i, order, n)
        IN  IF s = n THEN first[s] ELSE [src |-> n, dst |-> s, lif |-> i, rif |-> i]]

FirstEdgesOfFirstSource(i, order, first) ==
    [n \in Group(i) |-> first[CHOOSE s \in Sources(i) : order[s] = 1]]

(* EdgeInfo for an order of the sources and the edge each source is        *)
(* visited with first: a host keeps the first edge that touches it.  The   *)
(* groups share one order in the code; here each has its own.              *)
FirstEdges(i, order, first) ==
    [n \in Group(i) |->
        LET s == Touching(i, order, n)
        IN  IF s = n THEN first[s] ELSE [src |-> s, dst |-> n, lif |-> i, rif |-> i]]

RemoteInfos(i) ==
    {FirstEdges(i, order, first) :
        order \in Injection(Sources(i), 1 .. Cardinality(Sources(i))),
        first \in {x \in [Sources(i) -> RemoteEdges(i)] : \A s \in Sources(i) : x[s].src = s}}

(* Three hosts make a segment, and two that share a prefix.                *)
MinNodes(i, info) ==
    LET Numbered(n) == PrefixOf(g.nodes[n].ifaces, info[n].lif)
        shared == \A n1, n2 \in Group(i) : Numbered(n1) \cap Numbered(n2) # {}
    IN  IF Cardinality(Group(i)) = 2 /\ shared THEN 2 ELSE 3

ReachableFromInOneStep(i, start, seen) ==
    {start} \cup {k.dst : k \in {x \in RemoteEdges(i) : x.src = start /\ x.dst \notin seen}}

ReachableFromUnchecked(i, start, seen) == Group(i) \ seen

(* The links of the group lead from a set only to hosts in it or seen.     *)
Closed(i, S, seen) == \A k \in RemoteEdges(i) : k.src \in S => k.dst \in S \cup seen

(* What the breadth-first search finds from a host that was not seen yet,  *)
(* along the edges' direction: the least closed set with that host.        *)
ReachableFrom(i, start, seen) ==
    {n \in Group(i) : \A S \in SUBSET Group(i) : start \in S /\ Closed(i, S, seen) => n \in S}

StartRemote ==
    /\ phase = "local"
    /\ todo = {}
    /\ phase' = "remote"
    /\ todo' = RemoteIfaces
    /\ UNCHANGED <<g, handling, segs, search, merge>>

(* The next interface group, with its hosts and their edges.               *)
NextGroup(i) ==
    /\ phase = "remote"
    /\ i \in todo
    /\ phase' = "search"
    /\ iface' = i
    /\ nodeEdges' \in RemoteInfos(i)
    /\ todo' = todo \ {i}
    /\ UNCHANGED <<g, handling, segs, visited, merge>>

(* One component of the group.  A group of too few hosts has components of *)
(* too few hosts only.                                                     *)
FindRemote(start) ==
    /\ phase = "search"
    /\ start \in DOMAIN nodeEdges \ visited
    /\ LET component == ReachableFrom(iface, start, visited)
       IN  /\ visited' = visited \cup component
           /\ segs' = IF Cardinality(component) >= MinNodes(iface, nodeEdges)
                      THEN Append(segs, NewSegment(iface, component, Restrict(nodeEdges, component)))
                      ELSE segs
    /\ UNCHANGED <<g, handling, phase, todo, iface, nodeEdges, merge>>

GroupDone ==
    /\ phase = "search"
    /\ DOMAIN nodeEdges \subseteq visited
    /\ phase' = "remote"
    /\ iface' = NoIface /\ nodeEdges' = EmptyMap /\ visited' = {}
    /\ UNCHANGED <<g, handling, todo, segs, merge>>

-----------------------------------------------------------------------------
(* The merges: mergeSegmentsByPrefix in phase "prefix", then               *)
(* mergeSegmentsByNodeSet in phase "nodes".                                *)
StartMerge ==
    /\ phase = "remote"
    /\ todo = {}
    /\ phase' = "prefix"
    /\ UNCHANGED <<g, handling, todo, segs, search, merge>>

KeyWithName(s) == IF phase = "prefix" THEN s.primary ELSE s.iface

(* What two segments must have in common.                                  *)
Key(s) == IF phase = "prefix" THEN s.primary ELSE s.nodes

Left == DOMAIN segs \ merged

(* Several segments have the key of this one.                              *)
Grouped(x) ==
    /\ phase = "prefix" => segs[x].primary # NoPrefix
    /\ \E y \in DOMAIN segs \ {x} : Key(segs[y]) = Key(segs[x])

FirstOfGroup(x) == \A y \in Left : Key(segs[y]) = Key(segs[x]) => x <= y

(* Where the group of a segment is in the result.                          *)
Begun(x) == {j \in DOMAIN result : Key(result[j]) = Key(segs[x])}

(* EdgeInfo of a merged segment: the edge of a host is replaced by one     *)
(* that exceeds it in any of the measures.                                 *)
MergedInfo(info, new, measures) ==
    LET Better(k1, k2) == \E j \in 1 .. 3 : measures[k1][j] > measures[k2][j]
    IN  [n \in DOMAIN info \cup DOMAIN new |->
            IF n \in DOMAIN info /\ (n \in DOMAIN new => ~Better(new[n], info[n])) THEN info[n] ELSE new[n]]

OneIf(condition) == IF condition THEN 1 ELSE 0

(* mergeSegmentsByPrefix prefers an edge with an interface name, or with   *)
(* prefixes on a side, to one without.                                     *)
Known ==
    [k \in DOMAIN g.edges |->
        <<OneIf(k.lif # NoIface), OneIf(g.edges[k].ldet.pfx # {}), OneIf(g.edges[k].rdet.pfx # {})>>]

MergedByPrefix(s, new) ==
    [iface |-> IF new.iface < s.iface THEN new.iface ELSE s.iface,
     primary |-> s.primary,
     prefixes |-> s.prefixes \cup new.prefixes,
     nodes |-> s.nodes \cup new.nodes,
     info |-> MergedInfo(s.info, new.info, Known)]

(* mergeSegmentsByNodeSet prefers an edge with more prefixes on a side.    *)
Counted ==
    [k \in DOMAIN g.edges |->
        <<OneIf(k.lif # NoIface), Cardinality(g.edges[k].ldet.pfx), Cardinality(g.edges[k].rdet.pfx)>>]

(* getEffectiveSpeed: an unknown speed counts as 100.                      *)
EffectiveSpeed(speed) == IF speed = 0 THEN 100 ELSE speed

SegmentSpeed(s) ==
    LET ks == {s.info[n] : n \in DOMAIN s.info}
    IN  Max({100} \cup {EffectiveSpeed(g.edges[k].ldet.ident) : k \in {x \in ks : x.lif = s.iface}}
                  \cup {EffectiveSpeed(g.edges[k].rdet.ident) : k \in {x \in ks : x.rif = s.iface}})

(* The fastest interface, a wired one before WiFi, the first of equals.    *)
Preferred(s, new) ==
    \/ s.iface = NoIface
    \/ SegmentSpeed(new) > maxSpeed
    \/ SegmentSpeed(new) = maxSpeed /\ s.iface \in Wifi /\ new.iface \notin Wifi

MergedByNodes(s, new) ==
    [iface |-> IF Preferred(s, new) THEN new.iface ELSE s.iface,
     primary |-> FirstPrefix(s.prefixes \cup new.prefixes),
     prefixes |-> s.prefixes \cup new.prefixes,
     nodes |-> s.nodes,
     info |-> MergedInfo(s.info, new.info, Counted)]

(* The next group, once the one before is complete, and its first segment. *)
MergeFirst(x) ==
    /\ phase \in {"prefix", "nodes"}
    /\ x \in Left /\ Grouped(x) /\ FirstOfGroup(x)
    /\ \A y \in Left : Begun(y) = {}
    /\ result' = Append(result, segs[x])
    /\ merged' = merged \cup {x}
    /\ maxSpeed' = IF phase = "nodes" THEN SegmentSpeed(segs[x]) ELSE 0
    /\ UNCHANGED <<g, handling, phase, todo, segs, search>>

(* The next segment of the group.                                          *)
MergeByPrefix(x) ==
    /\ phase = "prefix"
    /\ x \in Left /\ Grouped(x) /\ FirstOfGroup(x)
    /\ \E j \in Begun(x) : result' = [result EXCEPT ![j] = MergedByPrefix(result[j], segs[x])]
    /\ merged' = merged \cup {x}
    /\ UNCHANGED <<g, handling, phase, todo, segs, search, maxSpeed>>

MergeByNodeSet(x) ==
    /\ phase = "nodes"
    /\ x \in Left /\ Grouped(x) /\ FirstOfGroup(x)
    /\ \E j \in Begun(x) :
           /\ result' = [result EXCEPT ![j] = MergedByNodes(result[j], segs[x])]
           /\ maxSpeed' = IF Preferred(result[j], segs[x]) THEN SegmentSpeed(segs[x]) ELSE maxSpeed
    /\ merged' = merged \cup {x}
    /\ UNCHANGED <<g, handling, phase, todo, segs, search>>

(* After the groups the other segments, as they are and in their order.    *)
KeepUnmerged(x) ==
    /\ phase \in {"prefix", "nodes"}
    /\ x \in Left /\ \A y \in Left : ~Grouped(y) /\ x <= y
    /\ result' = Append(result, segs[x])
    /\ merged' = merged \cup {x}
    /\ UNCHANGED <<g, handling, phase, todo, segs, search, maxSpeed>>

EndMerge ==
    /\ phase \in {"prefix", "nodes"}
    /\ Left = {}
    /\ phase' = IF phase = "prefix" THEN "nodes" ELSE "done"
    /\ segs' = result
    /\ result' = <<>> /\ merged' = {} /\ maxSpeed' = 0
    /\ UNCHANGED <<g, handling, todo, search>>

Return ==
    /\ phase = "done"
    /\ phase' = "idle"
    /\ segs' = <<>>
    /\ UNCHANGED <<g, handling, todo, search, merge>>

Next ==
    \/ \E h \in Host : Hear(h)
    \/ \E r, h \in Host : Report(r, h)
    \/ \E nb \in handling.rest : ReceiveNeighbor(nb)
    \/ Call
    \/ \E i \in Iface : FindLocal(i)
    \/ StartRemote
    \/ \E i \in Iface : NextGroup(i)
    \/ \E start \in Host : FindRemote(start)
    \/ GroupDone
    \/ StartMerge
    \/ \E x \in DOMAIN segs : MergeFirst(x)
    \/ \E x \in DOMAIN segs : MergeByPrefix(x)
    \/ \E x \in DOMAIN segs : MergeByNodeSet(x)
    \/ \E x \in DOMAIN segs : KeepUnmerged(x)
    \/ EndMerge
    \/ Return

Spec == Init /\ [][Next]_vars

-----------------------------------------------------------------------------
(* The types, with the one fact the exporters need to follow EdgeInfo: it  *)
(* maps members of the segment to edges of the store.                      *)
SegmentsTypeOK ==
    /\ phase \in {"idle", "local", "remote", "search", "prefix", "nodes", "done"}
    /\ todo \subseteq Iface /\ iface \in Iface
    /\ IsPartialMap(nodeEdges, Host, DOMAIN g.edges)
    /\ visited \subseteq Host
    /\ merged \subseteq DOMAIN segs
    /\ \A x \in DOMAIN segs : IsSegment(segs[x])
    /\ \A j \in DOMAIN result : IsSegment(result[j])

Result == IF phase = "done" THEN ToSet(segs) ELSE {}

Together(S) == \E s \in Result : S \subseteq s.nodes

(* The hosts reached over one local interface are in one segment with the  *)
(* local host, also after segments were merged (Part 1 of                  *)
(* GetNetworkSegments and both merges).                                    *)
LocalLinksShown ==
    phase = "done" /\ g.local # NoHost => \A i \in Iface :
        Cardinality(Reached(i)) >= 2 => Together(Reached(i) \cup {g.local})

(* The exporters draw a member of a segment by its edge: every member but  *)
(* the local host has an edge of the store that it is an end of.           *)
MembersHaveEdges ==
    \A s \in Result :
        /\ s.nodes \ {g.local} \subseteq DOMAIN s.info
        /\ \A n \in DOMAIN s.info : n \in {s.info[n].src, s.info[n].dst}

(* What MembersShareLink depends on: an interface of a host is on one      *)
(* link, and a prefix is used on one link.                                 *)
PortsOnOneLink == \A at1, at2 \in Attached : at1[1] = at2[1] /\ at1[2] = at2[2] => at1[3] = at2[3]

PrefixesOnOneLink ==
    \A at1, at2 \in Attached :
        DetailsAt[at1[1], at1[2]].pfx \cap DetailsAt[at2[1], at2[2]].pfx # {} => at1[3] = at2[3]

(* The members of a segment are all attached to one link: no merge and no  *)
(* common interface name joins hosts that share none.                      *)
MembersShareLink ==
    \A s \in Result : \E l \in {at[3] : at \in Attached} :
        \A n \in s.nodes : \E at \in Attached : at[1] = n /\ at[3] = l

(* After the merges no two segments have the same hosts or the same        *)
(* primary prefix: the second merge does not undo the first.               *)
SegmentsApart ==
    \A x, y \in DOMAIN segs : phase = "done" /\ x # y =>
        /\ segs[x].nodes # segs[y].nodes
        /\ segs[x].primary # NoPrefix => segs[x].primary # segs[y].primary

(* The interfaces the edges of a segment join.                             *)
Ports(s) == UNION {{<<s.info[n].src, s.info[n].lif>>, <<s.info[n].dst, s.info[n].rif>>} : n \in DOMAIN s.info}

(* No interface of a host is in two segments                               *)
(* (docs/fixes/SEGMENT_INTERFACE_FIX.md:69), if it has a prefix, by which  *)
(* the segments of a link are merged, or the name of an interface the      *)
(* daemon has a segment on, which remote segments skip.  A link without    *)
(* prefixes may be shown twice: as a segment of the daemon's, and without  *)
(* the daemon when its interface there is named differently.               *)
OneSegmentPerInterface ==
    \A x, y \in DOMAIN segs : phase = "done" /\ x # y =>
        \A p \in Ports(segs[x]) \cap Ports(segs[y]) : DetailsAt[p].pfx = {} /\ p[2] \notin SegmentIfaces

(* The links under an interface name lead out of every part of S into the  *)
(* rest of S.                                                              *)
Connected(i, S) ==
    \A T \in (SUBSET S) \ {{}, S} : \E k \in RemoteEdges(i) : k.src \in T /\ k.dst \in S \ T

(* Hosts, three or more, that lead to each other over the links reported   *)
(* under an interface name are in one segment, whatever the order of the   *)
(* maps: those on one link that report each other are, for example.        *)
AnsweredLinksShown ==
    phase = "done" /\ g.local # NoHost => \A i \in Iface \ SegmentIfaces : \A S \in SUBSET Group(i) :
        Cardinality(S) >= 3 /\ Connected(i, S) => Together(S)

(* Everything the hosts heard by the daemon can report is in the store.    *)
Settled ==
    \A h1, h2 \in Host : \A p \in Joined(h1, h2) :
        h1 # h2 /\ h2 # Self /\ (h1 = Self \/ Joined(Self, h1) # {}) =>
            [src |-> h1, dst |-> h2, lif |-> p[1], rif |-> p[2]] \in DOMAIN g.edges

(* In a settled store three hosts or more that one of them reports under   *)
(* the same interface name are a segment                                   *)
(* (docs/features/REMOTE_VLAN_DETECTION.md:35).                            *)
RemoteLinksShown ==
    phase = "done" /\ g.local # NoHost /\ Settled => \A i \in Iface \ SegmentIfaces : \A n \in Group(i) :
        LET seen == {n} \cup {k.dst : k \in {x \in RemoteEdges(i) : x.src = n}}
        IN  Cardinality(seen) >= 3 => Together(seen)
=============================================================================
