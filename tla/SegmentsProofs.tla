--------------------------- MODULE SegmentsProofs ---------------------------
(***************************************************************************)
(* The safety of GetNetworkSegments and of what the exporters make of its  *)
(* result, for every set of hosts, interfaces, links and prefixes,         *)
(* whatever order the maps are visited in.                                 *)
(***************************************************************************)
EXTENDS Export, GraphOpsProofs, FiniteSetTheorems, WellFoundedInduction

-----------------------------------------------------------------------------
(* The invariant.                                                          *)

(* The edges there may be.                                                 *)
LinkKeys == {k \in EdgeKey : <<k.lif, k.rif>> \in Joined(k.src, k.dst)}

OwnIface(i) == \E at \in Attached : at[1] = Self /\ at[2] = i

(* The store a call sees, also between two neighbours of a packet.         *)
StoreInv ==
    /\ IsGraph(g) /\ WellFormed(g)
    /\ TrueStore(g, DetailsAt, LinkKeys)
    /\ g.local \in {NoHost, Self}
    /\ g.local = Self => /\ \A i : OwnIface(i) <=> i \in DOMAIN g.localIfaces
                         /\ \A i \in DOMAIN g.localIfaces : g.localIfaces[i] = DetailsAt[Self, i]
    /\ \A nb \in handling.rest :
           /\ nb \in NeighborInfo /\ nb.id # handling.from
           /\ handling.from \in Host /\ handling.from # g.local
           /\ TrueNeighbor(handling.from, nb, DetailsAt, LinkKeys)

(* The two ends of an edge.                                                *)
Ends(k) == {<<k.src, k.lif>>, <<k.dst, k.rif>>}

(* A segment as the exporters need it: its members, but the local host,    *)
(* have edges of the store whose remote interface is theirs, and its       *)
(* primary prefix is its first.                                            *)
Segment ==
    {s \in [iface : Iface, primary : (UNION Pfx) \cup {NoPrefix}, prefixes : Pfx,
            nodes : SUBSET Host, info : PartialMap(Host, DOMAIN g.edges)] :
        /\ s.primary = FirstPrefix(s.prefixes)
        /\ DOMAIN s.info = s.nodes \ {g.local}
        /\ \A n \in DOMAIN s.info : <<n, s.info[n].rif>> \in Ends(s.info[n])}

(* The hosts of a group, each with an edge of the group it is an end of.   *)
IsGroupMap(f, i) ==
    /\ f \in [Group(i) -> RemoteEdges(i)]
    /\ \A n \in Group(i) : n \in {f[n].src, f[n].dst}

(* What the parts of GetNetworkSegments leave for each other.              *)
CallInv ==
    /\ phase \in {"idle", "local", "remote", "search", "prefix", "nodes", "done"}
    /\ todo \subseteq Iface
    /\ segs \in Seq(Segment) /\ result \in Seq(Segment)
    /\ merged \subseteq DOMAIN segs
    /\ phase \notin {"idle", "done"} => g.local # NoHost
    /\ phase = "idle" => segs = <<>>
    /\ phase \notin {"prefix", "nodes"} => result = <<>> /\ merged = {}
    /\ IF phase = "search"
       THEN iface \in Iface /\ IsGroupMap(nodeEdges, iface) /\ visited \subseteq Group(iface)
       ELSE iface = NoIface /\ nodeEdges = EmptyMap /\ visited = {}

Covered(q, S) == \E x \in DOMAIN q : S \subseteq q[x].nodes

(* No hosts that must be in one segment are lost: they are in one, or      *)
(* their interface name, or their part of the group, is yet to be visited. *)
LocalCovered ==
    phase \in {"local", "remote", "search", "prefix", "nodes", "done"} /\ g.local # NoHost =>
        \A i \in SegmentIfaces :
            (phase = "local" /\ i \in todo) \/ Covered(segs, Reached(i) \cup {g.local})

(* Hosts that lead to each other under an interface name.                  *)
Linked(i, S) ==
    i \notin SegmentIfaces /\ S \subseteq Group(i) /\ Cardinality(S) >= 3 /\ Connected(i, S)

RemoteCovered ==
    phase \in {"remote", "search", "prefix", "nodes", "done"} /\ g.local # NoHost =>
        \A i \in Iface : \A S \in SUBSET Host : Linked(i, S) =>
            \/ phase \in {"remote", "search"} /\ i \in todo
            \/ phase = "search" /\ i = iface /\ S \cap visited = {}
            \/ Covered(segs, S)

MergeCovered == \A x \in merged : Covered(result, segs[x].nodes)

CoverInv ==
    /\ phase = "local" => todo \subseteq SegmentIfaces /\ \A x \in DOMAIN segs : segs[x].iface \in SegmentIfaces
    /\ LocalCovered
    /\ RemoteCovered
    /\ MergeCovered

(* No two have a primary prefix in common.                                 *)
PrimariesApart(q) ==
    \A x, y \in DOMAIN q : x # y /\ q[x].primary # NoPrefix => q[x].primary # q[y].primary

NodesApart(q) == \A x, y \in DOMAIN q : x # y => q[x].nodes # q[y].nodes

(* What a merge has made is apart, and each of its segments has the key,   *)
(* the hosts and the primary prefix of one that was taken up.              *)
ApartInv ==
    /\ phase = "prefix" =>
           /\ PrimariesApart(result)
           /\ \A j \in DOMAIN result : \E x \in merged : result[j].primary = segs[x].primary
    /\ phase = "nodes" =>
           /\ PrimariesApart(segs) /\ NodesApart(result)
           /\ \A j \in DOMAIN result : \E x \in merged :
                  result[j].primary = segs[x].primary /\ result[j].nodes = segs[x].nodes
    /\ phase = "done" => PrimariesApart(segs) /\ NodesApart(segs)

(* Members on a link, and prefixes used on it.                             *)
OnLink(n, l) == \E at \in Attached : at[1] = n /\ at[3] = l

LinkPrefixes(l) == UNION {DetailsAt[at[1], at[2]].pfx : at \in {x \in Attached : x[3] = l}}

Links == {at[3] : at \in Attached}

(* An edge on a link, and a host that has one among the edges es.          *)
EdgeOn(k, l) == <<k.src, k.lif, l>> \in Attached /\ <<k.dst, k.rif, l>> \in Attached

Wired(es, n, l) == \E k \in es : n \in {k.src, k.dst} /\ EdgeOn(k, l)

AllWired(es, s, l) == \A n \in s.nodes : Wired(es, n, l)

(* Until segments are merged by their hosts, one is of one link.           *)
Homed(es, s) ==
    \E l \in Links :
        /\ AllWired(es, s, l)
        /\ s.prefixes \subseteq LinkPrefixes(l)
        /\ \A n \in DOMAIN s.info : EdgeOn(s.info[n], l)

(* Then it may be of several that all its members are on.                  *)
Spread(es, s) ==
    /\ \E l \in Links : AllWired(es, s, l)
    /\ \A p \in s.prefixes : \E l \in Links : AllWired(es, s, l) /\ p \in LinkPrefixes(l)
    /\ \A n \in DOMAIN s.info : \E l \in Links : AllWired(es, s, l) /\ EdgeOn(s.info[n], l)

SegmentsOn(es, q, merging) ==
    \A x \in DOMAIN q : IF merging THEN Spread(es, q[x]) ELSE Homed(es, q[x])

LinksOn(es, at, q1, q2) ==
    SegmentsOn(es, q1, at \in {"nodes", "done"}) /\ SegmentsOn(es, q2, at \in {"nodes", "done"})

LinkInv == LinksOn(DOMAIN g.edges, phase, segs, result)

(* A segment has the prefixes of its members' interfaces, and if there are *)
(* any, each of these has one.                                             *)
Dressed(s) ==
    /\ \A n \in DOMAIN s.info : DetailsAt[n, s.info[n].rif].pfx \subseteq s.prefixes
    /\ s.prefixes # {} => \A n \in DOMAIN s.info : DetailsAt[n, s.info[n].rif].pfx # {}

DressedInv == /\ \A x \in DOMAIN segs : Dressed(segs[x])
              /\ \A j \in DOMAIN result : Dressed(result[j])

-----------------------------------------------------------------------------
(* The store.                                                              *)

(* A triple is made of its members.                                        *)
LEMMA Triple ==
    ASSUME NEW A, NEW B, NEW C, NEW t, t \in A \X B \X C
    PROVE  t = <<t[1], t[2], t[3]>> /\ t[1] \in A /\ t[2] \in B
OBVIOUS

(* An interface with details is attached to a link.                        *)
LEMMA DetailedAttached ==
    ASSUME NEW h, NEW i, <<h, i>> \in DOMAIN DetailsAt
    PROVE  \E l \in Links : <<h, i, l>> \in Attached
<1>1. PICK at \in Attached : <<h, i>> = <<at[1], at[2]>>
  BY AttachedAssumption
<1>2. at \in Host \X (Iface \ {NoIface}) \X {at[3]}
  BY AttachedAssumption
<1>3. at = <<at[1], at[2], at[3]>> /\ at[1] = h /\ at[2] = i
  BY <1>1, <1>2, Triple
<1>4. at[3] \in Links
  BY DEF Links
<1> QED
  BY <1>3, <1>4

(* An attachment: a host, an interface with a name and details, a link.    *)
LEMMA AttachedFields ==
    ASSUME NEW at \in Attached
    PROVE  /\ at = <<at[1], at[2], at[3]>>
           /\ at[1] \in Host /\ at[2] \in Iface \ {NoIface} /\ at[3] \in Links
           /\ <<at[1], at[2]>> \in DOMAIN DetailsAt /\ DetailsAt[at[1], at[2]] \in Details
<1>1. at \in Host \X (Iface \ {NoIface}) \X {at[3]}
  BY AttachedAssumption
<1>2. at = <<at[1], at[2], at[3]>> /\ at[1] \in Host /\ at[2] \in Iface \ {NoIface}
  BY <1>1, Triple
<1>3. at[3] \in Links /\ <<at[1], at[2]>> \in DOMAIN DetailsAt
  BY AttachedAssumption DEF Links
<1>4. DetailsAt[at[1], at[2]] \in Details
  BY <1>3, AttachedAssumption
<1> QED
  BY <1>2, <1>3, <1>4

(* The ends of a pair of joined interfaces.                                *)
LEMMA JoinedEnds ==
    ASSUME NEW h1, NEW h2, NEW p \in Joined(h1, h2)
    PROVE  /\ h1 \in Host /\ h2 \in Host
           /\ p = <<p[1], p[2]>>
           /\ p[1] \in Iface \ {NoIface} /\ p[2] \in Iface \ {NoIface}
           /\ DetailsAt[h1, p[1]] \in Details /\ DetailsAt[h2, p[2]] \in Details
           /\ <<h1, p[1]>> \in DOMAIN DetailsAt /\ <<h2, p[2]>> \in DOMAIN DetailsAt
           /\ \E l \in Links : <<h1, p[1], l>> \in Attached /\ <<h2, p[2], l>> \in Attached
<1>1. PICK q \in Attached \X Attached :
         /\ q[1][1] = h1 /\ q[2][1] = h2 /\ q[1][3] = q[2][3]
         /\ p = <<q[1][2], q[2][2]>>
  BY DEF Joined
<1> DEFINE at1 == q[1]
           at2 == q[2]
<1>2. at1 \in Attached /\ at2 \in Attached
  BY <1>1
<1>3. /\ at1[1] = h1 /\ at2[1] = h2 /\ at1[3] = at2[3]
      /\ p = <<at1[2], at2[2]>>
  BY <1>1
<1> HIDE DEF at1, at2
<1>4. p[1] = at1[2] /\ p[2] = at2[2] /\ p = <<p[1], p[2]>>
  BY <1>3
<1>5. at1 = <<h1, p[1], at1[3]>> /\ at2 = <<h2, p[2], at1[3]>> /\ at1[3] \in Links
  BY <1>2, <1>3, <1>4, AttachedFields
<1>6. \E l \in Links : <<h1, p[1], l>> \in Attached /\ <<h2, p[2], l>> \in Attached
  BY <1>2, <1>5
<1> QED
  BY <1>2, <1>3, <1>4, <1>6, AttachedFields

(* The first store is empty, with or without the local node.               *)
LEMMA StoreInit == Init => StoreInv
<1> SUFFICES ASSUME Init PROVE StoreInv
  OBVIOUS
<1> DEFINE own == {at[2] : at \in {x \in Attached : x[1] = Self}}
           ifaces == [i \in own |-> DetailsAt[Self, i]]
<1>1. g = NewGraph \/ g = SetLocalNode(NewGraph, Self, ifaces)
  BY DEF Init
<1>2. \A i \in own : i \in Iface /\ DetailsAt[Self, i] \in Details
  BY AttachedFields
<1>3. ifaces \in Ifaces
  <2>1. IsPartialMap(ifaces, Iface, Details)
    BY <1>2 DEF IsPartialMap
  <2> QED
    BY <2>1, PartialMapEquiv DEF Ifaces
<1>4. EmptyMap \in Ifaces
  BY EmptyMapType, PartialMapEquiv DEF Ifaces
<1>5. DOMAIN ifaces = own /\ \A i \in own : ifaces[i] = DetailsAt[Self, i]
  OBVIOUS
<1>6. \A i : i \in own <=> OwnIface(i)
  BY DEF OwnIface
<1> HIDE DEF ifaces, own
<1>7. /\ g.nodes = EmptyMap /\ g.edges = EmptyMap /\ g.changed \in BOOLEAN
      /\ g = [nodes |-> g.nodes, local |-> g.local, localIfaces |-> g.localIfaces,
              edges |-> g.edges, changed |-> g.changed]
      /\ \/ g.local = NoHost /\ g.localIfaces = EmptyMap
         \/ g.local = Self /\ g.localIfaces = ifaces
  <2>1. CASE g = NewGraph
    BY <2>1 DEF NewGraph
  <2>2. CASE g = SetLocalNode(NewGraph, Self, ifaces)
    <3>1. g = [NewGraph EXCEPT !.local = Self, !.localIfaces = ifaces, !.changed = TRUE]
      BY Zenon, <2>2 DEF SetLocalNode
    <3> QED
      BY <3>1 DEF NewGraph
  <2> QED
    BY <1>1, <2>1, <2>2
<1>8. IsGraph(g)
  BY <1>3, <1>4, <1>7, EmptyMapType, SelfAssumption DEF IsGraph
<1>9. DOMAIN g.nodes = {} /\ DOMAIN g.edges = {}
  BY <1>7, EmptyMapType
<1>10. WellFormed(g) /\ TrueStore(g, DetailsAt, LinkKeys)
  BY <1>9 DEF WellFormed, EndpointsKnown, ProvenanceKnown, IfacesKnown, SelfNotDiscovered, TrueStore
<1>11. handling.rest = {}
  BY DEF Init, NoPacket
<1>12. Self # NoHost
  BY SelfAssumption, NoHostAssumption
<1> QED
  BY <1>5, <1>6, <1>7, <1>8, <1>10, <1>11, <1>12 DEF StoreInv

(* A host is heard on a link the daemon is on.                             *)
LEMMA HearKeeps ==
    ASSUME StoreInv, NEW h \in Host, Hear(h)
    PROVE  StoreInv'
<1>1. PICK p \in Joined(Self, h) :
        g' = AddOrUpdate(g, h, Hostname[h], p[2], DetailsAt[h, p[2]], p[1], TRUE, NoHost)
  BY DEF Hear
<1> DEFINE gr2 == AddOrUpdate(g, h, Hostname[h], p[2], DetailsAt[h, p[2]], p[1], TRUE, NoHost)
<1>2. h # Self /\ handling = NoPacket /\ handling' = handling
  BY DEF Hear
<1>3. /\ p[1] \in Iface \ {NoIface} /\ p[2] \in Iface /\ DetailsAt[h, p[2]] \in Details
      /\ p = <<p[1], p[2]>>
  BY JoinedEnds
<1>4. PICK l \in Links : <<Self, p[1], l>> \in Attached
  BY JoinedEnds
<1>5. OwnIface(p[1])
  <2>1. <<Self, p[1], l>>[1] = Self /\ <<Self, p[1], l>>[2] = p[1]
    OBVIOUS
  <2> QED
    BY <1>4, <2>1 DEF OwnIface
<1>6. Hostname[h] \in Name
  BY HostnameAssumption
<1>7. h # g.local
  BY <1>2, NoHostAssumption DEF StoreInv
<1>8. IsGraph(gr2) /\ gr2.local = g.local /\ WellFormed(gr2)
  <2> DEFINE name == Hostname[h]
             rif == p[2]
             rdet == DetailsAt[h, p[2]]
             lif == p[1]
  <2>1. IsGraph(g) /\ WellFormed(g) /\ name \in Name /\ rif \in Iface /\ rdet \in Details /\ lif \in Iface
    BY <1>3, <1>6 DEF StoreInv
  <2> HIDE DEF name, rif, rdet, lif
  <2>2. /\ IsGraph(AddOrUpdate(g, h, name, rif, rdet, lif, TRUE, NoHost))
        /\ AddOrUpdate(g, h, name, rif, rdet, lif, TRUE, NoHost).local = g.local
        /\ WellFormed(g) => WellFormed(AddOrUpdate(g, h, name, rif, rdet, lif, TRUE, NoHost))
    BY <1>7, <2>1, AddOrUpdateStep
  <2> QED
    BY <2>1, <2>2 DEF name, rif, rdet, lif
<1>9. TruePacket(g, h, p[2], DetailsAt[h, p[2]], p[1], DetailsAt, LinkKeys)
  <2> SUFFICES ASSUME g.local # NoHost
               PROVE  /\ [src |-> g.local, dst |-> h, lif |-> p[1], rif |-> p[2]] \in LinkKeys
                      /\ LocalDetails(g, p[1]) = DetailsAt[g.local, p[1]]
    BY JoinedEnds DEF TruePacket
  <2>1. g.local = Self
    BY DEF StoreInv
  <2>2. LocalDetails(g, p[1]) = DetailsAt[g.local, p[1]]
    BY <1>3, <1>5, <2>1 DEF StoreInv, LocalDetails
  <2>3. [src |-> g.local, dst |-> h, lif |-> p[1], rif |-> p[2]] \in LinkKeys
    BY <1>3, <2>1, SelfAssumption DEF LinkKeys, EdgeKey
  <2> QED
    BY <2>2, <2>3
<1>10. TrueStore(gr2, DetailsAt, LinkKeys) /\ SameLocal(g, gr2)
  BY <1>3, <1>6, <1>9, AddOrUpdateTrue DEF StoreInv
<1> HIDE DEF gr2
<1>11. g' = gr2 /\ handling'.rest = {}
  BY <1>1, <1>2 DEF gr2, NoPacket
<1> QED
  BY <1>8, <1>10, <1>11 DEF StoreInv, SameLocal

(* A host with a direct edge reports what joins it and another host.       *)
LEMMA ReportKeeps ==
    ASSUME StoreInv, NEW r \in Host, NEW h \in Host, Report(r, h)
    PROVE  StoreInv'
<1>1. /\ g' = g /\ h # r
      /\ handling' = [from |-> r, rest |-> {NeighborOn(r, h, p) : p \in Joined(r, h)}]
      /\ r \in {k.dst : k \in {x \in DOMAIN g.edges : g.edges[x].direct}}
  BY DEF Report
<1>2. r # g.local
  BY <1>1 DEF StoreInv, WellFormed, EndpointsKnown, ProvenanceKnown
<1>3. handling'.from = r /\ handling'.rest = {NeighborOn(r, h, p) : p \in Joined(r, h)}
  BY <1>1
<1>4. ASSUME NEW nb \in handling'.rest
      PROVE  /\ nb \in NeighborInfo /\ nb.id # r
             /\ TrueNeighbor(r, nb, DetailsAt, LinkKeys)
  <2>1. PICK p \in Joined(r, h) : nb = NeighborOn(r, h, p)
    BY <1>3
  <2>2. /\ p[1] \in Iface /\ p[2] \in Iface /\ p = <<p[1], p[2]>>
        /\ DetailsAt[r, p[1]] \in Details /\ DetailsAt[h, p[2]] \in Details
        /\ <<r, p[1]>> \in DOMAIN DetailsAt /\ <<h, p[2]>> \in DOMAIN DetailsAt
    BY JoinedEnds
  <2>3. Hostname[h] \in Name
    BY HostnameAssumption
  <2>4. nb \in NeighborInfo
    BY <2>1, <2>2, <2>3 DEF NeighborOn, NeighborInfo
  <2>5. /\ nb.id = h /\ nb.lif = p[1] /\ nb.rif = p[2]
        /\ nb.ldet = DetailsAt[r, p[1]] /\ nb.rdet = DetailsAt[h, p[2]]
    BY <2>1 DEF NeighborOn
  <2>6. [src |-> r, dst |-> h, lif |-> p[1], rif |-> p[2]] \in LinkKeys
    BY <2>2 DEF LinkKeys, EdgeKey
  <2> QED
    BY <1>1, <2>2, <2>4, <2>5, <2>6 DEF TrueNeighbor
<1> QED
  BY <1>1, <1>2, <1>3, <1>4 DEF StoreInv

(* One neighbour of a packet is stored.                                    *)
LEMMA ReceiveNeighborKeeps ==
    ASSUME StoreInv, NEW nb \in handling.rest, ReceiveNeighbor(nb)
    PROVE  StoreInv'
<1> DEFINE from == handling.from
           gr2 == AddOrUpdateIndirectEdge(g, nb, from)
<1>1. /\ g' = HandleNeighbor(g, nb, handling.from)
      /\ handling' = IF handling.rest = {nb} THEN NoPacket ELSE [handling EXCEPT !.rest = @ \ {nb}]
  BY DEF ReceiveNeighbor
<1>2. /\ nb \in NeighborInfo /\ nb.id # from /\ from \in Host /\ from # g.local
      /\ TrueNeighbor(from, nb, DetailsAt, LinkKeys)
  BY DEF StoreInv
<1>3. g' = g \/ (g' = gr2 /\ nb.id # g.local)
  BY <1>1 DEF HandleNeighbor
<1>4. nb.id # g.local => IsGraph(gr2) /\ gr2.local = g.local /\ WellFormed(gr2)
  BY <1>2, AddOrUpdateIndirectEdgeStep DEF StoreInv
<1>5. TrueStore(gr2, DetailsAt, LinkKeys) /\ gr2.localIfaces = g.localIfaces
  <2>1. IsGraph(g) /\ TrueStore(g, DetailsAt, LinkKeys)
    BY DEF StoreInv
  <2> HIDE DEF from
  <2> QED
    BY <1>2, <2>1, AddOrUpdateIndirectEdgeTrue
<1> HIDE DEF from, gr2
<1>6. /\ IsGraph(g') /\ WellFormed(g') /\ TrueStore(g', DetailsAt, LinkKeys)
      /\ g'.local = g.local /\ g'.localIfaces = g.localIfaces
  BY <1>3, <1>4, <1>5 DEF StoreInv
<1>7. ASSUME NEW x \in handling'.rest
      PROVE  handling'.from = handling.from /\ x \in handling.rest
  BY <1>1 DEF NoPacket
<1>8. \A x \in handling'.rest :
          /\ x \in NeighborInfo /\ x.id # handling'.from
          /\ handling'.from \in Host /\ handling'.from # g'.local
          /\ TrueNeighbor(handling'.from, x, DetailsAt, LinkKeys)
  BY <1>6, <1>7 DEF StoreInv
<1> QED
  BY <1>6, <1>8 DEF StoreInv

(* The store changes only while GetNetworkSegments is not called.          *)
StoreStep ==
    \/ \E h \in Host : Hear(h)
    \/ \E r, h \in Host : Report(r, h)
    \/ \E nb \in handling.rest : ReceiveNeighbor(nb)

(* The store is built only while the function is not called.               *)
LEMMA StoreStepFrame ==
    StoreStep => phase = "idle" /\ UNCHANGED <<phase, todo, segs, search, merge>>
BY DEF StoreStep, Hear, Report, ReceiveNeighbor

(* Every step that builds the store keeps its invariant.                   *)
LEMMA StoreStepKeeps == StoreInv /\ StoreStep => StoreInv'
BY HearKeeps, ReportKeeps, ReceiveNeighborKeeps DEF StoreStep

(* A step of the call leaves the store alone.                              *)
LEMMA CallKeepsStore == StoreInv /\ UNCHANGED <<g, handling>> => StoreInv'
BY DEF StoreInv

-----------------------------------------------------------------------------
(* Sequences and least elements.                                           *)

(* A sequence with one more member.                                        *)
LEMMA Appended ==
    ASSUME NEW S, NEW q \in Seq(S), NEW x \in S
    PROVE  /\ Append(q, x) \in Seq(S)
           /\ DOMAIN Append(q, x) = DOMAIN q \cup {Len(q) + 1}
           /\ Len(q) + 1 \notin DOMAIN q
           /\ Append(q, x)[Len(q) + 1] = x
           /\ \A y \in DOMAIN q : Append(q, x)[y] = q[y]
OBVIOUS

(* A sequence with one member replaced.                                    *)
LEMMA Replaced ==
    ASSUME NEW S, NEW q \in Seq(S), NEW j \in DOMAIN q, NEW x \in S
    PROVE  /\ [q EXCEPT ![j] = x] \in Seq(S)
           /\ DOMAIN [q EXCEPT ![j] = x] = DOMAIN q
           /\ [q EXCEPT ![j] = x][j] = x
           /\ \A y \in DOMAIN q : y # j => [q EXCEPT ![j] = x][y] = q[y]
OBVIOUS

(* The members of a sequence.                                              *)
LEMMA Members ==
    ASSUME NEW S, NEW q \in Seq(S)
    PROVE  /\ \A x \in DOMAIN q : q[x] \in S
           /\ DOMAIN q \subseteq Nat
OBVIOUS

(* Every set of numbers has a least one.                                   *)
LEMMA LeastNumber ==
    ASSUME NEW T, T \subseteq Nat, T # {}
    PROVE  \E x \in T : \A y \in T : x <= y
<1>1. PICK x \in T : \A y \in T : <<y, x>> \notin OpToRel(<, Nat)
  BY NatLessThanWellFounded, WFMin
<1>2. \A y \in T : ~(y < x)
  BY <1>1 DEF OpToRel
<1> QED
  BY <1>2

(* The first prefix is the least one.                                      *)
LEMMA FirstPrefixIsLeast ==
    ASSUME NEW ps, ps \subseteq UNION Pfx
    PROVE  /\ ps = {} => FirstPrefix(ps) = NoPrefix
           /\ ps # {} => /\ FirstPrefix(ps) \in ps /\ FirstPrefix(ps) # NoPrefix
                         /\ \A y \in ps : FirstPrefix(ps) <= y
<1>1. ps \subseteq Nat /\ NoPrefix \notin ps
  BY PfxAssumption DEF NoPrefix
<1>2. CASE ps = {}
  BY <1>2 DEF FirstPrefix
<1>3. CASE ps # {}
  <2>1. FirstPrefix(ps) = CHOOSE x \in ps : \A y \in ps : x <= y
    BY <1>3 DEF FirstPrefix, Min
  <2>2. \E x \in ps : \A y \in ps : x <= y
    BY <1>1, <1>3, LeastNumber
  <2> QED
    BY <1>1, <1>3, <2>1, <2>2
<1> QED
  BY <1>2, <1>3

(* The first prefix of two sets is the first of one of them.               *)
LEMMA FirstPrefixOfUnion ==
    ASSUME NEW ps, NEW qs, ps \subseteq UNION Pfx, qs \subseteq UNION Pfx
    PROVE  FirstPrefix(ps \cup qs) \in {FirstPrefix(ps), FirstPrefix(qs)}
<1>1. CASE ps = {}
  <2>1. ps \cup qs = qs
    BY <1>1
  <2> QED
    BY <2>1
<1>2. CASE qs = {}
  <2>1. ps \cup qs = ps
    BY <1>2
  <2> QED
    BY <2>1
<1>3. CASE ps # {} /\ qs # {}
  <2> DEFINE both == ps \cup qs
             first == FirstPrefix(both)
             p == FirstPrefix(ps)
             q == FirstPrefix(qs)
  <2>1. both \subseteq Nat /\ ps \subseteq both /\ qs \subseteq both
    BY PfxAssumption
  <2>2. first \in both /\ \A y \in both : first <= y
    BY <1>3, FirstPrefixIsLeast
  <2>3. p \in ps /\ \A y \in ps : p <= y
    BY <1>3, FirstPrefixIsLeast
  <2>4. q \in qs /\ \A y \in qs : q <= y
    BY <1>3, FirstPrefixIsLeast
  <2>5. first \in ps \/ first \in qs
    BY <2>2
  <2> HIDE DEF both, first, p, q
  <2>6. first = p \/ first = q
    BY <2>1, <2>2, <2>3, <2>4, <2>5
  <2> QED
    BY <2>6 DEF both, first, p, q
<1> QED
  BY <1>1, <1>2, <1>3

-----------------------------------------------------------------------------
(* New segments.                                                           *)

(* An edge of the store joins two hosts the store knows.                   *)
LEMMA EdgeFields ==
    ASSUME StoreInv, NEW k \in DOMAIN g.edges
    PROVE  /\ k \in EdgeKey
           /\ k.src \in Host /\ k.dst \in Host /\ k.lif \in Iface /\ k.rif \in Iface
           /\ k = [src |-> k.src, dst |-> k.dst, lif |-> k.lif, rif |-> k.rif]
           /\ k.dst \in DOMAIN g.nodes /\ k.dst # g.local
           /\ k.src # g.local => k.src \in DOMAIN g.nodes
           /\ k \in LinkKeys
<1>1. k \in EdgeKey
  BY DEF StoreInv, IsGraph, IsPartialMap
<1>2. /\ k.dst \in DOMAIN g.nodes /\ k.src \in GetNodes(g)
      /\ g.local \notin DOMAIN g.nodes
  BY DEF StoreInv, WellFormed, EndpointsKnown, SelfNotDiscovered
<1>3. k \in LinkKeys
  BY DEF StoreInv, TrueStore, TrueEdge
<1> QED
  BY <1>1, <1>2, <1>3 DEF EdgeKey, GetNodes

(* The prefixes of an interface that may be missing from its table.        *)
LEMMA PrefixOfType ==
    ASSUME NEW f, IsPartialMap(f, Iface, Details), NEW i
    PROVE  PrefixOf(f, i) \in Pfx
BY ZeroValuesAssumption DEF PrefixOf, IsPartialMap, Details

(* The prefixes of hosts that are known.                                   *)
LEMMA AllPrefixesType ==
    ASSUME StoreInv, NEW nodes, NEW info, nodes \ {g.local} \subseteq DOMAIN g.nodes
    PROVE  AllPrefixes(nodes, info) \in Pfx
<1>1. IsPartialMap(g.localIfaces, Iface, Details)
  BY PartialMapEquiv DEF StoreInv, IsGraph, Ifaces
<1>2. \A n \in DOMAIN g.nodes : IsPartialMap(g.nodes[n].ifaces, Iface, Details)
  BY NodeFields DEF StoreInv
<1>3. \A i : PrefixOf(g.localIfaces, i) \in Pfx
  BY <1>1, PrefixOfType
<1>4. \A n \in nodes \ {g.local} : \A i : PrefixOf(g.nodes[n].ifaces, i) \in Pfx
  BY <1>2, PrefixOfType
<1> DEFINE P == {PrefixOf(g.localIfaces, info[n].lif) : n \in IF g.local \in nodes THEN DOMAIN info ELSE {}}
           Q == {PrefixOf(g.nodes[n].ifaces, info[n].rif) : n \in (nodes \ {g.local}) \cap DOMAIN info}
<1>5. P \subseteq Pfx /\ Q \subseteq Pfx
  BY <1>3, <1>4
<1>6. AllPrefixes(nodes, info) = UNION (P \cup Q)
  BY DEF AllPrefixes
<1> HIDE DEF P, Q
<1>7. AllPrefixes(nodes, info) \subseteq UNION Pfx
  BY <1>5, <1>6
<1> QED
  BY <1>7, PfxAssumption

(* Hosts that each have an edge.                                           *)
LEMMA NewSegmentType ==
    ASSUME StoreInv, NEW i \in Iface, NEW nodes, nodes \subseteq Host, NEW info,
           info \in [DOMAIN info -> DOMAIN g.edges],
           DOMAIN info = nodes \ {g.local},
           \A n \in DOMAIN info : <<n, info[n].rif>> \in Ends(info[n])
    PROVE  /\ NewSegment(i, nodes, info) \in Segment
           /\ NewSegment(i, nodes, info).nodes = nodes
           /\ NewSegment(i, nodes, info).iface = i
           /\ NewSegment(i, nodes, info).prefixes = AllPrefixes(nodes, info)
<1> DEFINE ps == AllPrefixes(nodes, info)
           s == NewSegment(i, nodes, info)
<1>1. nodes \ {g.local} \subseteq DOMAIN g.nodes
  <2> SUFFICES ASSUME NEW n \in DOMAIN info PROVE n = g.local \/ n \in DOMAIN g.nodes
    OBVIOUS
  <2>1. n \in {info[n].src, info[n].dst} /\ info[n] \in DOMAIN g.edges
    BY DEF Ends
  <2> QED
    BY <2>1, EdgeFields
<1>2. ps \in Pfx
  BY <1>1, AllPrefixesType
<1>3. ps \subseteq UNION Pfx
  BY <1>2
<1>4. FirstPrefix(ps) \in (UNION Pfx) \cup {NoPrefix}
  BY <1>3, FirstPrefixIsLeast
<1>5. IsPartialMap(info, Host, DOMAIN g.edges)
  BY DEF IsPartialMap
<1>6. info \in PartialMap(Host, DOMAIN g.edges)
  BY <1>5, PartialMapEquiv
<1>7. s = [iface |-> i, primary |-> FirstPrefix(ps), prefixes |-> ps, nodes |-> nodes, info |-> info]
  BY DEF NewSegment
<1> HIDE DEF ps, s
<1>8. s \in Segment /\ s.nodes = nodes /\ s.iface = i /\ s.prefixes = ps
  BY <1>2, <1>4, <1>6, <1>7 DEF Segment
<1> QED
  BY <1>8 DEF ps, s

(* What is reached over a local interface.                                 *)
LEMMA LocalSegmentType ==
    ASSUME StoreInv, g.local # NoHost, NEW i \in Iface, NEW info \in LocalInfos(i)
    PROVE  LET s == NewSegment(i, Reached(i) \cup {g.local}, info)
           IN  /\ s \in Segment
               /\ s.nodes = Reached(i) \cup {g.local} /\ s.iface = i
               /\ s.prefixes = AllPrefixes(Reached(i) \cup {g.local}, info)
<1>1. /\ info \in [Reached(i) -> LocalEdges(i)]
      /\ \A n \in Reached(i) : info[n].dst = n
  BY DEF LocalInfos
<1>2. LocalEdges(i) \subseteq DOMAIN g.edges
  BY DEF LocalEdges
<1>3. Reached(i) \subseteq Host
  BY <1>2, EdgeFields DEF Reached
<1>4. g.local \in Host
  BY SelfAssumption DEF StoreInv
<1> DEFINE nodes == Reached(i) \cup {g.local}
<1>5. /\ nodes \subseteq Host
      /\ info \in [DOMAIN info -> DOMAIN g.edges]
      /\ DOMAIN info = nodes \ {g.local}
      /\ \A n \in DOMAIN info : <<n, info[n].rif>> \in Ends(info[n])
  <2>1. g.local \notin Reached(i)
    BY <1>2, EdgeFields DEF Reached
  <2> QED
    BY <1>1, <1>2, <1>3, <1>4, <2>1 DEF Ends
<1> HIDE DEF nodes
<1>6. /\ NewSegment(i, nodes, info) \in Segment
      /\ NewSegment(i, nodes, info).nodes = nodes /\ NewSegment(i, nodes, info).iface = i
      /\ NewSegment(i, nodes, info).prefixes = AllPrefixes(nodes, info)
  BY <1>5, NewSegmentType
<1> QED
  BY <1>6 DEF nodes

(* A host of a group has an edge whatever order the sources come in: the   *)
(* first one that touches it.                                              *)
LEMMA RemoteInfoIsGroupMap ==
    ASSUME StoreInv, NEW i \in Iface, NEW f \in RemoteInfos(i)
    PROVE  IsGroupMap(f, i)
<1>1. PICK order \in Injection(Sources(i), 1 .. Cardinality(Sources(i))),
           first \in {x \in [Sources(i) -> RemoteEdges(i)] : \A s \in Sources(i) : x[s].src = s} :
               f = FirstEdges(i, order, first)
  BY DEF RemoteInfos
<1>2. RemoteEdges(i) \subseteq DOMAIN g.edges
  BY DEF RemoteEdges
<1>3. Sources(i) \subseteq Host
  BY <1>2, EdgeFields DEF Sources
<1>4. \A s \in Sources(i) : order[s] \in Nat
  <2>1. order \in [Sources(i) -> 1 .. Cardinality(Sources(i))]
    BY DEF Injection
  <2>2. Cardinality(Sources(i)) \in Nat
    BY <1>3, HostAssumption, FS_Subset, FS_CardinalityType
  <2> QED
    BY <2>1, <2>2
<1>5. ASSUME NEW n \in Group(i)
      PROVE  f[n] \in RemoteEdges(i) /\ n \in {f[n].src, f[n].dst}
  <2> DEFINE touching == {s \in Sources(i) : n = s \/ \E k \in RemoteEdges(i) : k.src = s /\ k.dst = n}
             ranks == {order[s] : s \in touching}
             t == Touching(i, order, n)
  <2>1. touching # {}
    <3>1. PICK k \in RemoteEdges(i) : n \in {k.src, k.dst}
      BY DEF Group
    <3>2. k.src \in Sources(i)
      BY DEF Sources
    <3> QED
      BY <3>1, <3>2
  <2>2. ranks \subseteq Nat /\ ranks # {}
    BY <1>4, <2>1
  <2>3. PICK r \in ranks : \A y \in ranks : r <= y
    BY <2>2, LeastNumber
  <2>4. \E s \in touching : \A y \in touching : order[s] <= order[y]
    BY <2>3
  <2>5. t = CHOOSE s \in touching : \A y \in touching : order[s] <= order[y]
    BY DEF Touching
  <2>6. t \in touching
    BY <2>4, <2>5
  <2>7. f[n] = IF t = n THEN first[t] ELSE [src |-> t, dst |-> n, lif |-> i, rif |-> i]
    BY <1>1 DEF FirstEdges
  <2> HIDE DEF t
  <2>8. CASE t = n
    BY <2>6, <2>7, <2>8
  <2>9. CASE t # n
    <3>1. PICK k \in RemoteEdges(i) : k.src = t /\ k.dst = n
      BY <2>6, <2>9
    <3>2. k = [src |-> t, dst |-> n, lif |-> i, rif |-> i]
      BY <1>2, <3>1, EdgeFields DEF RemoteEdges
    <3> QED
      BY <2>7, <2>9, <3>1, <3>2
  <2> QED
    BY <2>8, <2>9
<1>6. f = [n \in Group(i) |-> f[n]]
  BY <1>1 DEF FirstEdges
<1> QED
  BY <1>5, <1>6 DEF IsGroupMap

-----------------------------------------------------------------------------
(* Merged segments.                                                        *)

(* The edge of a host is one it had in either segment.                     *)
Mixes(f, info, new) ==
    /\ DOMAIN f = DOMAIN info \cup DOMAIN new
    /\ f = [n \in DOMAIN info \cup DOMAIN new |-> f[n]]
    /\ \A n \in DOMAIN info \cup DOMAIN new :
           \/ n \in DOMAIN info /\ f[n] = info[n]
           \/ n \in DOMAIN new /\ f[n] = new[n]

(* Every edge of a merged EdgeInfo is from one of the two, for the same    *)
(* host.                                                                   *)
LEMMA MergedInfoEdges ==
    ASSUME NEW info, NEW new, NEW measures
    PROVE  Mixes(MergedInfo(info, new, measures), info, new)
<1> DEFINE Better(k1, k2) == \E j \in 1 .. 3 : measures[k1][j] > measures[k2][j]
           Kept(n) == n \in DOMAIN info /\ (n \in DOMAIN new => ~Better(new[n], info[n]))
           f == MergedInfo(info, new, measures)
<1>1. f = [n \in DOMAIN info \cup DOMAIN new |-> IF Kept(n) THEN info[n] ELSE new[n]]
  BY DEF MergedInfo
<1>2. \A n : Kept(n) => n \in DOMAIN info
  OBVIOUS
<1>3. \A n : ~Kept(n) => n \notin DOMAIN info \/ n \in DOMAIN new
  OBVIOUS
<1> HIDE DEF Kept, f
<1>4. \A n \in DOMAIN info \cup DOMAIN new : f[n] = IF Kept(n) THEN info[n] ELSE new[n]
  BY <1>1
<1>5. DOMAIN f = DOMAIN info \cup DOMAIN new /\ f = [n \in DOMAIN info \cup DOMAIN new |-> f[n]]
  BY <1>1
<1>6. Mixes(f, info, new)
  BY <1>2, <1>3, <1>4, <1>5 DEF Mixes
<1> QED
  BY <1>6 DEF f

(* What the fields of a segment are.                                       *)
LEMMA SegmentFields ==
    ASSUME NEW s \in Segment
    PROVE  /\ s.iface \in Iface /\ s.prefixes \in Pfx /\ s.prefixes \subseteq UNION Pfx
           /\ s.nodes \subseteq Host
           /\ s.primary = FirstPrefix(s.prefixes)
           /\ s.info \in [DOMAIN s.info -> DOMAIN g.edges]
           /\ DOMAIN s.info = s.nodes \ {g.local}
           /\ \A n \in DOMAIN s.info : /\ <<n, s.info[n].rif>> \in Ends(s.info[n])
                                      /\ n \in {s.info[n].src, s.info[n].dst}
<1>1. s.info \in PartialMap(Host, DOMAIN g.edges)
  BY DEF Segment
<1>2. s.info \in [DOMAIN s.info -> DOMAIN g.edges]
  BY <1>1, PartialMapEquiv DEF IsPartialMap
<1>3. \A n, i, k : <<n, i>> \in Ends(k) => n \in {k.src, k.dst}
  BY DEF Ends
<1> QED
  BY <1>2, <1>3 DEF Segment

(* A record with the hosts and edges of two segments is a segment.         *)
LEMMA MergedType ==
    ASSUME NEW s1 \in Segment, NEW s2 \in Segment, NEW measures, NEW i \in Iface, NEW p, NEW nodes,
           p = FirstPrefix(s1.prefixes \cup s2.prefixes), nodes = s1.nodes \cup s2.nodes
    PROVE  [iface |-> i, primary |-> p, prefixes |-> s1.prefixes \cup s2.prefixes, nodes |-> nodes,
            info |-> MergedInfo(s1.info, s2.info, measures)] \in Segment
<1> DEFINE ps == s1.prefixes \cup s2.prefixes
           f == MergedInfo(s1.info, s2.info, measures)
           s == [iface |-> i, primary |-> p, prefixes |-> ps, nodes |-> nodes, info |-> f]
           D == DOMAIN s1.info \cup DOMAIN s2.info
<1>1. Mixes(f, s1.info, s2.info)
  BY MergedInfoEdges
<1>2. D = nodes \ {g.local} /\ nodes \subseteq Host
  BY SegmentFields
<1>3. ps \subseteq UNION Pfx /\ ps \in Pfx
  BY SegmentFields, PfxAssumption
<1>4. p \in (UNION Pfx) \cup {NoPrefix}
  BY <1>3, FirstPrefixIsLeast
<1> HIDE DEF f
<1>5. ASSUME NEW n \in D
      PROVE  f[n] \in DOMAIN g.edges /\ <<n, f[n].rif>> \in Ends(f[n])
  <2>1. CASE n \in DOMAIN s1.info /\ f[n] = s1.info[n]
    BY <2>1, SegmentFields
  <2>2. CASE n \in DOMAIN s2.info /\ f[n] = s2.info[n]
    BY <2>2, SegmentFields
  <2> QED
    BY <1>1, <2>1, <2>2 DEF Mixes
<1>6. IsPartialMap(f, Host, DOMAIN g.edges) /\ DOMAIN f = D
  BY <1>1, <1>2, <1>5 DEF IsPartialMap, Mixes
<1>7. f \in PartialMap(Host, DOMAIN g.edges)
  BY <1>6, PartialMapEquiv
<1>8. p = FirstPrefix(ps)
  OBVIOUS
<1> HIDE DEF ps, D
<1>9. s \in Segment
  BY <1>2, <1>3, <1>4, <1>5, <1>6, <1>7, <1>8 DEF Segment
<1> QED
  BY <1>9 DEF f, ps

(* Segments that were grouped by their primary prefix.                     *)
LEMMA MergedByPrefixType ==
    ASSUME NEW s1 \in Segment, NEW s2 \in Segment, s1.primary = s2.primary
    PROVE  /\ MergedByPrefix(s1, s2) \in Segment
           /\ MergedByPrefix(s1, s2).primary = s1.primary
           /\ MergedByPrefix(s1, s2).nodes = s1.nodes \cup s2.nodes
           /\ MergedByPrefix(s1, s2).prefixes = s1.prefixes \cup s2.prefixes
<1> DEFINE i == IF s2.iface < s1.iface THEN s2.iface ELSE s1.iface
           nodes == s1.nodes \cup s2.nodes
           ps == s1.prefixes \cup s2.prefixes
           f == MergedInfo(s1.info, s2.info, Known)
           s == [iface |-> i, primary |-> s1.primary, prefixes |-> ps, nodes |-> nodes, info |-> f]
<1>1. i \in Iface
  BY SegmentFields
<1>2. s1.primary = FirstPrefix(ps)
  BY SegmentFields, FirstPrefixOfUnion
<1>3. s = MergedByPrefix(s1, s2)
  BY DEF MergedByPrefix
<1> HIDE DEF i
<1>4. s \in Segment
  BY <1>1, <1>2, MergedType
<1> QED
  BY <1>3, <1>4

(* Segments that were grouped by their hosts: the primary prefix is that   *)
(* of one of them.                                                         *)
LEMMA MergedByNodesType ==
    ASSUME NEW s1 \in Segment, NEW s2 \in Segment, s1.nodes = s2.nodes
    PROVE  /\ MergedByNodes(s1, s2) \in Segment
           /\ MergedByNodes(s1, s2).primary \in {s1.primary, s2.primary}
           /\ MergedByNodes(s1, s2).nodes = s1.nodes
<1> DEFINE i == IF Preferred(s1, s2) THEN s2.iface ELSE s1.iface
           ps == s1.prefixes \cup s2.prefixes
           p == FirstPrefix(ps)
           f == MergedInfo(s1.info, s2.info, Counted)
           s == [iface |-> i, primary |-> p, prefixes |-> ps, nodes |-> s1.nodes, info |-> f]
<1>1. i \in Iface
  BY SegmentFields
<1>2. p \in {s1.primary, s2.primary}
  BY SegmentFields, FirstPrefixOfUnion
<1>3. s = MergedByNodes(s1, s2)
  BY DEF MergedByNodes
<1>4. s1.nodes = s1.nodes \cup s2.nodes
  OBVIOUS
<1> HIDE DEF i
<1>5. s \in Segment
  BY <1>1, <1>4, MergedType
<1> QED
  BY <1>2, <1>3, <1>5

-----------------------------------------------------------------------------
(* The types of a call.                                                    *)

(* What is read from the store stays while the store does.                 *)
LEMMA SameStore ==
    ASSUME g' = g
    PROVE  /\ Segment' = Segment
           /\ SegmentIfaces' = SegmentIfaces
           /\ \A i : Reached(i)' = Reached(i)
           /\ \A i : RemoteEdges(i)' = RemoteEdges(i)
           /\ \A i : Group(i)' = Group(i)
           /\ \A i, S : Connected(i, S)' = Connected(i, S)
           /\ \A f, i : IsGroupMap(f, i)' = IsGroupMap(f, i)
<1>1. Segment' = Segment
  BY DEF Segment
<1>2. \A i : Reached(i)' = Reached(i)
  BY DEF Reached, LocalEdges
<1>3. \A i : RemoteEdges(i)' = RemoteEdges(i)
  BY DEF RemoteEdges
<1>4. SegmentIfaces' = SegmentIfaces
  BY <1>2 DEF SegmentIfaces
<1>5. \A i : Group(i)' = Group(i)
  BY <1>3 DEF Group
<1>6. \A i, S : Connected(i, S)' = Connected(i, S)
  BY <1>3 DEF Connected
<1>7. \A f, i : IsGroupMap(f, i)' = IsGroupMap(f, i)
  BY <1>3, <1>5 DEF IsGroupMap
<1> QED
  BY <1>1, <1>2, <1>3, <1>4, <1>5, <1>6, <1>7

(* Every other step is one of the call, which holds the read lock.         *)
CallStep ==
    \/ Call
    \/ \E i \in Iface : FindLocal(i)
    \/ StartRemote
    \/ \E i \in Iface : NextGroup(i)
    \/ \E start \in Host : FindRemote(start)
    \/ GroupDone
    \/ StartMerge
    \/ \E x \in DOMAIN segs : MergeFirst(x)
    \/ \E x \in DOMAIN segs : MergeByPrefix(x)
    \/ \E x \in DOMAIN segs : MergeByNodeSet(x)
    \/ \E x \in DOMAIN segs : KeepUnmerged(x)
    \/ EndMerge
    \/ Return

(* A step is one of the store or one of the call.                          *)
LEMMA NextCases == Next => StoreStep \/ CallStep
BY Zenon DEF Next, StoreStep, CallStep

(* A call does not change the store.                                       *)
LEMMA CallStepFrame == CallStep => UNCHANGED <<g, handling>>
BY DEF CallStep, Call, FindLocal, StartRemote, NextGroup, FindRemote, GroupDone, StartMerge,
       MergeFirst, MergeByPrefix, MergeByNodeSet, KeepUnmerged, EndMerge, Return

(* The store is as the daemon on the links of Attached can have it.        *)
LEMMA StoreNext == StoreInv /\ [Next]_vars => StoreInv'
<1> SUFFICES ASSUME StoreInv, [Next]_vars PROVE StoreInv'
  OBVIOUS
<1>1. CASE StoreStep
  BY <1>1, StoreStepKeeps
<1>2. CASE CallStep
  BY <1>2, CallStepFrame, CallKeepsStore
<1>3. CASE UNCHANGED vars
  BY <1>3, CallKeepsStore DEF vars
<1> QED
  BY <1>1, <1>2, <1>3, NextCases

(* Nothing has been called at first.                                       *)
LEMMA CallInit == Init => CallInv
<1>1. <<>> \in Seq(Segment) /\ DOMAIN <<>> = {}
  OBVIOUS
<1> QED
  BY <1>1 DEF Init, CallInv

(* What the search finds is in the group.                                  *)
LEMMA ReachedInGroup ==
    ASSUME NEW i, NEW start, NEW seen
    PROVE  ReachableFrom(i, start, seen) \subseteq Group(i)
BY DEF ReachableFrom

(* A component of a group makes a segment.                                 *)
LEMMA RemoteSegmentType ==
    ASSUME StoreInv, NEW i \in Iface, NEW f, IsGroupMap(f, i), NEW C, C \subseteq Group(i)
    PROVE  /\ NewSegment(i, C, Restrict(f, C)) \in Segment
           /\ NewSegment(i, C, Restrict(f, C)).nodes = C
           /\ NewSegment(i, C, Restrict(f, C)).prefixes = AllPrefixes(C, Restrict(f, C))
           /\ DOMAIN Restrict(f, C) = C /\ \A n \in C : Restrict(f, C)[n] = f[n]
<1> DEFINE info == Restrict(f, C)
<1>1. RemoteEdges(i) \subseteq DOMAIN g.edges
  BY DEF RemoteEdges
<1>2. C \subseteq Host
  BY <1>1, EdgeFields DEF Group
<1>3. info = [n \in C |-> f[n]]
  BY DEF Restrict
<1>4. DOMAIN info = C /\ \A n \in C : info[n] = f[n]
  BY <1>3
<1>5. \A n \in C : f[n] \in DOMAIN g.edges /\ <<n, f[n].rif>> \in Ends(f[n])
  BY <1>1 DEF IsGroupMap, RemoteEdges, Ends
<1>6. info \in [DOMAIN info -> DOMAIN g.edges]
  BY <1>3, <1>4, <1>5
<1> HIDE DEF info
<1>7. /\ NewSegment(i, C, info) \in Segment
      /\ NewSegment(i, C, info).nodes = C
      /\ NewSegment(i, C, info).prefixes = AllPrefixes(C, info)
  <2>1. g.local \notin Group(i)
    BY DEF Group, RemoteEdges
  <2>2. DOMAIN info = C \ {g.local} /\ \A n \in DOMAIN info : <<n, info[n].rif>> \in Ends(info[n])
    BY <1>4, <1>5, <2>1
  <2> QED
    BY <1>2, <1>6, <2>2, NewSegmentType
<1> QED
  BY <1>4, <1>7 DEF info

(* A segment is added to those found.                                      *)
LEMMA AppendedSegment ==
    ASSUME CallInv, NEW s \in Segment
    PROVE  /\ Append(segs, s) \in Seq(Segment)
           /\ DOMAIN segs \subseteq DOMAIN Append(segs, s)
           /\ \A x \in DOMAIN segs : Append(segs, s)[x] = segs[x]
           /\ \A x \in DOMAIN Append(segs, s) : x \in DOMAIN segs \/ Append(segs, s)[x] = s
           /\ \E x \in DOMAIN Append(segs, s) : Append(segs, s)[x] = s
<1>1. segs \in Seq(Segment)
  BY DEF CallInv
<1> QED
  BY <1>1, Appended

(* Every step of a call leaves what the next one needs.                    *)
LEMMA CallStepKeeps ==
    ASSUME StoreInv, CallInv, CallStep
    PROVE  CallInv'
<1> DEFINE Types == segs' \in Seq(Segment) /\ result' \in Seq(Segment)
<1>1. g' = g
  BY CallStepFrame
<1>2. Segment' = Segment
  BY <1>1, SameStore
<1>3. /\ \A i : Group(i)' = Group(i)
      /\ \A f, i : IsGroupMap(f, i)' = IsGroupMap(f, i)
  BY <1>1, SameStore
<1>4. segs \in Seq(Segment) /\ result \in Seq(Segment) /\ <<>> \in Seq(Segment)
  BY DEF CallInv
<1>5. CASE Call
  BY <1>1, <1>2, <1>4, <1>5 DEF Call, CallInv, search, merge, SegmentIfaces
<1>6. ASSUME NEW i \in Iface, FindLocal(i) PROVE CallInv'
  <2>1. phase = "local" /\ g.local # NoHost
    BY <1>6 DEF FindLocal, CallInv
  <2>2. PICK info \in LocalInfos(i) : segs' = Append(segs, NewSegment(i, Reached(i) \cup {g.local}, info))
    BY <1>6 DEF FindLocal
  <2> DEFINE s == NewSegment(i, Reached(i) \cup {g.local}, info)
  <2>3. s \in Segment
    BY <2>1, LocalSegmentType
  <2> HIDE DEF s
  <2>4. Append(segs, s) \in Seq(Segment) /\ DOMAIN segs \subseteq DOMAIN Append(segs, s)
    BY <2>3, AppendedSegment
  <2>5. segs' \in Seq(Segment) /\ DOMAIN segs \subseteq DOMAIN segs'
    BY <2>2, <2>4 DEF s
  <2> QED
    BY <1>1, <1>2, <1>4, <1>6, <2>1, <2>5 DEF FindLocal, CallInv, search, merge
<1>7. CASE StartRemote
  BY <1>1, <1>2, <1>4, <1>7 DEF StartRemote, CallInv, search, merge, RemoteIfaces
<1>8. ASSUME NEW i \in Iface, NextGroup(i) PROVE CallInv'
  <2>1. IsGroupMap(nodeEdges', i)
    BY <1>8, RemoteInfoIsGroupMap DEF NextGroup
  <2>2. visited' \subseteq Group(i)
    BY <1>8 DEF NextGroup, CallInv
  <2>3. phase' = "search" /\ iface' = i
    BY <1>8 DEF NextGroup
  <2>4. (iface \in Iface /\ IsGroupMap(nodeEdges, iface) /\ visited \subseteq Group(iface))'
    BY <1>1, <2>1, <2>2, <2>3 DEF IsGroupMap, Group, RemoteEdges
  <2> QED
    BY <1>1, <1>2, <1>4, <1>8, <2>3, <2>4 DEF NextGroup, CallInv, merge
<1>9. ASSUME NEW start \in Host, FindRemote(start) PROVE CallInv'
  <2> DEFINE C == ReachableFrom(iface, start, visited)
             s == NewSegment(iface, C, Restrict(nodeEdges, C))
  <2>1. phase = "search" /\ iface \in Iface /\ IsGroupMap(nodeEdges, iface) /\ visited \subseteq Group(iface)
    BY <1>9 DEF FindRemote, CallInv
  <2>2. C \subseteq Group(iface)
    BY ReachedInGroup
  <2>3. visited' = visited \cup C /\ segs' \in {segs, Append(segs, s)}
    BY <1>9 DEF FindRemote
  <2> HIDE DEF C
  <2>4. s \in Segment
    BY <2>1, <2>2, RemoteSegmentType
  <2> HIDE DEF s
  <2>5. Append(segs, s) \in Seq(Segment) /\ DOMAIN segs \subseteq DOMAIN Append(segs, s)
    BY <2>4, AppendedSegment
  <2>6. segs' \in Seq(Segment) /\ DOMAIN segs \subseteq DOMAIN segs'
    BY <1>4, <2>3, <2>5
  <2>7. (iface \in Iface /\ IsGroupMap(nodeEdges, iface) /\ visited \subseteq Group(iface))'
    BY <1>1, <1>9, <2>1, <2>2, <2>3 DEF FindRemote, IsGroupMap, Group, RemoteEdges
  <2> QED
    BY <1>1, <1>2, <1>4, <1>9, <2>1, <2>6, <2>7 DEF FindRemote, CallInv, merge
<1>10. CASE GroupDone
  BY <1>1, <1>2, <1>4, <1>10 DEF GroupDone, CallInv, merge
<1>11. CASE StartMerge
  BY <1>1, <1>2, <1>4, <1>11 DEF StartMerge, CallInv, search, merge
<1>12. ASSUME NEW x \in DOMAIN segs, MergeFirst(x) \/ KeepUnmerged(x) PROVE CallInv'
  <2>1. segs[x] \in Segment
    BY <1>4, Members
  <2>2. Append(result, segs[x]) \in Seq(Segment)
    BY <1>4, <2>1, Appended
  <2> QED
    BY <1>1, <1>2, <1>4, <1>12, <2>2 DEF MergeFirst, KeepUnmerged, CallInv, search
<1>13. ASSUME NEW x \in DOMAIN segs, MergeByPrefix(x) PROVE CallInv'
  <2>1. PICK j \in Begun(x) : result' = [result EXCEPT ![j] = MergedByPrefix(result[j], segs[x])]
    BY <1>13 DEF MergeByPrefix
  <2>2. j \in DOMAIN result /\ result[j].primary = segs[x].primary
    BY <1>13 DEF MergeByPrefix, Begun, Key
  <2>3. segs[x] \in Segment /\ result[j] \in Segment
    BY <1>4, <2>2, Members
  <2>4. MergedByPrefix(result[j], segs[x]) \in Segment
    BY <2>2, <2>3, MergedByPrefixType
  <2>5. result' \in Seq(Segment)
    BY <1>4, <2>1, <2>2, <2>4, Replaced
  <2> QED
    BY <1>1, <1>2, <1>4, <1>13, <2>5 DEF MergeByPrefix, CallInv, search
<1>14. ASSUME NEW x \in DOMAIN segs, MergeByNodeSet(x) PROVE CallInv'
  <2>1. PICK j \in Begun(x) : result' = [result EXCEPT ![j] = MergedByNodes(result[j], segs[x])]
    BY <1>14 DEF MergeByNodeSet
  <2>2. j \in DOMAIN result /\ result[j].nodes = segs[x].nodes
    BY <1>14 DEF MergeByNodeSet, Begun, Key
  <2>3. segs[x] \in Segment /\ result[j] \in Segment
    BY <1>4, <2>2, Members
  <2>4. MergedByNodes(result[j], segs[x]) \in Segment
    BY <2>2, <2>3, MergedByNodesType
  <2>5. result' \in Seq(Segment)
    BY <1>4, <2>1, <2>2, <2>4, Replaced
  <2> QED
    BY <1>1, <1>2, <1>4, <1>14, <2>5 DEF MergeByNodeSet, CallInv, search
<1>15. CASE EndMerge
  BY <1>1, <1>2, <1>4, <1>15 DEF EndMerge, CallInv, search
<1>16. CASE Return
  BY <1>1, <1>2, <1>4, <1>16 DEF Return, CallInv, search, merge
<1> QED
  BY <1>5, <1>6, <1>7, <1>8, <1>9, <1>10, <1>11, <1>12, <1>13, <1>14, <1>15, <1>16 DEF CallStep

(* What the parts of a call leave for each other, in every step.           *)
LEMMA CallNext ==
    ASSUME StoreInv, CallInv, [Next]_vars
    PROVE  CallInv'
<1>1. CASE StoreStep
  <2>1. phase = "idle" /\ UNCHANGED <<phase, todo, segs, search, merge>>
    BY <1>1, StoreStepFrame
  <2>2. segs' = <<>> /\ result' = <<>> /\ merged' = {} /\ todo' = todo /\ phase' = "idle"
    BY <2>1 DEF CallInv, merge
  <2>3. iface' = NoIface /\ nodeEdges' = EmptyMap /\ visited' = {}
    BY <2>1 DEF CallInv, search
  <2>4. todo' \subseteq Iface /\ <<>> \in Seq(Segment') /\ DOMAIN <<>> = {}
    BY <2>2 DEF CallInv
  <2> QED
    BY <2>2, <2>3, <2>4 DEF CallInv
<1>2. CASE CallStep
  BY <1>2, CallStepKeeps
<1>3. CASE UNCHANGED vars
  <2>1. g' = g /\ UNCHANGED <<phase, todo, segs, search, merge>>
    BY <1>3 DEF vars
  <2>2. Segment' = Segment /\ IsGroupMap(nodeEdges, iface)' = IsGroupMap(nodeEdges, iface)
        /\ Group(iface)' = Group(iface)
    BY <2>1 DEF Segment, search, IsGroupMap, Group, RemoteEdges
  <2> QED
    BY <2>1, <2>2 DEF CallInv, search, merge
<1> QED
  BY <1>1, <1>2, <1>3, NextCases

(* The types follow.                                                       *)
LEMMA TypesHold == StoreInv /\ CallInv => SegmentsTypeOK
<1> SUFFICES ASSUME StoreInv, CallInv PROVE SegmentsTypeOK
  OBVIOUS
<1>1. ASSUME NEW s \in Segment PROVE IsSegment(s)
  <2>1. IsPartialMap(s.info, s.nodes, DOMAIN g.edges)
    BY SegmentFields DEF IsPartialMap
  <2>2. s \in [iface : Iface, primary : (UNION Pfx) \cup {NoPrefix}, prefixes : Pfx,
               nodes : SUBSET Host, info : {s.info}]
    BY DEF Segment
  <2> QED
    BY <2>1, <2>2 DEF IsSegment
<1>2. (\A x \in DOMAIN segs : segs[x] \in Segment) /\ (\A j \in DOMAIN result : result[j] \in Segment)
  BY Members DEF CallInv
<1>3. iface \in Iface
  BY IfaceAssumption, ZeroValuesAssumption DEF CallInv
<1>4. IsPartialMap(nodeEdges, Host, DOMAIN g.edges) /\ visited \subseteq Host
  <2>1. CASE phase = "search"
    <3>1. IsGroupMap(nodeEdges, iface) /\ visited \subseteq Group(iface)
      BY <2>1 DEF CallInv
    <3>2. RemoteEdges(iface) \subseteq DOMAIN g.edges
      BY DEF RemoteEdges
    <3>3. Group(iface) \subseteq Host
      BY <3>2, EdgeFields DEF Group
    <3> QED
      BY <3>1, <3>2, <3>3 DEF IsGroupMap, IsPartialMap
  <2>2. CASE phase # "search"
    BY <2>2, EmptyMapType DEF CallInv
  <2> QED
    BY <2>1, <2>2
<1> QED
  BY <1>1, <1>2, <1>3, <1>4 DEF SegmentsTypeOK, CallInv

(* The members of what a call returns.                                     *)
LEMMA ResultMembers ==
    ASSUME CallInv, NEW s \in Result
    PROVE  s \in Segment /\ \E x \in DOMAIN segs : s = segs[x]
<1>1. segs \in Seq(Segment) /\ s \in ToSet(segs)
  BY DEF CallInv, Result
<1> QED
  BY <1>1, Members DEF ToSet, Range

(* The members have their edges.                                           *)
LEMMA EdgesHold == CallInv => MembersHaveEdges
BY ResultMembers, SegmentFields DEF MembersHaveEdges

-----------------------------------------------------------------------------
(* No hosts are lost.                                                      *)

(* A sequence of segments covers what another one does.                    *)
Includes(q, q2) == \A x \in DOMAIN q : Covered(q2, q[x].nodes)

(* Hosts that are together stay together when segments grow.               *)
LEMMA CoveredStill ==
    ASSUME NEW q, NEW q2, Includes(q, q2), NEW S, Covered(q, S)
    PROVE  Covered(q2, S)
<1>1. PICK x \in DOMAIN q : S \subseteq q[x].nodes
  BY DEF Covered
<1>2. PICK y \in DOMAIN q2 : q[x].nodes \subseteq q2[y].nodes
  BY DEF Covered, Includes
<1> QED
  BY <1>1, <1>2 DEF Covered

(* A longer sequence does.                                                 *)
LEMMA AppendIncludes ==
    ASSUME NEW T, NEW q \in Seq(T), NEW s \in T
    PROVE  Includes(q, Append(q, s)) /\ Covered(Append(q, s), s.nodes)
<1>1. /\ DOMAIN Append(q, s) = DOMAIN q \cup {Len(q) + 1}
      /\ Append(q, s)[Len(q) + 1] = s
      /\ \A y \in DOMAIN q : Append(q, s)[y] = q[y]
  BY Appended
<1> QED
  BY <1>1, Zenon DEF Includes, Covered

(* And one with a member that has grown.                                   *)
LEMMA ReplacedIncludes ==
    ASSUME NEW T, NEW q \in Seq(T), NEW j \in DOMAIN q, NEW s \in T, q[j].nodes \subseteq s.nodes
    PROVE  /\ Includes(q, [q EXCEPT ![j] = s])
           /\ Covered([q EXCEPT ![j] = s], s.nodes)
<1> DEFINE q2 == [q EXCEPT ![j] = s]
<1>1. /\ DOMAIN q2 = DOMAIN q /\ q2[j] = s
      /\ \A y \in DOMAIN q : y # j => q2[y] = q[y]
  BY Replaced
<1> HIDE DEF q2
<1>2. ASSUME NEW y \in DOMAIN q PROVE Covered(q2, q[y].nodes)
  <2>1. CASE y = j
    BY <1>1, <2>1 DEF Covered
  <2>2. CASE y # j
    BY <1>1, <1>2, <2>2 DEF Covered
  <2> QED
    BY <2>1, <2>2
<1>3. Covered(q2, s.nodes)
  BY <1>1 DEF Covered
<1> QED
  BY <1>2, <1>3 DEF q2, Includes

(* The search does not leave its component but to hosts seen before.       *)
LEMMA ReachedClosed ==
    ASSUME NEW i, NEW start \in Group(i), NEW seen
    PROVE  /\ start \in ReachableFrom(i, start, seen)
           /\ Closed(i, ReachableFrom(i, start, seen), seen)
<1> DEFINE C == ReachableFrom(i, start, seen)
<1>1. start \in C
  BY DEF ReachableFrom
<1>2. ASSUME NEW k \in RemoteEdges(i), k.src \in C, k.dst \notin seen
      PROVE  k.dst \in C
  <2>1. k.dst \in Group(i)
    BY DEF Group
  <2>2. ASSUME NEW S \in SUBSET Group(i), start \in S, Closed(i, S, seen)
        PROVE  k.dst \in S
    <3>1. k.src \in S
      BY <1>2, <2>2 DEF ReachableFrom
    <3> QED
      BY <1>2, <2>2, <3>1 DEF Closed
  <2> QED
    BY <2>1, <2>2 DEF ReachableFrom
<1> QED
  BY <1>1, <1>2 DEF Closed

(* Hosts that lead to each other are found together: a search that meets   *)
(* one of them before any other was seen meets them all.                   *)
LEMMA FoundTogether ==
    ASSUME NEW i, NEW start \in Group(i), NEW seen, NEW S, Connected(i, S), S \cap seen = {},
           S \cap ReachableFrom(i, start, seen) # {}
    PROVE  S \subseteq ReachableFrom(i, start, seen)
<1> DEFINE C == ReachableFrom(i, start, seen)
           T == S \cap C
<1>1. Closed(i, C, seen)
  BY ReachedClosed
<1> HIDE DEF C
<1>2. SUFFICES ASSUME T # S PROVE FALSE
  BY DEF C
<1>3. T \in (SUBSET S) \ {{}, S}
  BY <1>2 DEF C
<1>4. PICK k \in RemoteEdges(i) : k.src \in T /\ k.dst \in S \ T
  BY <1>3 DEF Connected
<1> QED
  BY <1>1, <1>4 DEF Closed

(* Sets of hosts are finite, and three hosts are some.                     *)
LEMMA ThreeHosts ==
    ASSUME NEW C, C \subseteq Host, NEW S, S \subseteq C, Cardinality(S) >= 3
    PROVE  S # {} /\ Cardinality(C) \in Nat /\ Cardinality(C) >= 3
<1>1. IsFiniteSet(C) /\ IsFiniteSet(S)
  BY HostAssumption, FS_Subset
<1>2. Cardinality(S) <= Cardinality(C)
  BY <1>1, FS_Subset
<1>3. Cardinality(S) \in Nat /\ Cardinality(C) \in Nat
  BY <1>1, FS_CardinalityType
<1>4. S # {}
  BY <1>1, <1>3, FS_EmptySet
<1> QED
  BY <1>2, <1>3, <1>4

(* A group is one of hosts.                                                *)
LEMMA GroupOfHosts ==
    ASSUME StoreInv, NEW i
    PROVE  Group(i) \subseteq Host
<1>1. RemoteEdges(i) \subseteq DOMAIN g.edges
  BY DEF RemoteEdges
<1> QED
  BY <1>1, EdgeFields DEF Group

(* What must be covered stays while the store does.                        *)
LEMMA SameLinked ==
    ASSUME g' = g
    PROVE  \A i, S : Linked(i, S)' = Linked(i, S)
BY SameStore DEF Linked

(* Nothing has to be covered at first.                                     *)
LEMMA CoverInit == Init => CoverInv
BY DEF Init, CoverInv, LocalCovered, RemoteCovered, MergeCovered

(* A step of a merge: what is found stays, what was made stays covered.    *)
LEMMA MergeStepCovers ==
    ASSUME CoverInv, phase \in {"prefix", "nodes"}, UNCHANGED <<g, phase, todo, segs, search>>,
           NEW x \in DOMAIN segs, merged' = merged \cup {x},
           Includes(result, result'), Covered(result', segs[x].nodes)
    PROVE  CoverInv'
<1>1. \A i, S : Linked(i, S)' = Linked(i, S)
  BY SameLinked
<1>2. SegmentIfaces' = SegmentIfaces /\ \A i : Reached(i)' = Reached(i)
  BY SameStore
<1>3. LocalCovered'
  BY <1>2 DEF CoverInv, LocalCovered, Covered
<1>4. RemoteCovered'
  BY <1>1 DEF CoverInv, RemoteCovered, Covered, search
<1>5. ASSUME NEW y \in merged' PROVE Covered(result', segs'[y].nodes)
  <2>1. CASE y = x
    BY <2>1
  <2>2. CASE y \in merged
    <3>1. Covered(result, segs[y].nodes)
      BY <2>2 DEF CoverInv, MergeCovered
    <3> QED
      BY <3>1, CoveredStill
  <2> QED
    BY <2>1, <2>2
<1>6. MergeCovered'
  BY <1>5 DEF MergeCovered
<1>7. phase' # "local"
  OBVIOUS
<1> QED
  BY <1>3, <1>4, <1>6, <1>7 DEF CoverInv

(* No step of a call loses hosts.                                          *)
LEMMA CoverStepKeeps ==
    ASSUME StoreInv, CallInv, CoverInv, CallStep
    PROVE  CoverInv'
<1>1. g' = g
  BY CallStepFrame
<1>2. \A i, S : Linked(i, S)' = Linked(i, S)
  BY <1>1, SameLinked
<1>3. SegmentIfaces' = SegmentIfaces /\ \A i : Reached(i)' = Reached(i)
  BY <1>1, SameStore
<1>4. segs \in Seq(Segment) /\ result \in Seq(Segment)
  BY DEF CallInv
<1>5. CASE Call
  <2>1. segs' = <<>> /\ DOMAIN <<>> = {} /\ merged' = {}
    BY <1>5 DEF Call, CallInv, merge
  <2>2. \/ phase' = "done" /\ g'.local = NoHost
        \/ phase' = "local" /\ todo' = SegmentIfaces
    BY <1>1, <1>5 DEF Call
  <2> QED
    BY <1>3, <2>1, <2>2 DEF CoverInv, LocalCovered, RemoteCovered, MergeCovered
<1>6. ASSUME NEW i \in Iface, FindLocal(i) PROVE CoverInv'
  <2>1. phase = "local" /\ g.local # NoHost /\ phase' = "local" /\ merged' = {} /\ todo' = todo \ {i}
    BY <1>6 DEF FindLocal, CallInv, merge
  <2>2. PICK info \in LocalInfos(i) : segs' = Append(segs, NewSegment(i, Reached(i) \cup {g.local}, info))
    BY <1>6 DEF FindLocal
  <2> DEFINE s == NewSegment(i, Reached(i) \cup {g.local}, info)
  <2>3. s \in Segment /\ s.nodes = Reached(i) \cup {g.local} /\ s.iface = i
    BY <2>1, LocalSegmentType
  <2> HIDE DEF s
  <2>4. Includes(segs, segs') /\ Covered(segs', s.nodes)
    BY <1>4, <2>2, <2>3, AppendIncludes DEF s
  <2>5. \A x \in DOMAIN segs' : \/ x \in DOMAIN segs /\ segs'[x] = segs[x]
                                \/ segs'[x] = s
    BY <2>2, <2>3, AppendedSegment DEF s
  <2>6. todo' \subseteq SegmentIfaces' /\ \A x \in DOMAIN segs' : segs'[x].iface \in SegmentIfaces'
    BY <1>3, <1>6, <2>1, <2>3, <2>5 DEF CoverInv, FindLocal
  <2>7. ASSUME NEW j \in SegmentIfaces, j \notin todo'
        PROVE  Covered(segs', Reached(j) \cup {g.local})
    <3>1. CASE j = i
      BY <2>3, <2>4, <3>1
    <3>2. CASE j # i
      <4>1. Covered(segs, Reached(j) \cup {g.local})
        BY <2>1, <2>7, <3>2 DEF CoverInv, LocalCovered
      <4> QED
        BY <2>4, <4>1, CoveredStill
    <3> QED
      BY <3>1, <3>2
  <2>8. LocalCovered'
    BY <1>1, <1>3, <2>1, <2>7 DEF LocalCovered
  <2> QED
    BY <2>1, <2>6, <2>8 DEF CoverInv, RemoteCovered, MergeCovered
<1>7. CASE StartRemote
  <2>1. /\ phase = "local" /\ todo = {} /\ g.local # NoHost /\ phase' = "remote"
        /\ segs' = segs /\ merged' = {} /\ todo' = RemoteIfaces
    BY <1>7 DEF StartRemote, CallInv, merge
  <2>2. LocalCovered'
    BY <1>1, <1>3, <2>1 DEF CoverInv, LocalCovered
  <2>3. ASSUME NEW i \in Iface, NEW S \in SUBSET Host, Linked(i, S) PROVE i \in RemoteIfaces
    <3>1. S # {} /\ S \subseteq Group(i)
      BY <2>3, ThreeHosts DEF Linked
    <3>2. RemoteEdges(i) # {}
      BY <3>1 DEF Group
    <3>3. \A x \in DOMAIN segs : segs[x].iface # i
      BY <2>1, <2>3 DEF CoverInv, Linked
    <3> QED
      BY <3>2, <3>3 DEF RemoteIfaces
  <2>4. RemoteCovered'
    BY <1>2, <2>1, <2>3 DEF RemoteCovered
  <2> QED
    BY <2>1, <2>2, <2>4 DEF CoverInv, MergeCovered
<1>8. ASSUME NEW i \in Iface, NextGroup(i) PROVE CoverInv'
  <2>1. /\ phase = "remote" /\ phase' = "search" /\ iface' = i /\ visited' = {} /\ todo' = todo \ {i}
        /\ segs' = segs /\ merged' = {} /\ g.local # NoHost
    BY <1>8 DEF NextGroup, CallInv, merge
  <2>2. LocalCovered'
    BY <1>1, <1>3, <2>1 DEF CoverInv, LocalCovered
  <2>3. RemoteCovered'
    BY <1>2, <2>1 DEF CoverInv, RemoteCovered
  <2> QED
    BY <2>1, <2>2, <2>3 DEF CoverInv, MergeCovered
<1>9. ASSUME NEW start \in Host, FindRemote(start) PROVE CoverInv'
  <2> DEFINE C == ReachableFrom(iface, start, visited)
             s == NewSegment(iface, C, Restrict(nodeEdges, C))
  <2>1. /\ phase = "search" /\ phase' = "search" /\ iface' = iface /\ todo' = todo
        /\ merged' = {} /\ g.local # NoHost
        /\ iface \in Iface /\ IsGroupMap(nodeEdges, iface) /\ visited \subseteq Group(iface)
    BY <1>9 DEF FindRemote, CallInv, merge
  <2>2. /\ visited' = visited \cup C
        /\ segs' = IF Cardinality(C) >= MinNodes(iface, nodeEdges) THEN Append(segs, s) ELSE segs
    BY <1>9 DEF FindRemote
  <2>3. start \in Group(iface)
    BY <1>9, <2>1 DEF FindRemote, IsGroupMap
  <2>4. C \subseteq Group(iface) /\ C \subseteq Host
    BY ReachedInGroup, GroupOfHosts
  <2>5. \A S : Connected(iface, S) /\ S \cap visited = {} /\ S \cap C # {} => S \subseteq C
    BY <2>3, FoundTogether
  <2> HIDE DEF C
  <2>6. s \in Segment /\ s.nodes = C
    BY <2>1, <2>4, RemoteSegmentType
  <2> HIDE DEF s
  <2>7. Includes(segs, segs) /\ Includes(segs, Append(segs, s)) /\ Covered(Append(segs, s), C)
    BY <1>4, <2>6, AppendIncludes DEF Includes, Covered
  <2>8. Includes(segs, segs')
    BY <2>2, <2>7
  <2>9. ASSUME NEW S, Linked(iface, S), S \cap visited = {}, S \cap C # {}
        PROVE  Covered(segs', S)
    <3>1. S \subseteq C /\ Cardinality(S) >= 3
      BY <2>5, <2>9 DEF Linked
    <3>2. Cardinality(C) \in Nat /\ Cardinality(C) >= 3
      BY <2>4, <3>1, ThreeHosts
    <3>3. MinNodes(iface, nodeEdges) \in {2, 3}
      BY DEF MinNodes
    <3>4. Covered(segs', C)
      BY <2>2, <2>7, <3>2, <3>3
    <3> QED
      BY <3>1, <3>4 DEF Covered
  <2>10. LocalCovered'
    <3>1. \A j \in SegmentIfaces : Covered(segs, Reached(j) \cup {g.local})
      BY <2>1 DEF CoverInv, LocalCovered
    <3>2. \A j \in SegmentIfaces : Covered(segs', Reached(j) \cup {g.local})
      BY <2>8, <3>1, CoveredStill
    <3> QED
      BY <1>1, <1>3, <3>2 DEF LocalCovered
  <2>11. ASSUME NEW i \in Iface, NEW S \in SUBSET Host, Linked(i, S)
         PROVE  i \in todo' \/ (i = iface' /\ S \cap visited' = {}) \/ Covered(segs', S)
    <3>1. i \in todo \/ (i = iface /\ S \cap visited = {}) \/ Covered(segs, S)
      BY <2>1, <2>11 DEF CoverInv, RemoteCovered
    <3>2. CASE i = iface /\ S \cap visited = {}
      BY <2>1, <2>2, <2>9, <2>11, <3>2
    <3>3. CASE Covered(segs, S)
      BY <2>8, <3>3, CoveredStill
    <3> QED
      BY <2>1, <3>1, <3>2, <3>3
  <2>12. RemoteCovered'
    BY <1>2, <2>1, <2>11 DEF RemoteCovered
  <2> QED
    BY <2>1, <2>10, <2>12 DEF CoverInv, MergeCovered
<1>10. CASE GroupDone
  <2>1. /\ phase = "search" /\ phase' = "remote" /\ todo' = todo /\ segs' = segs
        /\ merged' = {} /\ g.local # NoHost /\ Group(iface) \subseteq visited
    BY <1>10 DEF GroupDone, CallInv, merge, IsGroupMap
  <2>2. LocalCovered'
    BY <1>1, <1>3, <2>1 DEF CoverInv, LocalCovered
  <2>3. ASSUME NEW i \in Iface, NEW S \in SUBSET Host, Linked(i, S)
        PROVE  i \in todo \/ Covered(segs, S)
    <3>1. S # {} /\ S \subseteq Group(i)
      BY <2>3, ThreeHosts DEF Linked
    <3>2. i \in todo \/ (i = iface /\ S \cap visited = {}) \/ Covered(segs, S)
      BY <2>1, <2>3 DEF CoverInv, RemoteCovered
    <3> QED
      BY <2>1, <3>1, <3>2
  <2>4. RemoteCovered'
    BY <1>2, <2>1, <2>3 DEF RemoteCovered
  <2> QED
    BY <2>1, <2>2, <2>4 DEF CoverInv, MergeCovered
<1>11. CASE StartMerge
  <2>1. phase = "remote" /\ phase' = "prefix" /\ todo = {} /\ segs' = segs /\ merged' = {} /\ g.local # NoHost
    BY <1>11 DEF StartMerge, CallInv, merge
  <2>2. LocalCovered'
    BY <1>1, <1>3, <2>1 DEF CoverInv, LocalCovered
  <2>3. RemoteCovered'
    BY <1>2, <2>1 DEF CoverInv, RemoteCovered
  <2> QED
    BY <2>1, <2>2, <2>3 DEF CoverInv, MergeCovered
<1>12. ASSUME NEW x \in DOMAIN segs, MergeFirst(x) \/ KeepUnmerged(x) PROVE CoverInv'
  <2>1. /\ phase \in {"prefix", "nodes"} /\ UNCHANGED <<g, phase, todo, segs, search>>
        /\ merged' = merged \cup {x} /\ result' = Append(result, segs[x])
    BY <1>12 DEF MergeFirst, KeepUnmerged
  <2>2. segs[x] \in Segment
    BY <1>4, Members
  <2>3. Includes(result, result') /\ Covered(result', segs[x].nodes)
    BY <1>4, <2>1, <2>2, AppendIncludes
  <2> QED
    BY <2>1, <2>3, MergeStepCovers
<1>13. ASSUME NEW x \in DOMAIN segs, MergeByPrefix(x) PROVE CoverInv'
  <2>1. /\ phase \in {"prefix", "nodes"} /\ UNCHANGED <<g, phase, todo, segs, search>>
        /\ merged' = merged \cup {x}
    BY <1>13 DEF MergeByPrefix
  <2>2. PICK j \in Begun(x) : result' = [result EXCEPT ![j] = MergedByPrefix(result[j], segs[x])]
    BY <1>13 DEF MergeByPrefix
  <2>3. j \in DOMAIN result /\ result[j].primary = segs[x].primary
    BY <1>13 DEF MergeByPrefix, Begun, Key
  <2> DEFINE s == MergedByPrefix(result[j], segs[x])
  <2>4. s \in Segment /\ s.nodes = result[j].nodes \cup segs[x].nodes
    BY <1>4, <2>3, Members, MergedByPrefixType
  <2> HIDE DEF s
  <2>5. Includes(result, result') /\ Covered(result', s.nodes)
    BY <1>4, <2>2, <2>3, <2>4, ReplacedIncludes DEF s
  <2>6. Covered(result', segs[x].nodes)
    BY <2>4, <2>5 DEF Covered
  <2> QED
    BY <2>1, <2>5, <2>6, MergeStepCovers
<1>14. ASSUME NEW x \in DOMAIN segs, MergeByNodeSet(x) PROVE CoverInv'
  <2>1. /\ phase \in {"prefix", "nodes"} /\ UNCHANGED <<g, phase, todo, segs, search>>
        /\ merged' = merged \cup {x}
    BY <1>14 DEF MergeByNodeSet
  <2>2. PICK j \in Begun(x) : result' = [result EXCEPT ![j] = MergedByNodes(result[j], segs[x])]
    BY <1>14 DEF MergeByNodeSet
  <2>3. j \in DOMAIN result /\ result[j].nodes = segs[x].nodes
    BY <1>14 DEF MergeByNodeSet, Begun, Key
  <2> DEFINE s == MergedByNodes(result[j], segs[x])
  <2>4. s \in Segment /\ s.nodes = segs[x].nodes
    BY <1>4, <2>3, Members, MergedByNodesType
  <2> HIDE DEF s
  <2>5. Includes(result, result') /\ Covered(result', s.nodes)
    BY <1>4, <2>2, <2>3, <2>4, ReplacedIncludes DEF s
  <2> QED
    BY <2>1, <2>4, <2>5, MergeStepCovers
<1>15. CASE EndMerge
  <2>1. /\ phase \in {"prefix", "nodes"} /\ phase' \in {"nodes", "done"}
        /\ DOMAIN segs \subseteq merged /\ segs' = result /\ merged' = {} /\ g.local # NoHost
    BY <1>15 DEF EndMerge, Left, CallInv
  <2>2. Includes(segs, segs')
    BY <2>1 DEF CoverInv, MergeCovered, Includes
  <2>3. LocalCovered'
    <3>1. \A j \in SegmentIfaces : Covered(segs, Reached(j) \cup {g.local})
      BY <2>1 DEF CoverInv, LocalCovered
    <3>2. \A j \in SegmentIfaces : Covered(segs', Reached(j) \cup {g.local})
      BY <2>2, <3>1, CoveredStill
    <3> QED
      BY <1>1, <1>3, <3>2 DEF LocalCovered
  <2>4. RemoteCovered'
    <3>1. \A i \in Iface : \A S \in SUBSET Host : Linked(i, S) => Covered(segs, S)
      BY <2>1 DEF CoverInv, RemoteCovered
    <3>2. \A i \in Iface : \A S \in SUBSET Host : Linked(i, S) => Covered(segs', S)
      BY <2>2, <3>1, CoveredStill
    <3> QED
      BY <1>2, <3>2 DEF RemoteCovered
  <2> QED
    BY <2>1, <2>3, <2>4 DEF CoverInv, MergeCovered
<1>16. CASE Return
  <2>1. phase' = "idle" /\ merged' = {}
    BY <1>16 DEF Return, CallInv, merge
  <2> QED
    BY <2>1 DEF CoverInv, LocalCovered, RemoteCovered, MergeCovered
<1> QED
  BY <1>5, <1>6, <1>7, <1>8, <1>9, <1>10, <1>11, <1>12, <1>13, <1>14, <1>15, <1>16 DEF CallStep

(* No step loses hosts.                                                    *)
LEMMA CoverNext ==
    ASSUME StoreInv, CallInv, CoverInv, [Next]_vars
    PROVE  CoverInv'
<1>1. CASE StoreStep
  <2>1. phase' = "idle" /\ merged' = {}
    BY <1>1, StoreStepFrame DEF CallInv, merge
  <2> QED
    BY <2>1 DEF CoverInv, LocalCovered, RemoteCovered, MergeCovered
<1>2. CASE CallStep
  BY <1>2, CoverStepKeeps
<1>3. CASE UNCHANGED vars
  <2>1. g' = g /\ UNCHANGED <<phase, todo, segs, search, merge>>
    BY <1>3 DEF vars
  <2>2. /\ \A i, S : Linked(i, S)' = Linked(i, S)
        /\ SegmentIfaces' = SegmentIfaces /\ \A i : Reached(i)' = Reached(i)
    BY <2>1, SameLinked, SameStore
  <2> QED
    BY <2>1, <2>2 DEF CoverInv, LocalCovered, RemoteCovered, MergeCovered, Covered, search, merge
<1> QED
  BY <1>1, <1>2, <1>3, NextCases

(* So they are shown.                                                      *)
LEMMA CoverHolds ==
    ASSUME StoreInv, CallInv, CoverInv
    PROVE  LocalLinksShown /\ AnsweredLinksShown
<1>1. ASSUME NEW S, Covered(segs, S), phase = "done" PROVE Together(S)
  <2>1. PICK x \in DOMAIN segs : S \subseteq segs[x].nodes
    BY <1>1 DEF Covered
  <2>2. segs[x] \in Result
    BY <1>1 DEF Result, ToSet, Range
  <2> QED
    BY <2>1, <2>2 DEF Together
<1>2. LocalLinksShown
  <2> SUFFICES ASSUME phase = "done", g.local # NoHost, NEW i \in Iface, Cardinality(Reached(i)) >= 2
               PROVE  Together(Reached(i) \cup {g.local})
    BY DEF LocalLinksShown
  <2>1. i \in SegmentIfaces
    BY DEF SegmentIfaces
  <2>2. Covered(segs, Reached(i) \cup {g.local})
    BY <2>1 DEF CoverInv, LocalCovered
  <2> QED
    BY <1>1, <2>2
<1>3. AnsweredLinksShown
  <2> SUFFICES ASSUME phase = "done", g.local # NoHost, NEW i \in Iface \ SegmentIfaces,
                      NEW S \in SUBSET Group(i), Cardinality(S) >= 3, Connected(i, S)
               PROVE  Together(S)
    BY DEF AnsweredLinksShown
  <2>1. S \in SUBSET Host /\ Linked(i, S)
    BY GroupOfHosts DEF Linked
  <2>2. Covered(segs, S)
    BY <2>1 DEF CoverInv, RemoteCovered
  <2> QED
    BY <1>1, <2>2
<1> QED
  BY <1>2, <1>3

-----------------------------------------------------------------------------
(* Segments are apart.                                                     *)

(* A sequence with a segment whose key is new.                             *)
LEMMA AppendApart ==
    ASSUME NEW T, NEW q \in Seq(T), NEW s \in T
    PROVE  /\ PrimariesApart(q) /\ (s.primary # NoPrefix => \A j \in DOMAIN q : q[j].primary # s.primary)
                  => PrimariesApart(Append(q, s))
           /\ NodesApart(q) /\ (\A j \in DOMAIN q : q[j].nodes # s.nodes) => NodesApart(Append(q, s))
<1> DEFINE q2 == Append(q, s)
           new == Len(q) + 1
<1>1. /\ DOMAIN q2 = DOMAIN q \cup {new} /\ new \notin DOMAIN q /\ q2[new] = s
      /\ \A y \in DOMAIN q : q2[y] = q[y]
  BY Appended
<1> HIDE DEF q2, new
<1>2. ASSUME PrimariesApart(q), s.primary # NoPrefix => \A j \in DOMAIN q : q[j].primary # s.primary
      PROVE  PrimariesApart(q2)
  <2> SUFFICES ASSUME NEW x \in DOMAIN q2, NEW y \in DOMAIN q2, x # y, q2[x].primary # NoPrefix
               PROVE  q2[x].primary # q2[y].primary
    BY DEF PrimariesApart
  <2>1. CASE x = new
    BY <1>1, <1>2, <2>1
  <2>2. CASE y = new
    BY <1>1, <1>2, <2>2
  <2>3. CASE x \in DOMAIN q /\ y \in DOMAIN q
    BY <1>1, <1>2, <2>3 DEF PrimariesApart
  <2> QED
    BY <1>1, <2>1, <2>2, <2>3
<1>3. ASSUME NodesApart(q), \A j \in DOMAIN q : q[j].nodes # s.nodes
      PROVE  NodesApart(q2)
  BY <1>1, <1>3 DEF NodesApart
<1> QED
  BY <1>2, <1>3 DEF q2

(* A sequence with a member replaced by one with the same key.             *)
LEMMA ReplacedApart ==
    ASSUME NEW T, NEW q \in Seq(T), NEW j \in DOMAIN q, NEW s \in T
    PROVE  /\ PrimariesApart(q) /\ s.primary = q[j].primary => PrimariesApart([q EXCEPT ![j] = s])
           /\ NodesApart(q) /\ s.nodes = q[j].nodes => NodesApart([q EXCEPT ![j] = s])
<1> DEFINE q2 == [q EXCEPT ![j] = s]
<1>1. /\ DOMAIN q2 = DOMAIN q /\ q2[j] = s
      /\ \A y \in DOMAIN q : y # j => q2[y] = q[y]
  BY Replaced
<1> HIDE DEF q2
<1>2. s.primary = q[j].primary => \A y \in DOMAIN q : q2[y].primary = q[y].primary
  BY <1>1
<1>3. s.nodes = q[j].nodes => \A y \in DOMAIN q : q2[y].nodes = q[y].nodes
  BY <1>1
<1>4. PrimariesApart(q) /\ s.primary = q[j].primary => PrimariesApart(q2)
  BY <1>1, <1>2 DEF PrimariesApart
<1>5. NodesApart(q) /\ s.nodes = q[j].nodes => NodesApart(q2)
  BY <1>1, <1>3 DEF NodesApart
<1> QED
  BY <1>4, <1>5 DEF q2

(* There is nothing to keep apart at first.                                *)
LEMMA ApartInit == Init => ApartInv
BY DEF Init, ApartInv

(* No step of a call brings two segments together.                         *)
LEMMA ApartStepKeeps ==
    ASSUME CallInv, ApartInv, CallStep
    PROVE  ApartInv'
<1> DEFINE Made(j, x) == result[j].primary = segs[x].primary /\ result[j].nodes = segs[x].nodes
<1>1. segs \in Seq(Segment) /\ result \in Seq(Segment) /\ merged \subseteq DOMAIN segs
  BY DEF CallInv
<1>2. \A y \in DOMAIN <<>> : FALSE
  OBVIOUS
<1>3. CASE Call
  BY <1>2, <1>3 DEF Call, CallInv, ApartInv, PrimariesApart, NodesApart
<1>4. CASE \E i \in Iface : FindLocal(i)
  BY <1>4 DEF FindLocal, ApartInv
<1>5. CASE StartRemote
  BY <1>5 DEF StartRemote, ApartInv
<1>6. CASE \E i \in Iface : NextGroup(i)
  BY <1>6 DEF NextGroup, ApartInv
<1>7. CASE \E start \in Host : FindRemote(start)
  <2>1. phase' = "search"
    BY <1>7 DEF FindRemote
  <2> QED
    BY <2>1 DEF ApartInv
<1>8. CASE GroupDone
  BY <1>8 DEF GroupDone, ApartInv
<1>9. CASE StartMerge
  <2>1. phase' = "prefix" /\ result' = <<>>
    BY <1>9 DEF StartMerge, CallInv, merge
  <2> QED
    BY <1>2, <2>1 DEF ApartInv, PrimariesApart
<1>10. ASSUME NEW x \in DOMAIN segs, MergeFirst(x) \/ KeepUnmerged(x) PROVE ApartInv'
  <2>1. /\ phase \in {"prefix", "nodes"} /\ phase' = phase /\ segs' = segs
        /\ merged' = merged \cup {x} /\ result' = Append(result, segs[x])
        /\ x \in Left
    BY <1>10 DEF MergeFirst, KeepUnmerged
  <2>2. segs[x] \in Segment /\ x \notin merged
    BY <1>1, <2>1, Members DEF Left
  <2>3. /\ DOMAIN result' = DOMAIN result \cup {Len(result) + 1}
        /\ result'[Len(result) + 1] = segs[x]
        /\ \A y \in DOMAIN result : result'[y] = result[y]
    BY <1>1, <2>1, <2>2, Appended
  <2>4. CASE phase = "prefix"
    <3>1. PrimariesApart(result) /\ \A j \in DOMAIN result : \E y \in merged : result[j].primary = segs[y].primary
      BY <2>4 DEF ApartInv
    <3>2. segs[x].primary # NoPrefix => \A j \in DOMAIN result : result[j].primary # segs[x].primary
      <4>1. CASE MergeFirst(x)
        BY <2>1, <2>4, <4>1 DEF MergeFirst, Begun, Key
      <4>2. CASE KeepUnmerged(x)
        <5>1. ~Grouped(x)
          BY <2>1, <4>2 DEF KeepUnmerged
        <5>2. segs[x].primary # NoPrefix => \A y \in DOMAIN segs \ {x} : segs[y].primary # segs[x].primary
          BY <2>4, <5>1 DEF Grouped, Key
        <5> QED
          BY <1>1, <2>2, <3>1, <5>2
      <4> QED
        BY <1>10, <4>1, <4>2
    <3>3. PrimariesApart(result')
      BY <1>1, <2>1, <2>2, <3>1, <3>2, AppendApart
    <3>4. \A j \in DOMAIN result' : \E y \in merged' : result'[j].primary = segs'[y].primary
      BY <2>1, <2>3, <3>1
    <3> QED
      BY <2>1, <2>4, <3>3, <3>4 DEF ApartInv
  <2>5. CASE phase = "nodes"
    <3>1. /\ PrimariesApart(segs) /\ NodesApart(result)
          /\ \A j \in DOMAIN result : \E y \in merged : Made(j, y)
      BY <2>5 DEF ApartInv
    <3>2. \A j \in DOMAIN result : result[j].nodes # segs[x].nodes
      <4>1. CASE MergeFirst(x)
        BY <2>1, <2>5, <4>1 DEF MergeFirst, Begun, Key
      <4>2. CASE KeepUnmerged(x)
        <5>1. ~Grouped(x)
          BY <2>1, <4>2 DEF KeepUnmerged
        <5>2. \A y \in DOMAIN segs \ {x} : segs[y].nodes # segs[x].nodes
          BY <2>5, <5>1 DEF Grouped, Key
        <5> QED
          BY <1>1, <2>2, <3>1, <5>2
      <4> QED
        BY <1>10, <4>1, <4>2
    <3>3. NodesApart(result')
      BY <1>1, <2>1, <2>2, <3>1, <3>2, AppendApart
    <3>4. \A j \in DOMAIN result' : \E y \in merged' :
              result'[j].primary = segs'[y].primary /\ result'[j].nodes = segs'[y].nodes
      BY <2>1, <2>3, <3>1
    <3>5. PrimariesApart(segs')
      BY <2>1, <3>1
    <3> QED
      BY <2>1, <2>5, <3>3, <3>4, <3>5 DEF ApartInv
  <2> QED
    BY <2>1, <2>4, <2>5
<1>11. ASSUME NEW x \in DOMAIN segs, MergeByPrefix(x) PROVE ApartInv'
  <2>1. /\ phase = "prefix" /\ phase' = phase /\ segs' = segs /\ merged' = merged \cup {x}
    BY <1>11 DEF MergeByPrefix
  <2>2. PICK j \in Begun(x) : result' = [result EXCEPT ![j] = MergedByPrefix(result[j], segs[x])]
    BY <1>11 DEF MergeByPrefix
  <2>3. j \in DOMAIN result /\ result[j].primary = segs[x].primary
    BY <2>1 DEF Begun, Key
  <2> DEFINE s == MergedByPrefix(result[j], segs[x])
  <2>4. s \in Segment /\ s.primary = result[j].primary
    BY <1>1, <2>3, Members, MergedByPrefixType
  <2> HIDE DEF s
  <2>5. result' = [result EXCEPT ![j] = s]
    BY <2>2 DEF s
  <2>6. /\ DOMAIN result' = DOMAIN result /\ result'[j] = s
        /\ \A y \in DOMAIN result : y # j => result'[y] = result[y]
    BY <1>1, <2>3, <2>4, <2>5, Replaced
  <2>7. PrimariesApart(result) /\ \A k \in DOMAIN result : \E y \in merged : result[k].primary = segs[y].primary
    BY <2>1 DEF ApartInv
  <2>8. PrimariesApart(result')
    BY <1>1, <2>3, <2>4, <2>5, <2>7, ReplacedApart
  <2>9. \A k \in DOMAIN result' : \E y \in merged' : result'[k].primary = segs'[y].primary
    BY <2>1, <2>3, <2>4, <2>6, <2>7
  <2> QED
    BY <2>1, <2>8, <2>9 DEF ApartInv
<1>12. ASSUME NEW x \in DOMAIN segs, MergeByNodeSet(x) PROVE ApartInv'
  <2>1. /\ phase = "nodes" /\ phase' = phase /\ segs' = segs /\ merged' = merged \cup {x}
    BY <1>12 DEF MergeByNodeSet
  <2>2. PICK j \in Begun(x) : result' = [result EXCEPT ![j] = MergedByNodes(result[j], segs[x])]
    BY <1>12 DEF MergeByNodeSet
  <2>3. j \in DOMAIN result /\ result[j].nodes = segs[x].nodes
    BY <2>1 DEF Begun, Key
  <2> DEFINE s == MergedByNodes(result[j], segs[x])
  <2>4. s \in Segment /\ s.nodes = result[j].nodes /\ s.primary \in {result[j].primary, segs[x].primary}
    BY <1>1, <2>3, Members, MergedByNodesType
  <2> HIDE DEF s
  <2>5. result' = [result EXCEPT ![j] = s]
    BY <2>2 DEF s
  <2>6. /\ DOMAIN result' = DOMAIN result /\ result'[j] = s
        /\ \A y \in DOMAIN result : y # j => result'[y] = result[y]
    BY <1>1, <2>3, <2>4, <2>5, Replaced
  <2>7. /\ PrimariesApart(segs) /\ NodesApart(result)
        /\ \A k \in DOMAIN result : \E y \in merged : Made(k, y)
    BY <2>1 DEF ApartInv
  <2>8. NodesApart(result')
    BY <1>1, <2>3, <2>4, <2>5, <2>7, ReplacedApart
  <2>9. ASSUME NEW k \in DOMAIN result'
        PROVE  \E y \in merged' : result'[k].primary = segs'[y].primary /\ result'[k].nodes = segs'[y].nodes
    <3>1. PICK y \in merged : Made(k, y)
      BY <2>6, <2>7
    <3>2. CASE k # j
      BY <2>1, <2>6, <3>1, <3>2
    <3>3. CASE k = j /\ s.primary = result[j].primary
      BY <2>1, <2>4, <2>6, <3>1, <3>3
    <3>4. CASE k = j /\ s.primary = segs[x].primary
      BY <2>1, <2>3, <2>4, <2>6, <3>4
    <3> QED
      BY <2>4, <3>2, <3>3, <3>4
  <2>10. PrimariesApart(segs')
    BY <2>1, <2>7
  <2> QED
    BY <2>1, <2>8, <2>9, <2>10 DEF ApartInv
<1>13. CASE EndMerge
  <2>1. /\ phase \in {"prefix", "nodes"} /\ segs' = result /\ result' = <<>>
        /\ phase' = IF phase = "prefix" THEN "nodes" ELSE "done"
    BY <1>13 DEF EndMerge
  <2>2. CASE phase = "prefix"
    <3>1. PrimariesApart(segs') /\ phase' = "nodes"
      BY <2>1, <2>2 DEF ApartInv
    <3>2. NodesApart(result') /\ \A j \in DOMAIN result' : FALSE
      BY <1>2, <2>1 DEF NodesApart
    <3> QED
      BY <3>1, <3>2 DEF ApartInv
  <2>3. CASE phase = "nodes"
    <3>1. /\ PrimariesApart(segs) /\ NodesApart(result)
          /\ \A k \in DOMAIN result : \E y \in merged : Made(k, y)
      BY <2>3 DEF ApartInv
    <3>2. ASSUME NEW j \in DOMAIN result, NEW k \in DOMAIN result, j # k, result[j].primary # NoPrefix
          PROVE  result[j].primary # result[k].primary
      <4>1. PICK x \in merged : Made(j, x)
        BY <3>1
      <4>2. PICK y \in merged : Made(k, y)
        BY <3>1
      <4>3. x # y
        BY <3>1, <3>2, <4>1, <4>2 DEF NodesApart
      <4> QED
        BY <1>1, <3>1, <3>2, <4>1, <4>2, <4>3 DEF PrimariesApart
    <3>3. PrimariesApart(segs') /\ NodesApart(segs')
      BY <2>1, <3>1, <3>2 DEF PrimariesApart
    <3> QED
      BY <2>1, <2>3, <3>3 DEF ApartInv
  <2> QED
    BY <2>1, <2>2, <2>3
<1>14. CASE Return
  BY <1>14 DEF Return, ApartInv
<1> QED
  BY <1>3, <1>4, <1>5, <1>6, <1>7, <1>8, <1>9, <1>10, <1>11, <1>12, <1>13, <1>14 DEF CallStep

(* No step does.                                                           *)
LEMMA ApartNext ==
    ASSUME CallInv, ApartInv, [Next]_vars
    PROVE  ApartInv'
<1>1. CASE StoreStep
  <2>1. phase' = "idle"
    BY <1>1, StoreStepFrame
  <2> QED
    BY <2>1 DEF ApartInv
<1>2. CASE CallStep
  BY <1>2, ApartStepKeeps
<1>3. CASE UNCHANGED vars
  BY <1>3 DEF vars, merge, ApartInv, PrimariesApart, NodesApart
<1> QED
  BY <1>1, <1>2, <1>3, NextCases

-----------------------------------------------------------------------------
(* The members of a segment share a link.                                  *)

(* An attachment as its parts.                                             *)
LEMMA OnItsLink ==
    ASSUME NEW n, NEW i, NEW l, <<n, i, l>> \in Attached
    PROVE  /\ l \in Links /\ OnLink(n, l)
           /\ DetailsAt[n, i].pfx \subseteq LinkPrefixes(l)
<1> DEFINE at == <<n, i, l>>
           ps == DetailsAt[n, i].pfx
<1>1. at \in Attached /\ at[1] = n /\ at[2] = i /\ at[3] = l
  OBVIOUS
<1>2. ps = DetailsAt[at[1], at[2]].pfx
  BY <1>1
<1> HIDE DEF at, ps
<1>3. l \in Links /\ OnLink(n, l)
  BY <1>1 DEF Links, OnLink
<1>4. ps \subseteq LinkPrefixes(l)
  BY <1>1, <1>2 DEF LinkPrefixes
<1> QED
  BY <1>3, <1>4 DEF ps

(* An edge joins two interfaces on a link.                                 *)
LEMMA EdgeOnLink ==
    ASSUME NEW k \in LinkKeys
    PROVE  \E l \in Links : EdgeOn(k, l)
<1> DEFINE h1 == k.src
           h2 == k.dst
           p == <<k.lif, k.rif>>
<1>1. p \in Joined(h1, h2) /\ p[1] = k.lif /\ p[2] = k.rif
  BY DEF LinkKeys
<1> HIDE DEF h1, h2, p
<1>2. \E l \in Links : <<h1, p[1], l>> \in Attached /\ <<h2, p[2], l>> \in Attached
  BY <1>1, JoinedEnds
<1> QED
  BY <1>1, <1>2 DEF h1, h2, EdgeOn

(* An interface is on one link.                                            *)
LEMMA OneLink ==
    ASSUME PortsOnOneLink, NEW n, NEW i, NEW l1, NEW l2, <<n, i, l1>> \in Attached, <<n, i, l2>> \in Attached
    PROVE  l1 = l2
<1> DEFINE at1 == <<n, i, l1>>
           at2 == <<n, i, l2>>
<1>1. /\ at1 \in Attached /\ at2 \in Attached
      /\ at1[1] = at2[1] /\ at1[2] = at2[2] /\ at1[3] = l1 /\ at2[3] = l2
  OBVIOUS
<1> HIDE DEF at1, at2
<1> QED
  BY <1>1 DEF PortsOnOneLink

(* Two links that share a prefix are one.                                  *)
LEMMA OneLinkOfPrefix ==
    ASSUME PrefixesOnOneLink, NEW l1, NEW l2, NEW p \in LinkPrefixes(l1), p \in LinkPrefixes(l2)
    PROVE  l1 = l2
<1>1. PICK at1 \in Attached : at1[3] = l1 /\ p \in DetailsAt[at1[1], at1[2]].pfx
  BY DEF LinkPrefixes
<1>2. PICK at2 \in Attached : at2[3] = l2 /\ p \in DetailsAt[at2[1], at2[2]].pfx
  BY DEF LinkPrefixes
<1> DEFINE ps1 == DetailsAt[at1[1], at1[2]].pfx
           ps2 == DetailsAt[at2[1], at2[2]].pfx
<1>3. ps1 \cap ps2 # {} => at1[3] = at2[3]
  BY Zenon DEF PrefixesOnOneLink
<1>4. p \in ps1 /\ p \in ps2
  BY <1>1, <1>2
<1> HIDE DEF ps1, ps2
<1> QED
  BY <1>1, <1>2, <1>3, <1>4

(* The prefixes the store has for an interface are those of its link.      *)
LEMMA StoredPrefixes ==
    ASSUME StoreInv, NEW n, NEW i, NEW l, <<n, i, l>> \in Attached
    PROVE  /\ n \in DOMAIN g.nodes => PrefixOf(g.nodes[n].ifaces, i) \subseteq LinkPrefixes(l)
           /\ n = g.local => PrefixOf(g.localIfaces, i) \subseteq LinkPrefixes(l)
<1> DEFINE det == DetailsAt[n, i]
<1>1. det.pfx \subseteq LinkPrefixes(l)
  BY OnItsLink
<1>2. n \in DOMAIN g.nodes => \A j \in DOMAIN g.nodes[n].ifaces : g.nodes[n].ifaces[j] = DetailsAt[n, j]
  BY DEF StoreInv, TrueStore, TrueNode
<1>3. n = g.local => \A j \in DOMAIN g.localIfaces : g.localIfaces[j] = DetailsAt[n, j]
  <2> SUFFICES ASSUME n = g.local PROVE \A j \in DOMAIN g.localIfaces : g.localIfaces[j] = DetailsAt[n, j]
    OBVIOUS
  <2>1. CASE g.local = Self
    BY <2>1 DEF StoreInv
  <2>2. CASE g.local = NoHost
    <3>1. <<n, i, l>>[1] \in Host
      BY AttachedFields
    <3> QED
      BY <2>2, <3>1, NoHostAssumption
  <2> QED
    BY <2>1, <2>2 DEF StoreInv
<1> HIDE DEF det
<1>4. NoPfx = {}
  BY PfxAssumption
<1>5. ASSUME NEW f, i \in DOMAIN f => f[i] = det PROVE PrefixOf(f, i) \subseteq LinkPrefixes(l)
  BY <1>1, <1>4, <1>5 DEF PrefixOf
<1> QED
  BY <1>2, <1>3, <1>5 DEF det

(* A segment of hosts with an interface each on one link.                  *)
LEMMA SegmentOnLink ==
    ASSUME StoreInv, NEW nodes, NEW info, NEW l \in Links,
           \A n \in nodes : Wired(DOMAIN g.edges, n, l), nodes \ {g.local} \subseteq DOMAIN g.nodes,
           \A n \in DOMAIN info : EdgeOn(info[n], l),
           g.local \in nodes => \A n \in DOMAIN info : <<g.local, info[n].lif, l>> \in Attached,
           \A n \in (nodes \ {g.local}) \cap DOMAIN info : <<n, info[n].rif, l>> \in Attached
    PROVE  /\ AllPrefixes(nodes, info) \subseteq LinkPrefixes(l)
           /\ \A s : s.nodes = nodes /\ s.info = info /\ s.prefixes = AllPrefixes(nodes, info) =>
                  Homed(DOMAIN g.edges, s)
<1> DEFINE P == {PrefixOf(g.localIfaces, info[n].lif) : n \in IF g.local \in nodes THEN DOMAIN info ELSE {}}
           Q == {PrefixOf(g.nodes[n].ifaces, info[n].rif) : n \in (nodes \ {g.local}) \cap DOMAIN info}
           ps == AllPrefixes(nodes, info)
<1>1. \A x \in P : x \subseteq LinkPrefixes(l)
  BY StoredPrefixes
<1>2. \A x \in Q : x \subseteq LinkPrefixes(l)
  BY StoredPrefixes
<1>3. ps = UNION (P \cup Q)
  BY DEF AllPrefixes
<1> HIDE DEF P, Q, ps
<1>4. ps \subseteq LinkPrefixes(l)
  BY <1>1, <1>2, <1>3
<1>5. \A s : s.nodes = nodes /\ s.info = info /\ s.prefixes = ps => Homed(DOMAIN g.edges, s)
  BY <1>4 DEF Homed, AllWired
<1> QED
  BY <1>4, <1>5 DEF ps

(* What is reached over a local interface is on its link.                  *)
LEMMA LocalSegmentOnLink ==
    ASSUME PortsOnOneLink, StoreInv, g.local # NoHost, NEW i \in Iface, NEW info \in LocalInfos(i), Reached(i) # {}
    PROVE  Homed(DOMAIN g.edges, NewSegment(i, Reached(i) \cup {g.local}, info))
<1> DEFINE nodes == Reached(i) \cup {g.local}
           s == NewSegment(i, nodes, info)
<1>1. LocalEdges(i) \subseteq DOMAIN g.edges /\ g.local \in Host
  BY SelfAssumption DEF LocalEdges, StoreInv
<1>2. ASSUME NEW k \in LocalEdges(i)
      PROVE  \E l \in Links : <<g.local, i, l>> \in Attached /\ EdgeOn(k, l)
  <2>1. k \in LinkKeys /\ k.src = g.local /\ k.lif = i
    BY <1>1, EdgeFields DEF LocalEdges
  <2>2. \E l \in Links : EdgeOn(k, l)
    BY <2>1, EdgeOnLink
  <2> QED
    BY <2>1, <2>2 DEF EdgeOn
<1>3. PICK k0 \in LocalEdges(i) : TRUE
  BY DEF Reached
<1>4. PICK l \in Links : <<g.local, i, l>> \in Attached
  BY <1>2
<1>5. ASSUME NEW k \in LocalEdges(i)
      PROVE  EdgeOn(k, l) /\ k.src = g.local /\ <<g.local, k.lif, l>> \in Attached /\ <<k.dst, k.rif, l>> \in Attached
  <2>1. EdgeOn(k, l)
    BY <1>2, <1>4, OneLink
  <2> QED
    BY <2>1 DEF EdgeOn, LocalEdges
<1>6. \A n \in nodes : Wired(DOMAIN g.edges, n, l)
  <2>1. Wired(DOMAIN g.edges, g.local, l)
    BY <1>1, <1>3, <1>5 DEF Wired
  <2>2. ASSUME NEW n \in Reached(i) PROVE Wired(DOMAIN g.edges, n, l)
    <3>1. PICK k \in LocalEdges(i) : k.dst = n
      BY DEF Reached
    <3> QED
      BY <1>1, <1>5, <3>1 DEF Wired
  <2> QED
    BY <2>1, <2>2
<1>7. nodes \ {g.local} \subseteq DOMAIN g.nodes
  BY <1>1, EdgeFields DEF Reached
<1>8. /\ info \in [Reached(i) -> LocalEdges(i)]
      /\ \A n \in Reached(i) : info[n].dst = n
  BY DEF LocalInfos
<1>9. \A n \in DOMAIN info : EdgeOn(info[n], l) /\ <<g.local, info[n].lif, l>> \in Attached
  BY <1>5, <1>8
<1>10. \A n \in (nodes \ {g.local}) \cap DOMAIN info : <<n, info[n].rif, l>> \in Attached
  BY <1>5, <1>8
<1>11. s.nodes = nodes /\ s.info = info /\ s.prefixes = AllPrefixes(nodes, info)
  BY DEF NewSegment
<1> HIDE DEF nodes, s
<1>12. Homed(DOMAIN g.edges, s)
  BY <1>6, <1>7, <1>9, <1>10, <1>11, SegmentOnLink
<1> QED
  BY <1>12 DEF s, nodes

(* So is what a search finds, all on the link of the host it starts from.  *)
LEMMA RemoteSegmentOnLink ==
    ASSUME PortsOnOneLink, StoreInv, NEW i \in Iface, NEW f, IsGroupMap(f, i), NEW start \in Group(i), NEW seen
    PROVE  LET C == ReachableFrom(i, start, seen)
           IN  Homed(DOMAIN g.edges, NewSegment(i, C, Restrict(f, C)))
<1> DEFINE C == ReachableFrom(i, start, seen)
           info == Restrict(f, C)
           s == NewSegment(i, C, info)
<1>1. RemoteEdges(i) \subseteq DOMAIN g.edges
  BY DEF RemoteEdges
<1>2. ASSUME NEW k \in RemoteEdges(i)
      PROVE  /\ \E l \in Links : EdgeOn(k, l) /\ <<k.src, i, l>> \in Attached /\ <<k.dst, i, l>> \in Attached
             /\ k.src # g.local /\ k.dst # g.local
             /\ k.src \in DOMAIN g.nodes /\ k.dst \in DOMAIN g.nodes
             /\ k.lif = i /\ k.rif = i
  <2>1. k \in LinkKeys /\ k.src # g.local /\ k.dst # g.local /\ k.lif = i /\ k.rif = i
    BY <1>1, EdgeFields DEF RemoteEdges
  <2>2. \E l \in Links : EdgeOn(k, l)
    BY <2>1, EdgeOnLink
  <2>3. \E l \in Links : EdgeOn(k, l) /\ <<k.src, i, l>> \in Attached /\ <<k.dst, i, l>> \in Attached
    BY <2>1, <2>2 DEF EdgeOn
  <2> QED
    BY <1>1, <2>1, <2>3, EdgeFields
<1>3. PICK l \in Links : <<start, i, l>> \in Attached
  <2>1. PICK k \in RemoteEdges(i) : start \in {k.src, k.dst}
    BY DEF Group
  <2> QED
    BY <1>2, <2>1
<1> DEFINE T == {n \in Group(i) : <<n, i, l>> \in Attached}
<1>4. start \in T /\ T \in SUBSET Group(i)
  BY <1>3
<1>5. Closed(i, T, seen)
  <2> SUFFICES ASSUME NEW k \in RemoteEdges(i), k.src \in T PROVE k.dst \in T
    BY DEF Closed
  <2>1. k.dst \in Group(i)
    BY DEF Group
  <2>2. PICK l2 \in Links : <<k.src, i, l2>> \in Attached /\ <<k.dst, i, l2>> \in Attached
    BY <1>2
  <2>3. l2 = l
    BY <2>2, OneLink
  <2> QED
    BY <2>1, <2>2, <2>3
<1>6. C \subseteq T
  BY <1>4, <1>5 DEF ReachableFrom
<1>7. \A n \in Group(i) : n # g.local /\ n \in DOMAIN g.nodes
  BY <1>2 DEF Group
<1>8. C \subseteq Group(i) /\ \A n \in C : <<n, i, l>> \in Attached
  BY <1>6
<1> HIDE DEF C, T
<1>9. /\ DOMAIN info = C /\ \A n \in C : info[n] = f[n]
      /\ s.nodes = C /\ s.info = info /\ s.prefixes = AllPrefixes(C, info)
  <2>1. DOMAIN info = C /\ \A n \in C : info[n] = f[n]
    BY <1>8, RemoteSegmentType
  <2> HIDE DEF info
  <2> QED
    BY <2>1 DEF NewSegment
<1> HIDE DEF info, s
<1>10. \A n \in C : info[n].rif = i
  BY <1>2, <1>8, <1>9 DEF IsGroupMap
<1>11. g.local \notin C /\ C \ {g.local} \subseteq DOMAIN g.nodes
  BY <1>7, <1>8
<1>12. ASSUME NEW n \in C PROVE EdgeOn(f[n], l) /\ n \in {f[n].src, f[n].dst} /\ f[n] \in DOMAIN g.edges
  <2>1. f[n] \in RemoteEdges(i) /\ n \in {f[n].src, f[n].dst} /\ <<n, i, l>> \in Attached
    BY <1>8 DEF IsGroupMap
  <2>2. PICK l2 \in Links : EdgeOn(f[n], l2) /\ <<f[n].src, i, l2>> \in Attached /\ <<f[n].dst, i, l2>> \in Attached
    BY <1>2, <2>1
  <2>3. l2 = l
    BY <2>1, <2>2, OneLink
  <2> QED
    BY <1>1, <2>1, <2>2, <2>3
<1>13. \A n \in C : Wired(DOMAIN g.edges, n, l)
  BY <1>12 DEF Wired
<1>14. \A n \in (C \ {g.local}) \cap DOMAIN info : <<n, info[n].rif, l>> \in Attached
  BY <1>8, <1>9, <1>10
<1>15. \A n \in DOMAIN info : EdgeOn(info[n], l)
  BY <1>9, <1>12
<1>16. Homed(DOMAIN g.edges, s)
  BY <1>9, <1>11, <1>13, <1>14, <1>15, SegmentOnLink
<1> QED
  BY <1>16 DEF s, info, C

(* No segment is found at first.                                           *)
LEMMA LinkInit == Init => LinkInv
<1>1. \A y \in DOMAIN <<>> : FALSE
  OBVIOUS
<1> QED
  BY <1>1 DEF Init, LinkInv, LinksOn, SegmentsOn

(* A segment of one link is one of links all its members are on.           *)
LEMMA HomedSpread ==
    ASSUME NEW es, NEW s, Homed(es, s)
    PROVE  Spread(es, s)
BY DEF Homed, Spread

(* Segments with a primary prefix in common are on one link.               *)
LEMMA MergedOnLink ==
    ASSUME PrefixesOnOneLink, NEW s1 \in Segment, NEW s2 \in Segment,
           s1.primary = s2.primary, s1.primary # NoPrefix,
           NEW es, Homed(es, s1), Homed(es, s2)
    PROVE  Homed(es, MergedByPrefix(s1, s2))
<1> DEFINE s == MergedByPrefix(s1, s2)
           p == s1.primary
<1>1. p \in s1.prefixes /\ p \in s2.prefixes
  <2>1. ASSUME NEW t \in Segment, t.primary # NoPrefix PROVE t.primary \in t.prefixes
    BY <2>1, SegmentFields, FirstPrefixIsLeast
  <2> QED
    BY <2>1
<1>2. PICK l1 \in Links :
        /\ AllWired(es, s1, l1) /\ s1.prefixes \subseteq LinkPrefixes(l1)
        /\ \A n \in DOMAIN s1.info : EdgeOn(s1.info[n], l1)
  BY DEF Homed
<1>3. PICK l2 \in Links :
        /\ AllWired(es, s2, l2) /\ s2.prefixes \subseteq LinkPrefixes(l2)
        /\ \A n \in DOMAIN s2.info : EdgeOn(s2.info[n], l2)
  BY DEF Homed
<1>4. l1 = l2
  BY <1>1, <1>2, <1>3, OneLinkOfPrefix
<1>5. s.nodes = s1.nodes \cup s2.nodes /\ s.prefixes = s1.prefixes \cup s2.prefixes
  BY MergedByPrefixType
<1>6. Mixes(s.info, s1.info, s2.info)
  BY MergedInfoEdges DEF MergedByPrefix
<1> HIDE DEF s
<1>7. AllWired(es, s, l1) /\ s.prefixes \subseteq LinkPrefixes(l1)
  BY <1>2, <1>3, <1>4, <1>5 DEF AllWired
<1>8. \A n \in DOMAIN s.info : EdgeOn(s.info[n], l1)
  BY <1>2, <1>3, <1>4, <1>6 DEF Mixes
<1>9. Homed(es, s)
  BY <1>7, <1>8 DEF Homed
<1> QED
  BY <1>9 DEF s

(* Segments of the same hosts are merged to one of the links of both.      *)
LEMMA MergedSpread ==
    ASSUME NEW s1 \in Segment, NEW s2 \in Segment, s1.nodes = s2.nodes,
           NEW es, Spread(es, s1), Spread(es, s2)
    PROVE  Spread(es, MergedByNodes(s1, s2))
<1> DEFINE s == MergedByNodes(s1, s2)
<1>1. s.nodes = s1.nodes /\ s.prefixes = s1.prefixes \cup s2.prefixes
  BY DEF MergedByNodes
<1>2. Mixes(s.info, s1.info, s2.info)
  BY MergedInfoEdges DEF MergedByNodes
<1> HIDE DEF s
<1>3. \A l : AllWired(es, s, l) <=> AllWired(es, s1, l)
  BY <1>1 DEF AllWired
<1>4. \A l : AllWired(es, s, l) <=> AllWired(es, s2, l)
  BY <1>1 DEF AllWired
<1>5. \E l \in Links : AllWired(es, s, l)
  BY <1>3 DEF Spread
<1>6. \A p \in s.prefixes : \E l \in Links : AllWired(es, s, l) /\ p \in LinkPrefixes(l)
  BY <1>1, <1>3, <1>4 DEF Spread
<1>7. ASSUME NEW n \in DOMAIN s.info
      PROVE  \E l \in Links : AllWired(es, s, l) /\ EdgeOn(s.info[n], l)
  <2>1. CASE n \in DOMAIN s1.info /\ s.info[n] = s1.info[n]
    BY <1>3, <2>1 DEF Spread
  <2>2. CASE n \in DOMAIN s2.info /\ s.info[n] = s2.info[n]
    BY <1>4, <2>2 DEF Spread
  <2> QED
    BY <1>2, <2>1, <2>2 DEF Mixes
<1>8. Spread(es, s)
  BY <1>5, <1>6, <1>7 DEF Spread
<1> QED
  BY <1>8 DEF s

(* No step of a call finds a segment of hosts that share no link.          *)
LEMMA LinkStepKeeps ==
    ASSUME PortsOnOneLink, PrefixesOnOneLink, StoreInv, CallInv, CoverInv, LinkInv, CallStep
    PROVE  LinkInv'
<1>1. segs \in Seq(Segment) /\ result \in Seq(Segment) /\ merged \subseteq DOMAIN segs
  BY DEF CallInv
<1> DEFINE es == DOMAIN g.edges
<1>2. /\ \A y \in DOMAIN <<>> : FALSE
      /\ LinksOn(es, phase, segs, result)
      /\ LinksOn(es, phase', segs', result') => LinkInv'
  BY CallStepFrame DEF LinkInv
<1> HIDE DEF es
<1>3. CASE Call \/ Return
  <2>1. segs' = <<>> /\ result' = <<>>
    BY <1>3 DEF Call, Return, CallInv, merge
  <2> QED
    BY <1>2, <2>1 DEF LinksOn, SegmentsOn
<1>4. ASSUME NEW s \in Segment, segs' = segs \/ (segs' = Append(segs, s) /\ Homed(es, s)),
             phase \in {"local", "remote", "search"}, phase' \in {"local", "remote", "search", "prefix"},
             result' = result
      PROVE  LinkInv'
  <2>1. /\ \A x \in DOMAIN segs : Homed(es, segs[x])
        /\ \A j \in DOMAIN result : Homed(es, result[j])
    BY <1>2, <1>4 DEF LinksOn, SegmentsOn
  <2>2. \A x \in DOMAIN Append(segs, s) : x \in DOMAIN segs \/ Append(segs, s)[x] = s
    BY <1>4, AppendedSegment
  <2>3. \A x \in DOMAIN segs : Append(segs, s)[x] = segs[x]
    BY <1>4, AppendedSegment
  <2>4. \A x \in DOMAIN segs' : Homed(es, segs'[x])
    BY <1>4, <2>1, <2>2, <2>3
  <2> QED
    BY <1>2, <1>4, <2>1, <2>4 DEF LinksOn, SegmentsOn
<1>5. ASSUME NEW i \in Iface, FindLocal(i) PROVE LinkInv'
  <2>1. phase = "local" /\ phase' = "local" /\ result' = result /\ g.local # NoHost
    BY <1>5 DEF FindLocal, CallInv, merge
  <2>2. PICK info \in LocalInfos(i) : segs' = Append(segs, NewSegment(i, Reached(i) \cup {g.local}, info))
    BY <1>5 DEF FindLocal
  <2> DEFINE s == NewSegment(i, Reached(i) \cup {g.local}, info)
  <2>3. s \in Segment
    BY <2>1, LocalSegmentType
  <2>4. Reached(i) # {}
    <3>1. i \in SegmentIfaces
      BY <1>5, <2>1 DEF CoverInv, FindLocal
    <3>2. Cardinality({}) = 0
      BY FS_EmptySet
    <3> QED
      BY <3>1, <3>2 DEF SegmentIfaces
  <2>5. Homed(es, s)
    BY <2>1, <2>4, LocalSegmentOnLink DEF es
  <2> HIDE DEF s
  <2> QED
    BY <1>4, <2>1, <2>2, <2>3, <2>5 DEF s
<1>6. CASE StartRemote \/ (\E i \in Iface : NextGroup(i)) \/ GroupDone \/ StartMerge
  <2>1. /\ phase \notin {"nodes", "done"} /\ phase' \notin {"nodes", "done"}
        /\ segs' = segs /\ result' = result
    BY <1>6 DEF StartRemote, NextGroup, GroupDone, StartMerge, merge
  <2> QED
    BY <1>2, <2>1 DEF LinksOn, SegmentsOn
<1>7. ASSUME NEW start \in Host, FindRemote(start) PROVE LinkInv'
  <2> DEFINE C == ReachableFrom(iface, start, visited)
             s == NewSegment(iface, C, Restrict(nodeEdges, C))
  <2>1. /\ phase = "search" /\ phase' = "search" /\ result' = result
        /\ iface \in Iface /\ IsGroupMap(nodeEdges, iface)
    BY <1>7 DEF FindRemote, CallInv, merge
  <2>2. segs' \in {segs, Append(segs, s)}
    BY <1>7 DEF FindRemote
  <2>3. start \in Group(iface)
    BY <1>7, <2>1 DEF FindRemote, IsGroupMap
  <2>4. Homed(es, s)
    BY <2>1, <2>3, RemoteSegmentOnLink DEF es
  <2>5. s \in Segment
    BY <2>1, ReachedInGroup, RemoteSegmentType
  <2> HIDE DEF s
  <2> QED
    BY <1>4, <2>1, <2>2, <2>4, <2>5
<1>8. ASSUME NEW x \in DOMAIN segs, MergeFirst(x) \/ KeepUnmerged(x) PROVE LinkInv'
  <2>1. /\ phase \in {"prefix", "nodes"} /\ phase' = phase /\ segs' = segs
        /\ result' = Append(result, segs[x])
    BY <1>8 DEF MergeFirst, KeepUnmerged
  <2>2. segs[x] \in Segment
    BY <1>1, Members
  <2>3. /\ \A j \in DOMAIN result' : j \in DOMAIN result \/ result'[j] = segs[x]
        /\ \A j \in DOMAIN result : result'[j] = result[j]
    BY <1>1, <2>1, <2>2, Appended
  <2>4. CASE phase = "prefix"
    BY <1>2, <2>1, <2>3, <2>4 DEF LinksOn, SegmentsOn
  <2>5. CASE phase = "nodes"
    BY <1>2, <2>1, <2>3, <2>5 DEF LinksOn, SegmentsOn
  <2> QED
    BY <2>1, <2>4, <2>5
<1>9. ASSUME NEW x \in DOMAIN segs, MergeByPrefix(x) PROVE LinkInv'
  <2>1. phase = "prefix" /\ phase' = phase /\ segs' = segs /\ Grouped(x)
    BY <1>9 DEF MergeByPrefix
  <2>2. PICK j \in Begun(x) : result' = [result EXCEPT ![j] = MergedByPrefix(result[j], segs[x])]
    BY <1>9 DEF MergeByPrefix
  <2>3. j \in DOMAIN result /\ result[j].primary = segs[x].primary /\ segs[x].primary # NoPrefix
    BY <2>1 DEF Begun, Key, Grouped
  <2> DEFINE s == MergedByPrefix(result[j], segs[x])
  <2>4. /\ \A y \in DOMAIN segs : Homed(es, segs[y])
        /\ \A k \in DOMAIN result : Homed(es, result[k])
    BY <1>2, <2>1 DEF LinksOn, SegmentsOn
  <2>5. s \in Segment
    BY <1>1, <2>3, Members, MergedByPrefixType
  <2>6. Homed(es, s)
    BY <1>1, <2>3, <2>4, Members, MergedOnLink
  <2> HIDE DEF s
  <2>7. result' = [result EXCEPT ![j] = s]
    BY <2>2 DEF s
  <2>8. /\ DOMAIN result' = DOMAIN result /\ result'[j] = s
        /\ \A y \in DOMAIN result : y # j => result'[y] = result[y]
    BY <1>1, <2>3, <2>5, <2>7, Replaced
  <2>9. \A k \in DOMAIN result' : Homed(es, result'[k])
    BY <2>4, <2>6, <2>8
  <2> QED
    BY <1>2, <2>1, <2>4, <2>9 DEF LinksOn, SegmentsOn
<1>10. ASSUME NEW x \in DOMAIN segs, MergeByNodeSet(x) PROVE LinkInv'
  <2>1. phase = "nodes" /\ phase' = phase /\ segs' = segs
    BY <1>10 DEF MergeByNodeSet
  <2>2. PICK j \in Begun(x) : result' = [result EXCEPT ![j] = MergedByNodes(result[j], segs[x])]
    BY <1>10 DEF MergeByNodeSet
  <2>3. j \in DOMAIN result /\ result[j].nodes = segs[x].nodes
    BY <2>1 DEF Begun, Key
  <2> DEFINE s == MergedByNodes(result[j], segs[x])
  <2>4. /\ \A y \in DOMAIN segs : Spread(es, segs[y])
        /\ \A k \in DOMAIN result : Spread(es, result[k])
    BY <1>2, <2>1 DEF LinksOn, SegmentsOn
  <2>5. s \in Segment /\ s.nodes = result[j].nodes
    BY <1>1, <2>3, Members, MergedByNodesType
  <2>6. Spread(es, s)
    BY <1>1, <2>3, <2>4, Members, MergedSpread
  <2> HIDE DEF s
  <2>7. result' = [result EXCEPT ![j] = s]
    BY <2>2 DEF s
  <2>8. /\ DOMAIN result' = DOMAIN result /\ result'[j] = s
        /\ \A y \in DOMAIN result : y # j => result'[y] = result[y]
    BY <1>1, <2>3, <2>5, <2>7, Replaced
  <2>9. \A k \in DOMAIN result' : Spread(es, result'[k])
    BY <2>4, <2>6, <2>8
  <2> QED
    BY <1>2, <2>1, <2>4, <2>9 DEF LinksOn, SegmentsOn
<1>11. CASE EndMerge
  <2>1. phase' \in {"nodes", "done"} /\ segs' = result /\ result' = <<>>
    BY <1>11 DEF EndMerge
  <2>2. \A j \in DOMAIN result : Spread(es, result[j])
    BY <1>2, HomedSpread DEF LinksOn, SegmentsOn
  <2> QED
    BY <1>2, <2>1, <2>2 DEF LinksOn, SegmentsOn
<1> QED
  BY <1>3, <1>5, <1>6, <1>7, <1>8, <1>9, <1>10, <1>11 DEF CallStep

(* No step does.                                                           *)
LEMMA LinkNext ==
    ASSUME PortsOnOneLink, PrefixesOnOneLink, StoreInv, CallInv, CoverInv, LinkInv, [Next]_vars
    PROVE  LinkInv'
<1>1. CASE StoreStep
  <2>1. segs' = <<>> /\ result' = <<>>
    BY <1>1, StoreStepFrame DEF CallInv, merge
  <2>2. \A y \in DOMAIN <<>> : FALSE
    OBVIOUS
  <2> QED
    BY <2>1, <2>2 DEF LinkInv, LinksOn, SegmentsOn
<1>2. CASE CallStep
  BY <1>2, LinkStepKeeps
<1>3. CASE UNCHANGED vars
  BY <1>3 DEF vars, merge, LinkInv
<1> QED
  BY <1>1, <1>2, <1>3, NextCases

-----------------------------------------------------------------------------
(* What the exporters find in the store.                                   *)

(* A port is on the links of its attachments.                              *)
LEMMA LinksOfPort ==
    ASSUME NEW n, NEW i, NEW l
    PROVE  l \in LinksAt(<<n, i>>) <=> <<n, i, l>> \in Attached
<1> DEFINE p == <<n, i>>
           at == <<n, i, l>>
<1>1. p[1] = n /\ p[2] = i /\ at[1] = n /\ at[2] = i /\ at[3] = l
  OBVIOUS
<1>2. ASSUME NEW x \in Attached, x[1] = n, x[2] = i, x[3] = l PROVE x = at
  BY <1>2, AttachedFields
<1> HIDE DEF p, at
<1>3. l \in LinksAt(p) <=> at \in Attached
  BY <1>1, <1>2 DEF LinksAt
<1> QED
  BY <1>3 DEF p, at

(* The hosts of a returned segment have edges of its links.                *)
LEMMA ResultSpread ==
    ASSUME CallInv, LinkInv, NEW s \in Result
    PROVE  Spread(DOMAIN g.edges, s)
<1>1. phase = "done"
  BY DEF Result
<1>2. PICK x \in DOMAIN segs : s = segs[x]
  BY ResultMembers
<1> QED
  BY <1>1, <1>2 DEF LinkInv, LinksOn, SegmentsOn

(* A host with an edge on a link is on it.                                 *)
LEMMA WiredOnLink ==
    ASSUME NEW es, NEW n, NEW l, Wired(es, n, l)
    PROVE  OnLink(n, l)
BY OnItsLink DEF Wired, EdgeOn

(* All members are on a link they all have edges of.                       *)
LEMMA AllOnLink ==
    ASSUME NEW es, NEW s, NEW l \in Links, AllWired(es, s, l)
    PROVE  l \in LinksOf(s)
BY WiredOnLink DEF LinksOf, AllWired, OnLink, Links

(* A member of a segment is the local host or in the store.                *)
LEMMA MemberKnown ==
    ASSUME StoreInv, NEW s \in Segment, NEW n \in s.nodes
    PROVE  /\ n \in Host
           /\ n = g.local => n = Self
           /\ n # g.local => n \in DOMAIN s.info /\ n \in DOMAIN g.nodes
           /\ n \in GetNodes(g)
<1>1. n \in Host /\ (n # g.local => n \in DOMAIN s.info)
  BY SegmentFields
<1>2. n = g.local => n = Self /\ n # NoHost
  BY <1>1, NoHostAssumption DEF StoreInv
<1>3. ASSUME n # g.local PROVE n \in DOMAIN g.nodes
  <2>1. s.info[n] \in DOMAIN g.edges /\ n \in {s.info[n].src, s.info[n].dst}
    BY <1>1, <1>3, SegmentFields
  <2> QED
    BY <1>3, <2>1, EdgeFields
<1> QED
  BY <1>1, <1>2, <1>3 DEF GetNodes

(* The interfaces the store has for a host are its own, with their details.*)
LEMMA NodeIfacesTrue ==
    ASSUME StoreInv, NEW n \in GetNodes(g), NEW i \in DOMAIN NodeIfaces(n)
    PROVE  /\ \E l \in Links : <<n, i, l>> \in Attached
           /\ NodeIfaces(n)[i] = DetailsAt[n, i]
<1>1. CASE n = g.local
  <2>1. g.local = Self
    BY <1>1, NoHostAssumption DEF StoreInv, GetNodes, WellFormed, SelfNotDiscovered
  <2>2. i \in DOMAIN g.localIfaces /\ NodeIfaces(n)[i] = g.localIfaces[i]
    BY <1>1 DEF NodeIfaces
  <2>3. OwnIface(i) /\ g.localIfaces[i] = DetailsAt[Self, i]
    BY <2>1, <2>2 DEF StoreInv
  <2>4. PICK at \in Attached : at[1] = Self /\ at[2] = i
    BY <2>3 DEF OwnIface
  <2>5. at = <<Self, i, at[3]>> /\ at[3] \in Links
    BY <2>4, AttachedFields
  <2> QED
    BY <1>1, <2>1, <2>2, <2>3, <2>5
<1>2. CASE n # g.local
  <2>1. n \in DOMAIN g.nodes /\ NodeIfaces(n) = g.nodes[n].ifaces
    BY <1>2 DEF GetNodes, NodeIfaces
  <2>2. <<n, i>> \in DOMAIN DetailsAt /\ NodeIfaces(n)[i] = DetailsAt[n, i]
    BY <2>1 DEF StoreInv, TrueStore, TrueNode
  <2> QED
    BY <2>2, DetailedAttached
<1> QED
  BY <1>1, <1>2

(* Both ends of an edge are known hosts with these interfaces.             *)
LEMMA EndsKnown ==
    ASSUME StoreInv, NEW k \in DOMAIN g.edges
    PROVE  /\ k.src \in GetNodes(g) /\ k.dst \in GetNodes(g)
           /\ k.lif \in DOMAIN NodeIfaces(k.src) /\ k.rif \in DOMAIN NodeIfaces(k.dst)
           /\ k.lif # NoIface /\ k.rif # NoIface
           /\ g.edges[k].ldet = DetailsAt[k.src, k.lif] /\ g.edges[k].rdet = DetailsAt[k.dst, k.rif]
           /\ \E l \in Links : EdgeOn(k, l)
<1>1. k.src \in GetNodes(g) /\ k.dst \in DOMAIN g.nodes /\ k.dst # g.local /\ k \in LinkKeys
  BY EdgeFields DEF StoreInv, WellFormed, EndpointsKnown
<1>2. PICK l \in Links : EdgeOn(k, l)
  BY <1>1, EdgeOnLink
<1> DEFINE at1 == <<k.src, k.lif, l>>
           at2 == <<k.dst, k.rif, l>>
<1>3. k.lif # NoIface /\ k.rif # NoIface
  <2>1. at1 \in Attached /\ at2 \in Attached /\ at1[2] = k.lif /\ at2[2] = k.rif
    BY <1>2 DEF EdgeOn
  <2> HIDE DEF at1, at2
  <2> QED
    BY <2>1, AttachedFields
<1>4. k.rif \in DOMAIN NodeIfaces(k.dst)
  BY <1>1 DEF NodeIfaces, StoreInv, WellFormed, IfacesKnown
<1>5. k.lif \in DOMAIN NodeIfaces(k.src)
  <2>1. CASE k.src = g.local
    <3>1. k.src = Self
      BY <2>1, EdgeFields, NoHostAssumption DEF StoreInv
    <3>2. at1 \in Attached /\ at1[1] = Self /\ at1[2] = k.lif
      BY <1>2, <3>1 DEF EdgeOn
    <3> HIDE DEF at1
    <3>3. OwnIface(k.lif)
      BY <3>2 DEF OwnIface
    <3> QED
      BY <2>1, <3>1, <3>3 DEF NodeIfaces, StoreInv
  <2>2. CASE k.src # g.local
    <3>1. ~g.edges[k].direct
      BY <2>2 DEF StoreInv, WellFormed, ProvenanceKnown
    <3> QED
      BY <1>3, <2>2, <3>1 DEF NodeIfaces, StoreInv, WellFormed, IfacesKnown
  <2> QED
    BY <2>1, <2>2
<1>6. g.edges[k].ldet = DetailsAt[k.src, k.lif] /\ g.edges[k].rdet = DetailsAt[k.dst, k.rif]
  BY DEF StoreInv, TrueStore, TrueEdge
<1> QED
  BY <1>1, <1>2, <1>3, <1>4, <1>5, <1>6 DEF GetNodes

(* A prefix of a segment that an interface has: it is on a link of all     *)
(* members.                                                                *)
LEMMA PrefixOnLink ==
    ASSUME PrefixesOnOneLink, NEW es, NEW s, Spread(es, s), NEW p \in s.prefixes,
           NEW n, NEW i, NEW l, <<n, i, l>> \in Attached, p \in DetailsAt[n, i].pfx
    PROVE  AllWired(es, s, l)
<1>1. PICK l2 \in Links : AllWired(es, s, l2) /\ p \in LinkPrefixes(l2)
  BY DEF Spread
<1>2. p \in LinkPrefixes(l)
  BY OnItsLink
<1>3. l = l2
  BY <1>1, <1>2, OneLinkOfPrefix
<1> QED
  BY <1>1, <1>3

(* The end of a member's edge is on a link of all members.                 *)
LEMMA InfoEndOnLink ==
    ASSUME NEW s \in Segment, NEW es, Spread(es, s), NEW n \in DOMAIN s.info
    PROVE  \E l \in Links : /\ AllWired(es, s, l) /\ EdgeOn(s.info[n], l)
                            /\ <<n, s.info[n].rif, l>> \in Attached
<1> DEFINE k == s.info[n]
<1>1. PICK l \in Links : AllWired(es, s, l) /\ EdgeOn(k, l)
  BY DEF Spread
<1>2. <<n, k.rif>> \in Ends(k)
  BY SegmentFields
<1> HIDE DEF k
<1>3. <<n, k.rif, l>> \in Attached
  BY <1>1, <1>2 DEF Ends, EdgeOn
<1> QED
  BY <1>1, <1>3 DEF k

(* What the DOT file connects to a segment is on a link of all members.    *)
LEMMA OwnIfaceOnLink ==
    ASSUME PrefixesOnOneLink, StoreInv, NEW s \in Segment, NEW es, Spread(es, s),
           NEW n \in s.nodes, NEW i \in OwnIfaces(s, n)
    PROVE  \E l \in Links : AllWired(es, s, l) /\ <<n, i, l>> \in Attached
<1>1. CASE i \in InfoIfaces(s, n)
  <2>1. n \in DOMAIN s.info /\ i = s.info[n].rif
    BY <1>1 DEF InfoIfaces
  <2> QED
    BY <2>1, InfoEndOnLink
<1>2. CASE i \in PrefixIfaces(s, n)
  <2>1. i \in DOMAIN NodeIfaces(n) /\ NodeIfaces(n)[i].pfx \cap s.prefixes # {}
    BY <1>2 DEF PrefixIfaces
  <2>2. n \in GetNodes(g)
    BY MemberKnown
  <2>3. PICK l \in Links : <<n, i, l>> \in Attached
    BY <2>1, <2>2, NodeIfacesTrue
  <2>4. NodeIfaces(n)[i] = DetailsAt[n, i]
    BY <2>1, <2>2, NodeIfacesTrue
  <2>5. PICK p \in s.prefixes : p \in DetailsAt[n, i].pfx
    BY <2>1, <2>4
  <2> QED
    BY <2>3, <2>5, PrefixOnLink
<1> QED
  BY <1>1, <1>2 DEF OwnIfaces

(* A member is an end of an edge on each link of all members.              *)
LEMMA MemberEnd ==
    ASSUME StoreInv, NEW s, NEW n \in s.nodes, NEW l, AllWired(DOMAIN g.edges, s, l)
    PROVE  \E k \in DOMAIN g.edges : \E i \in ConnectedIfaces(n) : <<n, i>> \in Ends(k) /\ <<n, i, l>> \in Attached
<1>1. PICK k \in DOMAIN g.edges : n \in {k.src, k.dst} /\ EdgeOn(k, l)
  BY DEF AllWired, Wired
<1>2. CASE n = k.src
  <2>1. k.lif \in ConnectedIfaces(n)
    BY <1>2 DEF ConnectedIfaces
  <2>2. <<n, k.lif>> \in Ends(k) /\ <<n, k.lif, l>> \in Attached
    BY <1>1, <1>2 DEF Ends, EdgeOn
  <2> QED
    BY <2>1, <2>2
<1>3. CASE n = k.dst
  <2>1. k.rif \in ConnectedIfaces(n)
    BY <1>3 DEF ConnectedIfaces
  <2>2. <<n, k.rif>> \in Ends(k) /\ <<n, k.rif, l>> \in Attached
    BY <1>1, <1>3 DEF Ends, EdgeOn
  <2> QED
    BY <2>1, <2>2
<1> QED
  BY <1>1, <1>2, <1>3

(* An interface on a link of all members has no other link.                *)
LEMMA PortOnLink ==
    ASSUME PortsOnOneLink, NEW es, NEW s, NEW l \in Links, AllWired(es, s, l), NEW n, NEW i, <<n, i, l>> \in Attached
    PROVE  LinksAt(<<n, i>>) \subseteq LinksOf(s)
<1> SUFFICES ASSUME NEW l2 \in LinksAt(<<n, i>>) PROVE l2 \in LinksOf(s)
  OBVIOUS
<1>1. l2 = l
  BY LinksOfPort, OneLink
<1> QED
  BY <1>1, AllOnLink

(* Only the local host may have no interface of its own in a segment.      *)
LEMMA OwnIfacesOfOthers ==
    ASSUME StoreInv, NEW s \in Segment, NEW n \in s.nodes, n # g.local
    PROVE  OwnIfaces(s, n) # {}
<1>1. n \in DOMAIN s.info
  BY MemberKnown
<1>2. s.info[n] \in DOMAIN g.edges /\ <<n, s.info[n].rif>> \in Ends(s.info[n])
  BY <1>1, SegmentFields
<1> DEFINE k == s.info[n]
<1> HIDE DEF k
<1>3. k.lif # NoIface /\ k.rif # NoIface
  BY <1>2, EndsKnown DEF k
<1>4. s.info[n].rif \in InfoIfaces(s, n)
  BY <1>1, <1>3 DEF InfoIfaces, k
<1> QED
  BY <1>4 DEF OwnIfaces

(* SegmentPortsOnLink, if an interface and a prefix are on one link.       *)
LEMMA PortsHold ==
    ASSUME PortsOnOneLink, PrefixesOnOneLink, StoreInv, CallInv, LinkInv
    PROVE  SegmentPortsOnLink
<1> SUFFICES ASSUME NEW s \in Result, NEW n \in s.nodes
             PROVE  IF n = g.local /\ OwnIfaces(s, n) = {}
                    THEN \E i \in SegmentPorts(s, n) : LinksAt(<<n, i>>) \subseteq LinksOf(s)
                    ELSE \A i \in SegmentPorts(s, n) : LinksAt(<<n, i>>) \subseteq LinksOf(s)
  BY DEF SegmentPortsOnLink
<1> DEFINE es == DOMAIN g.edges
<1>1. s \in Segment /\ Spread(es, s)
  BY ResultMembers, ResultSpread
<1>2. CASE OwnIfaces(s, n) = {}
  <2>1. n = g.local
    BY <1>1, <1>2, OwnIfacesOfOthers
  <2>2. PICK l \in Links : AllWired(es, s, l)
    BY <1>1 DEF Spread
  <2>3. PICK i \in ConnectedIfaces(n) : <<n, i, l>> \in Attached
    BY <2>2, MemberEnd
  <2>4. LinksAt(<<n, i>>) \subseteq LinksOf(s)
    BY <2>2, <2>3, PortOnLink
  <2>5. i \in SegmentPorts(s, n)
    BY <1>2, <2>3 DEF SegmentPorts
  <2> QED
    BY <1>2, <2>1, <2>4, <2>5
<1>3. CASE OwnIfaces(s, n) # {}
  <2>1. ASSUME NEW i \in SegmentPorts(s, n) PROVE LinksAt(<<n, i>>) \subseteq LinksOf(s)
    <3>1. i \in OwnIfaces(s, n)
      BY <1>3, <2>1 DEF SegmentPorts
    <3> HIDE DEF es
    <3>2. PICK l \in Links : AllWired(es, s, l) /\ <<n, i, l>> \in Attached
      BY <1>1, <3>1, OwnIfaceOnLink
    <3> QED
      BY <3>2, PortOnLink
  <2> QED
    BY <1>3, <2>1
<1> QED
  BY <1>2, <1>3

(* A host on a link has one link under a name used there.                  *)
LEMMA NamedLink ==
    ASSUME NamesOnOneLink, NEW n, NEW i, NEW l1, NEW l2, NEW m, <<n, i, l1>> \in Attached, <<m, i, l2>> \in Attached,
           OnLink(n, l2)
    PROVE  l1 = l2
<1> DEFINE at1 == <<n, i, l1>>
           at2 == <<m, i, l2>>
<1>1. PICK at3 \in Attached : at3[1] = n /\ at3[3] = l2
  BY DEF OnLink
<1>2. /\ at1 \in Attached /\ at2 \in Attached
      /\ at1[1] = n /\ at1[2] = at2[2] /\ at1[3] = l1 /\ at2[3] = l2
  OBVIOUS
<1> HIDE DEF at1, at2
<1> QED
  BY <1>1, <1>2 DEF NamesOnOneLink

(* What is marked for a member is the name of an interface on a link of    *)
(* all members.                                                            *)
LEMMA MarkedOnLink ==
    ASSUME PrefixesOnOneLink, StoreInv, NEW s \in Segment, NEW es, Spread(es, s),
           NEW k \in DOMAIN g.edges, {k.src, k.dst} \subseteq s.nodes,
           NEW n \in s.nodes, NEW i \in MarkedIfaces(s, n)
    PROVE  \E l \in Links : AllWired(es, s, l) /\ \E m : <<m, i, l>> \in Attached
<1>1. CASE i \in OwnIfaces(s, n)
  BY <1>1, OwnIfaceOnLink
<1>2. CASE i \in ReferenceIfaces(s)
  <2>1. PICK m \in DOMAIN s.info : i = s.info[m].lif
    BY <1>2 DEF ReferenceIfaces
  <2>2. PICK l \in Links : AllWired(es, s, l) /\ EdgeOn(s.info[m], l)
    BY DEF Spread
  <2>3. <<s.info[m].src, i, l>> \in Attached
    BY <2>1, <2>2 DEF EdgeOn
  <2> QED
    BY <2>2, <2>3
<1>3. ReferenceIfaces(s) # {}
  <2>1. k.dst \in DOMAIN s.info
    BY EdgeFields, SegmentFields
  <2>2. s.info[k.dst] \in DOMAIN g.edges
    BY <2>1, SegmentFields
  <2>3. s.info[k.dst].lif # NoIface
    BY <2>2, EndsKnown
  <2> QED
    BY <2>1, <2>3 DEF ReferenceIfaces
<1> QED
  BY <1>1, <1>2, <1>3 DEF MarkedIfaces

(* HiddenLinksAreOfSegments, if names tell the links of a host apart.      *)
LEMMA HiddenHolds ==
    ASSUME NamesOnOneLink, PrefixesOnOneLink, StoreInv, CallInv, LinkInv
    PROVE  HiddenLinksAreOfSegments
<1> SUFFICES ASSUME NEW k \in DOMAIN g.edges, Hidden(k)
             PROVE  \E s \in Result : {k.src, k.dst} \subseteq s.nodes /\ LinkOf(k) \subseteq LinksOf(s)
  BY DEF HiddenLinksAreOfSegments
<1>1. PICK s \in Result :
        /\ {k.src, k.dst} \subseteq s.nodes
        /\ k.lif \in MarkedIfaces(s, k.src) \cup MarkedIfaces(s, k.dst)
  BY DEF Hidden
<1> DEFINE es == DOMAIN g.edges
<1>2. s \in Segment /\ Spread(es, s)
  BY ResultMembers, ResultSpread
<1> HIDE DEF es
<1>3. PICK n \in s.nodes : k.lif \in MarkedIfaces(s, n)
  BY <1>1
<1>4. PICK l2 \in Links : AllWired(es, s, l2) /\ \E m : <<m, k.lif, l2>> \in Attached
  BY <1>1, <1>2, <1>3, MarkedOnLink
<1>5. OnLink(k.src, l2)
  BY <1>1, <1>4, WiredOnLink DEF AllWired
<1>6. ASSUME NEW l \in LinkOf(k) PROVE l \in LinksOf(s)
  <2>1. <<k.src, k.lif, l>> \in Attached
    BY LinksOfPort DEF LinkOf
  <2>2. l = l2
    BY <1>4, <1>5, <2>1, NamedLink
  <2> QED
    BY <1>4, <2>2, AllOnLink
<1> QED
  BY <1>1, <1>6

(* The end of an edge is an interface drawn in the cluster of its host.    *)
LEMMA EndInBox ==
    ASSUME StoreInv, NEW k \in DOMAIN g.edges, NEW n, NEW i, <<n, i>> \in Ends(k)
    PROVE  <<n, i>> \in Boxes
<1>1. n \in GetNodes(g) /\ i \in DOMAIN NodeIfaces(n)
  BY EndsKnown DEF Ends
<1>2. i \in ConnectedIfaces(n)
  BY DEF Ends, ConnectedIfaces
<1>3. <<n, i>> \in {n} \X (DOMAIN NodeIfaces(n) \cap ConnectedIfaces(n))
  BY <1>1, <1>2
<1> QED
  BY <1>1, <1>3 DEF Boxes

(* What a segment is drawn to, if a host has one interface on a link: the  *)
(* end of an edge of the member.                                           *)
LEMMA PortIsEnd ==
    ASSUME PrefixesOnOneLink, OnePortPerLink, StoreInv, CallInv, LinkInv,
           NEW s \in Result, NEW n \in s.nodes, NEW i \in SegmentPorts(s, n)
    PROVE  \E k \in DOMAIN g.edges : <<n, i>> \in Ends(k)
<1> DEFINE es == DOMAIN g.edges
<1>1. s \in Segment /\ Spread(es, s)
  BY ResultMembers, ResultSpread
<1>2. CASE i \in OwnIfaces(s, n)
  <2>1. PICK l \in Links : AllWired(es, s, l) /\ <<n, i, l>> \in Attached
    BY <1>1, <1>2, OwnIfaceOnLink
  <2>2. PICK k \in DOMAIN g.edges, j \in ConnectedIfaces(n) : <<n, j>> \in Ends(k) /\ <<n, j, l>> \in Attached
    BY <2>1, MemberEnd
  <2>3. i = j
    <3> DEFINE at1 == <<n, i, l>>
               at2 == <<n, j, l>>
    <3>1. /\ at1 \in Attached /\ at2 \in Attached
          /\ at1[1] = at2[1] /\ at1[3] = at2[3] /\ at1[2] = i /\ at2[2] = j
      BY <2>1, <2>2
    <3> HIDE DEF at1, at2
    <3> QED
      BY <3>1 DEF OnePortPerLink
  <2> QED
    BY <2>2, <2>3
<1>3. CASE i \in ConnectedIfaces(n)
  <2>1. CASE \E k \in DOMAIN g.edges : k.src = n /\ i = k.lif
    BY <2>1 DEF Ends
  <2>2. CASE \E k \in DOMAIN g.edges : k.dst = n /\ i = k.rif
    BY <2>2 DEF Ends
  <2> QED
    BY <1>3, <2>1, <2>2 DEF ConnectedIfaces
<1> QED
  BY <1>2, <1>3 DEF SegmentPorts

(* LinesEndAtInterfaces, if a host has one interface on a link.            *)
LEMMA LinesHold ==
    ASSUME PrefixesOnOneLink, OnePortPerLink, StoreInv, CallInv, LinkInv
    PROVE  LinesEndAtInterfaces
<1>1. UNION Lines \subseteq Boxes
  <2> SUFFICES ASSUME NEW k \in DOMAIN g.edges, NEW p \in {<<k.src, k.lif>>, <<k.dst, k.rif>>}
               PROVE  p \in Boxes
    BY DEF Lines
  <2> QED
    BY EndInBox DEF Ends
<1>2. ASSUME NEW s \in Result, NEW n \in s.nodes
      PROVE  SegmentPorts(s, n) # {} /\ {n} \X SegmentPorts(s, n) \subseteq Boxes
  <2>1. PICK l \in Links : AllWired(DOMAIN g.edges, s, l)
    BY <1>2, ResultSpread DEF Spread
  <2>2. \E i : i \in ConnectedIfaces(n)
    BY <2>1, MemberEnd
  <2>3. SegmentPorts(s, n) # {}
    BY <2>2 DEF SegmentPorts
  <2>4. ASSUME NEW i \in SegmentPorts(s, n) PROVE <<n, i>> \in Boxes
    <3>1. PICK k \in DOMAIN g.edges : <<n, i>> \in Ends(k)
      BY PortIsEnd
    <3> QED
      BY <3>1, EndInBox
  <2> QED
    BY <2>3, <2>4
<1> QED
  BY <1>1, <1>2 DEF LinesEndAtInterfaces

(* The ends of an edge with its directions exchanged.                      *)
LEMMA FlippedEnds ==
    ASSUME NEW k, NEW q, k = q \/ k = Flipped(q)
    PROVE  {k.src, k.dst} = {q.src, q.dst} /\ Ends(k) = Ends(q)
BY DEF Flipped, Ends

(* What nwdiag derives from EdgeInfo is between the local host and a       *)
(* member.                                                                 *)
LEMMA ByInfoEnds ==
    ASSUME StoreInv, NEW s \in Segment, NEW q \in ProcessedByInfo(s)
    PROVE  \E n \in DOMAIN s.info :
               /\ q.src = g.local /\ q.dst = n /\ q.lif = s.info[n].lif /\ q.rif = s.info[n].rif
               /\ g.local \in s.nodes /\ n \in s.nodes
<1>1. PICK r \in Unlisted(s), n \in DOMAIN s.info :
        q = [src |-> r, dst |-> n, lif |-> s.info[n].lif, rif |-> s.info[n].rif]
  BY DEF ProcessedByInfo
<1>2. r = g.local /\ r \in s.nodes /\ n \in s.nodes
  BY SegmentFields DEF Unlisted
<1> QED
  BY <1>1, <1>2

(* The segment for which nwdiag takes an edge.                             *)
LEMMA ProcessedFor ==
    ASSUME NEW k \in Processed
    PROVE  \E s \in Result : \E q \in ProcessedByInfo(s) \cup ProcessedByPrefix(s) : k = q \/ k = Flipped(q)
BY DEF Processed

(* An edge with an end on a link of all members is of the segment's link.  *)
LEMMA EdgeOfSegment ==
    ASSUME PortsOnOneLink, StoreInv, NEW k \in DOMAIN g.edges, NEW es, NEW s,
           NEW l \in Links, AllWired(es, s, l), NEW n, NEW i, <<n, i>> \in Ends(k), <<n, i, l>> \in Attached
    PROVE  LinkOf(k) \subseteq LinksOf(s)
<1> SUFFICES ASSUME NEW l1 \in LinkOf(k) PROVE l1 \in LinksOf(s)
  OBVIOUS
<1>1. PICK l2 \in Links : EdgeOn(k, l2)
  BY EndsKnown
<1>2. <<n, i, l2>> \in Attached
  BY <1>1 DEF Ends, EdgeOn
<1>3. <<k.src, k.lif, l1>> \in Attached
  BY LinksOfPort DEF LinkOf
<1>4. l1 = l2
  BY <1>1, <1>3, OneLink DEF EdgeOn
<1>5. l2 = l
  BY <1>2, OneLink
<1> QED
  BY <1>4, <1>5, AllOnLink

(* ProcessedLinksAreOfSegments, if an interface and a prefix are on one    *)
(* link.                                                                   *)
LEMMA ProcessedHolds ==
    ASSUME PortsOnOneLink, PrefixesOnOneLink, StoreInv, CallInv, LinkInv
    PROVE  ProcessedLinksAreOfSegments
<1> SUFFICES ASSUME NEW k \in DOMAIN g.edges, k \in Processed
             PROVE  \E s \in Result : {k.src, k.dst} \subseteq s.nodes /\ LinkOf(k) \subseteq LinksOf(s)
  BY DEF ProcessedLinksAreOfSegments
<1>1. PICK s \in Result : \E q \in ProcessedByInfo(s) \cup ProcessedByPrefix(s) : k = q \/ k = Flipped(q)
  BY ProcessedFor
<1>2. PICK q \in ProcessedByInfo(s) \cup ProcessedByPrefix(s) : k = q \/ k = Flipped(q)
  BY <1>1
<1>3. {k.src, k.dst} = {q.src, q.dst} /\ Ends(k) = Ends(q)
  BY <1>2, FlippedEnds
<1> DEFINE es == DOMAIN g.edges
<1>4. s \in Segment /\ Spread(es, s)
  BY ResultMembers, ResultSpread
<1>5. CASE q \in ProcessedByInfo(s)
  <2>1. PICK n \in DOMAIN s.info :
          /\ q.src = g.local /\ q.dst = n /\ q.lif = s.info[n].lif /\ q.rif = s.info[n].rif
          /\ g.local \in s.nodes /\ n \in s.nodes
    BY <1>4, <1>5, ByInfoEnds
  <2>2. PICK l \in Links : AllWired(es, s, l) /\ <<n, s.info[n].rif, l>> \in Attached
    BY <1>4, InfoEndOnLink
  <2>3. <<n, s.info[n].rif>> \in Ends(k)
    BY <1>3, <2>1 DEF Ends
  <2>4. LinkOf(k) \subseteq LinksOf(s)
    BY <2>2, <2>3, EdgeOfSegment
  <2> QED
    BY <1>3, <2>1, <2>4
<1>6. CASE q \in ProcessedByPrefix(s)
  <2>1. /\ q \in es /\ {q.src, q.dst} \subseteq s.nodes
        /\ (g.edges[q].ldet.pfx \cup g.edges[q].rdet.pfx) \cap s.prefixes # {}
    BY <1>6 DEF ProcessedByPrefix
  <2>2. /\ g.edges[q].ldet = DetailsAt[q.src, q.lif] /\ g.edges[q].rdet = DetailsAt[q.dst, q.rif]
        /\ \E l \in Links : EdgeOn(q, l)
    BY <2>1, EndsKnown
  <2>3. PICK p \in s.prefixes : p \in DetailsAt[q.src, q.lif].pfx \/ p \in DetailsAt[q.dst, q.rif].pfx
    BY <2>1, <2>2
  <2>4. PICK n, i : <<n, i>> \in Ends(q) /\ p \in DetailsAt[n, i].pfx
    <3>1. <<q.src, q.lif>> \in Ends(q) /\ <<q.dst, q.rif>> \in Ends(q)
      BY DEF Ends
    <3> QED
      BY <2>3, <3>1
  <2>5. PICK l \in Links : EdgeOn(q, l)
    BY <2>2
  <2>6. <<n, i, l>> \in Attached
    BY <2>4, <2>5 DEF Ends, EdgeOn
  <2>7. AllWired(es, s, l)
    BY <1>4, <2>4, <2>6, PrefixOnLink
  <2>8. LinkOf(k) \subseteq LinksOf(s)
    BY <1>3, <2>4, <2>6, <2>7, EdgeOfSegment
  <2> QED
    BY <1>3, <2>1, <2>8
<1> QED
  BY <1>2, <1>5, <1>6

-----------------------------------------------------------------------------
(* The prefixes of a segment are those of its members' interfaces.         *)

(* The store has these prefixes at both ends of an edge.                   *)
EdgeHas(k, ps) ==
    /\ g.edges[k].ldet.pfx = ps /\ g.edges[k].rdet.pfx = ps
    /\ DetailsAt[k.src, k.lif].pfx = ps
    /\ ps \in Pfx

(* What the store says of the prefixes at both ends of an edge.            *)
LEMMA EdgePrefixes ==
    ASSUME SamePrefixes, StoreInv, NEW k \in DOMAIN g.edges,
           NEW n, NEW i, <<n, i>> \in Ends(k), NEW ps, ps = DetailsAt[n, i].pfx
    PROVE  EdgeHas(k, ps)
<1>1. PICK l \in Links : EdgeOn(k, l)
  BY EndsKnown
<1> DEFINE at1 == <<k.src, k.lif, l>>
           at2 == <<k.dst, k.rif, l>>
           ps1 == DetailsAt[k.src, k.lif].pfx
           ps2 == DetailsAt[k.dst, k.rif].pfx
<1>2. at1 \in Attached /\ at2 \in Attached
  BY <1>1 DEF EdgeOn
<1>3. /\ at1[3] = at2[3]
      /\ ps1 = DetailsAt[at1[1], at1[2]].pfx /\ ps2 = DetailsAt[at2[1], at2[2]].pfx
  OBVIOUS
<1>4. g.edges[k].ldet.pfx = ps1 /\ g.edges[k].rdet.pfx = ps2
  BY EndsKnown
<1>5. ps \in {ps1, ps2}
  BY DEF Ends
<1> HIDE DEF at1, at2, ps1, ps2
<1>6. ps1 = ps2 /\ ps1 \in Pfx
  <2>1. ps1 = ps2
    BY <1>2, <1>3 DEF SamePrefixes
  <2>2. DetailsAt[at1[1], at1[2]] \in Details
    BY <1>2, AttachedFields
  <2> QED
    BY <1>3, <2>1, <2>2 DEF Details
<1>7. DetailsAt[k.src, k.lif].pfx = ps1
  BY DEF ps1
<1> QED
  BY <1>4, <1>5, <1>6, <1>7 DEF EdgeHas

(* A new segment has the prefixes of its link.                             *)
LEMMA NewDressed ==
    ASSUME SamePrefixes, StoreInv, NEW s \in Segment, NEW es, Homed(es, s),
           s.prefixes = AllPrefixes(s.nodes, s.info)
    PROVE  Dressed(s)
<1>1. PICK l \in Links : s.prefixes \subseteq LinkPrefixes(l) /\ \A n \in DOMAIN s.info : EdgeOn(s.info[n], l)
  BY DEF Homed
<1>2. ASSUME NEW n \in DOMAIN s.info
      PROVE  /\ DetailsAt[n, s.info[n].rif].pfx \subseteq s.prefixes
             /\ s.prefixes # {} => DetailsAt[n, s.info[n].rif].pfx # {}
  <2> DEFINE k == s.info[n]
             i == k.rif
             ps == DetailsAt[n, i].pfx
  <2>1. k \in DOMAIN g.edges /\ <<n, i>> \in Ends(k) /\ n \in s.nodes /\ n # g.local
    BY SegmentFields
  <2>2. EdgeOn(k, l)
    BY <1>1
  <2>3. ps \subseteq s.prefixes
    <3>1. i \in DOMAIN NodeIfaces(n) /\ n \in GetNodes(g)
      BY <2>1, EndsKnown DEF Ends
    <3>2. NodeIfaces(n)[i] = DetailsAt[n, i]
      BY <3>1, NodeIfacesTrue
    <3>3. PrefixOf(g.nodes[n].ifaces, i) = ps
      BY <2>1, <3>1, <3>2 DEF PrefixOf, NodeIfaces
    <3>4. PrefixOf(g.nodes[n].ifaces, s.info[n].rif) \subseteq AllPrefixes(s.nodes, s.info)
      <4> DEFINE Q == {PrefixOf(g.nodes[m].ifaces, s.info[m].rif) : m \in (s.nodes \ {g.local}) \cap DOMAIN s.info}
      <4>1. PrefixOf(g.nodes[n].ifaces, s.info[n].rif) \in Q
        BY <2>1
      <4>2. UNION Q \subseteq AllPrefixes(s.nodes, s.info)
        BY DEF AllPrefixes
      <4> HIDE DEF Q
      <4> QED
        BY <4>1, <4>2
    <3> QED
      BY <3>3, <3>4
  <2>4. ASSUME s.prefixes # {} PROVE ps # {}
    <3>1. PICK p : p \in LinkPrefixes(l)
      BY <1>1, <2>4
    <3>2. PICK at1 \in Attached : at1[3] = l /\ p \in DetailsAt[at1[1], at1[2]].pfx
      BY <3>1 DEF LinkPrefixes
    <3> DEFINE at2 == <<n, i, l>>
    <3>3. at2 \in Attached /\ at2[3] = l /\ ps = DetailsAt[at2[1], at2[2]].pfx
      BY <2>1, <2>2 DEF Ends, EdgeOn
    <3> HIDE DEF at2, ps
    <3> QED
      BY <3>2, <3>3 DEF SamePrefixes
  <2> QED
    BY <2>3, <2>4
<1> QED
  BY <1>2 DEF Dressed

(* Segments with a primary prefix have prefixes on all interfaces.         *)
LEMMA PrefixMergeDressed ==
    ASSUME NEW s1 \in Segment, NEW s2 \in Segment, s1.primary = s2.primary, s1.primary # NoPrefix,
           Dressed(s1), Dressed(s2)
    PROVE  Dressed(MergedByPrefix(s1, s2))
<1> DEFINE s == MergedByPrefix(s1, s2)
<1>1. s1.prefixes # {} /\ s2.prefixes # {}
  BY SegmentFields, FirstPrefixIsLeast
<1>2. s.prefixes = s1.prefixes \cup s2.prefixes
  BY DEF MergedByPrefix
<1>3. Mixes(s.info, s1.info, s2.info)
  BY MergedInfoEdges DEF MergedByPrefix
<1> HIDE DEF s
<1>4. Dressed(s)
  BY <1>1, <1>2, <1>3 DEF Dressed, Mixes
<1> QED
  BY <1>4 DEF s

(* Which edge a host has after a merge.                                    *)
LEMMA MergedInfoChoice ==
    ASSUME NEW info, NEW new, NEW measures, DOMAIN new = DOMAIN info, NEW n \in DOMAIN info
    PROVE  LET better == \E j \in 1 .. 3 : measures[new[n]][j] > measures[info[n]][j]
           IN  MergedInfo(info, new, measures)[n] = IF better THEN new[n] ELSE info[n]
BY DEF MergedInfo

(* How mergeSegmentsByNodeSet counts an edge.                              *)
LEMMA CountedEdge ==
    ASSUME SamePrefixes, StoreInv, NEW k \in DOMAIN g.edges, NEW n, NEW i, <<n, i>> \in Ends(k)
    PROVE  /\ Counted[k][1] = 1
           /\ Counted[k][2] = Counted[k][3]
           /\ Counted[k][2] \in Nat
           /\ Counted[k][2] = 0 <=> DetailsAt[n, i].pfx = {}
<1> DEFINE ps == DetailsAt[n, i].pfx
           c == Counted[k]
<1>1. k.lif # NoIface /\ g.edges[k].ldet.pfx = ps /\ g.edges[k].rdet.pfx = ps /\ ps \in Pfx
  <2>1. k.lif # NoIface
    BY EndsKnown
  <2>2. ps = DetailsAt[n, i].pfx
    OBVIOUS
  <2> HIDE DEF ps
  <2>3. EdgeHas(k, ps)
    BY <2>2, EdgePrefixes
  <2> QED
    BY <2>1, <2>3 DEF EdgeHas
<1> HIDE DEF ps
<1>2. c = <<1, Cardinality(ps), Cardinality(ps)>>
  BY <1>1 DEF Counted, OneIf
<1> HIDE DEF c
<1>3. IsFiniteSet(ps)
  BY <1>1, PfxAssumption, FS_Subset
<1>4. Cardinality(ps) \in Nat /\ (Cardinality(ps) = 0 <=> ps = {})
  BY <1>3, FS_CardinalityType, FS_EmptySet
<1>5. c[1] = 1 /\ c[2] = c[3] /\ c[2] \in Nat /\ (c[2] = 0 <=> ps = {})
  BY <1>2, <1>4
<1> QED
  BY <1>5 DEF ps, c

(* An edge with prefixes is preferred to one without.                      *)
LEMMA NodesMergeDressed ==
    ASSUME SamePrefixes, StoreInv, NEW s1 \in Segment, NEW s2 \in Segment, s1.nodes = s2.nodes,
           Dressed(s1), Dressed(s2)
    PROVE  Dressed(MergedByNodes(s1, s2))
<1> DEFINE s == MergedByNodes(s1, s2)
           P1(n) == DetailsAt[n, s1.info[n].rif].pfx
           P2(n) == DetailsAt[n, s2.info[n].rif].pfx
           P(n) == DetailsAt[n, s.info[n].rif].pfx
           D == DOMAIN s1.info
           better(n) == \E j \in 1 .. 3 : Counted[s2.info[n]][j] > Counted[s1.info[n]][j]
<1>1. s.prefixes = s1.prefixes \cup s2.prefixes /\ s.info = MergedInfo(s1.info, s2.info, Counted)
  BY DEF MergedByNodes
<1>2. DOMAIN s1.info = D /\ DOMAIN s2.info = D /\ DOMAIN s.info = D
  <2>1. DOMAIN s2.info = D
    BY SegmentFields
  <2>2. DOMAIN s.info = DOMAIN s1.info \cup DOMAIN s2.info
    <3>1. Mixes(s.info, s1.info, s2.info)
      BY <1>1, MergedInfoEdges
    <3> HIDE DEF s
    <3> QED
      BY <3>1 DEF Mixes
  <2> QED
    BY <2>1, <2>2
<1> HIDE DEF s
<1>3. \A n \in D : P1(n) \subseteq s1.prefixes /\ (s1.prefixes # {} => P1(n) # {})
  BY DEF Dressed
<1>4. \A n \in D : P2(n) \subseteq s2.prefixes /\ (s2.prefixes # {} => P2(n) # {})
  BY <1>2 DEF Dressed
<1>5. ASSUME NEW n \in D PROVE P(n) \subseteq s.prefixes /\ (s.prefixes # {} => P(n) # {})
  <2>1. s.info[n] = IF better(n) THEN s2.info[n] ELSE s1.info[n]
    BY <1>1, <1>2, MergedInfoChoice
  <2>2. P(n) = IF better(n) THEN P2(n) ELSE P1(n)
    BY <2>1
  <2>3. better(n) <=> Counted[s2.info[n]][2] > Counted[s1.info[n]][2]
    <3> DEFINE c1 == Counted[s1.info[n]]
               c2 == Counted[s2.info[n]]
    <3>1. c1[1] = 1 /\ c2[1] = 1 /\ c1[2] = c1[3] /\ c2[2] = c2[3]
      BY <1>2, SegmentFields, CountedEdge
    <3>2. better(n) <=> c2[1] > c1[1] \/ c2[2] > c1[2] \/ c2[3] > c1[3]
      <4>1. 1 .. 3 = {1, 2, 3}
        OBVIOUS
      <4> HIDE DEF c1, c2
      <4>2. (\E j \in 1 .. 3 : c2[j] > c1[j]) <=> c2[1] > c1[1] \/ c2[2] > c1[2] \/ c2[3] > c1[3]
        BY <4>1
      <4> QED
        BY <4>2 DEF c1, c2
    <3> HIDE DEF c1, c2, better
    <3>3. better(n) <=> c2[2] > c1[2]
      BY <3>1, <3>2
    <3> QED
      BY <3>3 DEF c1, c2
  <2>4. /\ Counted[s1.info[n]][2] \in Nat /\ (Counted[s1.info[n]][2] = 0 <=> P1(n) = {})
        /\ Counted[s2.info[n]][2] \in Nat /\ (Counted[s2.info[n]][2] = 0 <=> P2(n) = {})
    <3> DEFINE k1 == s1.info[n]
               k2 == s2.info[n]
    <3>1. /\ k1 \in DOMAIN g.edges /\ <<n, k1.rif>> \in Ends(k1)
          /\ k2 \in DOMAIN g.edges /\ <<n, k2.rif>> \in Ends(k2)
      BY <1>2, SegmentFields
    <3> HIDE DEF k1, k2
    <3>2. /\ Counted[k1][2] \in Nat /\ (Counted[k1][2] = 0 <=> DetailsAt[n, k1.rif].pfx = {})
          /\ Counted[k2][2] \in Nat /\ (Counted[k2][2] = 0 <=> DetailsAt[n, k2.rif].pfx = {})
      BY <3>1, CountedEdge
    <3> QED
      BY <3>2 DEF k1, k2
  <2> DEFINE m1 == Counted[s1.info[n]][2]
             m2 == Counted[s2.info[n]][2]
             p1 == P1(n)
             p2 == P2(n)
             p0 == P(n)
             b == better(n)
  <2>5. /\ p0 = IF b THEN p2 ELSE p1
        /\ b <=> m2 > m1
        /\ m1 \in Nat /\ m2 \in Nat /\ (m1 = 0 <=> p1 = {}) /\ (m2 = 0 <=> p2 = {})
        /\ p1 \subseteq s1.prefixes /\ (s1.prefixes # {} => p1 # {})
        /\ p2 \subseteq s2.prefixes /\ (s2.prefixes # {} => p2 # {})
    BY <1>3, <1>4, <2>2, <2>3, <2>4
  <2> HIDE DEF m1, m2, p1, p2, p0, b
  <2>6. p0 \subseteq s.prefixes /\ (s.prefixes # {} => p0 # {})
    BY <1>1, <2>5
  <2> QED
    BY <2>6 DEF p0
<1>6. Dressed(s)
  BY <1>2, <1>5 DEF Dressed
<1> QED
  BY <1>6 DEF s

(* No segment is found at first.                                           *)
LEMMA DressedInit == Init => DressedInv
<1>1. \A y \in DOMAIN <<>> : FALSE
  OBVIOUS
<1> QED
  BY <1>1 DEF Init, DressedInv

(* Every step of a call keeps the prefixes of the members' interfaces.     *)
LEMMA DressedStepKeeps ==
    ASSUME PortsOnOneLink, SamePrefixes, StoreInv, CallInv, CoverInv, DressedInv, CallStep
    PROVE  DressedInv'
<1>1. segs \in Seq(Segment) /\ result \in Seq(Segment) /\ merged \subseteq DOMAIN segs
  BY DEF CallInv
<1>2. \A y \in DOMAIN <<>> : FALSE
  OBVIOUS
<1>3. CASE Call \/ Return
  <2>1. segs' = <<>> /\ result' = <<>>
    BY <1>3 DEF Call, Return, CallInv, merge
  <2> QED
    BY <1>2, <2>1 DEF DressedInv
<1>4. ASSUME NEW s \in Segment, segs' = segs \/ (segs' = Append(segs, s) /\ Dressed(s)), result' = result
      PROVE  DressedInv'
  <2>1. \A x \in DOMAIN Append(segs, s) : x \in DOMAIN segs \/ Append(segs, s)[x] = s
    BY <1>4, AppendedSegment
  <2>2. \A x \in DOMAIN segs : Append(segs, s)[x] = segs[x]
    BY <1>4, AppendedSegment
  <2>3. \A x \in DOMAIN segs' : Dressed(segs'[x])
    BY <1>4, <2>1, <2>2 DEF DressedInv
  <2> QED
    BY <1>4, <2>3 DEF DressedInv
<1>5. ASSUME NEW i \in Iface, FindLocal(i) PROVE DressedInv'
  <2>1. result' = result /\ g.local # NoHost
    BY <1>5 DEF FindLocal, CallInv, merge
  <2>2. PICK info \in LocalInfos(i) : segs' = Append(segs, NewSegment(i, Reached(i) \cup {g.local}, info))
    BY <1>5 DEF FindLocal
  <2> DEFINE s == NewSegment(i, Reached(i) \cup {g.local}, info)
  <2>3. s \in Segment
    BY <2>1, LocalSegmentType
  <2>4. Reached(i) # {}
    <3>1. i \in SegmentIfaces
      BY <1>5 DEF CoverInv, FindLocal
    <3>2. Cardinality({}) = 0
      BY FS_EmptySet
    <3> QED
      BY <3>1, <3>2 DEF SegmentIfaces
  <2>5. Homed(DOMAIN g.edges, s)
    BY <2>1, <2>4, LocalSegmentOnLink
  <2>6. s.prefixes = AllPrefixes(s.nodes, s.info)
    BY DEF NewSegment
  <2> HIDE DEF s
  <2>7. Dressed(s)
    BY <2>3, <2>5, <2>6, NewDressed
  <2> QED
    BY <1>4, <2>1, <2>2, <2>3, <2>7 DEF s
<1>6. CASE StartRemote \/ (\E i \in Iface : NextGroup(i)) \/ GroupDone \/ StartMerge
  <2>1. segs' = segs /\ result' = result
    BY <1>6 DEF StartRemote, NextGroup, GroupDone, StartMerge, merge
  <2> QED
    BY <2>1 DEF DressedInv
<1>7. ASSUME NEW start \in Host, FindRemote(start) PROVE DressedInv'
  <2> DEFINE C == ReachableFrom(iface, start, visited)
             s == NewSegment(iface, C, Restrict(nodeEdges, C))
  <2>1. result' = result /\ iface \in Iface /\ IsGroupMap(nodeEdges, iface)
    BY <1>7 DEF FindRemote, CallInv, merge
  <2>2. segs' \in {segs, Append(segs, s)}
    BY <1>7 DEF FindRemote
  <2>3. start \in Group(iface)
    BY <1>7, <2>1 DEF FindRemote, IsGroupMap
  <2>4. Homed(DOMAIN g.edges, s)
    BY <2>1, <2>3, RemoteSegmentOnLink
  <2>5. s \in Segment
    BY <2>1, ReachedInGroup, RemoteSegmentType
  <2>6. s.prefixes = AllPrefixes(s.nodes, s.info)
    BY DEF NewSegment
  <2> HIDE DEF s
  <2>7. Dressed(s)
    BY <2>4, <2>5, <2>6, NewDressed
  <2> QED
    BY <1>4, <2>1, <2>2, <2>5, <2>7
<1>8. ASSUME NEW x \in DOMAIN segs, MergeFirst(x) \/ KeepUnmerged(x) PROVE DressedInv'
  <2>1. segs' = segs /\ result' = Append(result, segs[x])
    BY <1>8 DEF MergeFirst, KeepUnmerged
  <2>2. segs[x] \in Segment
    BY <1>1, Members
  <2>3. /\ \A j \in DOMAIN result' : j \in DOMAIN result \/ result'[j] = segs[x]
        /\ \A j \in DOMAIN result : result'[j] = result[j]
    BY <1>1, <2>1, <2>2, Appended
  <2> QED
    BY <2>1, <2>3 DEF DressedInv
<1>9. ASSUME NEW x \in DOMAIN segs, NEW j \in DOMAIN result, NEW s \in Segment, Dressed(s),
             segs' = segs, result' = [result EXCEPT ![j] = s]
      PROVE  DressedInv'
  <2>1. /\ DOMAIN result' = DOMAIN result /\ result'[j] = s
        /\ \A y \in DOMAIN result : y # j => result'[y] = result[y]
    BY <1>1, <1>9, Replaced
  <2> QED
    BY <1>9, <2>1 DEF DressedInv
<1>10. ASSUME NEW x \in DOMAIN segs, MergeByPrefix(x) PROVE DressedInv'
  <2>1. phase = "prefix" /\ segs' = segs /\ Grouped(x)
    BY <1>10 DEF MergeByPrefix
  <2>2. PICK j \in Begun(x) : result' = [result EXCEPT ![j] = MergedByPrefix(result[j], segs[x])]
    BY <1>10 DEF MergeByPrefix
  <2>3. j \in DOMAIN result /\ result[j].primary = segs[x].primary /\ segs[x].primary # NoPrefix
    BY <2>1 DEF Begun, Key, Grouped
  <2> DEFINE s == MergedByPrefix(result[j], segs[x])
  <2>4. s \in Segment
    BY <1>1, <2>3, Members, MergedByPrefixType
  <2>5. Dressed(s)
    BY <1>1, <2>3, Members, PrefixMergeDressed DEF DressedInv
  <2> HIDE DEF s
  <2> QED
    BY <1>9, <2>1, <2>2, <2>3, <2>4, <2>5 DEF s
<1>11. ASSUME NEW x \in DOMAIN segs, MergeByNodeSet(x) PROVE DressedInv'
  <2>1. phase = "nodes" /\ segs' = segs
    BY <1>11 DEF MergeByNodeSet
  <2>2. PICK j \in Begun(x) : result' = [result EXCEPT ![j] = MergedByNodes(result[j], segs[x])]
    BY <1>11 DEF MergeByNodeSet
  <2>3. j \in DOMAIN result /\ result[j].nodes = segs[x].nodes
    BY <2>1 DEF Begun, Key
  <2> DEFINE s == MergedByNodes(result[j], segs[x])
  <2>4. s \in Segment
    BY <1>1, <2>3, Members, MergedByNodesType
  <2>5. Dressed(s)
    BY <1>1, <2>3, Members, NodesMergeDressed DEF DressedInv
  <2> HIDE DEF s
  <2> QED
    BY <1>9, <2>1, <2>2, <2>3, <2>4, <2>5 DEF s
<1>12. CASE EndMerge
  <2>1. segs' = result /\ result' = <<>>
    BY <1>12 DEF EndMerge
  <2> QED
    BY <1>2, <2>1 DEF DressedInv
<1> QED
  BY <1>3, <1>5, <1>6, <1>7, <1>8, <1>10, <1>11, <1>12 DEF CallStep

(* Every step does.                                                        *)
LEMMA DressedNext ==
    ASSUME PortsOnOneLink, SamePrefixes, StoreInv, CallInv, CoverInv, DressedInv, [Next]_vars
    PROVE  DressedInv'
<1>1. CASE StoreStep
  <2>1. segs' = <<>> /\ result' = <<>>
    BY <1>1, StoreStepFrame DEF CallInv, merge
  <2>2. \A y \in DOMAIN <<>> : FALSE
    OBVIOUS
  <2> QED
    BY <2>1, <2>2 DEF DressedInv
<1>2. CASE CallStep
  BY <1>2, DressedStepKeeps
<1>3. CASE UNCHANGED vars
  BY <1>3 DEF vars, merge, DressedInv
<1> QED
  BY <1>1, <1>2, <1>3, NextCases

(* What is processed by a common prefix is hidden: its local interface has *)
(* that prefix.                                                            *)
LEMMA PrefixHidden ==
    ASSUME StoreInv, NEW s \in Result, NEW k \in DOMAIN g.edges, {k.src, k.dst} \subseteq s.nodes,
           DetailsAt[k.src, k.lif].pfx \cap s.prefixes # {}
    PROVE  Hidden(k)
<1>1. k.src \in GetNodes(g) /\ k.lif \in DOMAIN NodeIfaces(k.src)
  BY EndsKnown
<1>2. NodeIfaces(k.src)[k.lif] = DetailsAt[k.src, k.lif]
  BY <1>1, NodeIfacesTrue
<1>3. k.lif \in OwnIfaces(s, k.src)
  BY <1>1, <1>2 DEF OwnIfaces, PrefixIfaces
<1>4. k.lif \in MarkedIfaces(s, k.src)
  BY <1>3 DEF MarkedIfaces
<1> QED
  BY <1>4 DEF Hidden

(* What nwdiag derives from EdgeInfo is hidden in the DOT file, in either  *)
(* direction.                                                              *)
LEMMA InfoHidden ==
    ASSUME SamePrefixes, StoreInv, NEW s \in Result, s \in Segment, Dressed(s),
           NEW k \in DOMAIN g.edges, NEW q \in ProcessedByInfo(s), k = q \/ k = Flipped(q)
    PROVE  Hidden(k)
<1>1. PICK n \in DOMAIN s.info :
        /\ q.src = g.local /\ q.dst = n /\ q.lif = s.info[n].lif /\ q.rif = s.info[n].rif
        /\ g.local \in s.nodes /\ n \in s.nodes
  BY ByInfoEnds
<1>2. {k.src, k.dst} \subseteq s.nodes
  BY <1>1, FlippedEnds
<1> DEFINE i == s.info[n].rif
           ps == DetailsAt[n, i].pfx
<1>3. <<n, i>> \in Ends(k)
  <2>1. <<n, i>> \in Ends(q) /\ Ends(k) = Ends(q)
    BY <1>1, FlippedEnds DEF Ends
  <2> QED
    BY <2>1
<1>4. DetailsAt[k.src, k.lif].pfx = ps
  <2>1. <<n, i>> \in Ends(k) /\ ps = DetailsAt[n, i].pfx
    BY <1>3
  <2> HIDE DEF i, ps
  <2>2. EdgeHas(k, ps)
    BY <2>1, EdgePrefixes
  <2> QED
    BY <2>2 DEF EdgeHas
<1>5. ps \subseteq s.prefixes /\ (s.prefixes # {} => ps # {})
  BY DEF Dressed
<1>6. CASE s.prefixes # {}
  <2>1. DetailsAt[k.src, k.lif].pfx \cap s.prefixes # {}
    BY <1>4, <1>5, <1>6
  <2> QED
    BY <1>2, <2>1, PrefixHidden
<1>7. CASE s.prefixes = {}
  <2>1. k.lif # NoIface
    BY EndsKnown
  <2>2. \A m : PrefixIfaces(s, m) = {}
    BY <1>7 DEF PrefixIfaces
  <2>3. CASE k = q
    <3>1. k.src = g.local /\ k.lif = s.info[n].lif
      BY <1>1, <2>3
    <3>2. g.local \notin DOMAIN s.info
      BY SegmentFields
    <3>3. OwnIfaces(s, k.src) = {}
      BY <2>2, <3>1, <3>2 DEF OwnIfaces, InfoIfaces
    <3>4. k.lif \in ReferenceIfaces(s)
      BY <2>1, <3>1 DEF ReferenceIfaces
    <3>5. k.lif \in MarkedIfaces(s, k.src)
      BY <3>3, <3>4 DEF MarkedIfaces
    <3> QED
      BY <1>2, <3>5 DEF Hidden
  <2>4. CASE k = Flipped(q)
    <3>1. k.src = n /\ k.lif = s.info[n].rif
      BY <1>1, <2>4 DEF Flipped
    <3>2. k.lif \in OwnIfaces(s, k.src)
      BY <2>1, <3>1 DEF OwnIfaces, InfoIfaces
    <3>3. k.lif \in MarkedIfaces(s, k.src)
      BY <3>2 DEF MarkedIfaces
    <3> QED
      BY <1>2, <3>3 DEF Hidden
  <2> QED
    BY <2>3, <2>4
<1> QED
  BY <1>6, <1>7

(* DrawnLinksArePeerNetworks, if the interfaces on a link have the same    *)
(* prefixes.                                                               *)
LEMMA DrawnHolds ==
    ASSUME SamePrefixes, StoreInv, CallInv, DressedInv
    PROVE  DrawnLinksArePeerNetworks
<1>1. ASSUME NEW k \in DOMAIN g.edges, k \in Processed PROVE Hidden(k)
  <2>1. PICK s \in Result : \E q \in ProcessedByInfo(s) \cup ProcessedByPrefix(s) : k = q \/ k = Flipped(q)
    BY <1>1, ProcessedFor
  <2>2. PICK q \in ProcessedByInfo(s) \cup ProcessedByPrefix(s) : k = q \/ k = Flipped(q)
    BY <2>1
  <2>3. s \in Segment /\ Dressed(s)
    BY ResultMembers DEF DressedInv
  <2>4. CASE q \in ProcessedByInfo(s)
    BY <1>1, <2>2, <2>3, <2>4, InfoHidden
  <2>5. CASE q \in ProcessedByPrefix(s)
    <3>1. /\ q \in DOMAIN g.edges /\ {q.src, q.dst} \subseteq s.nodes
          /\ (g.edges[q].ldet.pfx \cup g.edges[q].rdet.pfx) \cap s.prefixes # {}
      BY <2>5 DEF ProcessedByPrefix
    <3>2. <<k.src, k.lif>> \in Ends(q) /\ {k.src, k.dst} \subseteq s.nodes
      BY <2>2, <3>1 DEF Ends, Flipped
    <3> DEFINE n == k.src
               i == k.lif
               ps == DetailsAt[n, i].pfx
    <3>4. <<n, i>> \in Ends(q) /\ ps = DetailsAt[n, i].pfx
      BY <3>2
    <3>5. EdgeHas(q, ps)
      <4> HIDE DEF n, i, ps
      <4>1. q \in DOMAIN g.edges
        BY <3>1
      <4> QED
        BY <3>4, <4>1, EdgePrefixes
    <3>6. ps \cap s.prefixes # {}
      <4> HIDE DEF n, i, ps
      <4> QED
        BY <3>1, <3>5 DEF EdgeHas
    <3> QED
      BY <1>1, <3>2, <3>6, PrefixHidden
  <2> QED
    BY <2>2, <2>4, <2>5
<1>2. ASSUME NEW k \in DOMAIN g.edges, ~Hidden(k)
      PROVE  {<<k.src, k.lif>>, <<k.dst, k.rif>>} \in PeerNetworks
  <2>1. k \in DOMAIN g.edges \ Processed /\ {k.src, k.dst} \subseteq GetNodes(g)
    BY <1>1, <1>2, EndsKnown
  <2> QED
    BY <2>1 DEF PeerNetworks
<1>3. Lines \subseteq PeerNetworks
  BY <1>2 DEF Lines
<1> QED
  BY <1>3 DEF DrawnLinksArePeerNetworks

-----------------------------------------------------------------------------
(* No interface with a prefix, or a local segment's name, is in two        *)
(* segments.                                                               *)

(* What two segments may share of an interface, where "names" are those of *)
(* the local segments.                                                     *)
PortsApart(names, q) ==
    \A x, y \in DOMAIN q : x # y =>
        \A p \in Ports(q[x]) \cap Ports(q[y]) : DetailsAt[p].pfx = {} /\ p[2] \notin names

(* The two parts of GetNetworkSegments: the edges of a segment leave the   *)
(* local host on its interface, or have the segment's name at both ends.   *)
LocalSegment(loc, names, s) ==
    s.iface \in names /\ \A n \in DOMAIN s.info : s.info[n].src = loc /\ s.info[n].lif = s.iface

RemoteSegment(names, s) ==
    s.iface \notin names /\ \A n \in DOMAIN s.info : s.info[n].lif = s.iface /\ s.info[n].rif = s.iface

(* What the two parts have found: one local segment for each name, and     *)
(* remote ones under other names.                                          *)
Found(loc, names, q) ==
    /\ \A x \in DOMAIN q : LocalSegment(loc, names, q[x]) \/ RemoteSegment(names, q[x])
    /\ \A x, y \in DOMAIN q :
           x # y /\ LocalSegment(loc, names, q[x]) /\ LocalSegment(loc, names, q[y]) => q[x].iface # q[y].iface

FoundInv ==
    /\ phase = "local" =>
           /\ \A i \in SegmentIfaces : i \in todo \/ \E x \in DOMAIN segs : segs[x].iface = i
           /\ \A x \in DOMAIN segs : LocalSegment(g.local, SegmentIfaces, segs[x]) /\ segs[x].iface \notin todo
    /\ phase \in {"remote", "search"} => todo \cap SegmentIfaces = {}
    /\ phase = "search" => iface \notin SegmentIfaces
    /\ phase \in {"local", "remote", "search", "prefix"} => Found(g.local, SegmentIfaces, segs)

(* A merge by prefix keeps the segments without prefixes as they are,      *)
KeptApart(q, q2, taken) ==
    /\ \A j \in DOMAIN q2 : q2[j].primary = NoPrefix => \E x \in taken : q2[j] = q[x]
    /\ \A j, k \in DOMAIN q2 : j # k /\ q2[j].primary = NoPrefix /\ q2[k].primary = NoPrefix =>
           \E x, y \in taken : x # y /\ q2[j] = q[x] /\ q2[k] = q[y]

(* and one by nodes has the interfaces of segments with the same nodes.    *)
PortsFrom(q, q2, taken) ==
    \A j \in DOMAIN q2 : \A p \in Ports(q2[j]) :
        \E x \in taken : q[x].nodes = q2[j].nodes /\ p \in Ports(q[x])

PortsInv ==
    /\ phase = "prefix" => KeptApart(segs, result, merged)
    /\ phase = "nodes" => PortsApart(SegmentIfaces, segs) /\ PortsFrom(segs, result, merged)
    /\ phase = "done" => PortsApart(SegmentIfaces, segs)

(* An interface has the prefixes of its link.                              *)
LEMMA PrefixesOfLink ==
    ASSUME SamePrefixes, NEW n, NEW i, NEW l, <<n, i, l>> \in Attached, NEW ps, ps = DetailsAt[n, i].pfx
    PROVE  /\ LinkPrefixes(l) = ps
           /\ \A m, j : <<m, j, l>> \in Attached => DetailsAt[m, j].pfx = ps
<1> DEFINE at == <<n, i, l>>
<1>1. at \in Attached /\ at[3] = l /\ ps = DetailsAt[at[1], at[2]].pfx
  OBVIOUS
<1> HIDE DEF at
<1>2. \A at2 \in Attached : at2[3] = l => DetailsAt[at2[1], at2[2]].pfx = ps
  BY <1>1 DEF SamePrefixes
<1>3. LinkPrefixes(l) = ps
  <2> DEFINE Of(x) == DetailsAt[x[1], x[2]].pfx
             S == {Of(x) : x \in {y \in Attached : y[3] = l}}
  <2>1. at \in {y \in Attached : y[3] = l} /\ \A x \in {y \in Attached : y[3] = l} : Of(x) = ps
    BY <1>1, <1>2
  <2>2. LinkPrefixes(l) = UNION S
    BY DEF LinkPrefixes
  <2> HIDE DEF Of
  <2>3. S = {ps}
    BY <2>1
  <2> QED
    BY <2>2, <2>3
<1>4. ASSUME NEW m, NEW j, <<m, j, l>> \in Attached PROVE DetailsAt[m, j].pfx = ps
  <2> DEFINE at2 == <<m, j, l>>
  <2>1. at2 \in Attached /\ at2[3] = l /\ DetailsAt[at2[1], at2[2]].pfx = DetailsAt[m, j].pfx
    BY <1>4
  <2> HIDE DEF at2
  <2> QED
    BY <1>2, <2>1
<1> QED
  BY <1>3, <1>4

(* An interface of a segment is an end of one of its edges.                *)
LEMMA PortOfEdge ==
    ASSUME NEW s \in Segment, NEW p \in Ports(s)
    PROVE  \E n \in DOMAIN s.info :
               /\ s.info[n] \in DOMAIN g.edges
               /\ p \in Ends(s.info[n]) /\ <<n, s.info[n].rif>> \in Ends(s.info[n])
<1>1. PICK n \in DOMAIN s.info : p \in {<<s.info[n].src, s.info[n].lif>>, <<s.info[n].dst, s.info[n].rif>>}
  BY DEF Ports
<1> QED
  BY <1>1, SegmentFields DEF Ends

(* Before segments are merged by their nodes, one has the prefixes of each *)
(* of its interfaces.                                                      *)
LEMMA PortPrefixes ==
    ASSUME SamePrefixes, NEW s \in Segment, NEW es, Homed(es, s), Dressed(s), NEW p \in Ports(s)
    PROVE  s.prefixes = DetailsAt[p].pfx
<1>1. PICK l \in Links : s.prefixes \subseteq LinkPrefixes(l) /\ \A n \in DOMAIN s.info : EdgeOn(s.info[n], l)
  BY DEF Homed
<1>2. PICK n \in DOMAIN s.info : p \in Ends(s.info[n]) /\ <<n, s.info[n].rif>> \in Ends(s.info[n])
  BY PortOfEdge
<1> DEFINE k == s.info[n]
           i == k.rif
<1>3. <<k.src, k.lif, l>> \in Attached /\ <<k.dst, k.rif, l>> \in Attached
  BY <1>1 DEF EdgeOn
<1>4. p \in {<<k.src, k.lif>>, <<k.dst, k.rif>>} /\ <<n, i>> \in {<<k.src, k.lif>>, <<k.dst, k.rif>>}
  BY <1>2 DEF Ends
<1>5. DetailsAt[n, i].pfx \subseteq s.prefixes
  BY DEF Dressed
<1> HIDE DEF k, i
<1>6. PICK m, j : p = <<m, j>> /\ <<m, j, l>> \in Attached
  BY <1>3, <1>4
<1>7. <<n, i, l>> \in Attached
  <2>1. CASE <<n, i>> = <<k.src, k.lif>>
    BY <2>1, <1>3
  <2>2. CASE <<n, i>> = <<k.dst, k.rif>>
    BY <2>2, <1>3
  <2> QED
    BY <1>4, <2>1, <2>2
<1> DEFINE ps == DetailsAt[m, j].pfx
<1>8. ps = DetailsAt[m, j].pfx /\ DetailsAt[p].pfx = ps
  BY <1>6
<1> HIDE DEF ps
<1>9. LinkPrefixes(l) = ps /\ \A m2, j2 : <<m2, j2, l>> \in Attached => DetailsAt[m2, j2].pfx = ps
  BY <1>6, <1>8, PrefixesOfLink
<1> QED
  BY <1>1, <1>5, <1>7, <1>8, <1>9

(* Nothing is found, and nothing shared, at first.                         *)
LEMMA FoundInit == Init => FoundInv /\ PortsInv
BY DEF Init, FoundInv, PortsInv

(* The segment of a local interface.                                       *)
LEMMA NewLocal ==
    ASSUME NEW i \in SegmentIfaces, NEW info \in LocalInfos(i), NEW nodes
    PROVE  /\ LocalSegment(g.local, SegmentIfaces, NewSegment(i, nodes, info))
           /\ NewSegment(i, nodes, info).iface = i
<1>1. info \in [Reached(i) -> LocalEdges(i)]
  BY DEF LocalInfos
<1>2. NewSegment(i, nodes, info).iface = i /\ NewSegment(i, nodes, info).info = info
  BY DEF NewSegment
<1>3. \A n \in DOMAIN info : info[n] \in LocalEdges(i)
  BY <1>1
<1>4. \A n \in DOMAIN info : info[n].src = g.local /\ info[n].lif = i
  BY <1>3 DEF LocalEdges
<1> QED
  BY <1>2, <1>4 DEF LocalSegment

(* The segment of a component.                                             *)
LEMMA NewRemote ==
    ASSUME NEW i, i \notin SegmentIfaces, NEW f, IsGroupMap(f, i), NEW C, C \subseteq Group(i)
    PROVE  RemoteSegment(SegmentIfaces, NewSegment(i, C, Restrict(f, C)))
<1> DEFINE info == Restrict(f, C)
<1>1. info = [n \in C |-> f[n]]
  BY DEF Restrict
<1>2. DOMAIN info = C /\ \A n \in C : info[n] = f[n]
  BY <1>1
<1>3. \A n \in C : f[n].lif = i /\ f[n].rif = i
  BY DEF IsGroupMap, RemoteEdges
<1> HIDE DEF info
<1>4. NewSegment(i, C, info).iface = i /\ NewSegment(i, C, info).info = info
  BY DEF NewSegment
<1>5. RemoteSegment(SegmentIfaces, NewSegment(i, C, info))
  BY <1>2, <1>3, <1>4 DEF RemoteSegment
<1> QED
  BY <1>5 DEF info

(* A remote segment, or one of another interface, is added.                *)
LEMMA AppendFound ==
    ASSUME NEW loc, NEW names, NEW T, NEW q \in Seq(T), NEW s \in T, Found(loc, names, q),
           RemoteSegment(names, s) \/ (LocalSegment(loc, names, s) /\ \A x \in DOMAIN q : q[x].iface # s.iface)
    PROVE  Found(loc, names, Append(q, s))
<1> DEFINE q2 == Append(q, s)
           new == Len(q) + 1
<1>1. /\ DOMAIN q2 = DOMAIN q \cup {new} /\ new \notin DOMAIN q /\ q2[new] = s
      /\ \A y \in DOMAIN q : q2[y] = q[y]
  BY Appended
<1> HIDE DEF q2, new
<1>2. \A x \in DOMAIN q2 : LocalSegment(loc, names, q2[x]) \/ RemoteSegment(names, q2[x])
  BY <1>1 DEF Found
<1>3. ASSUME NEW x \in DOMAIN q2, NEW y \in DOMAIN q2, x # y,
             LocalSegment(loc, names, q2[x]), LocalSegment(loc, names, q2[y])
      PROVE  q2[x].iface # q2[y].iface
  <2>1. RemoteSegment(names, s) => ~LocalSegment(loc, names, s)
    BY DEF RemoteSegment, LocalSegment
  <2>2. CASE x = new
    BY <1>1, <1>3, <2>1, <2>2
  <2>3. CASE y = new
    BY <1>1, <1>3, <2>1, <2>3
  <2>4. CASE x \in DOMAIN q /\ y \in DOMAIN q
    BY <1>1, <1>3, <2>4 DEF Found
  <2> QED
    BY <1>1, <2>2, <2>3, <2>4
<1>4. Found(loc, names, q2)
  BY <1>2, <1>3 DEF Found
<1> QED
  BY <1>4 DEF q2

(* Every step keeps what the two parts have found.                         *)
LEMMA FoundStepKeeps ==
    ASSUME StoreInv, CallInv, CoverInv, FoundInv, CallStep
    PROVE  FoundInv'
<1>1. g' = g /\ SegmentIfaces' = SegmentIfaces
  BY CallStepFrame, SameStore
<1>2. segs \in Seq(Segment)
  BY DEF CallInv
<1>3. CASE Call
  <2>1. segs' = <<>> /\ DOMAIN <<>> = {}
    BY <1>3 DEF Call, CallInv
  <2>2. phase' = "done" \/ (phase' = "local" /\ todo' = SegmentIfaces)
    BY <1>3 DEF Call
  <2>3. Found(g.local, SegmentIfaces, <<>>)
    BY <2>1 DEF Found
  <2> QED
    BY <1>1, <2>1, <2>2, <2>3 DEF FoundInv
<1>4. ASSUME NEW i \in Iface, FindLocal(i) PROVE FoundInv'
  <2>1. /\ phase = "local" /\ phase' = "local" /\ i \in todo /\ todo' = todo \ {i}
        /\ i \in SegmentIfaces /\ g.local # NoHost
    BY <1>4 DEF FindLocal, CoverInv, CallInv
  <2>2. PICK info \in LocalInfos(i) : segs' = Append(segs, NewSegment(i, Reached(i) \cup {g.local}, info))
    BY <1>4 DEF FindLocal
  <2> DEFINE s == NewSegment(i, Reached(i) \cup {g.local}, info)
  <2>3. s \in Segment
    BY <2>1, LocalSegmentType
  <2>4. LocalSegment(g.local, SegmentIfaces, s) /\ s.iface = i
    BY <2>1, NewLocal
  <2> HIDE DEF s
  <2>5. segs' = Append(segs, s)
    BY <2>2 DEF s
  <2>6. /\ DOMAIN segs \subseteq DOMAIN segs'
        /\ \A x \in DOMAIN segs : segs'[x] = segs[x]
        /\ \A x \in DOMAIN segs' : x \in DOMAIN segs \/ segs'[x] = s
        /\ \E x \in DOMAIN segs' : segs'[x] = s
    BY <2>3, <2>5, AppendedSegment
  <2>7. /\ \A i2 \in SegmentIfaces : i2 \in todo \/ \E x \in DOMAIN segs : segs[x].iface = i2
        /\ \A x \in DOMAIN segs : LocalSegment(g.local, SegmentIfaces, segs[x]) /\ segs[x].iface \notin todo
        /\ Found(g.local, SegmentIfaces, segs)
    BY <2>1 DEF FoundInv
  <2>8. Found(g.local, SegmentIfaces, segs')
    BY <1>2, <2>1, <2>3, <2>4, <2>5, <2>7, AppendFound
  <2>9. \A i2 \in SegmentIfaces : i2 \in todo' \/ \E x \in DOMAIN segs' : segs'[x].iface = i2
    BY <2>1, <2>4, <2>6, <2>7
  <2>10. \A x \in DOMAIN segs' : LocalSegment(g.local, SegmentIfaces, segs'[x]) /\ segs'[x].iface \notin todo'
    BY <2>1, <2>4, <2>6, <2>7
  <2> QED
    BY <1>1, <2>1, <2>8, <2>9, <2>10 DEF FoundInv
<1>5. CASE StartRemote
  <2>1. phase = "local" /\ todo = {} /\ phase' = "remote" /\ todo' = RemoteIfaces /\ segs' = segs
    BY <1>5 DEF StartRemote
  <2>2. \A i \in SegmentIfaces : \E x \in DOMAIN segs : segs[x].iface = i
    BY <2>1 DEF FoundInv
  <2>3. todo' \cap SegmentIfaces = {}
    BY <2>1, <2>2 DEF RemoteIfaces
  <2>4. Found(g.local, SegmentIfaces, segs)
    BY <2>1 DEF FoundInv
  <2> QED
    BY <1>1, <2>1, <2>3, <2>4 DEF FoundInv
<1>6. ASSUME NEW i \in Iface, NextGroup(i) PROVE FoundInv'
  <2>1. phase = "remote" /\ phase' = "search" /\ iface' = i /\ i \in todo /\ todo' = todo \ {i} /\ segs' = segs
    BY <1>6 DEF NextGroup
  <2>2. Found(g.local, SegmentIfaces, segs) /\ todo \cap SegmentIfaces = {}
    BY <2>1 DEF FoundInv
  <2> QED
    BY <1>1, <2>1, <2>2 DEF FoundInv
<1>7. ASSUME NEW start \in Host, FindRemote(start) PROVE FoundInv'
  <2> DEFINE C == ReachableFrom(iface, start, visited)
             s == NewSegment(iface, C, Restrict(nodeEdges, C))
  <2>1. /\ phase = "search" /\ phase' = "search" /\ todo' = todo /\ iface' = iface
        /\ iface \in Iface /\ IsGroupMap(nodeEdges, iface)
    BY <1>7 DEF FindRemote, CallInv
  <2>2. segs' \in {segs, Append(segs, s)}
    BY <1>7 DEF FindRemote
  <2>3. Found(g.local, SegmentIfaces, segs) /\ todo \cap SegmentIfaces = {} /\ iface \notin SegmentIfaces
    BY <2>1 DEF FoundInv
  <2>4. C \subseteq Group(iface)
    BY ReachedInGroup
  <2> HIDE DEF C
  <2>5. s \in Segment
    BY <2>1, <2>4, RemoteSegmentType
  <2>6. RemoteSegment(SegmentIfaces, s)
    BY <2>1, <2>3, <2>4, NewRemote
  <2> HIDE DEF s
  <2>7. Found(g.local, SegmentIfaces, Append(segs, s))
    BY <1>2, <2>3, <2>5, <2>6, AppendFound
  <2>8. Found(g.local, SegmentIfaces, segs')
    BY <2>2, <2>3, <2>7
  <2> QED
    BY <1>1, <2>1, <2>3, <2>8 DEF FoundInv
<1>8. CASE GroupDone
  <2>1. phase = "search" /\ phase' = "remote" /\ todo' = todo /\ segs' = segs
    BY <1>8 DEF GroupDone
  <2>2. Found(g.local, SegmentIfaces, segs) /\ todo \cap SegmentIfaces = {}
    BY <2>1 DEF FoundInv
  <2> QED
    BY <1>1, <2>1, <2>2 DEF FoundInv
<1>9. CASE StartMerge
  <2>1. phase = "remote" /\ phase' = "prefix" /\ segs' = segs
    BY <1>9 DEF StartMerge
  <2>2. Found(g.local, SegmentIfaces, segs)
    BY <2>1 DEF FoundInv
  <2> QED
    BY <1>1, <2>1, <2>2 DEF FoundInv
<1>10. CASE \E x \in DOMAIN segs : MergeFirst(x) \/ MergeByPrefix(x) \/ MergeByNodeSet(x) \/ KeepUnmerged(x)
  <2>1. phase \in {"prefix", "nodes"} /\ phase' = phase /\ segs' = segs
    BY <1>10 DEF MergeFirst, MergeByPrefix, MergeByNodeSet, KeepUnmerged
  <2>2. phase = "prefix" => Found(g.local, SegmentIfaces, segs)
    BY DEF FoundInv
  <2> QED
    BY <1>1, <2>1, <2>2 DEF FoundInv
<1>11. CASE EndMerge
  <2>1. phase' \in {"nodes", "done"}
    BY <1>11 DEF EndMerge
  <2> QED
    BY <2>1 DEF FoundInv
<1>12. CASE Return
  BY <1>12 DEF Return, FoundInv
<1> QED
  BY <1>3, <1>4, <1>5, <1>6, <1>7, <1>8, <1>9, <1>10, <1>11, <1>12 DEF CallStep

(* Every step does.                                                        *)
LEMMA FoundNext ==
    ASSUME StoreInv, CallInv, CoverInv, FoundInv, [Next]_vars
    PROVE  FoundInv'
<1>1. CASE StoreStep
  <2>1. phase' = "idle"
    BY <1>1, StoreStepFrame
  <2> QED
    BY <2>1 DEF FoundInv
<1>2. CASE CallStep
  BY <1>2, FoundStepKeeps
<1>3. CASE UNCHANGED vars
  <2>1. UNCHANGED <<g, phase, todo, segs, iface>>
    BY <1>3 DEF vars, search
  <2>2. SegmentIfaces' = SegmentIfaces
    BY <2>1, SameStore
  <2> QED
    BY <2>1, <2>2 DEF FoundInv
<1> QED
  BY <1>1, <1>2, <1>3, NextCases

(* A segment with an interface named as a local one is a local segment.    *)
LEMMA LocalPort ==
    ASSUME NEW loc, NEW names, NEW s \in Segment, LocalSegment(loc, names, s) \/ RemoteSegment(names, s),
           NEW p \in Ports(s), p[2] \in names
    PROVE  /\ LocalSegment(loc, names, s)
           /\ \E k \in DOMAIN g.edges : k.src = loc /\ k.lif = s.iface /\ p \in Ends(k)
<1>1. PICK n \in DOMAIN s.info : s.info[n] \in DOMAIN g.edges /\ p \in Ends(s.info[n])
  BY PortOfEdge
<1> DEFINE k == s.info[n]
<1>2. p[2] \in {k.lif, k.rif}
  BY <1>1 DEF Ends
<1>3. LocalSegment(loc, names, s)
  BY <1>2 DEF RemoteSegment
<1> QED
  BY <1>1, <1>3 DEF LocalSegment

(* A host has one interface on a link.                                     *)
LEMMA OnePort ==
    ASSUME OnePortPerLink, NEW n, NEW i, NEW j, NEW l, <<n, i, l>> \in Attached, <<n, j, l>> \in Attached
    PROVE  i = j
<1> DEFINE at1 == <<n, i, l>>
           at2 == <<n, j, l>>
<1>1. /\ at1 \in Attached /\ at2 \in Attached
      /\ at1[1] = at2[1] /\ at1[3] = at2[3] /\ at1[2] = i /\ at2[2] = j
  OBVIOUS
<1> HIDE DEF at1, at2
<1> QED
  BY <1>1 DEF OnePortPerLink

(* The daemon would have two interfaces on the link of an interface that   *)
(* two of its segments share.                                              *)
LEMMA LocalsApart ==
    ASSUME PortsOnOneLink, OnePortPerLink, StoreInv, NEW names, NEW q \in Seq(Segment), Found(g.local, names, q),
           NEW x \in DOMAIN q, NEW y \in DOMAIN q, x # y, NEW p \in Ports(q[x]) \cap Ports(q[y])
    PROVE  p[2] \notin names
<1> SUFFICES ASSUME p[2] \in names PROVE FALSE
  OBVIOUS
<1> DEFINE s1 == q[x]
           s2 == q[y]
           i1 == s1.iface
           i2 == s2.iface
           loc == g.local
<1>1. s1 \in Segment /\ s2 \in Segment
  BY Members
<1>2. /\ LocalSegment(loc, names, s1) \/ RemoteSegment(names, s1)
      /\ LocalSegment(loc, names, s2) \/ RemoteSegment(names, s2)
  BY DEF Found
<1>3. /\ LocalSegment(loc, names, s1)
      /\ \E k \in DOMAIN g.edges : k.src = loc /\ k.lif = i1 /\ p \in Ends(k)
  <2> HIDE DEF s1, loc
  <2> QED
    BY <1>1, <1>2, LocalPort DEF s1
<1>4. /\ LocalSegment(loc, names, s2)
      /\ \E k \in DOMAIN g.edges : k.src = loc /\ k.lif = i2 /\ p \in Ends(k)
  <2> HIDE DEF s2, loc
  <2> QED
    BY <1>1, <1>2, LocalPort DEF s2
<1>5. i1 # i2
  BY <1>3, <1>4 DEF Found
<1> HIDE DEF s1, s2, i1, i2
<1>6. PICK k1 \in DOMAIN g.edges : k1.src = loc /\ k1.lif = i1 /\ p \in Ends(k1)
  BY <1>3
<1>7. PICK k2 \in DOMAIN g.edges : k2.src = loc /\ k2.lif = i2 /\ p \in Ends(k2)
  BY <1>4
<1>8. k1.dst # loc /\ k2.dst # loc
  BY EdgeFields
<1>9. PICK l1 \in Links : EdgeOn(k1, l1)
  BY EndsKnown
<1>10. PICK l2 \in Links : EdgeOn(k2, l2)
  BY EndsKnown
<1> HIDE DEF loc
<1>11. p = <<k1.dst, k1.rif>> /\ p = <<k2.dst, k2.rif>>
  BY <1>5, <1>6, <1>7, <1>8 DEF Ends
<1>12. <<loc, i1, l1>> \in Attached /\ <<k1.dst, k1.rif, l1>> \in Attached
  BY <1>6, <1>9 DEF EdgeOn
<1>13. <<loc, i2, l2>> \in Attached /\ <<k1.dst, k1.rif, l2>> \in Attached
  BY <1>7, <1>10, <1>11 DEF EdgeOn
<1>14. l1 = l2
  BY <1>12, <1>13, OneLink
<1> QED
  BY <1>5, <1>12, <1>13, <1>14, OnePort

(* A segment is kept as it is.                                             *)
LEMMA AppendKept ==
    ASSUME NEW T, NEW q, NEW q2 \in Seq(T), NEW taken, NEW x, x \notin taken, q[x] \in T
    PROVE  /\ KeptApart(q, q2, taken) => KeptApart(q, Append(q2, q[x]), taken \cup {x})
           /\ PortsFrom(q, q2, taken) => PortsFrom(q, Append(q2, q[x]), taken \cup {x})
<1> DEFINE s == q[x]
           q3 == Append(q2, s)
           new == Len(q2) + 1
<1>1. /\ DOMAIN q3 = DOMAIN q2 \cup {new} /\ new \notin DOMAIN q2 /\ q3[new] = s
      /\ \A y \in DOMAIN q2 : q3[y] = q2[y]
  BY Appended
<1> HIDE DEF q3, new
<1>2. ASSUME KeptApart(q, q2, taken) PROVE KeptApart(q, q3, taken \cup {x})
  <2>1. \A j \in DOMAIN q3 : q3[j].primary = NoPrefix => \E y \in taken \cup {x} : q3[j] = q[y]
    BY <1>1, <1>2 DEF KeptApart
  <2>2. ASSUME NEW j \in DOMAIN q3, NEW k \in DOMAIN q3, j # k,
               q3[j].primary = NoPrefix, q3[k].primary = NoPrefix
        PROVE  \E y, z \in taken \cup {x} : y # z /\ q3[j] = q[y] /\ q3[k] = q[z]
    <3>1. CASE j = new
      <4>1. PICK z \in taken : q2[k] = q[z]
        BY <1>1, <1>2, <2>2, <3>1 DEF KeptApart
      <4> QED
        BY <1>1, <2>2, <3>1, <4>1
    <3>2. CASE k = new
      <4>1. PICK z \in taken : q2[j] = q[z]
        BY <1>1, <1>2, <2>2, <3>2 DEF KeptApart
      <4> QED
        BY <1>1, <2>2, <3>2, <4>1
    <3>3. CASE j \in DOMAIN q2 /\ k \in DOMAIN q2
      BY <1>1, <1>2, <2>2, <3>3 DEF KeptApart
    <3> QED
      BY <1>1, <2>2, <3>1, <3>2, <3>3
  <2> QED
    BY <2>1, <2>2 DEF KeptApart
<1>3. ASSUME PortsFrom(q, q2, taken) PROVE PortsFrom(q, q3, taken \cup {x})
  BY <1>1, <1>3 DEF PortsFrom
<1> QED
  BY <1>2, <1>3 DEF q3

(* A merged segment has a primary prefix,                                  *)
LEMMA ReplaceKept ==
    ASSUME NEW T, NEW q, NEW q2 \in Seq(T), NEW taken, NEW x, NEW j \in DOMAIN q2, NEW s \in T,
           s.primary # NoPrefix, KeptApart(q, q2, taken)
    PROVE  KeptApart(q, [q2 EXCEPT ![j] = s], taken \cup {x})
<1> DEFINE q3 == [q2 EXCEPT ![j] = s]
<1>1. /\ DOMAIN q3 = DOMAIN q2 /\ q3[j] = s
      /\ \A y \in DOMAIN q2 : y # j => q3[y] = q2[y]
  BY Replaced
<1> HIDE DEF q3
<1>2. \A y \in DOMAIN q3 : q3[y].primary = NoPrefix => y \in DOMAIN q2 /\ q3[y] = q2[y]
  BY <1>1
<1>3. KeptApart(q, q3, taken \cup {x})
  BY <1>2 DEF KeptApart
<1> QED
  BY <1>3 DEF q3

(* and its interfaces are those of the two.                                *)
LEMMA ReplaceFrom ==
    ASSUME NEW T, NEW q, NEW q2 \in Seq(T), NEW taken, NEW x, NEW j \in DOMAIN q2, NEW s \in T,
           s.nodes = q[x].nodes, q2[j].nodes = q[x].nodes, Ports(s) \subseteq Ports(q2[j]) \cup Ports(q[x]),
           PortsFrom(q, q2, taken)
    PROVE  PortsFrom(q, [q2 EXCEPT ![j] = s], taken \cup {x})
<1> DEFINE q3 == [q2 EXCEPT ![j] = s]
<1>1. /\ DOMAIN q3 = DOMAIN q2 /\ q3[j] = s
      /\ \A y \in DOMAIN q2 : y # j => q3[y] = q2[y]
  BY Replaced
<1> HIDE DEF q3
<1>2. ASSUME NEW k \in DOMAIN q3, NEW p \in Ports(q3[k])
      PROVE  \E y \in taken \cup {x} : q[y].nodes = q3[k].nodes /\ p \in Ports(q[y])
  <2>1. CASE k = j
    BY <1>1, <1>2, <2>1 DEF PortsFrom
  <2>2. CASE k # j
    BY <1>1, <1>2, <2>2 DEF PortsFrom
  <2> QED
    BY <2>1, <2>2
<1>3. PortsFrom(q, q3, taken \cup {x})
  BY <1>2 DEF PortsFrom
<1> QED
  BY <1>3 DEF q3

(* Two segments with the same nodes are merged.                            *)
LEMMA MergedPorts ==
    ASSUME NEW s1, NEW s2
    PROVE  Ports(MergedByNodes(s1, s2)) \subseteq Ports(s1) \cup Ports(s2)
<1> DEFINE s == MergedByNodes(s1, s2)
<1>1. Mixes(s.info, s1.info, s2.info)
  BY MergedInfoEdges DEF MergedByNodes
<1> HIDE DEF s
<1>2. ASSUME NEW p \in Ports(s) PROVE p \in Ports(s1) \cup Ports(s2)
  <2>1. PICK n \in DOMAIN s.info : p \in {<<s.info[n].src, s.info[n].lif>>, <<s.info[n].dst, s.info[n].rif>>}
    BY DEF Ports
  <2>2. CASE n \in DOMAIN s1.info /\ s.info[n] = s1.info[n]
    BY <2>1, <2>2 DEF Ports
  <2>3. CASE n \in DOMAIN s2.info /\ s.info[n] = s2.info[n]
    BY <2>1, <2>3 DEF Ports
  <2> QED
    BY <1>1, <2>2, <2>3 DEF Mixes
<1> QED
  BY <1>2 DEF s

(* The merge by prefix leaves interfaces in two segments only where no     *)
(* prefix tells, and no local segment is, on the link.                     *)
LEMMA PrefixMergeApart ==
    ASSUME PortsOnOneLink, OnePortPerLink, SamePrefixes, StoreInv, CallInv, ApartInv, LinkInv, DressedInv,
           FoundInv, PortsInv, phase = "prefix"
    PROVE  PortsApart(SegmentIfaces, result)
<1> DEFINE names == SegmentIfaces
<1>1. /\ segs \in Seq(Segment) /\ result \in Seq(Segment) /\ merged \subseteq DOMAIN segs
      /\ Found(g.local, names, segs) /\ KeptApart(segs, result, merged) /\ PrimariesApart(result)
  BY DEF CallInv, FoundInv, PortsInv, ApartInv
<1> HIDE DEF names
<1> SUFFICES ASSUME NEW j \in DOMAIN result, NEW k \in DOMAIN result, j # k,
                    NEW p \in Ports(result[j]) \cap Ports(result[k])
             PROVE  DetailsAt[p].pfx = {} /\ p[2] \notin names
  BY DEF PortsApart, names
<1> DEFINE s1 == result[j]
           s2 == result[k]
           ps == DetailsAt[p].pfx
<1>2. s1 \in Segment /\ s2 \in Segment /\ Dressed(s1) /\ Dressed(s2)
  BY <1>1, Members DEF DressedInv
<1>3. Homed(DOMAIN g.edges, s1) /\ Homed(DOMAIN g.edges, s2)
  BY DEF LinkInv, LinksOn, SegmentsOn
<1>4. p \in Ports(s1) /\ p \in Ports(s2)
  OBVIOUS
<1> HIDE DEF s1, s2
<1>5. s1.prefixes = ps
  BY <1>2, <1>3, <1>4, PortPrefixes
<1>6. s2.prefixes = ps
  BY <1>2, <1>3, <1>4, PortPrefixes
<1> HIDE DEF ps
<1>7. s1.primary = FirstPrefix(ps) /\ s2.primary = FirstPrefix(ps) /\ ps \subseteq UNION Pfx
  BY <1>2, <1>5, <1>6, SegmentFields
<1>8. s1.primary = NoPrefix
  BY <1>1, <1>7 DEF PrimariesApart, s1, s2
<1>9. ps = {}
  BY <1>7, <1>8, FirstPrefixIsLeast
<1>10. PICK x \in merged, y \in merged : x # y /\ s1 = segs[x] /\ s2 = segs[y]
  BY <1>1, <1>7, <1>8 DEF KeptApart, s1, s2
<1>11. p[2] \notin names
  BY <1>1, <1>4, <1>10, LocalsApart
<1> QED
  BY <1>9, <1>11 DEF ps

(* No step of a call puts an interface into two of the segments.           *)
LEMMA PortsStepKeeps ==
    ASSUME PortsOnOneLink, OnePortPerLink, SamePrefixes, StoreInv, CallInv, ApartInv, LinkInv, DressedInv,
           FoundInv, PortsInv, CallStep
    PROVE  PortsInv'
<1>1. /\ segs \in Seq(Segment) /\ result \in Seq(Segment) /\ merged \subseteq DOMAIN segs
      /\ SegmentIfaces' = SegmentIfaces
  BY CallStepFrame, SameStore DEF CallInv
<1>2. \A y \in DOMAIN <<>> : FALSE
  OBVIOUS
<1>3. CASE Call
  <2>1. segs' = <<>> /\ phase' \in {"local", "done"}
    BY <1>3 DEF Call, CallInv
  <2> QED
    BY <1>2, <2>1 DEF PortsInv, PortsApart
<1>4. CASE (\E i \in Iface : FindLocal(i)) \/ StartRemote \/ (\E i \in Iface : NextGroup(i)) \/ GroupDone \/ Return
  <2>1. phase' \in {"local", "remote", "search", "idle"}
    BY <1>4 DEF FindLocal, StartRemote, NextGroup, GroupDone, Return
  <2> QED
    BY <2>1 DEF PortsInv
<1>5. CASE \E start \in Host : FindRemote(start)
  <2>1. phase' = "search"
    BY <1>5 DEF FindRemote
  <2> QED
    BY <2>1 DEF PortsInv
<1>6. CASE StartMerge
  <2>1. phase' = "prefix" /\ result' = <<>>
    BY <1>6 DEF StartMerge, CallInv, merge
  <2>2. KeptApart(segs', result', merged')
    BY <1>2, <2>1 DEF KeptApart
  <2> QED
    BY <2>1, <2>2 DEF PortsInv
<1>7. ASSUME NEW x \in DOMAIN segs, MergeFirst(x) \/ KeepUnmerged(x) PROVE PortsInv'
  <2>1. /\ phase \in {"prefix", "nodes"} /\ phase' = phase /\ segs' = segs
        /\ merged' = merged \cup {x} /\ result' = Append(result, segs[x])
        /\ x \notin merged
    BY <1>7 DEF MergeFirst, KeepUnmerged, Left
  <2>2. segs[x] \in Segment
    BY <1>1, Members
  <2>3. /\ KeptApart(segs, result, merged) => KeptApart(segs', result', merged')
        /\ PortsFrom(segs, result, merged) => PortsFrom(segs', result', merged')
    BY <1>1, <2>1, <2>2, AppendKept
  <2> QED
    BY <1>1, <2>1, <2>3 DEF PortsInv
<1>8. ASSUME NEW x \in DOMAIN segs, MergeByPrefix(x) PROVE PortsInv'
  <2>1. /\ phase = "prefix" /\ phase' = phase /\ segs' = segs /\ merged' = merged \cup {x}
        /\ segs[x].primary # NoPrefix
    BY <1>8 DEF MergeByPrefix, Grouped
  <2>2. PICK j \in Begun(x) : result' = [result EXCEPT ![j] = MergedByPrefix(result[j], segs[x])]
    BY <1>8 DEF MergeByPrefix
  <2>3. j \in DOMAIN result /\ result[j].primary = segs[x].primary
    BY <2>1 DEF Begun, Key
  <2> DEFINE s == MergedByPrefix(result[j], segs[x])
  <2>4. s \in Segment /\ s.primary = result[j].primary
    BY <1>1, <2>3, Members, MergedByPrefixType
  <2> HIDE DEF s
  <2>5. result' = [result EXCEPT ![j] = s]
    BY <2>2 DEF s
  <2>6. KeptApart(segs, result, merged)
    BY <2>1 DEF PortsInv
  <2>7. KeptApart(segs', result', merged')
    BY <1>1, <2>1, <2>3, <2>4, <2>5, <2>6, ReplaceKept
  <2> QED
    BY <2>1, <2>7 DEF PortsInv
<1>9. ASSUME NEW x \in DOMAIN segs, MergeByNodeSet(x) PROVE PortsInv'
  <2>1. /\ phase = "nodes" /\ phase' = phase /\ segs' = segs /\ merged' = merged \cup {x}
    BY <1>9 DEF MergeByNodeSet
  <2>2. PICK j \in Begun(x) : result' = [result EXCEPT ![j] = MergedByNodes(result[j], segs[x])]
    BY <1>9 DEF MergeByNodeSet
  <2>3. j \in DOMAIN result /\ result[j].nodes = segs[x].nodes
    BY <2>1 DEF Begun, Key
  <2> DEFINE s == MergedByNodes(result[j], segs[x])
  <2>4. s \in Segment /\ s.nodes = segs[x].nodes
    BY <1>1, <2>3, Members, MergedByNodesType
  <2>5. Ports(s) \subseteq Ports(result[j]) \cup Ports(segs[x])
    BY MergedPorts
  <2> HIDE DEF s
  <2>6. result' = [result EXCEPT ![j] = s]
    BY <2>2 DEF s
  <2>7. PortsApart(SegmentIfaces, segs) /\ PortsFrom(segs, result, merged)
    BY <2>1 DEF PortsInv
  <2>8. PortsFrom(segs', result', merged')
    BY <1>1, <2>1, <2>3, <2>4, <2>5, <2>6, <2>7, ReplaceFrom
  <2> QED
    BY <1>1, <2>1, <2>7, <2>8 DEF PortsInv
<1>10. CASE EndMerge
  <2>1. /\ phase \in {"prefix", "nodes"} /\ segs' = result /\ result' = <<>>
        /\ phase' = IF phase = "prefix" THEN "nodes" ELSE "done"
    BY <1>10 DEF EndMerge
  <2>2. CASE phase = "prefix"
    <3>1. PortsApart(SegmentIfaces, result)
      BY <2>2, PrefixMergeApart
    <3>2. PortsFrom(segs', result', merged')
      BY <1>2, <2>1 DEF PortsFrom
    <3> QED
      BY <1>1, <2>1, <2>2, <3>1, <3>2 DEF PortsInv
  <2>3. CASE phase = "nodes"
    <3>1. PortsApart(SegmentIfaces, segs) /\ PortsFrom(segs, result, merged) /\ NodesApart(result)
      BY <2>3 DEF PortsInv, ApartInv
    <3>2. ASSUME NEW j \in DOMAIN result, NEW k \in DOMAIN result, j # k,
                 NEW p \in Ports(result[j]) \cap Ports(result[k])
          PROVE  DetailsAt[p].pfx = {} /\ p[2] \notin SegmentIfaces
      <4>1. PICK x \in merged : segs[x].nodes = result[j].nodes /\ p \in Ports(segs[x])
        BY <3>1 DEF PortsFrom
      <4>2. PICK y \in merged : segs[y].nodes = result[k].nodes /\ p \in Ports(segs[y])
        BY <3>1 DEF PortsFrom
      <4>3. x # y
        BY <3>1, <3>2, <4>1, <4>2 DEF NodesApart
      <4> QED
        BY <1>1, <3>1, <4>1, <4>2, <4>3 DEF PortsApart
    <3>3. PortsApart(SegmentIfaces, result)
      BY <3>2 DEF PortsApart
    <3> QED
      BY <1>1, <2>1, <2>3, <3>3 DEF PortsInv
  <2> QED
    BY <2>1, <2>2, <2>3
<1> QED
  BY <1>3, <1>4, <1>5, <1>6, <1>7, <1>8, <1>9, <1>10 DEF CallStep

(* No step does.                                                           *)
LEMMA PortsNext ==
    ASSUME PortsOnOneLink, OnePortPerLink, SamePrefixes, StoreInv, CallInv, ApartInv, LinkInv, DressedInv,
           FoundInv, PortsInv, [Next]_vars
    PROVE  PortsInv'
<1>1. CASE StoreStep
  <2>1. phase' = "idle"
    BY <1>1, StoreStepFrame
  <2> QED
    BY <2>1 DEF PortsInv
<1>2. CASE CallStep
  BY <1>2, PortsStepKeeps
<1>3. CASE UNCHANGED vars
  <2>1. UNCHANGED <<g, phase, segs, result, merged>>
    BY <1>3 DEF vars, merge
  <2>2. SegmentIfaces' = SegmentIfaces
    BY <2>1, SameStore
  <2> QED
    BY <2>1, <2>2 DEF PortsInv
<1> QED
  BY <1>1, <1>2, <1>3, NextCases

-----------------------------------------------------------------------------
(* The theorems.                                                           *)

IInv == StoreInv /\ CallInv /\ CoverInv /\ ApartInv

(* The invariant GetNetworkSegments keeps: the store is true to the links, *)
(* the parts of the call are typed, no hosts that must be in one segment   *)
(* are lost between them, and what a merge has made is apart.              *)
THEOREM SegmentsInvariance == Spec => []IInv
<1>1. Init => IInv
  BY StoreInit, CallInit, CoverInit, ApartInit DEF IInv
<1>2. IInv /\ [Next]_vars => IInv'
  BY StoreNext, CallNext, CoverNext, ApartNext DEF IInv
<1> QED
  BY <1>1, <1>2, PTL DEF Spec

(* A call keeps its types: EdgeInfo maps members of a segment to edges of  *)
(* the store in every step of GetNetworkSegments and of both merges.       *)
THEOREM SegmentsAlwaysTyped == Spec => []SegmentsTypeOK
<1>1. IInv => SegmentsTypeOK
  BY TypesHold DEF IInv
<1> QED
  BY <1>1, SegmentsInvariance, PTL

(* Every member the exporters draw, but the local host, has an edge of the *)
(* store it is an end of, however the merges have mixed EdgeInfo.          *)
THEOREM MembersAlwaysHaveEdges == Spec => []MembersHaveEdges
<1>1. IInv => MembersHaveEdges
  BY EdgesHold DEF IInv
<1> QED
  BY <1>1, SegmentsInvariance, PTL

(* What is reached over one local interface is returned in one segment:    *)
(* neither merge drops a member.                                           *)
THEOREM LocalLinksAlwaysShown == Spec => []LocalLinksShown
<1>1. IInv => LocalLinksShown
  BY CoverHolds DEF IInv
<1> QED
  BY <1>1, SegmentsInvariance, PTL

(* Hosts that lead to each other are returned in one segment, whatever     *)
(* host the breadth-first search starts from.                              *)
THEOREM AnsweredLinksAlwaysShown == Spec => []AnsweredLinksShown
<1>1. IInv => AnsweredLinksShown
  BY CoverHolds DEF IInv
<1> QED
  BY <1>1, SegmentsInvariance, PTL

(* No two returned segments have the same hosts or the same primary        *)
(* prefix, also where the second merge has chosen a new one.               *)
THEOREM SegmentsAlwaysApart == Spec => []SegmentsApart
<1>1. IInv => SegmentsApart
  BY DEF IInv, ApartInv, PrimariesApart, NodesApart, SegmentsApart
<1> QED
  BY <1>1, SegmentsInvariance, PTL

(* If an interface of a host is on one link and a prefix is used on one    *)
(* link, every segment stays one of links that all its members are on.     *)
THEOREM LinkInvariance ==
    ASSUME PortsOnOneLink, PrefixesOnOneLink
    PROVE  Spec => [](IInv /\ LinkInv)
<1>1. Init => IInv /\ LinkInv
  BY StoreInit, CallInit, CoverInit, ApartInit, LinkInit DEF IInv
<1>2. IInv /\ LinkInv /\ [Next]_vars => (IInv /\ LinkInv)'
  BY StoreNext, CallNext, CoverNext, ApartNext, LinkNext DEF IInv
<1> QED
  BY <1>1, <1>2, PTL DEF Spec

(* The members of a returned segment share a link, if an interface of a    *)
(* host is on one link and a prefix is used on one link.                   *)
THEOREM MembersAlwaysShareLink ==
    ASSUME PortsOnOneLink, PrefixesOnOneLink
    PROVE  Spec => []MembersShareLink
<1>1. IInv /\ LinkInv => MembersShareLink
  <2> SUFFICES ASSUME IInv, LinkInv, NEW s \in Result
               PROVE  \E l \in Links : \A n \in s.nodes : OnLink(n, l)
    BY DEF MembersShareLink, Links, OnLink
  <2>1. Spread(DOMAIN g.edges, s)
    BY ResultSpread DEF IInv
  <2> QED
    BY <2>1, WiredOnLink DEF Spread, AllWired
<1>2. Spec => [](IInv /\ LinkInv)
  BY LinkInvariance
<1> QED
  BY <1>1, <1>2, PTL

(* The interfaces the DOT file may connect to a segment are on a link that *)
(* all its members are on, those of EdgeInfo, of a common prefix and the   *)
(* fallback alike; but the fallback, which only the local host can need,   *)
(* picks any of the host's connected interfaces, and one of these is.      *)
THEOREM SegmentPortsAlwaysOnLink ==
    ASSUME PortsOnOneLink, PrefixesOnOneLink
    PROVE  Spec => []SegmentPortsOnLink
<1>1. IInv /\ LinkInv => SegmentPortsOnLink
  BY PortsHold DEF IInv
<1>2. Spec => [](IInv /\ LinkInv)
  BY LinkInvariance
<1> QED
  BY <1>1, <1>2, PTL

(* The links that nwdiag leaves to the segments are links of segments, in  *)
(* the code's two ways of telling them: by EdgeInfo and by a prefix.       *)
THEOREM ProcessedLinksAlwaysOfSegments ==
    ASSUME PortsOnOneLink, PrefixesOnOneLink
    PROVE  Spec => []ProcessedLinksAreOfSegments
<1>1. IInv /\ LinkInv => ProcessedLinksAreOfSegments
  BY ProcessedHolds DEF IInv
<1>2. Spec => [](IInv /\ LinkInv)
  BY LinkInvariance
<1> QED
  BY <1>1, <1>2, PTL

(* The links that the DOT file leaves to the segments are links of         *)
(* segments, although it tells links by the names of interfaces, provided  *)
(* that no host on a link has one of its names on another link.            *)
THEOREM HiddenLinksAlwaysOfSegments ==
    ASSUME NamesOnOneLink, PrefixesOnOneLink
    PROVE  Spec => []HiddenLinksAreOfSegments
<1>1. PortsOnOneLink
  BY DEF NamesOnOneLink, PortsOnOneLink
<1>2. IInv /\ LinkInv => HiddenLinksAreOfSegments
  BY HiddenHolds DEF IInv
<1>3. Spec => [](IInv /\ LinkInv)
  BY <1>1, LinkInvariance
<1> QED
  BY <1>2, <1>3, PTL

(* The lines of the DOT file, those of the segments' members among them,   *)
(* end at interfaces drawn in the clusters, and every member of a segment  *)
(* has such a line, if a host has one interface on a link.                 *)
THEOREM LinesAlwaysEndAtInterfaces ==
    ASSUME PortsOnOneLink, PrefixesOnOneLink, OnePortPerLink
    PROVE  Spec => []LinesEndAtInterfaces
<1>1. IInv /\ LinkInv => LinesEndAtInterfaces
  BY LinesHold DEF IInv
<1>2. Spec => [](IInv /\ LinkInv)
  BY LinkInvariance
<1> QED
  BY <1>1, <1>2, PTL

(* A link the DOT file draws by itself has a network of its own in nwdiag, *)
(* if the interfaces on a link have the same prefixes.                     *)
THEOREM DrawnLinksAlwaysPeerNetworks ==
    ASSUME PortsOnOneLink, SamePrefixes
    PROVE  Spec => []DrawnLinksArePeerNetworks
<1>1. Init => IInv /\ DressedInv
  BY StoreInit, CallInit, CoverInit, ApartInit, DressedInit DEF IInv
<1>2. IInv /\ DressedInv /\ [Next]_vars => (IInv /\ DressedInv)'
  BY StoreNext, CallNext, CoverNext, ApartNext, DressedNext DEF IInv
<1>3. IInv /\ DressedInv => DrawnLinksArePeerNetworks
  BY DrawnHolds DEF IInv
<1> QED
  BY <1>1, <1>2, <1>3, PTL DEF Spec

(* No interface with a prefix, or with the name of one that the daemon has *)
(* a segment on, is in two segments, if the interfaces on a link have the  *)
(* same prefixes and a host has one interface on a link.                   *)
THEOREM OneSegmentAlwaysPerInterface ==
    ASSUME PortsOnOneLink, PrefixesOnOneLink, OnePortPerLink, SamePrefixes
    PROVE  Spec => []OneSegmentPerInterface
<1> DEFINE JInv == IInv /\ LinkInv /\ DressedInv /\ FoundInv /\ PortsInv
<1>1. Init => JInv
  BY StoreInit, CallInit, CoverInit, ApartInit, LinkInit, DressedInit, FoundInit DEF IInv
<1>2. JInv /\ [Next]_vars => JInv'
  BY StoreNext, CallNext, CoverNext, ApartNext, LinkNext, DressedNext, FoundNext, PortsNext DEF IInv
<1>3. JInv => OneSegmentPerInterface
  BY DEF PortsInv, PortsApart, OneSegmentPerInterface
<1> QED
  BY <1>1, <1>2, <1>3, PTL DEF Spec
=============================================================================
