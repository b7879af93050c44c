--------------------------- MODULE NetworkProofs ----------------------------
(***************************************************************************)
(* The stores of daemons that send each other packets, for every network   *)
(* of links, every set of hosts and interfaces and any number of datagrams *)
(* that are lost, delayed, duplicated and reordered, while daemons crash   *)
(* and start again.                                                        *)
(***************************************************************************)
EXTENDS Network, GraphOpsProofs

(* No host reports itself, whatever its store held when the packet was     *)
(* made,                                                                   *)
PacketSound(p) == \A nb \in p.nbrs : nb.id # p.id

(* and the receive handler is at work on a packet of another host.         *)
HandlingSound(h) ==
    /\ handling[h].from \in Host \cup {NoHost}
    /\ handling[h].from # h
    /\ handling[h].rest # {} => handling[h].from \in Host
    /\ \A nb \in handling[h].rest : nb \in NeighborInfo /\ nb.id # handling[h].from

StoreSound(h) ==
    /\ IsGraph(graph[h])
    /\ WellFormed(graph[h])
    /\ up[h] => graph[h].local = h

DatagramSound(m) ==
    /\ m \in [link : Links, pkt : {m.pkt}, old : BOOLEAN]
    /\ IsPacket(m.pkt)
    /\ PacketSound(m.pkt)

StoresSound == DOMAIN graph = Host /\ \A h \in Host : StoreSound(h)

HandlersSound == DOMAIN handling = Host /\ \A h \in Host : HandlingSound(h)

NInv ==
    /\ up \in [Host -> BOOLEAN]
    /\ StoresSound
    /\ HandlersSound
    /\ \A m \in net : DatagramSound(m)

-----------------------------------------------------------------------------
(* The store a daemon starts with.                                         *)
LEMMA NewGraphStep ==
    /\ IsGraph(NewGraph) /\ WellFormed(NewGraph)
    /\ NewGraph.local = NoHost
    /\ DOMAIN NewGraph.nodes = {} /\ DOMAIN NewGraph.edges = {}
<1>1. EmptyMap \in Ifaces
  BY EmptyMapType, PartialMapEquiv DEF Ifaces
<1>2. IsPartialMap(EmptyMap, Host, Node) /\ IsPartialMap(EmptyMap, EdgeKey, Edge) /\ DOMAIN EmptyMap = {}
  BY EmptyMapType
<1>3. NewGraph = [nodes |-> EmptyMap, local |-> NoHost, localIfaces |-> EmptyMap,
                  edges |-> EmptyMap, changed |-> FALSE]
  BY DEF NewGraph
<1>4. IsGraph(NewGraph) /\ NewGraph.local = NoHost
      /\ DOMAIN NewGraph.nodes = {} /\ DOMAIN NewGraph.edges = {}
  BY <1>1, <1>2, <1>3 DEF IsGraph
<1> QED
  BY <1>4 DEF WellFormed, EndpointsKnown, ProvenanceKnown, IfacesKnown, SelfNotDiscovered

(* The store of a daemon that has just started.                            *)
LEMMA StartGraphStep ==
    ASSUME NEW h \in Host
    PROVE  /\ IsGraph(StartGraph(h)) /\ WellFormed(StartGraph(h))
           /\ StartGraph(h).local = h
           /\ StartGraph(h).localIfaces = [i \in IfacesOf(h) |-> DetailsAt[h, i]]
           /\ DOMAIN StartGraph(h).nodes = {} /\ DOMAIN StartGraph(h).edges = {}
<1> DEFINE flag == TRUE
           ifaces == [i \in IfacesOf(h) |-> DetailsAt[h, i]]
           started == SetLocalNode(NewGraph, h, ifaces)
<1>1. IfacesOf(h) \subseteq Iface
  BY AttachedAssumption DEF IfacesOf
<1>2. \A i \in IfacesOf(h) : DetailsAt[h, i] \in Details
  BY AttachedAssumption DEF IfacesOf
<1>3. ifaces \in Ifaces
  BY <1>1, <1>2, PartialMapEquiv DEF IsPartialMap, Ifaces
<1>4. flag \in BOOLEAN
  OBVIOUS
<1>5. StartGraph(h) = started
  BY DEF StartGraph
<1>6. started = [NewGraph EXCEPT !.local = h, !.localIfaces = ifaces, !.changed = flag]
  BY Zenon DEF SetLocalNode
<1> HIDE DEF flag, ifaces, started
<1>7. /\ started.nodes = NewGraph.nodes
      /\ started.local = h
      /\ started.localIfaces = ifaces
      /\ started.edges = NewGraph.edges
      /\ started.changed = flag
      /\ started = [nodes |-> started.nodes, local |-> started.local, localIfaces |-> started.localIfaces,
                    edges |-> started.edges, changed |-> started.changed]
  BY <1>6, NewGraphStep DEF IsGraph
<1>8. IsGraph(started) /\ DOMAIN started.nodes = {} /\ DOMAIN started.edges = {}
  BY <1>3, <1>4, <1>7, NewGraphStep DEF IsGraph
<1>9. WellFormed(started)
  BY <1>8 DEF WellFormed, EndpointsKnown, ProvenanceKnown, IfacesKnown, SelfNotDiscovered
<1> QED
  BY <1>5, <1>7, <1>8, <1>9 DEF ifaces

(* What a well-formed store reports: its hosts are others.                 *)
LEMMA ReportStep ==
    ASSUME NEW gr, IsGraph(gr), WellFormed(gr), NEW nb \in GetDirectNeighbors(gr)
    PROVE  nb \in NeighborInfo /\ nb.id # gr.local
<1>1. PICK k \in DirectEdges(gr) : nb = ReportEdge(gr, k)
  BY DEF GetDirectNeighbors
<1>2. k \in DOMAIN gr.edges /\ k.dst \in DOMAIN gr.nodes
  BY DEF DirectEdges
<1>3. k \in EdgeKey /\ gr.edges[k] \in Edge
  BY <1>2 DEF IsGraph, IsPartialMap
<1>4. gr.nodes[k.dst] \in Node /\ IsPartialMap(gr.nodes[k.dst].ifaces, Iface, Details)
  BY <1>2, NodeFields
<1>5. IsPartialMap(gr.localIfaces, Iface, Details)
  BY PartialMapEquiv DEF IsGraph, Ifaces
<1>6. ASSUME NEW f, IsPartialMap(f, Iface, Details), NEW i PROVE PrefixOf(f, i) \in Pfx
  BY <1>6, ZeroValuesAssumption DEF PrefixOf, IsPartialMap, Details
<1>7. PrefixOf(gr.localIfaces, k.lif) \in Pfx /\ PrefixOf(gr.nodes[k.dst].ifaces, k.rif) \in Pfx
  BY <1>4, <1>5, <1>6
<1>8. nb \in NeighborInfo
  <2>1. [ident |-> gr.edges[k].ldet.ident, pfx |-> PrefixOf(gr.localIfaces, k.lif)] \in Details
    BY <1>3, <1>7 DEF Edge, Details
  <2>2. [ident |-> gr.edges[k].rdet.ident, pfx |-> PrefixOf(gr.nodes[k.dst].ifaces, k.rif)] \in Details
    BY <1>3, <1>7 DEF Edge, Details
  <2> QED
    BY <1>1, <1>3, <1>4, <2>1, <2>2 DEF ReportEdge, NeighborInfo, EdgeKey, Node
<1>9. nb.id = k.dst
  BY <1>1 DEF ReportEdge
<1> QED
  BY <1>2, <1>8, <1>9 DEF WellFormed, SelfNotDiscovered

(* So the packets a daemon makes are packets, and sound.                   *)
LEMMA PacketStep ==
    ASSUME NEW h \in Host, IsGraph(graph[h]), WellFormed(graph[h]), graph[h].local = h,
           NEW i, NEW link, <<h, i, link>> \in Attached
    PROVE  IsPacket(MakePacket(h, i)) /\ PacketSound(MakePacket(h, i))
<1> DEFINE p == MakePacket(h, i)
<1>1. i \in Iface /\ DetailsAt[h, i] \in Details
  BY AttachedAssumption
<1>2. Hostname[h] \in Name
  BY HostnameAssumption
<1>3. \A nb \in p.nbrs : nb \in NeighborInfo /\ nb.id # h
  BY ReportStep DEF MakePacket
<1>4. p.id = h /\ p \in [id : Host, name : Name, iface : Iface, det : Details, nbrs : {p.nbrs}]
  BY <1>1, <1>2 DEF MakePacket
<1> QED
  BY <1>3, <1>4 DEF IsPacket, PacketSound

(* One store changes.                                                      *)
LEMMA StoreChange ==
    ASSUME StoresSound, NEW h \in Host, NEW gr,
           IsGraph(gr), WellFormed(gr), up'[h] => gr.local = h,
           graph' = [graph EXCEPT ![h] = gr],
           \A x \in Host \ {h} : up'[x] = up[x]
    PROVE  StoresSound'
BY DEF StoresSound, StoreSound

(* One handler goes on with what is left of a sound packet, or stops.      *)
LEMMA HandlerChange ==
    ASSUME HandlersSound, NEW h \in Host, NEW from \in Host \ {h}, NEW rest,
           \A nb \in rest : nb \in NeighborInfo /\ nb.id # from,
           handling' = [handling EXCEPT ![h] = Continue(from, rest)]
    PROVE  HandlersSound'
<1>1. handling'[h] = Continue(from, rest) /\ \A x \in Host \ {h} : handling'[x] = handling[x]
  BY DEF HandlersSound
<1>2. DOMAIN handling' = Host
  BY DEF HandlersSound
<1>3. HandlingSound(h)'
  <2>1. CASE rest = {}
    <3>1. handling'[h] = NoPacket
      BY <1>1, <2>1 DEF Continue
    <3> QED
      BY <3>1, NoHostAssumption DEF NoPacket, HandlingSound
  <2>2. CASE rest # {}
    <3>1. handling'[h] = [from |-> from, rest |-> rest]
      BY <1>1, <2>2 DEF Continue
    <3> QED
      BY <3>1 DEF HandlingSound
  <2> QED
    BY <2>1, <2>2
<1>4. \A x \in Host \ {h} : HandlingSound(x)'
  BY <1>1 DEF HandlersSound, HandlingSound
<1> QED
  BY <1>2, <1>3, <1>4 DEF HandlersSound

(* The empty handler is sound.                                             *)
LEMMA HandlerStop ==
    ASSUME HandlersSound, NEW h \in Host, handling' = [handling EXCEPT ![h] = NoPacket]
    PROVE  HandlersSound'
<1>1. handling'[h] = NoPacket /\ \A x \in Host \ {h} : handling'[x] = handling[x]
  BY DEF HandlersSound
<1>2. HandlingSound(h)'
  BY <1>1, NoHostAssumption DEF NoPacket, HandlingSound
<1> QED
  BY <1>1, <1>2 DEF HandlersSound, HandlingSound

-----------------------------------------------------------------------------
(* The invariant holds initially.                                          *)
LEMMA NetworkInit == Init => NInv
<1> SUFFICES ASSUME Init PROVE NInv
  OBVIOUS
<1>1. up \in [Host -> BOOLEAN]
  BY DEF Init
<1>2. StoresSound
  BY StartGraphStep DEF Init, StoresSound, StoreSound
<1>3. HandlersSound
  BY NoHostAssumption DEF Init, HandlersSound, HandlingSound, NoPacket
<1>4. net = {}
  BY DEF Init
<1> QED
  BY <1>1, <1>2, <1>3, <1>4 DEF NInv

(* Every step keeps the invariant.                                         *)
LEMMA NetworkNext == NInv /\ [Next]_vars => NInv'
<1> SUFFICES ASSUME NInv, [Next]_vars PROVE NInv'
  OBVIOUS
<1> USE DEF NInv
<1>1. ASSUME NEW h, NEW i, NEW link, Send(h, i, link)
      PROVE  NInv'
  <2> DEFINE m == [link |-> link, pkt |-> MakePacket(h, i), old |-> FALSE]
  <2>1. h \in Host /\ link \in Links /\ up[h] /\ <<h, i, link>> \in Attached
    BY <1>1, AttachedAssumption DEF Send, Links
  <2>2. StoreSound(h) /\ graph[h].local = h
    BY <2>1 DEF StoresSound, StoreSound
  <2>3. IsPacket(MakePacket(h, i)) /\ PacketSound(MakePacket(h, i))
    BY <2>1, <2>2, PacketStep DEF StoreSound
  <2>4. DatagramSound(m)
    BY <2>1, <2>3 DEF DatagramSound
  <2>5. net' = net \cup {m} /\ up' = up /\ graph' = graph /\ handling' = handling
    BY <1>1 DEF Send
  <2> HIDE DEF m
  <2>6. \A x \in net' : DatagramSound(x)
    BY <2>4, <2>5
  <2> QED
    BY <2>5, <2>6 DEF StoresSound, StoreSound, HandlersSound, HandlingSound
<1>2. ASSUME NEW h, NEW i, NEW m \in net, Receive(h, i, m)
      PROVE  NInv'
  <2> DEFINE p == m.pkt
             gr == AddOrUpdate(graph[h], p.id, p.name, p.iface, p.det, i, TRUE, NoHost)
             rest == IF h \in Gossips THEN p.nbrs ELSE {}
  <2>1. h \in Host /\ i \in Iface /\ up[h] /\ p.id # h
    BY <1>2, AttachedAssumption DEF Receive, Accepts
  <2>2. StoreSound(h) /\ graph[h].local = h
    BY <2>1 DEF StoresSound, StoreSound
  <2>3. IsPacket(p) /\ PacketSound(p)
    BY DEF DatagramSound
  <2>4. p.id \in Host /\ p.name \in Name /\ p.iface \in Iface /\ p.det \in Details
    BY <2>3 DEF IsPacket
  <2>5. IsGraph(gr) /\ gr.local = h /\ WellFormed(gr)
    BY <2>1, <2>2, <2>4, AddOrUpdateStep DEF StoreSound
  <2>6. /\ graph' = [graph EXCEPT ![h] = gr]
        /\ handling' = [handling EXCEPT ![h] = Continue(p.id, rest)]
        /\ up' = up /\ net' = net
    BY <1>2 DEF Receive
  <2>7. \A nb \in rest : nb \in NeighborInfo /\ nb.id # p.id
    BY <2>3 DEF IsPacket, PacketSound
  <2> HIDE DEF p, gr, rest
  <2>8. StoresSound'
    BY <2>1, <2>5, <2>6, StoreChange
  <2>9. HandlersSound'
    BY <2>1, <2>4, <2>6, <2>7, HandlerChange
  <2> QED
    BY <2>6, <2>8, <2>9
<1>3. ASSUME NEW h \in Host, ReceiveNeighbor(h)
      PROVE  NInv'
  <2> DEFINE from == handling[h].from
  <2>1. PICK nb \in handling[h].rest :
           /\ graph' = [graph EXCEPT ![h] = HandleNeighbor(graph[h], nb, from)]
           /\ handling' = [handling EXCEPT ![h] = Continue(from, handling[h].rest \ {nb})]
    BY <1>3 DEF ReceiveNeighbor
  <2> DEFINE gr == HandleNeighbor(graph[h], nb, from)
             rest == handling[h].rest \ {nb}
  <2>2. up[h] /\ up' = up /\ net' = net
    BY <1>3 DEF ReceiveNeighbor
  <2>3. StoreSound(h) /\ graph[h].local = h
    BY <2>2 DEF StoresSound, StoreSound
  <2>4. HandlingSound(h)
    BY DEF HandlersSound
  <2>5. from \in Host \ {h} /\ nb \in NeighborInfo /\ nb.id # from
    BY <2>1, <2>4 DEF HandlingSound
  <2>6. IsGraph(gr) /\ gr.local = h /\ WellFormed(gr)
    <3>1. CASE nb.id = h
      BY <2>3, <3>1 DEF HandleNeighbor, StoreSound
    <3>2. CASE nb.id # h
      <4>1. gr = AddOrUpdateIndirectEdge(graph[h], nb, from)
        BY <2>3, <3>2 DEF HandleNeighbor
      <4> QED
        BY <2>3, <2>5, <3>2, <4>1, AddOrUpdateIndirectEdgeStep DEF StoreSound
    <3> QED
      BY <3>1, <3>2
  <2>7. \A x \in rest : x \in NeighborInfo /\ x.id # from
    BY <2>4 DEF HandlingSound
  <2>8. /\ graph' = [graph EXCEPT ![h] = gr]
        /\ handling' = [handling EXCEPT ![h] = Continue(from, rest)]
    BY <2>1
  <2> HIDE DEF from, gr, rest
  <2>9. StoresSound'
    BY <2>2, <2>6, <2>8, StoreChange
  <2>10. HandlersSound'
    BY <2>5, <2>7, <2>8, HandlerChange
  <2> QED
    BY <2>2, <2>9, <2>10
<1>4. ASSUME NEW h \in Host, ExpireTick(h)
      PROVE  NInv'
  <2>1. /\ graph' = [graph EXCEPT ![h] = RemoveExpired(graph[h])]
        /\ up[h] /\ up' = up /\ handling' = handling /\ net' = net
    BY <1>4 DEF ExpireTick
  <2>2. StoreSound(h)
    BY DEF StoresSound
  <2>3. /\ IsGraph(RemoveExpired(graph[h])) /\ WellFormed(RemoveExpired(graph[h]))
        /\ RemoveExpired(graph[h]).local = h
    BY <2>1, <2>2, RemoveExpiredStep DEF StoreSound
  <2>4. StoresSound'
    BY <2>1, <2>3, StoreChange
  <2> QED
    BY <2>1, <2>4 DEF HandlersSound, HandlingSound
<1>5. ASSUME NEW h \in Host, Crash(h)
      PROVE  NInv'
  <2>1. /\ up' = [up EXCEPT ![h] = FALSE]
        /\ graph' = [graph EXCEPT ![h] = NewGraph]
        /\ handling' = [handling EXCEPT ![h] = NoPacket]
        /\ net' = net
    BY <1>5 DEF Crash
  <2>2. ~up'[h] /\ \A x \in Host \ {h} : up'[x] = up[x]
    BY <2>1
  <2>3. StoresSound'
    BY <2>1, <2>2, NewGraphStep, StoreChange
  <2>4. HandlersSound'
    BY <2>1, HandlerStop
  <2>5. up' \in [Host -> BOOLEAN]
    BY <2>1
  <2> QED
    BY <2>1, <2>3, <2>4, <2>5
<1>6. ASSUME NEW h \in Host, Start(h)
      PROVE  NInv'
  <2>1. /\ up' = [up EXCEPT ![h] = TRUE]
        /\ graph' = [graph EXCEPT ![h] = StartGraph(h)]
        /\ handling' = handling /\ net' = net
    BY <1>6 DEF Start
  <2>2. \A x \in Host \ {h} : up'[x] = up[x]
    BY <2>1
  <2>3. StoresSound'
    BY <2>1, <2>2, StartGraphStep, StoreChange
  <2>4. up' \in [Host -> BOOLEAN]
    BY <2>1
  <2> QED
    BY <2>1, <2>3, <2>4 DEF HandlersSound, HandlingSound
<1>7. CASE Tick
  <2>1. /\ graph' = [h \in Host |-> AgeNodes(graph[h])]
        /\ net' = {[m EXCEPT !.old = TRUE] : m \in {x \in net : ~x.old}}
        /\ up' = up /\ handling' = handling
    BY <1>7 DEF Tick
  <2>2. ASSUME NEW h \in Host PROVE StoreSound(h)'
    <3>1. StoreSound(h) /\ graph'[h] = AgeNodes(graph[h])
      BY <2>1 DEF StoresSound
    <3> QED
      BY <2>1, <3>1, AgeNodesStep DEF StoreSound
  <2>3. StoresSound'
    BY <2>1, <2>2 DEF StoresSound
  <2>4. ASSUME NEW x \in net' PROVE DatagramSound(x)
    <3>1. PICK m \in net : x = [m EXCEPT !.old = TRUE]
      BY <2>1
    <3>2. DatagramSound(m)
      OBVIOUS
    <3>3. x.pkt = m.pkt /\ x \in [link : Links, pkt : {x.pkt}, old : BOOLEAN]
      BY <3>1, <3>2 DEF DatagramSound
    <3> QED
      BY <3>2, <3>3 DEF DatagramSound
  <2> QED
    BY <2>1, <2>3, <2>4 DEF HandlersSound, HandlingSound
<1>8. ASSUME NEW m \in net, Drop(m)
      PROVE  NInv'
  <2>1. net' = net \ {m} /\ up' = up /\ graph' = graph /\ handling' = handling
    BY <1>8 DEF Drop
  <2> QED
    BY <2>1 DEF StoresSound, StoreSound, HandlersSound, HandlingSound
<1>9. CASE UNCHANGED vars
  BY <1>9 DEF vars, StoresSound, StoreSound, HandlersSound, HandlingSound
<1> QED
  BY <1>1, <1>2, <1>3, <1>4, <1>5, <1>6, <1>7, <1>8, <1>9 DEF Next

-----------------------------------------------------------------------------
(* In every run of every network the stores hold what their type says, the *)
(* handlers work on packets of other hosts and no packet reports the host  *)
(* that sent it.                                                           *)
THEOREM NetworkInvariance == Spec => []NInv
<1> QED
  BY NetworkInit, NetworkNext, PTL DEF Spec

(* The variables of the network keep their types, and a daemon that runs   *)
(* has its local node, so that it stores what it hears.                    *)
THEOREM NetworkTypeCorrect == Spec => []TypeOK
<1>1. NInv => TypeOK
  BY DEF NInv, TypeOK, StoresSound, StoreSound, HandlersSound, HandlingSound, DatagramSound
<1> QED
  BY <1>1, NetworkInvariance, PTL

(* No interleaving of the packets that daemons send each other, lost,      *)
(* repeated and late ones included, and no crash makes a store with a      *)
(* dangling edge, an edge of unknown origin or the local host among its    *)
(* neighbours.                                                             *)
THEOREM StoresAlwaysWellFormed == Spec => []StoresWellFormed
<1>1. NInv => StoresWellFormed
  BY DEF NInv, StoresWellFormed, StoresSound, StoreSound
<1> QED
  BY <1>1, NetworkInvariance, PTL

-----------------------------------------------------------------------------
(* What the stores, the packets and the handlers of a network say is true: *)
(* every edge, its own or a reported one, joins two interfaces of one link *)
(* and carries their details. The argument follows an interface's details  *)
(* from the sender's packet into a store, from there into the neighbours a *)
(* daemon reports, and from the report into the store of a third host.     *)

Real(x, i) == DetailsAt[x, i]

Joined(x, i, y, j) ==
    \E link \in Links : {<<x, i, link>>, <<y, j, link>>} \subseteq Attached

(* The edges there may be.                                                 *)
LinkKeys == {k \in EdgeKey : Joined(k.src, k.lif, k.dst, k.rif)}

TrueGraph(gr) == TrueStore(gr, DetailsAt, LinkKeys)

(* The interfaces a daemon started with.                                   *)
TrueLocal(h, gr) ==
    /\ DOMAIN gr.localIfaces = IfacesOf(h)
    /\ \A i \in IfacesOf(h) : gr.localIfaces[i] = Real(h, i)

TrueReport(from, nb) == TrueNeighbor(from, nb, DetailsAt, LinkKeys)

TrueDatagram(m) ==
    /\ <<m.pkt.id, m.pkt.iface, m.link>> \in Attached
    /\ m.pkt.det = Real(m.pkt.id, m.pkt.iface)
    /\ \A nb \in m.pkt.nbrs : TrueReport(m.pkt.id, nb)

LInv ==
    /\ \A h \in Host : TrueGraph(graph[h])
    /\ \A h \in Host : up[h] => TrueLocal(h, graph[h])
    /\ \A h \in Host : \A nb \in handling[h].rest : TrueReport(handling[h].from, nb)
    /\ \A m \in net : TrueDatagram(m)

-----------------------------------------------------------------------------
(* The ends of a link: hosts, and interfaces with names and details.       *)
LEMMA JoinedEnds ==
    ASSUME NEW x, NEW i, NEW y, NEW j, Joined(x, i, y, j)
    PROVE  /\ x \in Host /\ y \in Host
           /\ i \in Iface \ {NoIface} /\ j \in Iface \ {NoIface}
           /\ i \in IfacesOf(x) /\ j \in IfacesOf(y)
           /\ Real(x, i) \in Details /\ Real(y, j) \in Details
           /\ <<x, i>> \in DOMAIN DetailsAt /\ <<y, j>> \in DOMAIN DetailsAt
<1>1. PICK link \in Links : <<x, i, link>> \in Attached /\ <<y, j, link>> \in Attached
  BY DEF Joined
<1>2. ASSUME NEW a, NEW b, <<a, b, link>> \in Attached
      PROVE  /\ a \in Host /\ b \in Iface \ {NoIface} /\ b \in IfacesOf(a)
             /\ Real(a, b) \in Details /\ <<a, b>> \in DOMAIN DetailsAt
  <2>1. /\ a \in Host /\ b \in Iface \ {NoIface}
        /\ Real(a, b) \in Details /\ <<a, b>> \in DOMAIN DetailsAt
    BY <1>2, AttachedAssumption DEF Real
  <2>2. \E at \in Attached : at[1] = a /\ at[2] = b
    <3>1. <<a, b, link>>[1] = a /\ <<a, b, link>>[2] = b
      OBVIOUS
    <3> QED
      BY <1>2, <3>1
  <2>3. b \in IfacesOf(a)
    BY <2>2 DEF IfacesOf
  <2> QED
    BY <2>1, <2>3
<1> QED
  BY <1>1, <1>2

-----------------------------------------------------------------------------
(* The steps on the nodes and on the edges of a store.                     *)

(* A packet received on an interface of the sender's link.                 *)
LEMMA PacketTrue ==
    ASSUME NEW gr, IsGraph(gr), TrueGraph(gr), gr.local \in Host, TrueLocal(gr.local, gr),
           NEW id \in Host, NEW name \in Name, NEW rif \in Iface, NEW rdet \in Details, NEW lif \in Iface,
           Joined(gr.local, lif, id, rif), rdet = Real(id, rif)
    PROVE  /\ TrueGraph(AddOrUpdate(gr, id, name, rif, rdet, lif, TRUE, NoHost))
           /\ SameLocal(gr, AddOrUpdate(gr, id, name, rif, rdet, lif, TRUE, NoHost))
<1>1. lif # NoIface /\ lif \in IfacesOf(gr.local)
  BY JoinedEnds
<1>2. LocalDetails(gr, lif) = DetailsAt[gr.local, lif]
  BY <1>1 DEF LocalDetails, TrueLocal, Real
<1>3. [src |-> gr.local, dst |-> id, lif |-> lif, rif |-> rif] \in LinkKeys
  BY DEF LinkKeys, EdgeKey
<1>4. TruePacket(gr, id, rif, rdet, lif, DetailsAt, LinkKeys)
  BY <1>2, <1>3, JoinedEnds DEF TruePacket, Real
<1> QED
  BY <1>4, AddOrUpdateTrue DEF TrueGraph

(* What an edge of a true store says.                                      *)
LEMMA LinkOfEdge ==
    ASSUME NEW gr, TrueGraph(gr), NEW k \in DOMAIN gr.edges
    PROVE  /\ Joined(k.src, k.lif, k.dst, k.rif)
           /\ gr.edges[k].ldet = Real(k.src, k.lif)
           /\ gr.edges[k].rdet = Real(k.dst, k.rif)
BY DEF TrueGraph, TrueStore, TrueEdge, LinkKeys, Real

(* GetDirectNeighbors of a true and well-formed store: the addresses of an *)
(* edge and the prefixes of the interface tables are those of one          *)
(* interface.                                                              *)
LEMMA ReportTrue ==
    ASSUME NEW gr, IsGraph(gr), WellFormed(gr), TrueGraph(gr), TrueLocal(gr.local, gr),
           NEW nb \in GetDirectNeighbors(gr)
    PROVE  TrueReport(gr.local, nb)
<1>1. PICK k \in DirectEdges(gr) : nb = ReportEdge(gr, k)
  BY DEF GetDirectNeighbors
<1>2. k \in DOMAIN gr.edges /\ k.src = gr.local /\ k.dst \in DOMAIN gr.nodes
  BY DEF DirectEdges
<1>3. /\ Joined(k.src, k.lif, k.dst, k.rif)
      /\ gr.edges[k].ldet = Real(k.src, k.lif) /\ gr.edges[k].rdet = Real(k.dst, k.rif)
  BY <1>2, LinkOfEdge
<1>4. /\ k.lif \in IfacesOf(k.src)
      /\ Real(k.src, k.lif) \in Details /\ Real(k.dst, k.rif) \in Details
      /\ <<k.src, k.lif>> \in DOMAIN DetailsAt /\ <<k.dst, k.rif>> \in DOMAIN DetailsAt
  BY <1>3, JoinedEnds
<1>5. PrefixOf(gr.localIfaces, k.lif) = Real(k.src, k.lif).pfx
  BY <1>2, <1>4 DEF PrefixOf, TrueLocal
<1>6. PrefixOf(gr.nodes[k.dst].ifaces, k.rif) = Real(k.dst, k.rif).pfx
  BY <1>2 DEF PrefixOf, TrueGraph, TrueStore, TrueNode, WellFormed, IfacesKnown, Real
<1>7. ASSUME NEW d \in Details PROVE [ident |-> d.ident, pfx |-> d.pfx] = d
  BY DEF Details
<1>8. /\ nb.id = k.dst /\ nb.lif = k.lif /\ nb.rif = k.rif
      /\ nb.ldet = [ident |-> Real(k.src, k.lif).ident, pfx |-> Real(k.src, k.lif).pfx]
      /\ nb.rdet = [ident |-> Real(k.dst, k.rif).ident, pfx |-> Real(k.dst, k.rif).pfx]
  BY <1>1, <1>3, <1>5, <1>6 DEF ReportEdge
<1>9. nb.ldet = Real(k.src, k.lif) /\ nb.rdet = Real(k.dst, k.rif)
  BY <1>4, <1>7, <1>8
<1> QED
  <2>1. [src |-> gr.local, dst |-> nb.id, lif |-> nb.lif, rif |-> nb.rif] = k /\ k \in LinkKeys
    BY <1>2, <1>8 DEF TrueGraph, TrueStore, TrueEdge, IsGraph, IsPartialMap, EdgeKey
  <2> QED
    BY <1>2, <1>4, <1>8, <1>9, <2>1 DEF TrueReport, TrueNeighbor, Real

-----------------------------------------------------------------------------
(* A daemon starts with its own interfaces.                                *)
LEMMA StartGraphTrue ==
    ASSUME NEW h \in Host
    PROVE  TrueGraph(StartGraph(h)) /\ TrueLocal(h, StartGraph(h))
<1>1. /\ DOMAIN StartGraph(h).nodes = {} /\ DOMAIN StartGraph(h).edges = {}
      /\ StartGraph(h).localIfaces = [i \in IfacesOf(h) |-> Real(h, i)]
  BY StartGraphStep DEF Real
<1> QED
  BY <1>1 DEF TrueGraph, TrueStore, TrueLocal

(* One store changes into a true one of the same local interfaces.         *)
LEMMA TrueChange ==
    ASSUME StoresSound, LInv, NEW h \in Host, NEW gr, TrueGraph(gr),
           gr.localIfaces = graph[h].localIfaces,
           graph' = [graph EXCEPT ![h] = gr], up' = up
    PROVE  /\ \A x \in Host : TrueGraph(graph'[x])
           /\ \A x \in Host : up'[x] => TrueLocal(x, graph'[x])
<1>1. graph'[h] = gr /\ \A x \in Host \ {h} : graph'[x] = graph[x]
  BY DEF StoresSound
<1>2. \A x \in Host : TrueGraph(graph'[x])
  BY <1>1 DEF LInv
<1>3. \A x \in Host : up'[x] => TrueLocal(x, graph'[x])
  BY <1>1 DEF LInv, TrueLocal
<1> QED
  BY <1>2, <1>3

(* One handler goes on with some of the entries of a true packet.          *)
LEMMA TrueHandlerChange ==
    ASSUME HandlersSound, LInv, NEW h \in Host, NEW from, NEW rest,
           \A nb \in rest : TrueReport(from, nb),
           handling' = [handling EXCEPT ![h] = Continue(from, rest)]
    PROVE  \A x \in Host : \A nb \in handling'[x].rest : TrueReport(handling'[x].from, nb)
<1>1. handling'[h] = Continue(from, rest) /\ \A x \in Host \ {h} : handling'[x] = handling[x]
  BY DEF HandlersSound
<1>2. \A nb \in handling'[h].rest : TrueReport(handling'[h].from, nb)
  BY <1>1 DEF Continue, NoPacket
<1>3. \A x \in Host \ {h} : \A nb \in handling'[x].rest : TrueReport(handling'[x].from, nb)
  BY <1>1 DEF LInv
<1> QED
  BY <1>2, <1>3

(* Nothing is stored and nothing is under way initially.                   *)
LEMMA LinksInit == Init => LInv
<1> SUFFICES ASSUME Init PROVE LInv
  OBVIOUS
<1>1. \A h \in Host : TrueGraph(graph[h]) /\ TrueLocal(h, graph[h])
  BY StartGraphTrue DEF Init
<1>2. \A h \in Host : handling[h].rest = {}
  BY DEF Init, NoPacket
<1>3. net = {}
  BY DEF Init
<1> QED
  BY <1>1, <1>2, <1>3 DEF LInv

(* Every step keeps stores, reports and packets true of the links.         *)
LEMMA LinksNext == NInv /\ LInv /\ [Next]_vars => LInv'
<1> SUFFICES ASSUME NInv, LInv, [Next]_vars PROVE LInv'
  OBVIOUS
<1> USE DEF NInv
<1>1. ASSUME NEW h, NEW i, NEW link, Send(h, i, link)
      PROVE  LInv'
  <2> DEFINE m == [link |-> link, pkt |-> MakePacket(h, i), old |-> FALSE]
             pkt == MakePacket(h, i)
  <2>1. h \in Host /\ up[h] /\ <<h, i, link>> \in Attached
    BY <1>1, AttachedAssumption DEF Send
  <2>2. /\ IsGraph(graph[h]) /\ WellFormed(graph[h]) /\ graph[h].local = h
        /\ TrueGraph(graph[h]) /\ TrueLocal(h, graph[h])
    BY <2>1 DEF LInv, StoresSound, StoreSound
  <2>3. \A nb \in GetDirectNeighbors(graph[h]) : TrueReport(h, nb)
    BY <2>2, ReportTrue
  <2>4. pkt.id = h /\ pkt.iface = i /\ pkt.det = Real(h, i) /\ \A nb \in pkt.nbrs : TrueReport(h, nb)
    BY <2>3 DEF MakePacket, Real
  <2>5. m.pkt = pkt /\ m.link = link
    OBVIOUS
  <2>6. net' = net \cup {m} /\ up' = up /\ graph' = graph /\ handling' = handling
    BY <1>1 DEF Send
  <2> HIDE DEF m, pkt
  <2>7. TrueDatagram(m)
    BY <2>1, <2>4, <2>5 DEF TrueDatagram
  <2>8. \A x \in net' : TrueDatagram(x)
    BY <2>6, <2>7 DEF LInv
  <2> QED
    BY <2>6, <2>8 DEF LInv
<1>2. ASSUME NEW h, NEW i, NEW m \in net, Receive(h, i, m)
      PROVE  LInv'
  <2> DEFINE p == m.pkt
             gr == AddOrUpdate(graph[h], p.id, p.name, p.iface, p.det, i, TRUE, NoHost)
             rest == IF h \in Gossips THEN p.nbrs ELSE {}
  <2>1. h \in Host /\ up[h] /\ p.id # h /\ <<h, i, m.link>> \in Attached
    BY <1>2, AttachedAssumption DEF Receive, Accepts
  <2>2. /\ IsGraph(graph[h]) /\ graph[h].local = h
        /\ TrueGraph(graph[h]) /\ TrueLocal(h, graph[h])
    BY <2>1 DEF LInv, StoresSound, StoreSound
  <2>3. /\ m.link \in Links /\ i \in Iface
        /\ p.id \in Host /\ p.name \in Name /\ p.iface \in Iface /\ p.det \in Details
    BY <2>1, AttachedAssumption DEF DatagramSound, IsPacket
  <2>4. <<p.id, p.iface, m.link>> \in Attached /\ p.det = Real(p.id, p.iface)
        /\ \A nb \in p.nbrs : TrueReport(p.id, nb)
    BY DEF LInv, TrueDatagram
  <2>5. Joined(h, i, p.id, p.iface)
    BY <2>1, <2>3, <2>4 DEF Joined
  <2>6. TrueGraph(gr) /\ SameLocal(graph[h], gr)
    <3>1. /\ graph[h].local \in Host /\ p.id # graph[h].local
          /\ TrueLocal(graph[h].local, graph[h])
          /\ Joined(graph[h].local, i, p.id, p.iface)
      BY <2>1, <2>2, <2>5
    <3> QED
      BY <2>2, <2>3, <2>4, <3>1, PacketTrue
  <2>7. /\ graph' = [graph EXCEPT ![h] = gr]
        /\ handling' = [handling EXCEPT ![h] = Continue(p.id, rest)]
        /\ up' = up /\ net' = net
    BY <1>2 DEF Receive
  <2>8. \A nb \in rest : TrueReport(p.id, nb)
    BY <2>4
  <2> HIDE DEF p, gr, rest
  <2>9. /\ \A x \in Host : TrueGraph(graph'[x])
        /\ \A x \in Host : up'[x] => TrueLocal(x, graph'[x])
    BY <2>1, <2>6, <2>7, TrueChange DEF SameLocal
  <2>10. \A x \in Host : \A nb \in handling'[x].rest : TrueReport(handling'[x].from, nb)
    BY <2>1, <2>7, <2>8, TrueHandlerChange
  <2> QED
    BY <2>7, <2>9, <2>10 DEF LInv
<1>3. ASSUME NEW h \in Host, ReceiveNeighbor(h)
      PROVE  LInv'
  <2> DEFINE from == handling[h].from
  <2>1. PICK nb \in handling[h].rest :
           /\ graph' = [graph EXCEPT ![h] = HandleNeighbor(graph[h], nb, from)]
           /\ handling' = [handling EXCEPT ![h] = Continue(from, handling[h].rest \ {nb})]
    BY <1>3 DEF ReceiveNeighbor
  <2> DEFINE gr == HandleNeighbor(graph[h], nb, from)
             rest == handling[h].rest \ {nb}
  <2>2. up' = up /\ net' = net
    BY <1>3 DEF ReceiveNeighbor
  <2>3. IsGraph(graph[h]) /\ TrueGraph(graph[h])
    BY DEF LInv, StoresSound, StoreSound
  <2>4. from \in Host /\ nb \in NeighborInfo
    BY <2>1 DEF HandlersSound, HandlingSound
  <2>5. \A x \in handling[h].rest : TrueReport(from, x)
    BY DEF LInv
  <2>6. TrueGraph(gr) /\ gr.localIfaces = graph[h].localIfaces
    <3>1. gr = graph[h] \/ gr = AddOrUpdateIndirectEdge(graph[h], nb, from)
      BY DEF HandleNeighbor
    <3>2. /\ TrueGraph(AddOrUpdateIndirectEdge(graph[h], nb, from))
          /\ AddOrUpdateIndirectEdge(graph[h], nb, from).localIfaces = graph[h].localIfaces
      BY <2>1, <2>3, <2>4, <2>5, AddOrUpdateIndirectEdgeTrue DEF TrueGraph, TrueReport
    <3> QED
      BY <2>3, <3>1, <3>2
  <2>7. /\ graph' = [graph EXCEPT ![h] = gr]
        /\ handling' = [handling EXCEPT ![h] = Continue(from, rest)]
        /\ \A x \in rest : TrueReport(from, x)
    BY <2>1, <2>5
  <2> HIDE DEF from, gr, rest
  <2>8. /\ \A x \in Host : TrueGraph(graph'[x])
        /\ \A x \in Host : up'[x] => TrueLocal(x, graph'[x])
    BY <2>2, <2>6, <2>7, TrueChange
  <2>9. \A x \in Host : \A y \in handling'[x].rest : TrueReport(handling'[x].from, y)
    BY <2>7, TrueHandlerChange
  <2> QED
    BY <2>2, <2>8, <2>9 DEF LInv
<1>4. ASSUME NEW h \in Host, ExpireTick(h)
      PROVE  LInv'
  <2>1. /\ graph' = [graph EXCEPT ![h] = RemoveExpired(graph[h])]
        /\ up' = up /\ handling' = handling /\ net' = net
    BY <1>4 DEF ExpireTick
  <2>2. IsGraph(graph[h]) /\ TrueGraph(graph[h])
    BY DEF LInv, StoresSound, StoreSound
  <2>3. /\ TrueGraph(RemoveExpired(graph[h]))
        /\ RemoveExpired(graph[h]).localIfaces = graph[h].localIfaces
    BY <2>2, RemoveExpiredTrue DEF TrueGraph
  <2>4. /\ \A x \in Host : TrueGraph(graph'[x])
        /\ \A x \in Host : up'[x] => TrueLocal(x, graph'[x])
    BY <2>1, <2>3, TrueChange
  <2> QED
    BY <2>1, <2>4 DEF LInv
<1>5. ASSUME NEW h \in Host, Crash(h)
      PROVE  LInv'
  <2>1. /\ up' = [up EXCEPT ![h] = FALSE]
        /\ graph' = [graph EXCEPT ![h] = NewGraph]
        /\ handling' = [handling EXCEPT ![h] = NoPacket]
        /\ net' = net
    BY <1>5 DEF Crash
  <2>2. /\ ~up'[h] /\ graph'[h] = NewGraph /\ handling'[h] = NoPacket
        /\ \A x \in Host \ {h} : up'[x] = up[x] /\ graph'[x] = graph[x] /\ handling'[x] = handling[x]
    BY <2>1 DEF StoresSound, HandlersSound
  <2>3. TrueGraph(NewGraph)
    BY NewGraphStep DEF TrueGraph, TrueStore
  <2>4. \A x \in Host : TrueGraph(graph'[x]) /\ (up'[x] => TrueLocal(x, graph'[x]))
    BY <2>2, <2>3 DEF LInv
  <2>5. NoPacket.rest = {}
    BY DEF NoPacket
  <2>6. \A x \in Host : \A nb \in handling'[x].rest : TrueReport(handling'[x].from, nb)
    BY <2>2, <2>5 DEF LInv
  <2> QED
    BY <2>1, <2>4, <2>6 DEF LInv
<1>6. ASSUME NEW h \in Host, Start(h)
      PROVE  LInv'
  <2>1. /\ up' = [up EXCEPT ![h] = TRUE]
        /\ graph' = [graph EXCEPT ![h] = StartGraph(h)]
        /\ handling' = handling /\ net' = net
    BY <1>6 DEF Start
  <2>2. /\ graph'[h] = StartGraph(h)
        /\ \A x \in Host \ {h} : up'[x] = up[x] /\ graph'[x] = graph[x]
    BY <2>1 DEF StoresSound
  <2>3. \A x \in Host : TrueGraph(graph'[x]) /\ (up'[x] => TrueLocal(x, graph'[x]))
    BY <2>2, StartGraphTrue DEF LInv
  <2> QED
    BY <2>1, <2>3 DEF LInv
<1>7. CASE Tick
  <2>1. /\ graph' = [h \in Host |-> AgeNodes(graph[h])]
        /\ net' = {[m EXCEPT !.old = TRUE] : m \in {x \in net : ~x.old}}
        /\ up' = up /\ handling' = handling
    BY <1>7 DEF Tick
  <2>2. ASSUME NEW h \in Host
        PROVE  TrueGraph(graph'[h]) /\ (up'[h] => TrueLocal(h, graph'[h]))
    <3>1. graph'[h] = AgeNodes(graph[h]) /\ IsGraph(graph[h]) /\ TrueGraph(graph[h])
      BY <2>1 DEF LInv, StoresSound, StoreSound
    <3>2. TrueGraph(graph'[h]) /\ graph'[h].localIfaces = graph[h].localIfaces
      BY <3>1, AgeNodesTrue DEF TrueGraph
    <3> QED
      BY <2>1, <3>2 DEF LInv, TrueLocal
  <2>3. ASSUME NEW x \in net' PROVE TrueDatagram(x)
    <3>1. PICK m \in net : x = [m EXCEPT !.old = TRUE]
      BY <2>1
    <3>2. x.pkt = m.pkt /\ x.link = m.link
      BY <3>1 DEF DatagramSound
    <3> QED
      BY <3>2 DEF LInv, TrueDatagram
  <2> QED
    BY <2>1, <2>2, <2>3 DEF LInv
<1>8. ASSUME NEW m \in net, Drop(m)
      PROVE  LInv'
  BY <1>8 DEF Drop, LInv
<1>9. CASE UNCHANGED vars
  BY <1>9 DEF vars, LInv
<1> QED
  BY <1>1, <1>2, <1>3, <1>4, <1>5, <1>6, <1>7, <1>8, <1>9 DEF Next

-----------------------------------------------------------------------------
(* In every run of every network the edges of every store join interfaces  *)
(* of one link and carry their details, whatever was lost, repeated, late  *)
(* or forgotten in a crash: two hosts that tell each other of a third      *)
(* never mix up its links or their ends.                                   *)
THEOREM EdgesAlwaysLinks == Spec => []EdgesAreLinks
<1>1. NInv /\ LInv => EdgesAreLinks
  BY LinkOfEdge DEF LInv, EdgesAreLinks, Joined, Real
<1> QED
  BY <1>1, LinksInit, LinksNext, NetworkInvariance, PTL DEF Spec

-----------------------------------------------------------------------------
(* Which hosts a store may know of.                                        *)

(* Storing an edge adds no host.                                           *)
LEMMA StoreEdgeNodes ==
    ASSUME NEW gr, IsGraph(gr), NEW k, NEW e
    PROVE  StoreEdge(gr, k, e).nodes = gr.nodes
<1> DEFINE known == k \in DOMAIN gr.edges
           downgrade == known /\ gr.edges[k].direct /\ ~e.direct
           upgrade == known /\ ~gr.edges[k].direct /\ e.direct
           edges == IF downgrade THEN gr.edges ELSE Put(gr.edges, k, e)
           changed == gr.changed \/ ~known \/ upgrade
           gr2 == StoreEdge(gr, k, e)
<1>1. gr2 = [gr EXCEPT !.edges = edges, !.changed = changed]
  BY Zenon DEF StoreEdge
<1> HIDE DEF gr2, edges, changed
<1>2. gr2.nodes = gr.nodes
  BY <1>1 DEF IsGraph
<1> QED
  BY <1>2 DEF gr2

(* One host more is known.                                                 *)
Grows(gr, gr2, id) == DOMAIN gr2.nodes = DOMAIN gr.nodes \cup {id}

(* A packet makes its sender known, and nobody else.                       *)
LEMMA AddOrUpdateNodes ==
    ASSUME NEW gr, IsGraph(gr), NEW id \in Host, NEW name \in Name,
           NEW rif \in Iface, NEW rdet \in Details, NEW lif \in Iface
    PROVE  Grows(gr, AddOrUpdate(gr, id, name, rif, rdet, lif, TRUE, NoHost), id)
<1> DEFINE gr2 == AddOrUpdate(gr, id, name, rif, rdet, lif, TRUE, NoHost)
           g1 == EnsureNode(gr, id, name)
           g2 == Rename(g1, id, name)
           g3 == Touch(g2, id)
           g4 == StoreIface(g3, id, rif, rdet)
           k == [src |-> gr.local, dst |-> id, lif |-> lif, rif |-> rif]
           e == [ldet |-> LocalDetails(gr, lif), rdet |-> rdet, direct |-> TRUE, from |-> NoHost]
<1>1. gr2 = IF gr.local = NoHost THEN g4 ELSE StoreEdge(g4, k, e)
  BY DEF AddOrUpdate
<1> HIDE DEF gr2, g1, g2, g3, g4, k, e
<1>2. IsGraph(g1) /\ DOMAIN g1.nodes = DOMAIN gr.nodes \cup {id}
  BY EnsureNodeStep DEF g1
<1>3. IsGraph(g2) /\ DOMAIN g2.nodes = DOMAIN gr.nodes \cup {id}
  BY <1>2, RenameStep DEF g2
<1>4. IsGraph(g3) /\ DOMAIN g3.nodes = DOMAIN gr.nodes \cup {id}
  BY <1>3, TouchStep DEF g3
<1>5. /\ IsGraph(g4)
      /\ KeepsKnown(g3, g4)
      /\ DOMAIN g4.nodes = DOMAIN gr.nodes \cup {id}
      /\ rif \in DOMAIN g4.nodes[id].ifaces
  BY <1>4, StoreIfaceStep DEF g4
<1>6. StoreEdge(g4, k, e).nodes = g4.nodes
  BY <1>5, StoreEdgeNodes
<1>7. Grows(gr, gr2, id)
  BY <1>1, <1>5, <1>6 DEF Grows
<1> QED
  BY <1>7 DEF gr2

(* A report makes the reported host known, not its reporter.               *)
LEMMA AddOrUpdateIndirectEdgeNodes ==
    ASSUME NEW gr, IsGraph(gr), NEW nb \in NeighborInfo, NEW from \in Host
    PROVE  Grows(gr, AddOrUpdateIndirectEdge(gr, nb, from), nb.id)
<1> DEFINE gr2 == AddOrUpdateIndirectEdge(gr, nb, from)
           g1 == EnsureNode(gr, nb.id, nb.name)
           g2 == Touch(g1, nb.id)
           g3 == StoreIface(g2, nb.id, nb.rif, nb.rdet)
           known == from \in DOMAIN g3.nodes
           g4 == IF known /\ nb.lif # NoIface THEN StoreIface(g3, from, nb.lif, nb.ldet) ELSE g3
           k == [src |-> from, dst |-> nb.id, lif |-> nb.lif, rif |-> nb.rif]
           e == [ldet |-> nb.ldet, rdet |-> nb.rdet, direct |-> FALSE, from |-> from]
<1>1. gr2 = IF known THEN StoreEdge(g4, k, e) ELSE g4
  BY DEF AddOrUpdateIndirectEdge, StoreNeighbor, StoreReportedEdge
<1>2. /\ nb.id \in Host /\ nb.name \in Name /\ nb.lif \in Iface /\ nb.rif \in Iface
      /\ nb.ldet \in Details /\ nb.rdet \in Details
  BY DEF NeighborInfo
<1> HIDE DEF gr2, g1, g2, g3, g4, k, e
<1>3. IsGraph(g1) /\ DOMAIN g1.nodes = DOMAIN gr.nodes \cup {nb.id}
  BY <1>2, EnsureNodeStep DEF g1
<1>4. IsGraph(g2) /\ DOMAIN g2.nodes = DOMAIN gr.nodes \cup {nb.id}
  BY <1>3, TouchStep DEF g2
<1>5. IsGraph(g3) /\ DOMAIN g3.nodes = DOMAIN gr.nodes \cup {nb.id} /\ KeepsKnown(g2, g3)
  BY <1>2, <1>4, StoreIfaceStep DEF g3
<1>6. /\ IsGraph(g4)
      /\ KeepsKnown(g3, g4)
      /\ DOMAIN g4.nodes = DOMAIN g3.nodes
      /\ known /\ nb.lif # NoIface => nb.lif \in DOMAIN g4.nodes[from].ifaces
  <2>1. CASE known /\ nb.lif # NoIface
    BY <1>2, <1>5, <2>1, StoreIfaceStep DEF g4
  <2>2. CASE ~(known /\ nb.lif # NoIface)
    BY <1>5, <2>2 DEF g4, KeepsKnown
  <2> QED
    BY <2>1, <2>2
<1>7. StoreEdge(g4, k, e).nodes = g4.nodes
  BY <1>6, StoreEdgeNodes
<1>8. Grows(gr, gr2, nb.id)
  BY <1>1, <1>5, <1>6, <1>7 DEF Grows
<1> QED
  BY <1>8 DEF gr2

(* An expiry adds no host.                                                 *)
LEMMA RemoveExpiredNodes ==
    ASSUME NEW gr, IsGraph(gr)
    PROVE  DOMAIN RemoveExpired(gr).nodes \subseteq DOMAIN gr.nodes
<1> DEFINE dead == Expired(gr)
           nodes == Restrict(gr.nodes, DOMAIN gr.nodes \ dead)
           edges == Restrict(gr.edges, SurvivingEdges(gr, dead))
           changed == gr.changed \/ dead # {}
           gr2 == RemoveExpired(gr)
<1>1. gr2 = [gr EXCEPT !.nodes = nodes, !.edges = edges, !.changed = changed]
  BY Zenon DEF RemoveExpired
<1>2. DOMAIN nodes \subseteq DOMAIN gr.nodes
  BY DEF Restrict
<1> HIDE DEF gr2, nodes, edges, changed
<1>3. DOMAIN gr2.nodes \subseteq DOMAIN gr.nodes
  BY <1>1, <1>2 DEF IsGraph
<1> QED
  BY <1>3 DEF gr2

(* Neither does the clock.                                                 *)
LEMMA AgeNodesNodes ==
    ASSUME NEW gr, IsGraph(gr)
    PROVE  DOMAIN AgeNodes(gr).nodes = DOMAIN gr.nodes
<1> DEFINE older(h) == [gr.nodes[h] EXCEPT !.age = Grow(gr.nodes[h].age)]
           nodes == [h \in DOMAIN gr.nodes |-> older(h)]
           gr2 == AgeNodes(gr)
<1>1. gr2 = [gr EXCEPT !.nodes = nodes]
  BY DEF AgeNodes
<1>2. DOMAIN nodes = DOMAIN gr.nodes
  OBVIOUS
<1> HIDE DEF gr2, nodes
<1>3. DOMAIN gr2.nodes = DOMAIN gr.nodes
  BY <1>1, <1>2 DEF IsGraph
<1> QED
  BY <1>3 DEF gr2

-----------------------------------------------------------------------------
(* A host at most two links away, the second of them reported by a         *)
(* gossiping neighbour to a gossiping host.                                *)
Near(h, x) ==
    \/ Adjacent(h, x)
    \/ h \in Gossips /\ \E y \in Gossips : Adjacent(h, y) /\ Adjacent(y, x)

(* Only gossiping hosts report neighbours, and only gossiping neighbours   *)
(* of theirs read the report.                                              *)
KInv ==
    /\ \A h \in Host : \A x \in DOMAIN graph[h].nodes : Near(h, x)
    /\ \A h \in Host : handling[h].rest # {} =>
           h \in Gossips /\ handling[h].from \in Gossips /\ Adjacent(h, handling[h].from)
    /\ \A m \in net : m.pkt.nbrs # {} => m.pkt.id \in Gossips

(* Hosts whose interfaces are on one link are neighbours.                  *)
LEMMA JoinedAdjacent ==
    ASSUME NEW x, NEW i, NEW y, NEW j, Joined(x, i, y, j)
    PROVE  Adjacent(x, y)
<1>1. i \in Iface /\ j \in Iface
  BY JoinedEnds
<1> QED
  BY <1>1 DEF Joined, Adjacent

(* Nobody knows anybody initially.                                         *)
LEMMA KnowledgeInit == Init => KInv
<1> SUFFICES ASSUME Init PROVE KInv
  OBVIOUS
<1>1. \A h \in Host : DOMAIN graph[h].nodes = {}
  BY StartGraphStep DEF Init
<1>2. \A h \in Host : handling[h].rest = {}
  BY DEF Init, NoPacket
<1>3. net = {}
  BY DEF Init
<1> QED
  BY <1>1, <1>2, <1>3 DEF KInv

(* Every step keeps what a daemon knows within two links.                  *)
LEMMA KnowledgeNext == NInv /\ LInv /\ KInv /\ [Next]_vars => KInv'
<1> SUFFICES ASSUME NInv, LInv, KInv, [Next]_vars PROVE KInv'
  OBVIOUS
<1> USE DEF NInv
<1>1. ASSUME NEW h, NEW i, NEW link, Send(h, i, link)
      PROVE  KInv'
  <2> DEFINE m == [link |-> link, pkt |-> MakePacket(h, i), old |-> FALSE]
  <2>1. m.pkt.nbrs # {} => m.pkt.id \in Gossips
    BY DEF MakePacket
  <2>2. net' = net \cup {m} /\ up' = up /\ graph' = graph /\ handling' = handling
    BY <1>1 DEF Send
  <2> HIDE DEF m
  <2> QED
    BY <2>1, <2>2 DEF KInv
<1>2. ASSUME NEW h, NEW i, NEW m \in net, Receive(h, i, m)
      PROVE  KInv'
  <2> DEFINE p == m.pkt
             gr == AddOrUpdate(graph[h], p.id, p.name, p.iface, p.det, i, TRUE, NoHost)
             rest == IF h \in Gossips THEN p.nbrs ELSE {}
  <2>1. h \in Host /\ i \in Iface /\ <<h, i, m.link>> \in Attached
    BY <1>2, AttachedAssumption DEF Receive
  <2>2. IsGraph(graph[h])
    BY <2>1 DEF StoresSound, StoreSound
  <2>3. m.link \in Links /\ p.id \in Host /\ p.name \in Name /\ p.iface \in Iface /\ p.det \in Details
    BY DEF DatagramSound, IsPacket
  <2>4. <<p.id, p.iface, m.link>> \in Attached
    BY DEF LInv, TrueDatagram
  <2>5. Adjacent(h, p.id)
    BY <2>1, <2>3, <2>4 DEF Adjacent
  <2>6. Grows(graph[h], gr, p.id)
    BY <2>1, <2>2, <2>3, AddOrUpdateNodes
  <2>7. rest # {} => h \in Gossips /\ p.id \in Gossips
    BY DEF KInv
  <2>8. /\ graph' = [graph EXCEPT ![h] = gr]
        /\ handling' = [handling EXCEPT ![h] = Continue(p.id, rest)]
        /\ net' = net
    BY <1>2 DEF Receive
  <2> HIDE DEF p, gr, rest
  <2>9. /\ graph'[h] = gr /\ handling'[h] = Continue(p.id, rest)
        /\ \A x \in Host \ {h} : graph'[x] = graph[x] /\ handling'[x] = handling[x]
    BY <2>1, <2>8 DEF StoresSound, HandlersSound
  <2>10. \A y \in DOMAIN gr.nodes : Near(h, y)
    BY <2>1, <2>5, <2>6 DEF KInv, Near, Grows
  <2>11. \A x \in Host : \A y \in DOMAIN graph'[x].nodes : Near(x, y)
    BY <2>9, <2>10 DEF KInv
  <2>12. handling'[h].rest # {} => h \in Gossips /\ handling'[h].from \in Gossips /\ Adjacent(h, handling'[h].from)
    BY <2>5, <2>7, <2>9 DEF Continue, NoPacket
  <2>13. \A x \in Host : handling'[x].rest # {} =>
           x \in Gossips /\ handling'[x].from \in Gossips /\ Adjacent(x, handling'[x].from)
    BY <2>9, <2>12 DEF KInv
  <2> QED
    BY <2>8, <2>11, <2>13 DEF KInv
<1>3. ASSUME NEW h \in Host, ReceiveNeighbor(h)
      PROVE  KInv'
  <2> DEFINE from == handling[h].from
  <2>1. PICK nb \in handling[h].rest :
           /\ graph' = [graph EXCEPT ![h] = HandleNeighbor(graph[h], nb, from)]
           /\ handling' = [handling EXCEPT ![h] = Continue(from, handling[h].rest \ {nb})]
    BY <1>3 DEF ReceiveNeighbor
  <2> DEFINE gr == HandleNeighbor(graph[h], nb, from)
             rest == handling[h].rest \ {nb}
  <2>2. net' = net
    BY <1>3 DEF ReceiveNeighbor
  <2>3. IsGraph(graph[h]) /\ from \in Host /\ nb \in NeighborInfo
    BY <2>1 DEF StoresSound, StoreSound, HandlersSound, HandlingSound
  <2>4. h \in Gossips /\ from \in Gossips /\ Adjacent(h, from)
    BY <2>1 DEF KInv
  <2>5. Adjacent(from, nb.id)
    BY <2>1, JoinedAdjacent DEF LInv, TrueReport, TrueNeighbor, LinkKeys
  <2>6. DOMAIN gr.nodes \subseteq DOMAIN graph[h].nodes \cup {nb.id}
    BY <2>3, AddOrUpdateIndirectEdgeNodes DEF HandleNeighbor, Grows
  <2>7. \A y \in DOMAIN gr.nodes : Near(h, y)
    BY <2>4, <2>5, <2>6 DEF KInv, Near
  <2>8. /\ graph' = [graph EXCEPT ![h] = gr]
        /\ handling' = [handling EXCEPT ![h] = Continue(from, rest)]
    BY <2>1
  <2> HIDE DEF from, gr, rest
  <2>9. /\ graph'[h] = gr /\ handling'[h] = Continue(from, rest)
        /\ \A x \in Host \ {h} : graph'[x] = graph[x] /\ handling'[x] = handling[x]
    BY <2>8 DEF StoresSound, HandlersSound
  <2>10. \A x \in Host : \A y \in DOMAIN graph'[x].nodes : Near(x, y)
    BY <2>7, <2>9 DEF KInv
  <2>11. handling'[h].rest # {} => h \in Gossips /\ handling'[h].from \in Gossips /\ Adjacent(h, handling'[h].from)
    BY <2>4, <2>9 DEF Continue, NoPacket
  <2>12. \A x \in Host : handling'[x].rest # {} =>
           x \in Gossips /\ handling'[x].from \in Gossips /\ Adjacent(x, handling'[x].from)
    BY <2>9, <2>11 DEF KInv
  <2> QED
    BY <2>2, <2>10, <2>12 DEF KInv
<1>4. ASSUME NEW h \in Host, ExpireTick(h)
      PROVE  KInv'
  <2>1. /\ graph' = [graph EXCEPT ![h] = RemoveExpired(graph[h])]
        /\ handling' = handling /\ net' = net
    BY <1>4 DEF ExpireTick
  <2>2. DOMAIN RemoveExpired(graph[h]).nodes \subseteq DOMAIN graph[h].nodes
    BY RemoveExpiredNodes DEF StoresSound, StoreSound
  <2>3. \A x \in Host : DOMAIN graph'[x].nodes \subseteq DOMAIN graph[x].nodes
    BY <2>1, <2>2 DEF StoresSound
  <2> QED
    BY <2>1, <2>3 DEF KInv
<1>5. ASSUME NEW h \in Host, Crash(h)
      PROVE  KInv'
  <2>1. /\ graph' = [graph EXCEPT ![h] = NewGraph]
        /\ handling' = [handling EXCEPT ![h] = NoPacket]
        /\ net' = net
    BY <1>5 DEF Crash
  <2>2. /\ graph'[h] = NewGraph /\ handling'[h] = NoPacket
        /\ \A x \in Host \ {h} : graph'[x] = graph[x] /\ handling'[x] = handling[x]
    BY <2>1 DEF StoresSound, HandlersSound
  <2>3. \A x \in Host : \A y \in DOMAIN graph'[x].nodes : Near(x, y)
    BY <2>2, NewGraphStep DEF KInv
  <2>4. NoPacket.rest = {}
    BY DEF NoPacket
  <2>5. \A x \in Host : handling'[x].rest # {} => handling'[x] = handling[x]
    BY <2>2, <2>4
  <2> QED
    BY <2>1, <2>3, <2>5 DEF KInv
<1>6. ASSUME NEW h \in Host, Start(h)
      PROVE  KInv'
  <2>1. /\ graph' = [graph EXCEPT ![h] = StartGraph(h)]
        /\ handling' = handling /\ net' = net
    BY <1>6 DEF Start
  <2>2. graph'[h] = StartGraph(h) /\ \A x \in Host \ {h} : graph'[x] = graph[x]
    BY <2>1 DEF StoresSound
  <2>3. \A x \in Host : \A y \in DOMAIN graph'[x].nodes : Near(x, y)
    BY <2>2, StartGraphStep DEF KInv
  <2> QED
    BY <2>1, <2>3 DEF KInv
<1>7. CASE Tick
  <2>1. /\ graph' = [h \in Host |-> AgeNodes(graph[h])]
        /\ net' = {[m EXCEPT !.old = TRUE] : m \in {x \in net : ~x.old}}
        /\ handling' = handling
    BY <1>7 DEF Tick
  <2>2. \A h \in Host : DOMAIN graph'[h].nodes = DOMAIN graph[h].nodes
    BY <2>1, AgeNodesNodes DEF StoresSound, StoreSound
  <2>3. ASSUME NEW x \in net' PROVE x.pkt.nbrs # {} => x.pkt.id \in Gossips
    <3>1. PICK m \in net : x = [m EXCEPT !.old = TRUE]
      BY <2>1
    <3>2. x.pkt = m.pkt
      BY <3>1 DEF DatagramSound
    <3> QED
      BY <3>2 DEF KInv
  <2> QED
    BY <2>1, <2>2, <2>3 DEF KInv
<1>8. ASSUME NEW m \in net, Drop(m)
      PROVE  KInv'
  BY <1>8 DEF Drop, KInv
<1>9. CASE UNCHANGED vars
  BY <1>9 DEF vars, KInv
<1> QED
  BY <1>1, <1>2, <1>3, <1>4, <1>5, <1>6, <1>7, <1>8, <1>9 DEF Next

(* In every run of every network a daemon knows the hosts on its own links *)
(* and, if it gossips, those on the links of its gossiping neighbours: a   *)
(* reported neighbour is never reported on.                                *)
THEOREM KnowledgeAlwaysStops == Spec => []KnowledgeStopsAtTwoLinks
<1>1. KInv => KnowledgeStopsAtTwoLinks
  BY DEF KInv, KnowledgeStopsAtTwoLinks, Near
<1> QED
  BY <1>1, KnowledgeInit, KnowledgeNext, LinksInit, LinksNext, NetworkInvariance, PTL DEF Spec

-----------------------------------------------------------------------------
(* Every daemon's store implements Membership.                             *)

(* The hosts a daemon can hear of: the senders of the datagrams and the    *)
(* neighbours its receive handler is at work on.                           *)
HeardOf(h) == {m.pkt.id : m \in net} \cup {nb.id : nb \in handling[h].rest}

(* What a running daemon may do to its store, by what it means to the      *)
(* hosts and their links.                                                  *)
StoreStep(gr, gr2, heard) ==
    \/ \E x \in Host \cap heard : x # gr.local /\ Hears(gr, gr2, x)
    \/ gr2 = RemoveExpired(gr)
    \/ gr2 = AgeNodes(gr)
    \/ gr2 = gr

(* A step does one of these to the store of a daemon that keeps running or *)
(* stays down, and replaces the store of any other by one without hosts.   *)
DaemonStep(h) ==
    IF up'[h] = up[h] THEN StoreStep(graph[h], graph'[h], HeardOf(h)) ELSE graph'[h] \in {NewGraph, StartGraph(h)}

(* Every step of the network is such a step for every daemon.              *)
LEMMA DaemonEffect ==
    ASSUME NInv, [Next]_vars
    PROVE  \A h \in Host : DaemonStep(h)
<1> USE DEF NInv
<1>0. up \in [Host -> BOOLEAN] /\ DOMAIN graph = Host
  BY DEF StoresSound
<1>1. ASSUME NEW h, NEW i, NEW link, Send(h, i, link)
      PROVE  \A x \in Host : DaemonStep(x)
  BY <1>1 DEF Send, DaemonStep, StoreStep
<1>2. ASSUME NEW h, NEW i, NEW m \in net, Receive(h, i, m)
      PROVE  \A x \in Host : DaemonStep(x)
  <2> DEFINE p == m.pkt
             gr == AddOrUpdate(graph[h], p.id, p.name, p.iface, p.det, i, TRUE, NoHost)
  <2>1. h \in Host /\ i \in Iface /\ up[h] /\ p.id # h
    BY <1>2, AttachedAssumption DEF Receive, Accepts
  <2>2. IsGraph(graph[h]) /\ graph[h].local = h
    BY <2>1 DEF StoresSound, StoreSound
  <2>3. p.id \in Host /\ p.name \in Name /\ p.iface \in Iface /\ p.det \in Details
    BY DEF DatagramSound, IsPacket
  <2>4. Hears(graph[h], gr, p.id)
    BY <2>1, <2>2, <2>3, AddOrUpdateHears
  <2>5. graph' = [graph EXCEPT ![h] = gr] /\ up' = up
    BY <1>2 DEF Receive
  <2>6. p.id \in HeardOf(h)
    BY DEF HeardOf
  <2> HIDE DEF gr, p
  <2>7. graph'[h] = gr /\ \A x \in Host \ {h} : graph'[x] = graph[x]
    BY <1>0, <2>1, <2>5
  <2>8. StoreStep(graph[h], graph'[h], HeardOf(h))
    BY <2>1, <2>2, <2>3, <2>4, <2>7, <2>6 DEF StoreStep
  <2>9. \A x \in Host \ {h} : StoreStep(graph[x], graph'[x], HeardOf(x))
    BY <2>7 DEF StoreStep
  <2> QED
    BY <2>5, <2>8, <2>9 DEF DaemonStep
<1>3. ASSUME NEW h \in Host, ReceiveNeighbor(h)
      PROVE  \A x \in Host : DaemonStep(x)
  <2> DEFINE from == handling[h].from
  <2>1. PICK nb \in handling[h].rest : graph' = [graph EXCEPT ![h] = HandleNeighbor(graph[h], nb, from)]
    BY <1>3 DEF ReceiveNeighbor
  <2> DEFINE gr == HandleNeighbor(graph[h], nb, from)
  <2>2. up' = up
    BY <1>3 DEF ReceiveNeighbor
  <2>3. IsGraph(graph[h])
    BY DEF StoresSound, StoreSound
  <2>4. from \in Host /\ nb \in NeighborInfo /\ nb.id # from /\ nb.id \in Host
    BY <2>1 DEF HandlersSound, HandlingSound, NeighborInfo
  <2>5. StoreStep(graph[h], gr, HeardOf(h))
    <3>1. CASE nb.id = graph[h].local
      BY <3>1 DEF HandleNeighbor, StoreStep
    <3>2. CASE nb.id # graph[h].local
      <4>1. gr = AddOrUpdateIndirectEdge(graph[h], nb, from)
        BY <3>2 DEF HandleNeighbor
      <4> HIDE DEF gr, from
      <4>2. Hears(graph[h], gr, nb.id)
        BY <2>3, <2>4, <4>1, AddOrUpdateIndirectEdgeHears
      <4> QED
        BY <2>1, <2>4, <3>2, <4>2 DEF StoreStep, HeardOf
    <3> QED
      BY <3>1, <3>2
  <2>6. graph' = [graph EXCEPT ![h] = gr]
    BY <2>1
  <2> HIDE DEF from, gr
  <2>7. graph'[h] = gr /\ \A x \in Host \ {h} : graph'[x] = graph[x]
    BY <1>0, <2>6
  <2>8. \A x \in Host \ {h} : StoreStep(graph[x], graph'[x], HeardOf(x))
    BY <2>7 DEF StoreStep
  <2> QED
    BY <2>2, <2>5, <2>7, <2>8 DEF DaemonStep
<1>4. ASSUME NEW h \in Host, ExpireTick(h)
      PROVE  \A x \in Host : DaemonStep(x)
  <2>1. graph' = [graph EXCEPT ![h] = RemoveExpired(graph[h])] /\ up' = up
    BY <1>4 DEF ExpireTick
  <2>2. graph'[h] = RemoveExpired(graph[h]) /\ \A x \in Host \ {h} : graph'[x] = graph[x]
    BY <1>0, <2>1
  <2> QED
    BY <2>1, <2>2 DEF DaemonStep, StoreStep
<1>5. ASSUME NEW h \in Host, Crash(h)
      PROVE  \A x \in Host : DaemonStep(x)
  <2>1. up' = [up EXCEPT ![h] = FALSE] /\ graph' = [graph EXCEPT ![h] = NewGraph] /\ up[h]
    BY <1>5 DEF Crash
  <2>2. up'[h] # up[h] /\ graph'[h] = NewGraph
    BY <1>0, <2>1
  <2>3. \A x \in Host \ {h} : up'[x] = up[x] /\ graph'[x] = graph[x]
    BY <1>0, <2>1
  <2> QED
    BY <2>2, <2>3 DEF DaemonStep, StoreStep
<1>6. ASSUME NEW h \in Host, Start(h)
      PROVE  \A x \in Host : DaemonStep(x)
  <2>1. up' = [up EXCEPT ![h] = TRUE] /\ graph' = [graph EXCEPT ![h] = StartGraph(h)] /\ ~up[h]
    BY <1>6 DEF Start
  <2>2. up'[h] # up[h] /\ graph'[h] = StartGraph(h)
    BY <1>0, <2>1
  <2>3. \A x \in Host \ {h} : up'[x] = up[x] /\ graph'[x] = graph[x]
    BY <1>0, <2>1
  <2> QED
    BY <2>2, <2>3 DEF DaemonStep, StoreStep
<1>7. CASE Tick
  BY <1>7 DEF Tick, DaemonStep, StoreStep
<1>8. ASSUME NEW m \in net, Drop(m)
      PROVE  \A x \in Host : DaemonStep(x)
  BY <1>8 DEF Drop, DaemonStep, StoreStep
<1>9. CASE UNCHANGED vars
  BY <1>9 DEF vars, DaemonStep, StoreStep
<1> QED
  BY <1>1, <1>2, <1>3, <1>4, <1>5, <1>6, <1>7, <1>8, <1>9 DEF Next

(* Each of these is a step of Membership, or nothing Membership speaks of. *)
LEMMA MemberStep ==
    ASSUME NEW h \in Host, IsGraph(graph[h]), WellFormed(graph[h]), IsGraph(graph'[h]),
           NEW heard, StoreStep(graph[h], graph'[h], heard)
    PROVE  [Member(h)!Next]_(Member(h)!vars)
<1> DEFINE silent(gr) == {x \in DOMAIN gr.nodes : gr.nodes[x].age > Timeout}
           gr == graph[h]
           gr2 == graph'[h]
<1>1. ASSUME NEW x \in Host, x # gr.local, Hears(gr, gr2, x)
      PROVE  Member(h)!Hear(x)
  <2>1. DOMAIN gr2.nodes = DOMAIN gr.nodes \cup {x}
    BY <1>1 DEF Hears
  <2>2. silent(gr2) = silent(gr) \ {x}
    BY <1>1, TimeoutAssumption DEF Hears
  <2>3. DOMAIN gr2.nodes # DOMAIN gr.nodes \/ DOMAIN gr2.edges # DOMAIN gr.edges => gr2.changed
    BY <1>1, SameShape DEF Hears
  <2>4. \/ DOMAIN gr2.edges = DOMAIN gr.edges
        \/ \E l \in EdgeKey :
               /\ l.dst = x
               /\ l.src \in (DOMAIN gr.nodes \cup {gr.local}) \ {x}
               /\ DOMAIN gr2.edges = DOMAIN gr.edges \cup {l}
    BY <1>1 DEF Hears
  <2>5. gr2.local = gr.local /\ (gr.changed => gr2.changed) /\ gr2.changed \in BOOLEAN
    BY <1>1 DEF Hears, IsGraph
  <2> QED
    BY <1>1, <2>1, <2>2, <2>3, <2>4, <2>5 DEF Member!Hear
<1>2. CASE gr2 = RemoveExpired(gr)
  <2> DEFINE dead == Expired(gr)
  <2>1. /\ gr2.local = gr.local
        /\ DOMAIN gr2.nodes = DOMAIN gr.nodes \ dead
        /\ \A x \in DOMAIN gr2.nodes : gr2.nodes[x] = gr.nodes[x]
        /\ DOMAIN gr2.edges = {k \in DOMAIN gr.edges : k.src \notin dead /\ k.dst \notin dead}
        /\ gr2.changed = (gr.changed \/ dead # {})
    BY <1>2, RemoveExpiredForgets
  <2>2. silent(gr) = dead
    BY DEF Expired
  <2>3. silent(gr2) = {}
    BY <2>1, <2>2
  <2> QED
    BY <2>1, <2>2, <2>3 DEF Member!Forget, Member!Next
<1>3. CASE gr2 = AgeNodes(gr)
  <2>1. /\ gr2.local = gr.local
        /\ DOMAIN gr2.nodes = DOMAIN gr.nodes
        /\ \A x \in DOMAIN gr.nodes : gr.nodes[x].age > Timeout => gr2.nodes[x].age > Timeout
        /\ gr2.edges = gr.edges
        /\ gr2.changed = gr.changed
    BY <1>3, AgeNodesShows
  <2>2. silent(gr) \subseteq silent(gr2) /\ silent(gr2) \subseteq DOMAIN gr.nodes
    BY <2>1
  <2> QED
    BY <2>1, <2>2 DEF Member!FallSilent, Member!Next
<1>4. CASE gr2 = gr
  BY <1>4 DEF Member!vars
<1> QED
  BY <1>1, <1>2, <1>3, <1>4 DEF StoreStep, Member!Next

(* In every run of every network every daemon's store implements           *)
(* Membership from one start of the daemon to its next crash, whatever the *)
(* network does to the datagrams and whichever other daemons crash.        *)
THEOREM DaemonsAlwaysImplementMembership == Spec => DaemonsImplementMembership
<1>1. Init => \A h \in Host : Member(h)!Init
  <2> SUFFICES ASSUME Init, NEW h \in Host PROVE Member(h)!Init
    OBVIOUS
  <2>1. /\ IsGraph(graph[h]) /\ graph[h].local = h
        /\ DOMAIN graph[h].nodes = {} /\ DOMAIN graph[h].edges = {}
    BY StartGraphStep DEF Init
  <2> QED
    BY <2>1 DEF Member!Init, IsGraph
<1>2. NInv /\ [Next]_vars =>
        [\A h \in Host :
           IF up'[h] = up[h] THEN [Member(h)!Next]_(Member(h)!vars) ELSE (Member(h)!Init)']_vars
  <2> SUFFICES ASSUME NInv, [Next]_vars, NEW h \in Host
               PROVE  IF up'[h] = up[h] THEN [Member(h)!Next]_(Member(h)!vars) ELSE (Member(h)!Init)'
    OBVIOUS
  <2>1. IsGraph(graph[h]) /\ WellFormed(graph[h])
    BY DEF NInv, StoresSound, StoreSound
  <2>2. IsGraph(graph'[h])
    BY NetworkNext DEF NInv, StoresSound, StoreSound
  <2>3. DaemonStep(h)
    BY DaemonEffect
  <2>4. CASE up'[h] = up[h]
    BY <2>1, <2>2, <2>3, <2>4, MemberStep DEF DaemonStep
  <2>5. CASE up'[h] # up[h]
    <3> DEFINE gr2 == graph'[h]
    <3>1. gr2 = NewGraph \/ gr2 = StartGraph(h)
      BY <2>3, <2>5 DEF DaemonStep
    <3> HIDE DEF gr2
    <3>2. gr2.local \in Host \cup {NoHost} /\ DOMAIN gr2.nodes = {} /\ DOMAIN gr2.edges = {}
      BY <3>1, NewGraphStep, StartGraphStep
    <3> QED
      BY <2>2, <2>5, <3>2 DEF gr2, Member!Init, IsGraph
  <2> QED
    BY <2>4, <2>5
<1> QED
  BY <1>1, <1>2, NetworkInvariance, PTL DEF Spec, DaemonsImplementMembership

-----------------------------------------------------------------------------
(* How a host that is down is forgotten.                                   *)

(* A store that does not see the host again.                               *)
Kept(gr, gr2, x) ==
    x \in DOMAIN gr2.nodes => x \in DOMAIN gr.nodes /\ gr2.nodes[x].age >= gr.nodes[x].age

(* A daemon that cannot hear of a host, from the host itself or from a     *)
(* report, does not: whatever else it hears of, forgets or starts with.    *)
LEMMA NotHeard ==
    ASSUME NInv, [Next]_vars, NEW h \in Host, NEW x, x \notin HeardOf(h)
    PROVE  NotFresher(h, x)
<1> DEFINE gr == graph[h]
           gr2 == graph'[h]
<1>1. IsGraph(gr) /\ WellFormed(gr)
  BY DEF NInv, StoresSound, StoreSound
<1>2. \A y \in DOMAIN gr.nodes : gr.nodes[y].age \in Nat
  BY <1>1, NodeFields, TimeoutAssumption DEF Node, Ages
<1>3. DaemonStep(h)
  BY DaemonEffect
<1>4. Kept(gr, gr2, x)
  <2>1. CASE up'[h] # up[h]
    <3>1. gr2 = NewGraph \/ gr2 = StartGraph(h)
      BY <1>3, <2>1 DEF DaemonStep
    <3>2. DOMAIN gr2.nodes = {}
      BY <3>1, NewGraphStep, StartGraphStep
    <3> QED
      BY <3>2 DEF Kept
  <2>2. CASE up'[h] = up[h]
    <3>1. StoreStep(gr, gr2, HeardOf(h))
      BY <1>3, <2>2 DEF DaemonStep
    <3> HIDE DEF gr, gr2
    <3>2. ASSUME NEW y \in Host \cap HeardOf(h), Hears(gr, gr2, y)
          PROVE  Kept(gr, gr2, x)
      <4>1. DOMAIN gr2.nodes = DOMAIN gr.nodes \cup {y}
        BY <3>2 DEF Hears
      <4>2. \A z \in DOMAIN gr.nodes \ {y} : gr2.nodes[z].age = gr.nodes[z].age
        BY <3>2 DEF Hears
      <4>3. x # y
        OBVIOUS
      <4> QED
        BY <1>2, <4>1, <4>2, <4>3 DEF Kept
    <3>3. CASE gr2 = RemoveExpired(gr)
      <4>1. /\ DOMAIN gr2.nodes = DOMAIN gr.nodes \ Expired(gr)
            /\ \A y \in DOMAIN gr2.nodes : gr2.nodes[y] = gr.nodes[y]
        BY <1>1, <3>3, RemoveExpiredForgets
      <4> QED
        BY <1>2, <4>1 DEF Kept
    <3>4. CASE gr2 = AgeNodes(gr)
      <4>1. /\ DOMAIN gr2.nodes = DOMAIN gr.nodes
            /\ \A y \in DOMAIN gr.nodes : gr2.nodes[y].age >= gr.nodes[y].age
        BY <1>1, <3>4, AgeNodesShows
      <4> QED
        BY <4>1 DEF Kept
    <3>5. CASE gr2 = gr
      BY <1>2, <3>5 DEF Kept
    <3> QED
      BY <3>1, <3>2, <3>3, <3>4, <3>5 DEF StoreStep
  <2> QED
    BY <2>1, <2>2
<1> QED
  BY <1>4 DEF Kept, NotFresher

(* Every run of every network: when a host is silenced and no two of its   *)
(* gossiping neighbours hear each other, its neighbours do not see it      *)
(* again. A report of it would have come from another gossiping neighbour. *)
THEOREM NeighborsAlwaysLoseDownHosts == Spec => NeighborsLoseDownHosts
<1>1. ASSUME NInv, LInv, KInv, [Next]_vars, NEW x \in Host, NEW h \in Host \ {x},
             Silenced(x), Unechoed(x), Adjacent(h, x)
      PROVE  NotFresher(h, x)
  <2>1. \A m \in net : m.pkt.id # x
    BY <1>1 DEF Silenced
  <2>2. ASSUME NEW nb \in handling[h].rest, nb.id = x
        PROVE  FALSE
    <3> DEFINE from == handling[h].from
    <3>1. from \in Host \ {h, x}
      BY <1>1, <2>2 DEF NInv, HandlersSound, HandlingSound
    <3>2. h \in Gossips /\ from \in Gossips /\ Adjacent(h, from)
      BY <1>1 DEF KInv
    <3>3. Adjacent(from, x)
      BY <1>1, <2>2, JoinedAdjacent DEF LInv, TrueReport, TrueNeighbor, LinkKeys
    <3> HIDE DEF from
    <3> QED
      BY <1>1, <3>1, <3>2, <3>3 DEF Unechoed
  <2>3. x \notin HeardOf(h)
    BY <2>1, <2>2 DEF HeardOf
  <2> QED
    BY <1>1, <2>3, NotHeard
<1>2. NInv /\ LInv /\ KInv /\ [Next]_vars =>
        [\A x \in Host : \A h \in Host \ {x} :
           Silenced(x) /\ Unechoed(x) /\ Adjacent(h, x) => NotFresher(h, x)]_vars
  BY <1>1
<1> QED
  BY <1>2, KnowledgeInit, KnowledgeNext, LinksInit, LinksNext, NetworkInvariance, PTL
     DEF Spec, NeighborsLoseDownHosts

(* A daemon reports its neighbours that are in its store, so a host that   *)
(* none of its neighbours knows is reported by nobody.                     *)
LEMMA ReportsNeighbors ==
    ASSUME NInv, LInv, NEW h \in Host, up[h], NEW nb \in GetDirectNeighbors(graph[h])
    PROVE  Adjacent(h, nb.id) /\ nb.id \in DOMAIN graph[h].nodes
<1>1. PICK k \in DirectEdges(graph[h]) : nb = ReportEdge(graph[h], k)
  BY DEF GetDirectNeighbors
<1>2. k \in DOMAIN graph[h].edges /\ k.src = graph[h].local /\ k.dst \in DOMAIN graph[h].nodes
  BY DEF DirectEdges
<1>3. graph[h].local = h
  BY DEF NInv, StoresSound, StoreSound
<1>4. nb.id = k.dst
  BY <1>1 DEF ReportEdge
<1>5. Joined(k.src, k.lif, k.dst, k.rif)
  BY <1>2 DEF LInv, TrueGraph, TrueStore, TrueEdge, LinkKeys
<1>6. Adjacent(h, k.dst)
  BY <1>2, <1>3, <1>5, JoinedAdjacent
<1> QED
  BY <1>2, <1>4, <1>6

(* No datagram is about a host, as its sender or as a reported neighbour.  *)
Unmentioned(x, packets) == \A m \in packets : m.pkt.id # x /\ \A nb \in m.pkt.nbrs : nb.id # x

(* No handler is at work on a report of a host.                            *)
Unreported(x, handlers) == \A h \in Host : \A nb \in handlers[h].rest : nb.id # x

(* A host that is down and untold stays unmentioned until it starts.       *)
LEMMA UntoldStep ==
    ASSUME NInv, LInv, [Next]_vars, NEW x \in Host, Untold(x), ~up'[x]
    PROVE  Unmentioned(x, net') /\ Unreported(x, handling')
<1> USE DEF NInv
<1>0. ~up[x] /\ Unmentioned(x, net) /\ Unreported(x, handling)
  BY DEF Untold, Silenced, Unmentioned, Unreported
<1>1. ASSUME NEW h, NEW i, NEW link, Send(h, i, link)
      PROVE  Unmentioned(x, net') /\ Unreported(x, handling')
  <2> DEFINE p == MakePacket(h, i)
             m == [link |-> link, pkt |-> p, old |-> FALSE]
  <2>1. h \in Host /\ up[h]
    BY <1>1, AttachedAssumption DEF Send
  <2>2. net' = net \cup {m} /\ handling' = handling
    BY <1>1 DEF Send
  <2>3. p.id # x
    BY <1>0, <2>1 DEF MakePacket
  <2>4. \A nb \in p.nbrs : nb.id # x
    <3>1. \A nb \in p.nbrs : nb \in GetDirectNeighbors(graph[h])
      BY DEF MakePacket
    <3>2. \A nb \in p.nbrs : Adjacent(h, nb.id) /\ nb.id \in DOMAIN graph[h].nodes
      BY <2>1, <3>1, ReportsNeighbors
    <3> QED
      BY <2>1, <3>2 DEF Untold
  <2> HIDE DEF p
  <2> QED
    BY <1>0, <2>2, <2>3, <2>4 DEF Unmentioned
<1>2. ASSUME NEW h, NEW i, NEW m \in net, Receive(h, i, m)
      PROVE  Unmentioned(x, net') /\ Unreported(x, handling')
  <2> DEFINE rest == IF h \in Gossips THEN m.pkt.nbrs ELSE {}
  <2>1. h \in Host
    BY <1>2, AttachedAssumption DEF Receive
  <2>2. handling' = [handling EXCEPT ![h] = Continue(m.pkt.id, rest)] /\ net' = net
    BY <1>2 DEF Receive
  <2>3. \A nb \in rest : nb.id # x
    BY <1>0 DEF Unmentioned
  <2> HIDE DEF rest
  <2>4. \A nb \in Continue(m.pkt.id, rest).rest : nb.id # x
    BY <2>3 DEF Continue, NoPacket
  <2>5. Unreported(x, handling')
    BY <1>0, <2>1, <2>2, <2>4 DEF Unreported, HandlersSound
  <2> QED
    BY <1>0, <2>2, <2>5
<1>3. ASSUME NEW h \in Host, ReceiveNeighbor(h)
      PROVE  Unmentioned(x, net') /\ Unreported(x, handling')
  <2>1. PICK nb \in handling[h].rest :
           handling' = [handling EXCEPT ![h] = Continue(handling[h].from, handling[h].rest \ {nb})]
    BY <1>3 DEF ReceiveNeighbor
  <2>2. net' = net
    BY <1>3 DEF ReceiveNeighbor
  <2> DEFINE rest == handling[h].rest \ {nb}
  <2>3. \A y \in rest : y.id # x
    BY <1>0 DEF Unreported
  <2>4. handling' = [handling EXCEPT ![h] = Continue(handling[h].from, rest)]
    BY <2>1
  <2> HIDE DEF rest
  <2>5. \A y \in Continue(handling[h].from, rest).rest : y.id # x
    BY <2>3 DEF Continue, NoPacket
  <2>6. Unreported(x, handling')
    BY <1>0, <2>4, <2>5 DEF Unreported, HandlersSound
  <2> QED
    BY <1>0, <2>2, <2>6
<1>4. ASSUME NEW h \in Host, Crash(h)
      PROVE  Unmentioned(x, net') /\ Unreported(x, handling')
  <2>1. handling' = [handling EXCEPT ![h] = NoPacket] /\ net' = net
    BY <1>4 DEF Crash
  <2>2. NoPacket.rest = {}
    BY DEF NoPacket
  <2> HIDE DEF NInv
  <2>3. DOMAIN handling = Host
    BY DEF NInv, HandlersSound
  <2>4. Unreported(x, handling')
    BY <1>0, <2>1, <2>2, <2>3 DEF Unreported
  <2> QED
    BY <1>0, <2>1, <2>4
<1>5. CASE Tick
  <2>1. handling' = handling /\ net' = {[m EXCEPT !.old = TRUE] : m \in {y \in net : ~y.old}}
    BY <1>5 DEF Tick
  <2>2. ASSUME NEW y \in net' PROVE y.pkt.id # x /\ \A nb \in y.pkt.nbrs : nb.id # x
    <3>1. PICK m \in net : y = [m EXCEPT !.old = TRUE]
      BY <2>1
    <3>2. y.pkt = m.pkt
      BY <3>1 DEF DatagramSound
    <3> QED
      BY <1>0, <3>2 DEF Unmentioned
  <2> QED
    BY <1>0, <2>1, <2>2 DEF Unmentioned
<1>6. ASSUME NEW h \in Host, ExpireTick(h) \/ Start(h)
      PROVE  Unmentioned(x, net') /\ Unreported(x, handling')
  BY <1>0, <1>6 DEF ExpireTick, Start
<1>7. ASSUME NEW m \in net, Drop(m)
      PROVE  Unmentioned(x, net') /\ Unreported(x, handling')
  BY <1>0, <1>7 DEF Drop, Unmentioned
<1>8. CASE UNCHANGED vars
  BY <1>0, <1>8 DEF vars
<1> QED
  BY <1>1, <1>2, <1>3, <1>4, <1>5, <1>6, <1>7, <1>8 DEF Next

(* Every run of every network: once the neighbours of a host that is down  *)
(* have forgotten it and no report of it is under way, nobody sees it      *)
(* again before it starts, however far away, and none of them tells.       *)
THEOREM UntoldHostsAlwaysStayUntold == Spec => UntoldHostsStayUntold
<1>1. ASSUME NInv, LInv, [Next]_vars, NEW x \in Host, Untold(x)
      PROVE  (up'[x] \/ Untold(x)') /\ \A h \in Host : NotFresher(h, x)
  <2>1. \A h \in Host : x \notin HeardOf(h)
    BY <1>1 DEF Untold, Silenced, HeardOf
  <2>2. \A h \in Host : NotFresher(h, x)
    BY <1>1, <2>1, NotHeard
  <2>3. ASSUME ~up'[x] PROVE Untold(x)'
    <3>1. Unmentioned(x, net') /\ Unreported(x, handling')
      BY <1>1, <2>3, UntoldStep
    <3>2. \A h \in Host : Adjacent(h, x) => x \notin DOMAIN graph'[h].nodes
      BY <1>1, <2>2 DEF Untold, NotFresher
    <3> QED
      BY <2>3, <3>1, <3>2 DEF Untold, Silenced, Unmentioned, Unreported, Adjacent
  <2> QED
    BY <2>2, <2>3
<1>2. NInv /\ LInv /\ [Next]_vars =>
        [\A x \in Host : Untold(x) =>
           (up'[x] \/ Untold(x)') /\ \A h \in Host : NotFresher(h, x)]_vars
  BY <1>1
<1> QED
  BY <1>2, LinksInit, LinksNext, NetworkInvariance, PTL DEF Spec, UntoldHostsStayUntold

(* Every run of every network: a host that is down is lost sight of, first *)
(* by its neighbours and then by all.                                      *)
THEOREM DownHostsAlwaysFade == Spec => DownHostsFade
BY NeighborsAlwaysLoseDownHosts, UntoldHostsAlwaysStayUntold DEF DownHostsFade
=============================================================================
