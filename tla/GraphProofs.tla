---------------------------- MODULE GraphProofs -----------------------------
(***************************************************************************)
(* The safety invariants of Graph, for every set of hosts, interfaces and  *)
(* details and every timeout.                                              *)
(***************************************************************************)
EXTENDS Graph, GraphOpsProofs

(* The invariants of Graph are inductive together with two facts about the *)
(* callers: the local node, once set, is Self, and the packet in the       *)
(* receive handler is never one of the local host.                         *)
IInv ==
    /\ TypeOK
    /\ g.local \in {NoHost, Self}
    /\ handling # Self
    /\ WellFormed(g)

(* A store that starts out is well typed, well formed and empty.           *)
LEMMA InitIInv == Init => IInv /\ DOMAIN g.nodes = {} /\ DOMAIN g.edges = {}
<1> SUFFICES ASSUME Init PROVE IInv /\ DOMAIN g.nodes = {} /\ DOMAIN g.edges = {}
  OBVIOUS
<1> USE NoHostAssumption, SelfAssumption, LocalIfacesAssumption
<1>1. EmptyMap \in Ifaces
  BY EmptyMapType, PartialMapEquiv DEF Ifaces
<1>2. /\ IsGraph(NewGraph)
      /\ NewGraph.local = NoHost
      /\ DOMAIN NewGraph.nodes = {}
      /\ DOMAIN NewGraph.edges = {}
  <2>1. IsPartialMap(EmptyMap, Host, Node) /\ IsPartialMap(EmptyMap, EdgeKey, Edge) /\ DOMAIN EmptyMap = {}
    BY EmptyMapType
  <2>2. NewGraph = [nodes |-> EmptyMap, local |-> NoHost, localIfaces |-> EmptyMap,
                    edges |-> EmptyMap, changed |-> FALSE]
    BY DEF NewGraph
  <2> QED
    BY <1>1, <2>1, <2>2 DEF IsGraph
<1> DEFINE flag == TRUE
           started == SetLocalNode(NewGraph, Self, LocalIfaces)
<1> flag \in BOOLEAN
  OBVIOUS
<1> started = [NewGraph EXCEPT !.local = Self, !.localIfaces = LocalIfaces, !.changed = flag]
  BY Zenon DEF SetLocalNode
<1> HIDE DEF flag, started
<1>3. /\ started.nodes = NewGraph.nodes
      /\ started.local = Self
      /\ started.localIfaces = LocalIfaces
      /\ started.edges = NewGraph.edges
      /\ started.changed = flag
      /\ started = [nodes |-> started.nodes, local |-> started.local, localIfaces |-> started.localIfaces,
                    edges |-> started.edges, changed |-> started.changed]
  BY <1>2 DEF IsGraph
<1>4. /\ IsGraph(started)
      /\ started.local = Self
      /\ DOMAIN started.nodes = {}
      /\ DOMAIN started.edges = {}
  BY <1>2, <1>3 DEF IsGraph
<1>5. g \in {NewGraph, started} /\ handling = NoHost
  BY DEF Init, started
<1>6. IsGraph(g) /\ g.local \in {NoHost, Self} /\ DOMAIN g.nodes = {} /\ DOMAIN g.edges = {}
  BY <1>2, <1>4, <1>5
<1>7. WellFormed(g)
  BY <1>6 DEF WellFormed, EndpointsKnown, ProvenanceKnown, IfacesKnown, SelfNotDiscovered
<1> QED
  BY <1>5, <1>6, <1>7 DEF IInv, TypeOK

(* Every step of the receiver, the exporter's goroutine and the clock      *)
(* keeps the invariant, in whatever order the steps come.                  *)
LEMMA NextIInv == IInv /\ [Next]_vars => IInv'
<1> SUFFICES ASSUME IInv, [Next]_vars PROVE IInv'
  OBVIOUS
<1> USE NoHostAssumption, SelfAssumption, IfaceNamesAssumption
<1>1. IsGraph(g) /\ handling \in Host \cup {NoHost} /\ g.local \in {NoHost, Self}
      /\ handling # Self /\ WellFormed(g)
  BY DEF IInv, TypeOK
<1>2. ASSUME NEW id \in Host, NEW name \in Name, NEW rif \in PeerIface, NEW rdet \in Details,
             NEW lif \in RecvIface, ReceivePacket(id, name, rif, rdet, lif)
      PROVE  IInv'
  <2>1. id # Self /\ id # g.local /\ rif \in Iface /\ lif \in Iface
    BY <1>1, <1>2 DEF ReceivePacket
  <2> DEFINE new == AddOrUpdate(g, id, name, rif, rdet, lif, TRUE, NoHost)
  <2>2. g' = new /\ handling' \in {NoHost, id}
    BY <1>2 DEF ReceivePacket
  <2>3. IsGraph(new) /\ new.local = g.local /\ WellFormed(new)
    BY <1>1, <2>1, AddOrUpdateStep, ZenonT(30)
  <2> HIDE DEF new
  <2> QED
    BY <1>1, <2>1, <2>2, <2>3 DEF IInv, TypeOK
<1>3. ASSUME NEW id \in Host, NEW name \in Name, NEW lif \in RecvIface, NEW ldet \in Details,
             NEW rif \in PeerIface, NEW rdet \in Details,
             ReceiveNeighbor([id |-> id, name |-> name, lif |-> lif, ldet |-> ldet, rif |-> rif, rdet |-> rdet])
      PROVE  IInv'
  <2> DEFINE nb == [id |-> id, name |-> name, lif |-> lif, ldet |-> ldet, rif |-> rif, rdet |-> rdet]
  <2>1. nb \in NeighborInfo
    BY DEF NeighborInfo
  <2> HIDE DEF nb
  <2>2. /\ handling \in Host
        /\ handling # g.local
        /\ nb.id # handling
        /\ g' = HandleNeighbor(g, nb, handling)
        /\ handling' = handling
    BY <1>1, <1>3 DEF ReceiveNeighbor, nb
  <2>3. CASE nb.id = g.local
    BY <1>1, <2>2, <2>3 DEF HandleNeighbor, IInv, TypeOK
  <2>4. CASE nb.id # g.local
    <3>1. g' = AddOrUpdateIndirectEdge(g, nb, handling)
      BY <2>2, <2>4 DEF HandleNeighbor
    <3>2. IsGraph(g') /\ g'.local = g.local /\ WellFormed(g')
      BY <1>1, <2>1, <2>2, <2>4, <3>1, AddOrUpdateIndirectEdgeStep
    <3> QED
      BY <1>1, <2>2, <3>2 DEF IInv, TypeOK
  <2> QED
    BY <2>3, <2>4
<1>4. CASE FinishPacket
  BY <1>1, <1>4 DEF FinishPacket, IInv, TypeOK
<1>5. CASE ExpireTick
  BY <1>1, <1>5, RemoveExpiredStep DEF ExpireTick, IInv, TypeOK
<1>6. CASE ExportDone
  BY <1>1, <1>6, ClearChangesStep DEF ExportDone, IInv, TypeOK
<1>7. CASE Tick
  BY <1>1, <1>7, AgeNodesStep DEF Tick, IInv, TypeOK
<1>8. CASE UNCHANGED vars
  BY <1>1, <1>8 DEF vars, IInv, TypeOK
<1> QED
  BY <1>2, <1>3, <1>4, <1>5, <1>6, <1>7, <1>8 DEF Next, ReceiverStep

(* The invariant holds in every state of every behaviour.                  *)
THEOREM Invariance == Spec => []IInv
<1>1. Init => IInv
  BY InitIInv
<1> QED
  BY <1>1, NextIInv, PTL DEF Spec

(* The store of a daemon is always well typed: every method call of        *)
(* internal/graph/graph.go leaves maps from known hosts, edges between     *)
(* known hosts and ages within the timeout.                                *)
THEOREM TypeCorrect == Spec => []TypeOK
<1>1. IInv => TypeOK
  BY DEF IInv
<1> QED
  BY <1>1, Invariance, PTL

(* Whatever packets arrive and however the expiry interleaves with the     *)
(* receive handler, both ends of every edge are in the store and list the  *)
(* interface the edge joins, also after they expired and came back.        *)
THEOREM EdgeEndsAlwaysKnown == Spec => []EdgeEndsKnown
<1>1. IInv => EdgeEndsKnown
  BY DEF IInv, WellFormed, EdgeEndsKnown
<1> QED
  BY <1>1, Invariance, PTL

(* No edge outlives the host it was learned from: the cascade of           *)
(* RemoveExpired is complete.                                              *)
THEOREM EdgeProvenanceAlwaysKnown == Spec => []EdgeProvenanceKnown
<1>1. IInv => EdgeProvenanceKnown
  BY DEF IInv, WellFormed, EdgeProvenanceKnown
<1> QED
  BY <1>1, Invariance, PTL

(* The local host is never discovered, whoever reports it.                 *)
THEOREM LocalNeverDiscovered == Spec => []LocalNotDiscovered
<1>1. IInv => LocalNotDiscovered
  BY DEF IInv, WellFormed, LocalNotDiscovered
<1> QED
  BY <1>1, Invariance, PTL

-----------------------------------------------------------------------------
(* The steps of Graph, by what they mean to the hosts and their links.     *)
(* From them follow the action properties and the refinement of Membership.*)

(* The receiver goroutine does nothing to the store but hear of hosts.     *)
LEMMA ReceiverEffect ==
    ASSUME IInv, ReceiverStep
    PROVE  \/ \E h \in Host : h # g.local /\ Hears(g, g', h)
           \/ g' = g
<1>1. IsGraph(g) /\ handling \in Host \cup {NoHost} /\ g.local \in {NoHost, Self}
  BY DEF IInv, TypeOK
<1>2. ASSUME NEW id \in Host, NEW name \in Name, NEW rif \in PeerIface, NEW rdet \in Details,
             NEW lif \in RecvIface, ReceivePacket(id, name, rif, rdet, lif)
      PROVE  id # g.local /\ Hears(g, g', id)
  <2>1. id # g.local /\ rif \in Iface /\ lif \in Iface
    BY <1>1, <1>2, NoHostAssumption, IfaceNamesAssumption DEF ReceivePacket
  <2>2. g' = AddOrUpdate(g, id, name, rif, rdet, lif, TRUE, NoHost)
    BY <1>2 DEF ReceivePacket
  <2> QED
    BY <1>1, <2>1, <2>2, AddOrUpdateHears, ZenonT(30)
<1>3. ASSUME NEW id \in Host, NEW name \in Name, NEW lif \in RecvIface, NEW ldet \in Details,
             NEW rif \in PeerIface, NEW rdet \in Details,
             ReceiveNeighbor([id |-> id, name |-> name, lif |-> lif, ldet |-> ldet, rif |-> rif, rdet |-> rdet])
      PROVE  g' = g \/ (id # g.local /\ Hears(g, g', id))
  <2> DEFINE nb == [id |-> id, name |-> name, lif |-> lif, ldet |-> ldet, rif |-> rif, rdet |-> rdet]
  <2>1. nb \in NeighborInfo /\ nb.id = id
    BY IfaceNamesAssumption DEF NeighborInfo
  <2> HIDE DEF nb
  <2>2. handling \in Host /\ nb.id # handling /\ g' = HandleNeighbor(g, nb, handling)
    BY <1>1, <1>3 DEF ReceiveNeighbor, nb
  <2>3. CASE nb.id = g.local
    BY <2>2, <2>3 DEF HandleNeighbor
  <2>4. CASE nb.id # g.local
    <3>1. g' = AddOrUpdateIndirectEdge(g, nb, handling)
      BY <2>2, <2>4 DEF HandleNeighbor
    <3> QED
      BY <1>1, <2>1, <2>2, <2>4, <3>1, AddOrUpdateIndirectEdgeHears
  <2> QED
    BY <2>3, <2>4
<1>4. CASE FinishPacket
  BY <1>4 DEF FinishPacket
<1> QED
  BY <1>2, <1>3, <1>4 DEF ReceiverStep

(* The store after one step of one of the callers, by what it means to the *)
(* hosts and their links.                                                  *)
LEMMA StepEffect ==
    ASSUME IInv, [Next]_vars
    PROVE  \/ \E h \in Host : h # g.local /\ Hears(g, g', h)
           \/ g' = RemoveExpired(g)
           \/ g' = ClearChanges(g)
           \/ g' = AgeNodes(g)
           \/ g' = g
BY ReceiverEffect DEF Next, ExpireTick, ExportDone, Tick, vars

(* Every step of the store is a step of Membership, or changes nothing     *)
(* Membership speaks of.                                                   *)
LEMMA NextImplements == IInv /\ [Next]_vars => [Members!Next]_(Members!vars)
<1> SUFFICES ASSUME IInv, [Next]_vars PROVE [Members!Next]_(Members!vars)
  OBVIOUS
<1> DEFINE silent(gr) == {h \in DOMAIN gr.nodes : gr.nodes[h].age > Timeout}
<1>1. IsGraph(g) /\ WellFormed(g) /\ g.changed \in BOOLEAN
  BY DEF IInv, TypeOK, IsGraph
<1>2. IsGraph(g')
  BY NextIInv DEF IInv, TypeOK
<1>3. ASSUME NEW h \in Host, h # g.local, Hears(g, g', h)
      PROVE  Members!Hear(h)
  <2>1. DOMAIN g'.nodes = DOMAIN g.nodes \cup {h}
    BY <1>3 DEF Hears
  <2>2. silent(g') = silent(g) \ {h}
    BY <1>3, TimeoutAssumption DEF Hears
  <2>3. DOMAIN g'.nodes # DOMAIN g.nodes \/ DOMAIN g'.edges # DOMAIN g.edges => g'.changed
    BY <1>3, SameShape DEF Hears
  <2>4. \/ DOMAIN g'.edges = DOMAIN g.edges
        \/ \E l \in EdgeKey :
               /\ l.dst = h
               /\ l.src \in (DOMAIN g.nodes \cup {g.local}) \ {h}
               /\ DOMAIN g'.edges = DOMAIN g.edges \cup {l}
    BY <1>3 DEF Hears
  <2>5. g'.local = g.local /\ (g.changed => g'.changed) /\ g'.changed \in BOOLEAN
    BY <1>2, <1>3 DEF Hears, IsGraph
  <2> QED
    BY <1>3, <2>1, <2>2, <2>3, <2>4, <2>5 DEF Members!Hear
<1>4. CASE g' = RemoveExpired(g)
  <2> DEFINE dead == Expired(g)
  <2>1. /\ g'.local = g.local
        /\ DOMAIN g'.nodes = DOMAIN g.nodes \ dead
        /\ \A h \in DOMAIN g'.nodes : g'.nodes[h] = g.nodes[h]
        /\ DOMAIN g'.edges = {k \in DOMAIN g.edges : k.src \notin dead /\ k.dst \notin dead}
        /\ g'.changed = (g.changed \/ dead # {})
    BY <1>1, <1>4, RemoveExpiredForgets
  <2>2. silent(g) = dead
    BY DEF Expired
  <2>3. silent(g') = {}
    BY <2>1, <2>2
  <2> QED
    BY <2>1, <2>2, <2>3 DEF Members!Forget, Members!Next
<1>5. CASE g' = ClearChanges(g)
  <2>1. g'.local = g.local /\ g'.nodes = g.nodes /\ g'.edges = g.edges /\ g'.changed = FALSE
    BY <1>1, <1>5, ClearChangesShows
  <2> QED
    BY <2>1 DEF Members!Exported, Members!Next
<1>6. CASE g' = AgeNodes(g)
  <2>1. /\ g'.local = g.local
        /\ DOMAIN g'.nodes = DOMAIN g.nodes
        /\ \A h \in DOMAIN g.nodes : g.nodes[h].age > Timeout => g'.nodes[h].age > Timeout
        /\ g'.edges = g.edges
        /\ g'.changed = g.changed
    BY <1>1, <1>6, AgeNodesShows
  <2>2. silent(g) \subseteq silent(g') /\ silent(g') \subseteq DOMAIN g.nodes
    BY <2>1
  <2> QED
    BY <2>1, <2>2 DEF Members!FallSilent, Members!Next
<1>7. CASE g' = g
  BY <1>7 DEF Members!vars
<1> QED
  BY <1>3, <1>4, <1>5, <1>6, <1>7, StepEffect DEF Members!Next

(* The store implements its abstract specification, whatever packets       *)
(* arrive and however the expiry and the exporter interleave with the      *)
(* receive handler.                                                        *)
THEOREM StoreImplementsMembership == Spec => ImplementsMembership
<1>1. Init => Members!Init
  <2> SUFFICES ASSUME Init PROVE Members!Init
    OBVIOUS
  <2>1. IsGraph(g)
    BY InitIInv DEF IInv, TypeOK
  <2>2. DOMAIN g.nodes = {} /\ DOMAIN g.edges = {}
    BY InitIInv
  <2> QED
    BY <2>1, <2>2 DEF Members!Init, IsGraph
<1>2. IInv /\ [Next]_vars => [Members!Next]_(Members!vars)
  BY NextImplements
<1> QED
  BY <1>1, <1>2, Invariance, PTL DEF Spec, ImplementsMembership, Members!Spec

(* The callers add no hosts or links unseen: a step that is not flagged    *)
(* keeps the shape of the store, and in any step the edges that are        *)
(* overwritten repeat what the interface tables list then.                 *)
LEMMA StepShows ==
    ASSUME IInv, [Next]_vars
    PROVE  /\ ~g'.changed => Shape(g') = Shape(g)
           /\ Shape(g') = Shape(g) => EdgesAsListed(g, g')
           /\ g'.localIfaces = g.localIfaces
<1>1. IsGraph(g) /\ WellFormed(g)
  BY DEF IInv, TypeOK
<1> DEFINE Claim == /\ ~g'.changed => Shape(g') = Shape(g)
                    /\ Shape(g') = Shape(g) => EdgesAsListed(g, g')
                    /\ g'.localIfaces = g.localIfaces
<1>2. ASSUME NEW h \in Host, Hears(g, g', h) PROVE Claim
  BY <1>2 DEF Hears
<1>3. CASE g' = RemoveExpired(g)
  <2>1. /\ DOMAIN g'.nodes = DOMAIN g.nodes \ Expired(g)
        /\ g'.changed = (g.changed \/ Expired(g) # {})
        /\ g'.localIfaces = g.localIfaces
        /\ Expired(g) = {} => Shape(g') = Shape(g) /\ g'.edges = g.edges
    BY <1>1, <1>3, RemoveExpiredForgets
  <2>2. Expired(g) \subseteq DOMAIN g.nodes
    BY DEF Expired
  <2>3. Shape(g') = Shape(g) => DOMAIN g'.nodes = DOMAIN g.nodes
    BY SameShape
  <2>4. Shape(g') = Shape(g) => g'.edges = g.edges
    BY <2>1, <2>2, <2>3
  <2> QED
    BY <2>1, <2>4 DEF EdgesAsListed
<1>4. CASE g' = ClearChanges(g) \/ g' = AgeNodes(g) \/ g' = g
  <2>1. Shape(g') = Shape(g) /\ g'.edges = g.edges /\ g'.localIfaces = g.localIfaces
    BY <1>1, <1>4, ClearChangesShows, AgeNodesShows
  <2> QED
    BY <2>1 DEF EdgesAsListed
<1> QED
  BY <1>2, <1>3, <1>4, StepEffect

(* No step changes hosts, interface tables or links and leaves the store   *)
(* unflagged; an edge overwritten unflagged repeats addresses the tables   *)
(* list already.                                                           *)
THEOREM TopologyChangesAlwaysFlagged == Spec => TopologyChangesFlagged
<1>1. IInv /\ [Next]_vars => [~g'.changed => UpToDate(Topology(g), g')]_vars
  BY StepShows, TopologyUpToDate
<1> QED
  BY <1>1, Invariance, PTL DEF Spec, TopologyChangesFlagged

(* An edge disappears only with one of its ends or with the host that      *)
(* reported it.                                                            *)
THEOREM EdgesAlwaysGoWithTheirHosts == Spec => EdgesGoWithTheirHosts
<1> DEFINE Gone == \A k \in DOMAIN g.edges \ DOMAIN g'.edges :
                      {k.src, k.dst, g.edges[k].from} \cap (DOMAIN g.nodes \ DOMAIN g'.nodes) # {}
<1>1. IInv /\ [Next]_vars => [Gone]_vars
  <2> SUFFICES ASSUME IInv, [Next]_vars PROVE Gone
    OBVIOUS
  <2>1. IsGraph(g) /\ WellFormed(g)
    BY DEF IInv, TypeOK
  <2>2. ASSUME NEW h \in Host, Hears(g, g', h) PROVE Gone
    BY <2>2 DEF Hears
  <2>3. CASE g' = RemoveExpired(g)
    <3>1. /\ DOMAIN g'.nodes = DOMAIN g.nodes \ Expired(g)
          /\ DOMAIN g'.edges = {k \in DOMAIN g.edges : k.src \notin Expired(g) /\ k.dst \notin Expired(g)}
      BY <2>1, <2>3, RemoveExpiredForgets
    <3>2. Expired(g) \subseteq DOMAIN g.nodes
      BY DEF Expired
    <3> QED
      BY <3>1, <3>2
  <2>4. CASE g' = ClearChanges(g) \/ g' = AgeNodes(g) \/ g' = g
    BY <2>1, <2>4, ClearChangesShows, AgeNodesShows
  <2> QED
    BY <2>2, <2>3, <2>4, StepEffect
<1> QED
  BY <1>1, Invariance, PTL DEF Spec, EdgesGoWithTheirHosts
=============================================================================
