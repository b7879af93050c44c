--------------------------- MODULE GraphOpsProofs ---------------------------
(***************************************************************************)
(* Lemmas about the operators of GraphOps: each method of the store keeps  *)
(* its type (IsGraph), its well-formedness (WellFormed) and, called with   *)
(* what is true, its truth (TrueStore), whatever the hosts, the            *)
(* interfaces, the details and the timeout; and what each method does to   *)
(* the hosts and the links the store shows (Hears, RemoveExpiredForgets,   *)
(* AgeNodesShows), which is all that the abstract Membership speaks of.    *)
(***************************************************************************)
EXTENDS GraphOps, TLAPS

-----------------------------------------------------------------------------
(* Partial maps.                                                           *)

(* A map from a subset of S to T is a partial map, and the other way round.*)
LEMMA PartialMapEquiv ==
    ASSUME NEW S, NEW T, NEW f
    PROVE  f \in PartialMap(S, T) <=> IsPartialMap(f, S, T)
BY DEF PartialMap, IsPartialMap

(* Put stores one value and keeps the others.                              *)
LEMMA PutMap ==
    ASSUME NEW S, NEW T, NEW f, IsPartialMap(f, S, T), NEW k \in S, NEW v \in T
    PROVE  /\ IsPartialMap(Put(f, k, v), S, T)
           /\ DOMAIN Put(f, k, v) = DOMAIN f \cup {k}
           /\ Put(f, k, v)[k] = v
           /\ \A x \in DOMAIN f : x # k => Put(f, k, v)[x] = f[x]
BY DEF IsPartialMap, Put

(* Restrict to some of the keys keeps the values of these keys.            *)
LEMMA RestrictMap ==
    ASSUME NEW S, NEW T, NEW f, IsPartialMap(f, S, T), NEW D, D \subseteq DOMAIN f
    PROVE  /\ IsPartialMap(Restrict(f, D), S, T)
           /\ DOMAIN Restrict(f, D) = D
           /\ \A x \in D : Restrict(f, D)[x] = f[x]
BY DEF IsPartialMap, Restrict

(* The empty map.                                                          *)
LEMMA EmptyMapType ==
    ASSUME NEW S, NEW T
    PROVE  IsPartialMap(EmptyMap, S, T) /\ DOMAIN EmptyMap = {}
BY DEF IsPartialMap, EmptyMap

-----------------------------------------------------------------------------
(* The steps that touch the nodes only.                                    *)

(* A node entry of a well-typed store.                                     *)
LEMMA NodeFields ==
    ASSUME NEW gr, IsGraph(gr), NEW h \in DOMAIN gr.nodes
    PROVE  /\ gr.nodes[h] \in Node
           /\ h \in Host
           /\ IsPartialMap(gr.nodes[h].ifaces, Iface, Details)
<1>1. gr.nodes[h] \in Node /\ h \in Host
  BY DEF IsGraph, IsPartialMap
<1>2. gr.nodes[h].ifaces \in PartialMap(Iface, Details)
  BY <1>1 DEF Node, Ifaces
<1> QED
  BY <1>1, <1>2, PartialMapEquiv

(* What the steps on the nodes leave alone: the edges, the local node and  *)
(* the interfaces already known.                                           *)
KeepsKnown(gr, gr2) ==
    /\ gr2.local = gr.local
    /\ gr2.localIfaces = gr.localIfaces
    /\ gr2.edges = gr.edges
    /\ DOMAIN gr.nodes \subseteq DOMAIN gr2.nodes
    /\ \A h \in DOMAIN gr.nodes : DOMAIN gr.nodes[h].ifaces \subseteq DOMAIN gr2.nodes[h].ifaces

(* Steps that keep what is known compose.                                  *)
LEMMA KeepsKnownTransitive ==
    ASSUME NEW g1, NEW g2, NEW g3, KeepsKnown(g1, g2), KeepsKnown(g2, g3)
    PROVE  KeepsKnown(g1, g3)
BY DEF KeepsKnown

(* Replacing the entry of one host by one that knows the same interfaces   *)
(* or more.                                                                *)
LEMMA PutNode ==
    ASSUME NEW gr, IsGraph(gr), NEW id \in Host, NEW node \in Node, NEW ch \in BOOLEAN,
           id \in DOMAIN gr.nodes => DOMAIN gr.nodes[id].ifaces \subseteq DOMAIN node.ifaces
    PROVE  /\ IsGraph(SetNode(gr, id, node, ch))
           /\ KeepsKnown(gr, SetNode(gr, id, node, ch))
           /\ DOMAIN SetNode(gr, id, node, ch).nodes = DOMAIN gr.nodes \cup {id}
           /\ SetNode(gr, id, node, ch).nodes[id] = node
<1> DEFINE gr2 == SetNode(gr, id, node, ch)
<1>1. /\ gr2.nodes = Put(gr.nodes, id, node)
      /\ gr2.local = gr.local
      /\ gr2.localIfaces = gr.localIfaces
      /\ gr2.edges = gr.edges
      /\ gr2.changed = (gr.changed \/ ch)
      /\ gr2 = [nodes |-> gr2.nodes, local |-> gr2.local, localIfaces |-> gr2.localIfaces,
                edges |-> gr2.edges, changed |-> gr2.changed]
  <2> DEFINE nodes == Put(gr.nodes, id, node)
             changed == gr.changed \/ ch
  <2>1. gr2 = [gr EXCEPT !.nodes = nodes, !.changed = changed]
    BY Zenon DEF SetNode
  <2> HIDE DEF gr2, nodes, changed
  <2>2. /\ gr2.nodes = nodes
      /\ gr2.local = gr.local
      /\ gr2.localIfaces = gr.localIfaces
      /\ gr2.edges = gr.edges
      /\ gr2.changed = changed
      /\ gr2 = [nodes |-> gr2.nodes, local |-> gr2.local, localIfaces |-> gr2.localIfaces,
                edges |-> gr2.edges, changed |-> gr2.changed]
    BY <2>1 DEF IsGraph
  <2> QED BY Zenon, <2>2 DEF nodes, changed
<1>2. IsPartialMap(gr.nodes, Host, Node)
  BY DEF IsGraph
<1>3. /\ IsPartialMap(gr2.nodes, Host, Node)
      /\ DOMAIN gr2.nodes = DOMAIN gr.nodes \cup {id}
      /\ gr2.nodes[id] = node
      /\ \A x \in DOMAIN gr.nodes : x # id => gr2.nodes[x] = gr.nodes[x]
  BY <1>1, <1>2, PutMap
<1> HIDE DEF gr2
<1>4. IsGraph(gr2)
  BY <1>1, <1>3 DEF IsGraph
<1>5. KeepsKnown(gr, gr2)
  BY <1>1, <1>3 DEF KeepsKnown
<1> QED
  BY <1>3, <1>4, <1>5 DEF gr2

(* Creating a node keeps the type and everything known.                    *)
LEMMA EnsureNodeStep ==
    ASSUME NEW gr, IsGraph(gr), NEW id \in Host, NEW name \in Name
    PROVE  /\ IsGraph(EnsureNode(gr, id, name))
           /\ KeepsKnown(gr, EnsureNode(gr, id, name))
           /\ DOMAIN EnsureNode(gr, id, name).nodes = DOMAIN gr.nodes \cup {id}
<1>1. CASE id \in DOMAIN gr.nodes
  BY <1>1 DEF EnsureNode, KeepsKnown
<1>2. CASE id \notin DOMAIN gr.nodes
  <2> DEFINE node == [name |-> name, age |-> Timeout + 1, ifaces |-> EmptyMap]
  <2>1. node \in Node
    <3>1. EmptyMap \in Ifaces
      BY EmptyMapType, PartialMapEquiv DEF Ifaces
    <3>2. Timeout + 1 \in Ages
      BY TimeoutAssumption DEF Ages
    <3> QED
      BY <3>1, <3>2 DEF Node
  <2>2. EnsureNode(gr, id, name) = SetNode(gr, id, node, TRUE)
    BY <1>2 DEF EnsureNode
  <2> HIDE DEF node
  <2>3. /\ IsGraph(SetNode(gr, id, node, TRUE))
        /\ KeepsKnown(gr, SetNode(gr, id, node, TRUE))
        /\ DOMAIN SetNode(gr, id, node, TRUE).nodes = DOMAIN gr.nodes \cup {id}
    BY <1>2, <2>1, PutNode
  <2> QED
    BY <2>2, <2>3
<1> QED
  BY <1>1, <1>2

(* Renaming a node keeps the type and everything known.                    *)
LEMMA RenameStep ==
    ASSUME NEW gr, IsGraph(gr), NEW id \in DOMAIN gr.nodes, NEW name \in Name
    PROVE  /\ IsGraph(Rename(gr, id, name))
           /\ KeepsKnown(gr, Rename(gr, id, name))
           /\ DOMAIN Rename(gr, id, name).nodes = DOMAIN gr.nodes
<1>1. CASE gr.nodes[id].name = name
  BY <1>1 DEF Rename, KeepsKnown
<1>2. CASE gr.nodes[id].name # name
  <2> DEFINE node == [gr.nodes[id] EXCEPT !.name = name]
  <2>1. node \in Node /\ node.ifaces = gr.nodes[id].ifaces /\ id \in Host
    BY NodeFields DEF Node
  <2>2. Rename(gr, id, name) = SetNode(gr, id, node, TRUE)
    BY <1>2 DEF Rename
  <2> HIDE DEF node
  <2>3. /\ IsGraph(SetNode(gr, id, node, TRUE))
        /\ KeepsKnown(gr, SetNode(gr, id, node, TRUE))
        /\ DOMAIN SetNode(gr, id, node, TRUE).nodes = DOMAIN gr.nodes \cup {id}
    BY <2>1, PutNode
  <2> QED
    BY <2>2, <2>3
<1> QED
  BY <1>1, <1>2

(* Refreshing LastSeen keeps the type and everything known.                *)
LEMMA TouchStep ==
    ASSUME NEW gr, IsGraph(gr), NEW id \in DOMAIN gr.nodes
    PROVE  /\ IsGraph(Touch(gr, id))
           /\ KeepsKnown(gr, Touch(gr, id))
           /\ DOMAIN Touch(gr, id).nodes = DOMAIN gr.nodes
<1> DEFINE node == [gr.nodes[id] EXCEPT !.age = 0]
<1>1. node \in Node /\ node.ifaces = gr.nodes[id].ifaces /\ id \in Host
  BY NodeFields, TimeoutAssumption DEF Node, Ages
<1>2. Touch(gr, id) = SetNode(gr, id, node, FALSE)
  BY DEF Touch
<1> HIDE DEF node
<1>3. /\ IsGraph(SetNode(gr, id, node, FALSE))
      /\ KeepsKnown(gr, SetNode(gr, id, node, FALSE))
      /\ DOMAIN SetNode(gr, id, node, FALSE).nodes = DOMAIN gr.nodes \cup {id}
  BY <1>1, PutNode
<1> QED
  BY <1>2, <1>3

(* Storing an interface keeps the type and everything known, and the       *)
(* interface is known afterwards.                                          *)
LEMMA StoreIfaceStep ==
    ASSUME NEW gr, IsGraph(gr), NEW id \in DOMAIN gr.nodes, NEW iface \in Iface, NEW det \in Details
    PROVE  /\ IsGraph(StoreIface(gr, id, iface, det))
           /\ KeepsKnown(gr, StoreIface(gr, id, iface, det))
           /\ DOMAIN StoreIface(gr, id, iface, det).nodes = DOMAIN gr.nodes
           /\ iface \in DOMAIN StoreIface(gr, id, iface, det).nodes[id].ifaces
<1> DEFINE ifaces == gr.nodes[id].ifaces
           same == iface \in DOMAIN ifaces /\ ifaces[iface].ident = det.ident
<1>1. CASE same
  BY <1>1 DEF StoreIface, KeepsKnown
<1>2. CASE ~same
  <2> DEFINE node == [gr.nodes[id] EXCEPT !.ifaces = Put(ifaces, iface, det)]
  <2>1. /\ gr.nodes[id] \in Node
        /\ id \in Host
        /\ IsPartialMap(ifaces, Iface, Details)
    BY NodeFields
  <2>2. /\ IsPartialMap(Put(ifaces, iface, det), Iface, Details)
        /\ DOMAIN Put(ifaces, iface, det) = DOMAIN ifaces \cup {iface}
    BY <2>1, PutMap
  <2>3. Put(ifaces, iface, det) \in Ifaces
    BY <2>2, PartialMapEquiv DEF Ifaces
  <2>4. /\ node \in Node
        /\ DOMAIN node.ifaces = DOMAIN ifaces \cup {iface}
        /\ id \in DOMAIN gr.nodes => DOMAIN gr.nodes[id].ifaces \subseteq DOMAIN node.ifaces
    BY <2>1, <2>2, <2>3 DEF Node
  <2>5. StoreIface(gr, id, iface, det) = SetNode(gr, id, node, TRUE)
    BY <1>2 DEF StoreIface
  <2> HIDE DEF node
  <2>6. /\ IsGraph(SetNode(gr, id, node, TRUE))
        /\ KeepsKnown(gr, SetNode(gr, id, node, TRUE))
        /\ DOMAIN SetNode(gr, id, node, TRUE).nodes = DOMAIN gr.nodes \cup {id}
        /\ SetNode(gr, id, node, TRUE).nodes[id] = node
    BY <2>1, <2>4, PutNode
  <2> QED
    BY <2>4, <2>5, <2>6
<1> QED
  BY <1>1, <1>2

-----------------------------------------------------------------------------
(* The steps that touch the edges.                                         *)

(* What is known of the nodes may grow under a well-formed store.          *)
LEMMA KeepsWellFormed ==
    ASSUME NEW gr, NEW gr2, WellFormed(gr), KeepsKnown(gr, gr2), gr2.local \notin DOMAIN gr2.nodes
    PROVE  WellFormed(gr2)
BY DEF WellFormed, EndpointsKnown, ProvenanceKnown, IfacesKnown, SelfNotDiscovered, KeepsKnown, GetNodes

(* What an edge must satisfy to be stored.                                 *)
EdgeFits(gr, k, e) ==
    /\ k.dst \in DOMAIN gr.nodes
    /\ k.src \in GetNodes(gr)
    /\ k.src # k.dst
    /\ IF e.direct
       THEN k.src = gr.local /\ e.from = NoHost
       ELSE k.src = e.from /\ k.src \in DOMAIN gr.nodes /\ k.src # gr.local
    /\ k.rif \in DOMAIN gr.nodes[k.dst].ifaces
    /\ (~e.direct /\ k.lif # NoIface) => k.lif \in DOMAIN gr.nodes[k.src].ifaces

(* Storing an edge that fits keeps the type and the well-formedness.       *)
LEMMA StoreEdgeStep ==
    ASSUME NEW gr, IsGraph(gr), NEW k \in EdgeKey, NEW e \in Edge
    PROVE  /\ IsGraph(StoreEdge(gr, k, e))
           /\ WellFormed(gr) /\ EdgeFits(gr, k, e) => WellFormed(StoreEdge(gr, k, e))
           /\ StoreEdge(gr, k, e).local = gr.local
<1> DEFINE known == k \in DOMAIN gr.edges
           downgrade == known /\ gr.edges[k].direct /\ ~e.direct
           upgrade == known /\ ~gr.edges[k].direct /\ e.direct
           edges == IF downgrade THEN gr.edges ELSE Put(gr.edges, k, e)
           changed == gr.changed \/ ~known \/ upgrade
           gr2 == StoreEdge(gr, k, e)
<1>1. IsPartialMap(gr.edges, EdgeKey, Edge)
  BY DEF IsGraph
<1>2. changed \in BOOLEAN
  OBVIOUS
<1>3. gr2 = [gr EXCEPT !.edges = edges, !.changed = changed]
  BY Zenon DEF StoreEdge
<1> HIDE DEF gr2, edges, changed
<1>4. /\ gr2.nodes = gr.nodes
      /\ gr2.local = gr.local
      /\ gr2.localIfaces = gr.localIfaces
      /\ gr2.edges = edges
      /\ gr2.changed = changed
      /\ gr2 = [nodes |-> gr2.nodes, local |-> gr2.local, localIfaces |-> gr2.localIfaces,
                edges |-> gr2.edges, changed |-> gr2.changed]
  BY <1>3 DEF IsGraph
<1>5. /\ IsPartialMap(Put(gr.edges, k, e), EdgeKey, Edge)
      /\ DOMAIN Put(gr.edges, k, e) = DOMAIN gr.edges \cup {k}
      /\ Put(gr.edges, k, e)[k] = e
      /\ \A x \in DOMAIN gr.edges : x # k => Put(gr.edges, k, e)[x] = gr.edges[x]
  BY <1>1 DEF IsPartialMap, Put
<1>6. IsPartialMap(edges, EdgeKey, Edge)
  BY <1>1, <1>5 DEF edges
<1>7. IsGraph(gr2)
  BY <1>2, <1>4, <1>6 DEF IsGraph
<1>8. ASSUME WellFormed(gr), EdgeFits(gr, k, e)
      PROVE  WellFormed(gr2)
  <2>1. \A x \in DOMAIN gr2.edges :
           \/ x \in DOMAIN gr.edges /\ gr2.edges[x] = gr.edges[x]
           \/ x = k /\ gr2.edges[x] = e
    BY <1>4, <1>5 DEF edges
  <2>2. GetNodes(gr2) = GetNodes(gr)
    BY <1>4 DEF GetNodes
  <2>3. EndpointsKnown(gr2)
    BY <1>4, <1>8, <2>1, <2>2 DEF EndpointsKnown, EdgeFits, WellFormed
  <2>4. ProvenanceKnown(gr2)
    BY <1>4, <1>8, <2>1 DEF ProvenanceKnown, EdgeFits, WellFormed
  <2>5. IfacesKnown(gr2)
    BY <1>4, <1>8, <2>1 DEF IfacesKnown, EdgeFits, WellFormed
  <2>6. SelfNotDiscovered(gr2)
    BY <1>4, <1>8 DEF SelfNotDiscovered, WellFormed
  <2> QED
    BY <2>3, <2>4, <2>5, <2>6 DEF WellFormed
<1> QED
  BY <1>4, <1>7, <1>8 DEF gr2

-----------------------------------------------------------------------------
(* The exported methods.                                                   *)

(* A host that is not in the store can still be looked up as the local one.*)
LEMMA LocalDetailsType ==
    ASSUME NEW gr, IsGraph(gr), NEW lif \in Iface
    PROVE  LocalDetails(gr, lif) \in Details
<1>1. IsPartialMap(gr.localIfaces, Iface, Details)
  BY PartialMapEquiv DEF IsGraph, Ifaces
<1>2. ZeroDetails \in Details
  BY ZeroValuesAssumption DEF ZeroDetails, Details
<1> QED
  BY <1>1, <1>2 DEF LocalDetails, IsPartialMap

(* AddOrUpdate, as the receive handler calls it for a packet of another    *)
(* host, keeps the type, the local node and the well-formedness.           *)
LEMMA AddOrUpdateStep ==
    ASSUME NEW gr, IsGraph(gr), NEW id \in Host, id # gr.local, NEW name \in Name,
           NEW rif \in Iface, NEW rdet \in Details, NEW lif \in Iface
    PROVE  /\ IsGraph(AddOrUpdate(gr, id, name, rif, rdet, lif, TRUE, NoHost))
           /\ AddOrUpdate(gr, id, name, rif, rdet, lif, TRUE, NoHost).local = gr.local
           /\ WellFormed(gr) => WellFormed(AddOrUpdate(gr, id, name, rif, rdet, lif, TRUE, NoHost))
<1> DEFINE gr2 == AddOrUpdate(gr, id, name, rif, rdet, lif, TRUE, NoHost)
           g1 == EnsureNode(gr, id, name)
           g2 == Rename(g1, id, name)
           g3 == Touch(g2, id)
           g4 == StoreIface(g3, id, rif, rdet)
           k == [src |-> gr.local, dst |-> id, lif |-> lif, rif |-> rif]
           e == [ldet |-> LocalDetails(gr, lif), rdet |-> rdet, direct |-> TRUE, from |-> NoHost]
<1>1. gr2 = IF gr.local = NoHost THEN g4 ELSE StoreEdge(g4, k, e)
  BY DEF AddOrUpdate
<1> HIDE DEF gr2, g1, g2, g3, g4, k, e
<1>2. IsGraph(g1) /\ KeepsKnown(gr, g1) /\ DOMAIN g1.nodes = DOMAIN gr.nodes \cup {id}
  BY EnsureNodeStep DEF g1
<1>3. IsGraph(g2) /\ KeepsKnown(g1, g2) /\ DOMAIN g2.nodes = DOMAIN gr.nodes \cup {id}
  BY <1>2, RenameStep DEF g2
<1>4. IsGraph(g3) /\ KeepsKnown(g2, g3) /\ DOMAIN g3.nodes = DOMAIN gr.nodes \cup {id}
  BY <1>3, TouchStep DEF g3
<1>5. /\ IsGraph(g4)
      /\ KeepsKnown(g3, g4)
      /\ DOMAIN g4.nodes = DOMAIN gr.nodes \cup {id}
      /\ rif \in DOMAIN g4.nodes[id].ifaces
  BY <1>4, StoreIfaceStep DEF g4
<1>6. KeepsKnown(gr, g4) /\ g4.local = gr.local
  BY <1>2, <1>3, <1>4, <1>5 DEF KeepsKnown
<1>7. WellFormed(gr) => WellFormed(g4)
  <2> SUFFICES ASSUME WellFormed(gr) PROVE WellFormed(g4)
    OBVIOUS
  <2>1. g4.local \notin DOMAIN g4.nodes
    BY <1>5, <1>6 DEF WellFormed, SelfNotDiscovered
  <2> QED
    BY <1>6, <2>1, KeepsWellFormed
<1>8. CASE gr.local = NoHost
  BY <1>1, <1>5, <1>6, <1>7, <1>8 DEF gr2
<1>9. CASE gr.local # NoHost
  <2>1. gr.local \in Host
    BY <1>9 DEF IsGraph
  <2>2. k \in EdgeKey
    BY <2>1 DEF k, EdgeKey
  <2>3. e \in Edge
    BY LocalDetailsType DEF e, Edge
  <2>4. EdgeFits(g4, k, e)
    BY <1>5, <1>6, <1>9 DEF EdgeFits, GetNodes, k, e
  <2> QED
    BY <1>1, <1>5, <1>6, <1>7, <1>9, <2>2, <2>3, <2>4, StoreEdgeStep DEF gr2
<1> QED
  BY <1>8, <1>9 DEF gr2

(* AddOrUpdateIndirectEdge, for an entry that is neither about the local   *)
(* host nor about its own reporter, keeps the type, the local node and the *)
(* well-formedness.                                                        *)
LEMMA AddOrUpdateIndirectEdgeStep ==
    ASSUME NEW gr, IsGraph(gr), NEW nb \in NeighborInfo, NEW from \in Host,
           nb.id # gr.local, from # gr.local, nb.id # from
    PROVE  /\ IsGraph(AddOrUpdateIndirectEdge(gr, nb, from))
           /\ AddOrUpdateIndirectEdge(gr, nb, from).local = gr.local
           /\ WellFormed(gr) => WellFormed(AddOrUpdateIndirectEdge(gr, nb, from))
<1> DEFINE gr2 == AddOrUpdateIndirectEdge(gr, nb, from)
           id == nb.id
           rif == nb.rif
           rdet == nb.rdet
           g1 == EnsureNode(gr, id, nb.name)
           g2 == Touch(g1, id)
           g3 == StoreIface(g2, id, rif, rdet)
           known == from \in DOMAIN g3.nodes
           g4 == IF known /\ nb.lif # NoIface THEN StoreIface(g3, from, nb.lif, nb.ldet) ELSE g3
           k == [src |-> from, dst |-> id, lif |-> nb.lif, rif |-> rif]
           e == [ldet |-> nb.ldet, rdet |-> rdet, direct |-> FALSE, from |-> from]
<1>1. gr2 = IF known THEN StoreEdge(g4, k, e) ELSE g4
  BY DEF AddOrUpdateIndirectEdge, StoreNeighbor, StoreReportedEdge
<1>2. /\ id \in Host /\ id # gr.local /\ id # from
      /\ nb.name \in Name /\ nb.lif \in Iface /\ rif \in Iface
      /\ nb.ldet \in Details /\ rdet \in Details
  BY DEF NeighborInfo
<1> HIDE DEF gr2, id, rif, rdet, g1, g2, g3, g4, k, e
<1>3. IsGraph(g1) /\ KeepsKnown(gr, g1) /\ DOMAIN g1.nodes = DOMAIN gr.nodes \cup {id}
  BY <1>2, EnsureNodeStep DEF g1
<1>4. IsGraph(g2) /\ KeepsKnown(g1, g2) /\ DOMAIN g2.nodes = DOMAIN gr.nodes \cup {id}
  BY <1>3, TouchStep DEF g2
<1>5. /\ IsGraph(g3)
      /\ KeepsKnown(g2, g3)
      /\ DOMAIN g3.nodes = DOMAIN gr.nodes \cup {id}
      /\ rif \in DOMAIN g3.nodes[id].ifaces
  BY <1>2, <1>4, StoreIfaceStep DEF g3
<1>6. /\ IsGraph(g4)
      /\ KeepsKnown(g3, g4)
      /\ DOMAIN g4.nodes = DOMAIN g3.nodes
      /\ known /\ nb.lif # NoIface => nb.lif \in DOMAIN g4.nodes[from].ifaces
  <2>1. CASE known /\ nb.lif # NoIface
    BY <1>2, <1>5, <2>1, StoreIfaceStep DEF g4
  <2>2. CASE ~(known /\ nb.lif # NoIface)
    <3>1. g4 = g3
      BY <2>2 DEF g4
    <3> QED
      BY <1>5, <2>2, <3>1 DEF KeepsKnown
  <2> QED
    BY <2>1, <2>2
<1>7. KeepsKnown(gr, g4) /\ g4.local = gr.local
  BY <1>3, <1>4, <1>5, <1>6 DEF KeepsKnown
<1>8. WellFormed(gr) => WellFormed(g4)
  <2> SUFFICES ASSUME WellFormed(gr) PROVE WellFormed(g4)
    OBVIOUS
  <2>1. g4.local \notin DOMAIN g4.nodes
    BY <1>2, <1>5, <1>6, <1>7 DEF WellFormed, SelfNotDiscovered
  <2> QED
    BY <1>7, <2>1, KeepsWellFormed
<1>9. CASE ~known
  BY <1>1, <1>6, <1>7, <1>8, <1>9 DEF gr2
<1>10. CASE known
  <2>1. k \in EdgeKey
    BY <1>2 DEF k, EdgeKey
  <2>2. e \in Edge
    BY <1>2 DEF e, Edge
  <2>3. rif \in DOMAIN g4.nodes[id].ifaces
    BY <1>5, <1>6 DEF KeepsKnown
  <2>4. EdgeFits(g4, k, e)
    BY <1>2, <1>5, <1>6, <1>7, <1>10, <2>3 DEF EdgeFits, GetNodes, k, e
  <2> QED
    BY <1>1, <1>6, <1>7, <1>8, <1>10, <2>1, <2>2, <2>4, StoreEdgeStep DEF gr2
<1> QED
  BY <1>9, <1>10 DEF gr2

(* RemoveExpired keeps the type, the local node and the well-formedness:   *)
(* its cascade takes every edge that leads to an expired host.             *)
LEMMA RemoveExpiredStep ==
    ASSUME NEW gr, IsGraph(gr)
    PROVE  /\ IsGraph(RemoveExpired(gr))
           /\ RemoveExpired(gr).local = gr.local
           /\ WellFormed(gr) => WellFormed(RemoveExpired(gr))
<1> DEFINE dead == Expired(gr)
           nodes == Restrict(gr.nodes, DOMAIN gr.nodes \ dead)
           edges == Restrict(gr.edges, SurvivingEdges(gr, dead))
           changed == gr.changed \/ dead # {}
           gr2 == RemoveExpired(gr)
<1>1. gr2 = [gr EXCEPT !.nodes = nodes, !.edges = edges, !.changed = changed]
  BY Zenon DEF RemoveExpired
<1>2. changed \in BOOLEAN
  OBVIOUS
<1>3. SurvivingEdges(gr, dead) \subseteq DOMAIN gr.edges
  BY DEF SurvivingEdges
<1>4. IsPartialMap(gr.nodes, Host, Node) /\ IsPartialMap(gr.edges, EdgeKey, Edge)
  BY DEF IsGraph
<1>5. /\ IsPartialMap(nodes, Host, Node)
      /\ DOMAIN nodes = DOMAIN gr.nodes \ dead
      /\ \A h \in DOMAIN nodes : nodes[h] = gr.nodes[h]
  BY <1>4, RestrictMap
<1>6. /\ IsPartialMap(edges, EdgeKey, Edge)
      /\ DOMAIN edges = SurvivingEdges(gr, dead)
      /\ \A k \in DOMAIN edges : edges[k] = gr.edges[k]
  BY <1>3, <1>4 DEF IsPartialMap, Restrict
<1>7. \A k \in DOMAIN edges :
         k \in DOMAIN gr.edges /\ k.src \notin dead /\ k.dst \notin dead
  BY <1>6 DEF SurvivingEdges
<1> HIDE DEF gr2, nodes, edges, changed, dead
<1>8. /\ gr2.nodes = nodes
      /\ gr2.local = gr.local
      /\ gr2.localIfaces = gr.localIfaces
      /\ gr2.edges = edges
      /\ gr2.changed = changed
      /\ gr2 = [nodes |-> gr2.nodes, local |-> gr2.local, localIfaces |-> gr2.localIfaces,
                edges |-> gr2.edges, changed |-> gr2.changed]
  BY <1>1 DEF IsGraph
<1>9. IsGraph(gr2)
  BY <1>2, <1>5, <1>6, <1>8 DEF IsGraph
<1>10. ASSUME WellFormed(gr)
       PROVE  WellFormed(gr2)
  <2>1. EndpointsKnown(gr2)
    BY <1>5, <1>7, <1>8, <1>10 DEF WellFormed, EndpointsKnown, GetNodes
  <2>2. ProvenanceKnown(gr2)
    BY <1>5, <1>6, <1>7, <1>8, <1>10 DEF WellFormed, ProvenanceKnown
  <2>3. IfacesKnown(gr2)
    <3> SUFFICES ASSUME NEW k \in DOMAIN gr2.edges
                 PROVE  /\ k.rif \in DOMAIN gr2.nodes[k.dst].ifaces
                        /\ (~gr2.edges[k].direct /\ k.lif # NoIface) => k.lif \in DOMAIN gr2.nodes[k.src].ifaces
      BY DEF IfacesKnown
    <3>1. k \in DOMAIN gr.edges /\ gr2.edges[k] = gr.edges[k]
      BY <1>6, <1>7, <1>8
    <3>2. gr2.nodes[k.dst] = gr.nodes[k.dst]
      BY <1>5, <1>7, <1>8, <1>10 DEF WellFormed, EndpointsKnown
    <3>3. ~gr.edges[k].direct => gr2.nodes[k.src] = gr.nodes[k.src]
      BY <1>5, <1>7, <1>8, <1>10, <3>1 DEF WellFormed, ProvenanceKnown
    <3> QED
      BY <1>10, <3>1, <3>2, <3>3 DEF WellFormed, IfacesKnown
  <2>4. SelfNotDiscovered(gr2)
    BY <1>5, <1>8, <1>10 DEF WellFormed, SelfNotDiscovered
  <2> QED
    BY <2>1, <2>2, <2>3, <2>4 DEF WellFormed
<1> QED
  BY <1>8, <1>9, <1>10 DEF gr2

(* ClearChanges touches the flag only.                                     *)
LEMMA ClearChangesStep ==
    ASSUME NEW gr, IsGraph(gr)
    PROVE  /\ IsGraph(ClearChanges(gr))
           /\ ClearChanges(gr).local = gr.local
           /\ WellFormed(gr) => WellFormed(ClearChanges(gr))
<1>1. IsGraph(ClearChanges(gr)) /\ KeepsKnown(gr, ClearChanges(gr))
      /\ ClearChanges(gr).nodes = gr.nodes
  BY DEF IsGraph, ClearChanges, KeepsKnown
<1> QED
  BY <1>1, KeepsWellFormed DEF KeepsKnown, WellFormed, SelfNotDiscovered

(* The passing of time changes the ages only.                              *)
LEMMA AgeNodesStep ==
    ASSUME NEW gr, IsGraph(gr)
    PROVE  /\ IsGraph(AgeNodes(gr))
           /\ AgeNodes(gr).local = gr.local
           /\ WellFormed(gr) => WellFormed(AgeNodes(gr))
<1> DEFINE older(h) == [gr.nodes[h] EXCEPT !.age = Grow(gr.nodes[h].age)]
           nodes == [h \in DOMAIN gr.nodes |-> older(h)]
           gr2 == AgeNodes(gr)
<1>1. gr2 = [gr EXCEPT !.nodes = nodes]
  BY DEF AgeNodes
<1>2. ASSUME NEW h \in DOMAIN gr.nodes
      PROVE  older(h) \in Node /\ older(h).ifaces = gr.nodes[h].ifaces
  <2>1. gr.nodes[h] \in Node
    BY NodeFields
  <2>2. Grow(gr.nodes[h].age) \in Ages
    BY <2>1, TimeoutAssumption DEF Node, Ages, Grow
  <2> QED
    BY <2>1, <2>2 DEF Node
<1> HIDE DEF older
<1>3. /\ IsPartialMap(nodes, Host, Node)
      /\ DOMAIN nodes = DOMAIN gr.nodes
      /\ \A h \in DOMAIN nodes : nodes[h].ifaces = gr.nodes[h].ifaces
  BY <1>2 DEF IsGraph, IsPartialMap
<1> HIDE DEF gr2, nodes
<1>4. /\ gr2.nodes = nodes
      /\ gr2.local = gr.local
      /\ gr2.localIfaces = gr.localIfaces
      /\ gr2.edges = gr.edges
      /\ gr2.changed = gr.changed
      /\ gr2 = [nodes |-> gr2.nodes, local |-> gr2.local, localIfaces |-> gr2.localIfaces,
                edges |-> gr2.edges, changed |-> gr2.changed]
  BY <1>1 DEF IsGraph
<1>5. IsGraph(gr2)
  BY <1>3, <1>4 DEF IsGraph
<1>6. KeepsKnown(gr, gr2)
  BY <1>3, <1>4 DEF KeepsKnown
<1>7. WellFormed(gr) => WellFormed(gr2)
  BY <1>3, <1>4, <1>6, KeepsWellFormed DEF WellFormed, SelfNotDiscovered
<1> QED
  BY <1>4, <1>5, <1>7 DEF gr2

-----------------------------------------------------------------------------
(* What a store says is true: the interfaces it has are among those of     *)
(* det, with the details given there, and its edges are among keys.  Every *)
(* method keeps the store true when it is called with what is true.        *)

TrueNode(x, node, det) ==
    \A i \in DOMAIN node.ifaces : <<x, i>> \in DOMAIN det /\ node.ifaces[i] = det[x, i]

TrueEdge(k, e, det, keys) ==
    /\ k \in keys
    /\ e.ldet = det[k.src, k.lif]
    /\ e.rdet = det[k.dst, k.rif]

TrueStore(gr, det, keys) ==
    /\ \A x \in DOMAIN gr.nodes : TrueNode(x, gr.nodes[x], det)
    /\ \A k \in DOMAIN gr.edges : TrueEdge(k, gr.edges[k], det, keys)

TrueNeighbor(from, nb, det, keys) ==
    /\ [src |-> from, dst |-> nb.id, lif |-> nb.lif, rif |-> nb.rif] \in keys
    /\ <<from, nb.lif>> \in DOMAIN det /\ nb.ldet = det[from, nb.lif]
    /\ <<nb.id, nb.rif>> \in DOMAIN det /\ nb.rdet = det[nb.id, nb.rif]

TruePacket(gr, id, rif, rdet, lif, det, keys) ==
    /\ <<id, rif>> \in DOMAIN det /\ rdet = det[id, rif]
    /\ gr.local # NoHost =>
           /\ [src |-> gr.local, dst |-> id, lif |-> lif, rif |-> rif] \in keys
           /\ LocalDetails(gr, lif) = det[gr.local, lif]

(* The local interfaces stay what they were.                               *)
SameLocal(gr, gr2) == gr2.localIfaces = gr.localIfaces

(* Replacing the entry of a host by a true one.                            *)
LEMMA SetNodeTrue ==
    ASSUME NEW det, NEW keys, NEW gr, IsGraph(gr), TrueStore(gr, det, keys),
           NEW id \in Host, NEW node, TrueNode(id, node, det),
           NEW ch \in BOOLEAN
    PROVE  TrueStore(SetNode(gr, id, node, ch), det, keys)
<1> DEFINE gr2 == SetNode(gr, id, node, ch)
           nodes == Put(gr.nodes, id, node)
           changed == gr.changed \/ ch
<1>1. gr2 = [gr EXCEPT !.nodes = nodes, !.changed = changed]
  BY Zenon DEF SetNode
<1> HIDE DEF gr2, nodes, changed
<1>2. gr2.nodes = nodes /\ gr2.edges = gr.edges
  BY <1>1 DEF IsGraph
<1>3. \A x \in DOMAIN nodes : nodes[x] = IF x = id THEN node ELSE gr.nodes[x]
  BY DEF nodes, Put
<1>4. \A x \in DOMAIN nodes : x = id \/ x \in DOMAIN gr.nodes
  BY DEF nodes, Put
<1>5. \A x \in DOMAIN gr2.nodes : TrueNode(x, gr2.nodes[x], det)
  BY <1>2, <1>3, <1>4 DEF TrueStore
<1> QED
  BY <1>2, <1>5 DEF TrueStore, gr2

(* A new host has an empty interface table, which says nothing wrong.      *)
LEMMA EnsureNodeTrue ==
    ASSUME NEW det, NEW keys, NEW gr, IsGraph(gr), TrueStore(gr, det, keys), NEW id \in Host, NEW name
    PROVE  TrueStore(EnsureNode(gr, id, name), det, keys)
<1> DEFINE node == [name |-> name, age |-> Timeout + 1, ifaces |-> EmptyMap]
<1>1. TrueNode(id, node, det)
  BY DEF TrueNode, EmptyMap
<1>2. EnsureNode(gr, id, name) = IF id \in DOMAIN gr.nodes THEN gr ELSE SetNode(gr, id, node, TRUE)
  BY DEF EnsureNode
<1> HIDE DEF node
<1>3. TrueStore(SetNode(gr, id, node, TRUE), det, keys)
  BY <1>1, SetNodeTrue
<1> QED
  BY <1>2, <1>3

(* A name is not an interface detail.                                      *)
LEMMA RenameTrue ==
    ASSUME NEW det, NEW keys, NEW gr, IsGraph(gr), TrueStore(gr, det, keys),
           NEW id \in DOMAIN gr.nodes, NEW name
    PROVE  TrueStore(Rename(gr, id, name), det, keys)
<1> DEFINE node == [gr.nodes[id] EXCEPT !.name = name]
<1>1. id \in Host /\ node.ifaces = gr.nodes[id].ifaces
  BY NodeFields DEF Node
<1>2. Rename(gr, id, name) = IF gr.nodes[id].name = name THEN gr ELSE SetNode(gr, id, node, TRUE)
  BY DEF Rename
<1> HIDE DEF node
<1>3. TrueNode(id, node, det)
  BY <1>1 DEF TrueStore, TrueNode
<1>4. TrueStore(SetNode(gr, id, node, TRUE), det, keys)
  BY <1>1, <1>3, SetNodeTrue
<1> QED
  BY <1>2, <1>4

(* Neither is an age.                                                      *)
LEMMA TouchTrue ==
    ASSUME NEW det, NEW keys, NEW gr, IsGraph(gr), TrueStore(gr, det, keys), NEW id \in DOMAIN gr.nodes
    PROVE  TrueStore(Touch(gr, id), det, keys)
<1> DEFINE node == [gr.nodes[id] EXCEPT !.age = 0]
<1>1. id \in Host /\ node.ifaces = gr.nodes[id].ifaces
  BY NodeFields DEF Node
<1>2. Touch(gr, id) = SetNode(gr, id, node, FALSE)
  BY DEF Touch
<1> HIDE DEF node
<1>3. TrueNode(id, node, det)
  BY <1>1 DEF TrueStore, TrueNode
<1> QED
  BY <1>1, <1>2, <1>3, SetNodeTrue

(* The details stored for an interface are those it has: the details that  *)
(* are kept were stored for the same interface.                            *)
LEMMA StoreIfaceTrue ==
    ASSUME NEW det, NEW keys, NEW gr, IsGraph(gr), TrueStore(gr, det, keys), NEW id \in DOMAIN gr.nodes,
           NEW iface, NEW d, <<id, iface>> \in DOMAIN det, d = det[id, iface]
    PROVE  TrueStore(StoreIface(gr, id, iface, d), det, keys)
<1> DEFINE ifaces == gr.nodes[id].ifaces
           same == iface \in DOMAIN ifaces /\ ifaces[iface].ident = d.ident
           node == [gr.nodes[id] EXCEPT !.ifaces = Put(ifaces, iface, d)]
<1>1. id \in Host /\ node.ifaces = Put(ifaces, iface, d)
  BY NodeFields DEF Node
<1>2. StoreIface(gr, id, iface, d) = IF same THEN gr ELSE SetNode(gr, id, node, TRUE)
  BY DEF StoreIface
<1> HIDE DEF same, node
<1>3. TrueNode(id, gr.nodes[id], det)
  BY DEF TrueStore
<1>4. TrueNode(id, node, det)
  BY <1>1, <1>3 DEF TrueNode, Put
<1>5. TrueStore(SetNode(gr, id, node, TRUE), det, keys)
  BY <1>1, <1>4, SetNodeTrue
<1> QED
  BY <1>2, <1>5

(* Storing a true edge.                                                    *)
LEMMA StoreEdgeTrue ==
    ASSUME NEW det, NEW keys, NEW gr, IsGraph(gr), TrueStore(gr, det, keys),
           NEW k, NEW e, TrueEdge(k, e, det, keys)
    PROVE  /\ TrueStore(StoreEdge(gr, k, e), det, keys)
           /\ StoreEdge(gr, k, e).localIfaces = gr.localIfaces
<1> DEFINE known == k \in DOMAIN gr.edges
           downgrade == known /\ gr.edges[k].direct /\ ~e.direct
           upgrade == known /\ ~gr.edges[k].direct /\ e.direct
           edges == IF downgrade THEN gr.edges ELSE Put(gr.edges, k, e)
           changed == gr.changed \/ ~known \/ upgrade
           gr2 == StoreEdge(gr, k, e)
<1>1. gr2 = [gr EXCEPT !.edges = edges, !.changed = changed]
  BY Zenon DEF StoreEdge
<1>2. \A x \in DOMAIN edges :
         \/ x \in DOMAIN gr.edges /\ edges[x] = gr.edges[x]
         \/ x = k /\ edges[x] = e
  BY DEF Put
<1> HIDE DEF gr2, edges, changed
<1>3. gr2.nodes = gr.nodes /\ gr2.edges = edges /\ gr2.localIfaces = gr.localIfaces
  BY <1>1 DEF IsGraph
<1>4. \A x \in DOMAIN gr2.edges : TrueEdge(x, gr2.edges[x], det, keys)
  BY <1>2, <1>3 DEF TrueStore
<1> QED
  BY <1>3, <1>4 DEF TrueStore, gr2

(* A packet received on an interface of the sender's link.                 *)
LEMMA AddOrUpdateTrue ==
    ASSUME NEW det, NEW keys, NEW gr, IsGraph(gr), TrueStore(gr, det, keys),
           NEW id \in Host, NEW name \in Name, NEW rif \in Iface, NEW rdet \in Details, NEW lif \in Iface,
           TruePacket(gr, id, rif, rdet, lif, det, keys)
    PROVE  /\ TrueStore(AddOrUpdate(gr, id, name, rif, rdet, lif, TRUE, NoHost), det, keys)
           /\ SameLocal(gr, AddOrUpdate(gr, id, name, rif, rdet, lif, TRUE, NoHost))
<1> DEFINE gr2 == AddOrUpdate(gr, id, name, rif, rdet, lif, TRUE, NoHost)
           g1 == EnsureNode(gr, id, name)
           g2 == Rename(g1, id, name)
           g3 == Touch(g2, id)
           g4 == StoreIface(g3, id, rif, rdet)
           k == [src |-> gr.local, dst |-> id, lif |-> lif, rif |-> rif]
           e == [ldet |-> LocalDetails(gr, lif), rdet |-> rdet, direct |-> TRUE, from |-> NoHost]
<1>1. gr2 = IF gr.local = NoHost THEN g4 ELSE StoreEdge(g4, k, e)
  BY DEF AddOrUpdate
<1>2. <<id, rif>> \in DOMAIN det /\ rdet = det[id, rif] /\ (gr.local # NoHost => TrueEdge(k, e, det, keys))
  BY DEF TrueEdge, TruePacket
<1> HIDE DEF gr2, g1, g2, g3, g4, k, e
<1>3. IsGraph(g1) /\ KeepsKnown(gr, g1) /\ id \in DOMAIN g1.nodes /\ TrueStore(g1, det, keys)
  BY EnsureNodeStep, EnsureNodeTrue DEF g1
<1>4. IsGraph(g2) /\ KeepsKnown(g1, g2) /\ id \in DOMAIN g2.nodes /\ TrueStore(g2, det, keys)
  BY <1>3, RenameStep, RenameTrue DEF g2
<1>5. IsGraph(g3) /\ KeepsKnown(g2, g3) /\ id \in DOMAIN g3.nodes /\ TrueStore(g3, det, keys)
  BY <1>4, TouchStep, TouchTrue DEF g3
<1>6. IsGraph(g4) /\ KeepsKnown(g3, g4) /\ TrueStore(g4, det, keys)
  BY <1>2, <1>5, StoreIfaceStep, StoreIfaceTrue DEF g4
<1>7. g4.localIfaces = gr.localIfaces
  BY <1>3, <1>4, <1>5, <1>6 DEF KeepsKnown
<1>8. TrueStore(gr2, det, keys) /\ SameLocal(gr, gr2)
  <2>1. CASE gr.local = NoHost
    BY <1>1, <1>6, <1>7, <2>1 DEF SameLocal
  <2>2. CASE gr.local # NoHost
    <3>1. IsGraph(g4) /\ TrueStore(g4, det, keys) /\ TrueEdge(k, e, det, keys)
      BY <1>2, <1>6, <2>2
    <3>2. TrueStore(StoreEdge(g4, k, e), det, keys) /\ StoreEdge(g4, k, e).localIfaces = g4.localIfaces
      BY <3>1, StoreEdgeTrue
    <3> QED
      BY <1>1, <1>7, <2>2, <3>2 DEF SameLocal
  <2> QED
    BY <2>1, <2>2
<1> QED
  BY <1>8 DEF gr2

(* A true report of another host.                                          *)
LEMMA AddOrUpdateIndirectEdgeTrue ==
    ASSUME NEW det, NEW keys, NEW gr, IsGraph(gr), TrueStore(gr, det, keys),
           NEW nb \in NeighborInfo, NEW from \in Host,
           TrueNeighbor(from, nb, det, keys)
    PROVE  /\ TrueStore(AddOrUpdateIndirectEdge(gr, nb, from), det, keys)
           /\ AddOrUpdateIndirectEdge(gr, nb, from).localIfaces = gr.localIfaces
<1> DEFINE gr2 == AddOrUpdateIndirectEdge(gr, nb, from)
           g1 == EnsureNode(gr, nb.id, nb.name)
           g2 == Touch(g1, nb.id)
           g3 == StoreIface(g2, nb.id, nb.rif, nb.rdet)
           known == from \in DOMAIN g3.nodes
           g4 == IF known /\ nb.lif # NoIface THEN StoreIface(g3, from, nb.lif, nb.ldet) ELSE g3
           k == [src |-> from, dst |-> nb.id, lif |-> nb.lif, rif |-> nb.rif]
           e == [ldet |-> nb.ldet, rdet |-> nb.rdet, direct |-> FALSE, from |-> from]
<1>1. gr2 = IF known THEN StoreEdge(g4, k, e) ELSE g4
  BY DEF AddOrUpdateIndirectEdge, StoreNeighbor, StoreReportedEdge
<1>2. /\ nb.id \in Host /\ nb.name \in Name /\ nb.lif \in Iface /\ nb.rif \in Iface
      /\ nb.ldet \in Details /\ nb.rdet \in Details
  BY DEF NeighborInfo
<1>3. /\ <<from, nb.lif>> \in DOMAIN det /\ nb.ldet = det[from, nb.lif]
      /\ <<nb.id, nb.rif>> \in DOMAIN det /\ nb.rdet = det[nb.id, nb.rif]
  BY DEF TrueNeighbor
<1>4. TrueEdge(k, e, det, keys)
  BY DEF TrueEdge, TrueNeighbor
<1> HIDE DEF gr2, g1, g2, g3, g4, k, e
<1>5. IsGraph(g1) /\ KeepsKnown(gr, g1) /\ nb.id \in DOMAIN g1.nodes /\ TrueStore(g1, det, keys)
  BY <1>2, EnsureNodeStep, EnsureNodeTrue DEF g1
<1>6. IsGraph(g2) /\ KeepsKnown(g1, g2) /\ nb.id \in DOMAIN g2.nodes /\ TrueStore(g2, det, keys)
  BY <1>5, TouchStep, TouchTrue DEF g2
<1>7. IsGraph(g3) /\ KeepsKnown(g2, g3) /\ TrueStore(g3, det, keys)
  BY <1>2, <1>3, <1>6, StoreIfaceStep, StoreIfaceTrue DEF g3
<1>8. IsGraph(g4) /\ KeepsKnown(g3, g4) /\ TrueStore(g4, det, keys)
  <2>1. CASE known /\ nb.lif # NoIface
    BY <1>2, <1>3, <1>7, <2>1, StoreIfaceStep, StoreIfaceTrue DEF g4
  <2>2. CASE ~(known /\ nb.lif # NoIface)
    BY <1>7, <2>2 DEF g4, KeepsKnown
  <2> QED
    BY <2>1, <2>2
<1>9. g4.localIfaces = gr.localIfaces
  BY <1>5, <1>6, <1>7, <1>8 DEF KeepsKnown
<1>10. TrueStore(StoreEdge(g4, k, e), det, keys) /\ StoreEdge(g4, k, e).localIfaces = gr.localIfaces
  BY <1>4, <1>8, <1>9, StoreEdgeTrue
<1> QED
  BY <1>1, <1>8, <1>9, <1>10 DEF gr2

(* Expiry takes nodes and edges away.                                      *)
LEMMA RemoveExpiredTrue ==
    ASSUME NEW det, NEW keys, NEW gr, IsGraph(gr), TrueStore(gr, det, keys)
    PROVE  TrueStore(RemoveExpired(gr), det, keys) /\ RemoveExpired(gr).localIfaces = gr.localIfaces
<1> DEFINE dead == Expired(gr)
           nodes == Restrict(gr.nodes, DOMAIN gr.nodes \ dead)
           edges == Restrict(gr.edges, SurvivingEdges(gr, dead))
           changed == gr.changed \/ dead # {}
           gr2 == RemoveExpired(gr)
<1>1. gr2 = [gr EXCEPT !.nodes = nodes, !.edges = edges, !.changed = changed]
  BY Zenon DEF RemoveExpired
<1>2. \A x \in DOMAIN nodes : x \in DOMAIN gr.nodes /\ nodes[x] = gr.nodes[x]
  BY DEF Restrict
<1>3. SurvivingEdges(gr, dead) \subseteq DOMAIN gr.edges
  BY DEF SurvivingEdges
<1>4. \A k \in DOMAIN edges : k \in DOMAIN gr.edges /\ edges[k] = gr.edges[k]
  BY <1>3 DEF Restrict
<1> HIDE DEF gr2, nodes, edges, changed
<1>5. gr2.nodes = nodes /\ gr2.edges = edges /\ gr2.localIfaces = gr.localIfaces
  BY <1>1 DEF IsGraph
<1>6. TrueStore(gr2, det, keys)
  BY <1>2, <1>4, <1>5 DEF TrueStore
<1> QED
  BY <1>5, <1>6 DEF gr2

(* Time changes the ages only.                                             *)
LEMMA AgeNodesTrue ==
    ASSUME NEW det, NEW keys, NEW gr, IsGraph(gr), TrueStore(gr, det, keys)
    PROVE  TrueStore(AgeNodes(gr), det, keys) /\ AgeNodes(gr).localIfaces = gr.localIfaces
<1> DEFINE older(h) == [gr.nodes[h] EXCEPT !.age = Grow(gr.nodes[h].age)]
           nodes == [h \in DOMAIN gr.nodes |-> older(h)]
           gr2 == AgeNodes(gr)
<1>1. gr2 = [gr EXCEPT !.nodes = nodes]
  BY DEF AgeNodes
<1>2. ASSUME NEW h \in DOMAIN gr.nodes
      PROVE  older(h).ifaces = gr.nodes[h].ifaces
  BY NodeFields DEF Node
<1> HIDE DEF older
<1>3. \A h \in DOMAIN nodes : h \in DOMAIN gr.nodes /\ nodes[h].ifaces = gr.nodes[h].ifaces
  BY <1>2
<1> HIDE DEF gr2, nodes
<1>4. gr2.nodes = nodes /\ gr2.edges = gr.edges /\ gr2.localIfaces = gr.localIfaces
  BY <1>1 DEF IsGraph
<1>5. TrueStore(gr2, det, keys)
  BY <1>3, <1>4 DEF TrueStore, TrueNode
<1> QED
  BY <1>4, <1>5 DEF gr2

-----------------------------------------------------------------------------
(* What an export shows.                                                   *)

(* Hosts with the same names and interfaces look the same.                 *)
LEMMA SameNodesShown ==
    ASSUME NEW gr, NEW gr2, DOMAIN gr2.nodes = DOMAIN gr.nodes,
           \A h \in DOMAIN gr.nodes :
               gr2.nodes[h].name = gr.nodes[h].name /\ gr2.nodes[h].ifaces = gr.nodes[h].ifaces
    PROVE  NodesShown(gr2) = NodesShown(gr)
BY DEF NodesShown

(* Stores of the same shape have the same hosts, tables and links.         *)
LEMMA SameShape ==
    ASSUME NEW gr, NEW gr2, Shape(gr2) = Shape(gr)
    PROVE  /\ NodesShown(gr2) = NodesShown(gr)
           /\ Kinds(gr2.edges) = Kinds(gr.edges)
           /\ DOMAIN gr2.nodes = DOMAIN gr.nodes
           /\ DOMAIN gr2.edges = DOMAIN gr.edges
           /\ \A h \in DOMAIN gr.nodes : gr2.nodes[h].ifaces = gr.nodes[h].ifaces
<1>1. NodesShown(gr2) = NodesShown(gr) /\ Kinds(gr2.edges) = Kinds(gr.edges)
  BY DEF Shape
<1>2. DOMAIN NodesShown(gr) = DOMAIN gr.nodes /\ DOMAIN NodesShown(gr2) = DOMAIN gr2.nodes
  BY DEF NodesShown
<1>3. DOMAIN Kinds(gr.edges) = DOMAIN gr.edges /\ DOMAIN Kinds(gr2.edges) = DOMAIN gr2.edges
  BY DEF Kinds
<1>4. ASSUME NEW h \in DOMAIN gr.nodes
      PROVE  gr2.nodes[h].ifaces = gr.nodes[h].ifaces
  <2>1. NodesShown(gr)[h].ifaces = gr.nodes[h].ifaces
    BY DEF NodesShown
  <2>2. NodesShown(gr2)[h].ifaces = gr2.nodes[h].ifaces
    BY <1>1, <1>2 DEF NodesShown
  <2> QED
    BY <1>1, <2>1, <2>2
<1> QED
  BY <1>1, <1>2, <1>3, <1>4

(* The edges that differ in two stores repeat what the later one lists.    *)
EdgesAsListed(gr, gr2) ==
    \A k \in DOMAIN gr.edges : gr2.edges[k] = gr.edges[k] \/ EdgeAsListed(gr2, k)

(* A view that is up to date stays so when only details of edges change    *)
(* that the interface tables list.                                         *)
LEMMA UpToDateStays ==
    ASSUME NEW gr, WellFormed(gr), NEW gr2, NEW view, UpToDate(view, gr),
           Shape(gr2) = Shape(gr), gr2.localIfaces = gr.localIfaces, EdgesAsListed(gr, gr2)
    PROVE  UpToDate(view, gr2)
<1>1. /\ NodesShown(gr2) = NodesShown(gr)
      /\ Kinds(gr2.edges) = Kinds(gr.edges)
      /\ DOMAIN gr2.nodes = DOMAIN gr.nodes
      /\ DOMAIN gr2.edges = DOMAIN gr.edges
      /\ \A h \in DOMAIN gr.nodes : gr2.nodes[h].ifaces = gr.nodes[h].ifaces
  BY SameShape
<1>2. ASSUME NEW k \in DOMAIN gr2.edges
      PROVE  view.links[k] = gr2.edges[k] \/ EdgeAsListed(gr2, k)
  <2>1. k \in DOMAIN gr.edges
    BY <1>1
  <2>2. CASE EdgeAsListed(gr2, k)
    BY <2>2
  <2>3. CASE gr2.edges[k] = gr.edges[k] /\ view.links[k] = gr.edges[k]
    BY <2>3
  <2>4. CASE gr2.edges[k] = gr.edges[k] /\ EdgeAsListed(gr, k)
    <3>1. gr2.nodes[k.dst].ifaces = gr.nodes[k.dst].ifaces
      BY <1>1, <2>1 DEF WellFormed, EndpointsKnown
    <3>2. ~gr.edges[k].direct => gr2.nodes[k.src].ifaces = gr.nodes[k.src].ifaces
      BY <1>1, <2>1 DEF WellFormed, ProvenanceKnown
    <3>3. LocalDetails(gr2, k.lif) = LocalDetails(gr, k.lif)
      BY DEF LocalDetails
    <3> QED
      BY <2>4, <3>1, <3>2, <3>3 DEF EdgeAsListed
  <2> QED
    BY <2>1, <2>2, <2>3, <2>4 DEF UpToDate, EdgesAsListed
<1> QED
  BY <1>1, <1>2 DEF UpToDate

(* The topology of the store itself is up to date, and stays so under such *)
(* changes.                                                                *)
LEMMA TopologyUpToDate ==
    ASSUME NEW gr, NEW gr2, Shape(gr2) = Shape(gr), EdgesAsListed(gr, gr2)
    PROVE  UpToDate(Topology(gr), gr2)
<1>1. /\ NodesShown(gr2) = NodesShown(gr)
      /\ Kinds(gr2.edges) = Kinds(gr.edges)
      /\ DOMAIN gr2.edges = DOMAIN gr.edges
  BY SameShape
<1>2. Topology(gr).nodes = NodesShown(gr) /\ Topology(gr).links = gr.edges
  BY DEF Topology
<1> QED
  BY <1>1, <1>2 DEF UpToDate, EdgesAsListed

-----------------------------------------------------------------------------
(* The steps on the nodes.                                                 *)

(* The entry of host h may be created or change; the other hosts keep      *)
(* their ages, and what an export shows changes only under the flag.       *)
Learns(gr, gr2, h) ==
    /\ gr2.local = gr.local
    /\ gr2.localIfaces = gr.localIfaces
    /\ gr2.edges = gr.edges
    /\ DOMAIN gr2.nodes = DOMAIN gr.nodes \cup {h}
    /\ \A x \in DOMAIN gr.nodes \ {h} : gr2.nodes[x].age = gr.nodes[x].age
    /\ gr.changed => gr2.changed
    /\ gr2.changed \/ NodesShown(gr2) = NodesShown(gr)

(* Learning of one host in several steps is learning of it.                *)
LEMMA LearnsTransitive ==
    ASSUME NEW g1, NEW g2, NEW g3, NEW h, Learns(g1, g2, h), Learns(g2, g3, h)
    PROVE  Learns(g1, g3, h)
BY DEF Learns

(* The fields of a store in which one entry was replaced.                  *)
LEMMA SetNodeFields ==
    ASSUME NEW gr, IsGraph(gr), NEW id \in Host, NEW node \in Node, NEW ch \in BOOLEAN
    PROVE  /\ SetNode(gr, id, node, ch).local = gr.local
           /\ SetNode(gr, id, node, ch).localIfaces = gr.localIfaces
           /\ SetNode(gr, id, node, ch).edges = gr.edges
           /\ SetNode(gr, id, node, ch).changed = (gr.changed \/ ch)
           /\ DOMAIN SetNode(gr, id, node, ch).nodes = DOMAIN gr.nodes \cup {id}
           /\ SetNode(gr, id, node, ch).nodes[id] = node
           /\ \A x \in DOMAIN gr.nodes \ {id} : SetNode(gr, id, node, ch).nodes[x] = gr.nodes[x]
<1> DEFINE gr2 == SetNode(gr, id, node, ch)
           nodes == Put(gr.nodes, id, node)
           changed == gr.changed \/ ch
<1>1. gr2 = [gr EXCEPT !.nodes = nodes, !.changed = changed]
  BY Zenon DEF SetNode
<1>2. /\ DOMAIN nodes = DOMAIN gr.nodes \cup {id}
      /\ nodes[id] = node
      /\ \A x \in DOMAIN gr.nodes \ {id} : nodes[x] = gr.nodes[x]
  BY DEF Put
<1> HIDE DEF gr2, nodes, changed
<1>3. /\ gr2.nodes = nodes /\ gr2.local = gr.local /\ gr2.localIfaces = gr.localIfaces
      /\ gr2.edges = gr.edges /\ gr2.changed = changed
  BY <1>1 DEF IsGraph
<1>4. gr2.changed = (gr.changed \/ ch)
  BY <1>3, Zenon DEF changed
<1> QED
  BY <1>2, <1>3, <1>4 DEF gr2

(* A host whose entry is replaced is learned, when the store is flagged or *)
(* the entry looks the same.                                               *)
LEMMA SetNodeLearns ==
    ASSUME NEW gr, IsGraph(gr), NEW id \in Host, NEW node \in Node, NEW ch \in BOOLEAN,
           \/ ch
           \/ /\ id \in DOMAIN gr.nodes
              /\ node.name = gr.nodes[id].name
              /\ node.ifaces = gr.nodes[id].ifaces
    PROVE  Learns(gr, SetNode(gr, id, node, ch), id)
<1> DEFINE gr2 == SetNode(gr, id, node, ch)
<1>1. /\ gr2.local = gr.local
      /\ gr2.localIfaces = gr.localIfaces
      /\ gr2.edges = gr.edges
      /\ gr2.changed = (gr.changed \/ ch)
      /\ DOMAIN gr2.nodes = DOMAIN gr.nodes \cup {id}
      /\ gr2.nodes[id] = node
      /\ \A x \in DOMAIN gr.nodes \ {id} : gr2.nodes[x] = gr.nodes[x]
  BY SetNodeFields
<1> HIDE DEF gr2
<1>2. gr2.changed \/ NodesShown(gr2) = NodesShown(gr)
  <2>1. CASE ch
    BY <1>1, <2>1
  <2>2. CASE /\ id \in DOMAIN gr.nodes
             /\ node.name = gr.nodes[id].name
             /\ node.ifaces = gr.nodes[id].ifaces
    <3>1. \A h \in DOMAIN gr.nodes :
             gr2.nodes[h].name = gr.nodes[h].name /\ gr2.nodes[h].ifaces = gr.nodes[h].ifaces
      BY <1>1, <2>2
    <3>2. DOMAIN gr2.nodes = DOMAIN gr.nodes
      BY <1>1, <2>2
    <3> QED
      BY <3>1, <3>2, SameNodesShown
  <2> QED
    BY <2>1, <2>2
<1>3. gr.changed => gr2.changed
  BY <1>1
<1>4. Learns(gr, gr2, id)
  BY <1>1, <1>2, <1>3 DEF Learns
<1> QED
  BY <1>4 DEF gr2

(* A store learns of the hosts it has without a step.                      *)
LEMMA LearnsNothing ==
    ASSUME NEW gr, NEW id \in DOMAIN gr.nodes
    PROVE  Learns(gr, gr, id)
BY DEF Learns

(* Creating a node is flagged.                                             *)
LEMMA EnsureNodeLearns ==
    ASSUME NEW gr, IsGraph(gr), NEW id \in Host, NEW name \in Name
    PROVE  Learns(gr, EnsureNode(gr, id, name), id)
<1>1. CASE id \in DOMAIN gr.nodes
  BY <1>1, LearnsNothing DEF EnsureNode
<1>2. CASE id \notin DOMAIN gr.nodes
  <2> DEFINE node == [name |-> name, age |-> Timeout + 1, ifaces |-> EmptyMap]
  <2>1. node \in Node
    <3>1. EmptyMap \in Ifaces
      BY EmptyMapType, PartialMapEquiv DEF Ifaces
    <3>2. Timeout + 1 \in Ages
      BY TimeoutAssumption DEF Ages
    <3> QED
      BY <3>1, <3>2 DEF Node
  <2>2. EnsureNode(gr, id, name) = SetNode(gr, id, node, TRUE)
    BY <1>2 DEF EnsureNode
  <2> HIDE DEF node
  <2> QED
    BY <2>1, <2>2, SetNodeLearns
<1> QED
  BY <1>1, <1>2

(* Renaming a node is flagged.                                             *)
LEMMA RenameLearns ==
    ASSUME NEW gr, IsGraph(gr), NEW id \in DOMAIN gr.nodes, NEW name \in Name
    PROVE  Learns(gr, Rename(gr, id, name), id)
<1>1. CASE gr.nodes[id].name = name
  BY <1>1, LearnsNothing DEF Rename
<1>2. CASE gr.nodes[id].name # name
  <2> DEFINE node == [gr.nodes[id] EXCEPT !.name = name]
  <2>1. node \in Node /\ id \in Host
    BY NodeFields DEF Node
  <2>2. Rename(gr, id, name) = SetNode(gr, id, node, TRUE)
    BY <1>2 DEF Rename
  <2> HIDE DEF node
  <2> QED
    BY <2>1, <2>2, SetNodeLearns
<1> QED
  BY <1>1, <1>2

(* Refreshing LastSeen is not flagged and not visible.                     *)
LEMMA TouchLearns ==
    ASSUME NEW gr, IsGraph(gr), NEW id \in DOMAIN gr.nodes
    PROVE  Learns(gr, Touch(gr, id), id) /\ Touch(gr, id).nodes[id].age = 0
<1> DEFINE node == [gr.nodes[id] EXCEPT !.age = 0]
           no == FALSE
<1>1. /\ node \in Node
      /\ node.name = gr.nodes[id].name
      /\ node.ifaces = gr.nodes[id].ifaces
      /\ node.age = 0
      /\ id \in Host
  BY NodeFields, TimeoutAssumption DEF Node, Ages
<1>2. Touch(gr, id) = SetNode(gr, id, node, no) /\ no \in BOOLEAN
  BY DEF Touch
<1> HIDE DEF node, no
<1>3. Learns(gr, SetNode(gr, id, node, no), id)
  BY <1>1, <1>2, SetNodeLearns
<1>4. SetNode(gr, id, node, no).nodes[id] = node
  BY <1>1, <1>2, SetNodeFields
<1> QED
  BY <1>1, <1>2, <1>3, <1>4

(* Storing an interface is flagged, ages nobody and leaves the interface   *)
(* listed with the address it was stored with.                             *)
LEMMA StoreIfaceLearns ==
    ASSUME NEW gr, IsGraph(gr), NEW id \in DOMAIN gr.nodes, NEW iface \in Iface, NEW det \in Details
    PROVE  /\ Learns(gr, StoreIface(gr, id, iface, det), id)
           /\ StoreIface(gr, id, iface, det).nodes[id].age = gr.nodes[id].age
           /\ StoreIface(gr, id, iface, det).nodes[id].ifaces[iface].ident = det.ident
           /\ \A x \in DOMAIN gr.nodes \ {id} : StoreIface(gr, id, iface, det).nodes[x] = gr.nodes[x]
<1> DEFINE ifaces == gr.nodes[id].ifaces
           same == iface \in DOMAIN ifaces /\ ifaces[iface].ident = det.ident
<1>1. CASE same
  BY <1>1, LearnsNothing DEF StoreIface
<1>2. CASE ~same
  <2> DEFINE node == [gr.nodes[id] EXCEPT !.ifaces = Put(ifaces, iface, det)]
  <2>1. gr.nodes[id] \in Node /\ id \in Host /\ IsPartialMap(ifaces, Iface, Details)
    BY NodeFields
  <2>2. Put(ifaces, iface, det) \in Ifaces
    BY <2>1, PutMap, PartialMapEquiv DEF Ifaces
  <2>3. node \in Node /\ node.age = gr.nodes[id].age /\ node.ifaces[iface] = det
    BY <2>1, <2>2 DEF Node, Put
  <2>4. StoreIface(gr, id, iface, det) = SetNode(gr, id, node, TRUE)
    BY <1>2 DEF StoreIface
  <2> HIDE DEF node
  <2>5. Learns(gr, SetNode(gr, id, node, TRUE), id)
    BY <2>1, <2>3, SetNodeLearns
  <2>6. /\ SetNode(gr, id, node, TRUE).nodes[id] = node
        /\ \A x \in DOMAIN gr.nodes \ {id} : SetNode(gr, id, node, TRUE).nodes[x] = gr.nodes[x]
    BY <2>1, <2>3, SetNodeFields
  <2> QED
    BY <2>3, <2>4, <2>5, <2>6
<1> QED
  BY <1>1, <1>2

-----------------------------------------------------------------------------
(* The methods.                                                            *)

(* The effect of hearing of host h: it is fresh, nobody else's age changes,*)
(* at most one link to it is added, no change goes unflagged but that of   *)
(* an edge which then repeats what the interface tables list.              *)
Hears(gr, gr2, h) ==
    /\ gr2.local = gr.local
    /\ gr2.localIfaces = gr.localIfaces
    /\ DOMAIN gr2.nodes = DOMAIN gr.nodes \cup {h}
    /\ gr2.nodes[h].age = 0
    /\ \A x \in DOMAIN gr.nodes \ {h} : gr2.nodes[x].age = gr.nodes[x].age
    /\ \/ DOMAIN gr2.edges = DOMAIN gr.edges
       \/ \E l \in EdgeKey :
              /\ l.dst = h
              /\ l.src \in (DOMAIN gr.nodes \cup {gr.local}) \ {h}
              /\ DOMAIN gr2.edges = DOMAIN gr.edges \cup {l}
    /\ gr.changed => gr2.changed
    /\ gr2.changed \/ Shape(gr2) = Shape(gr)
    /\ EdgesAsListed(gr, gr2)

(* Storing an edge changes its own key at most, and flags the store when   *)
(* the kinds of the links change.                                          *)
LEMMA StoreEdgeLinks ==
    ASSUME NEW gr, IsGraph(gr), NEW k \in EdgeKey, NEW e \in Edge
    PROVE  /\ StoreEdge(gr, k, e).local = gr.local
           /\ StoreEdge(gr, k, e).localIfaces = gr.localIfaces
           /\ StoreEdge(gr, k, e).nodes = gr.nodes
           /\ DOMAIN StoreEdge(gr, k, e).edges = DOMAIN gr.edges \cup {k}
           /\ gr.changed => StoreEdge(gr, k, e).changed
           /\ StoreEdge(gr, k, e).changed \/ Kinds(StoreEdge(gr, k, e).edges) = Kinds(gr.edges)
           /\ \A x \in DOMAIN gr.edges :
                  \/ StoreEdge(gr, k, e).edges[x] = gr.edges[x]
                  \/ x = k /\ StoreEdge(gr, k, e).edges[x] = e
<1> DEFINE known == k \in DOMAIN gr.edges
           downgrade == known /\ gr.edges[k].direct /\ ~e.direct
           upgrade == known /\ ~gr.edges[k].direct /\ e.direct
           edges == IF downgrade THEN gr.edges ELSE Put(gr.edges, k, e)
           changed == gr.changed \/ ~known \/ upgrade
           gr2 == StoreEdge(gr, k, e)
<1>1. gr2 = [gr EXCEPT !.edges = edges, !.changed = changed]
  BY Zenon DEF StoreEdge
<1> HIDE DEF gr2, edges, changed
<1>2. /\ gr2.nodes = gr.nodes /\ gr2.local = gr.local /\ gr2.localIfaces = gr.localIfaces
      /\ gr2.edges = edges /\ gr2.changed = changed
  BY <1>1 DEF IsGraph
<1>3. /\ DOMAIN Put(gr.edges, k, e) = DOMAIN gr.edges \cup {k}
      /\ Put(gr.edges, k, e)[k] = e
      /\ \A x \in DOMAIN gr.edges : x # k => Put(gr.edges, k, e)[x] = gr.edges[x]
  BY DEF Put
<1>4. DOMAIN edges = DOMAIN gr.edges \cup {k}
  BY <1>3 DEF edges
<1>5. changed \/ Kinds(edges) = Kinds(gr.edges)
  <2> SUFFICES ASSUME ~changed PROVE Kinds(edges) = Kinds(gr.edges)
    OBVIOUS
  <2>1. known /\ ~upgrade
    BY DEF changed
  <2>2. gr.edges[k] \in Edge
    BY <2>1 DEF IsGraph, IsPartialMap
  <2>3. DOMAIN edges = DOMAIN gr.edges
    BY <1>4, <2>1
  <2>4. downgrade \/ gr.edges[k].direct = e.direct
    BY <2>1, <2>2 DEF Edge
  <2>5. ASSUME NEW x \in DOMAIN gr.edges
        PROVE  edges[x].direct = gr.edges[x].direct
    <3>1. CASE downgrade
      BY <3>1 DEF edges
    <3>2. CASE ~downgrade
      BY <1>3, <2>4, <3>2 DEF edges
    <3> QED
      BY <3>1, <3>2
  <2> QED
    BY <2>3, <2>5 DEF Kinds
<1>6. gr.changed => changed
  BY DEF changed
<1>7. \A x \in DOMAIN gr.edges : edges[x] = gr.edges[x] \/ (x = k /\ edges[x] = e)
  BY <1>3 DEF edges
<1> QED
  BY <1>2, <1>4, <1>5, <1>6, <1>7 DEF gr2

(* The edge e repeats what the tables of gr list, at the key k.            *)
Lists(gr, k, e) ==
    /\ gr.nodes[k.dst].ifaces[k.rif].ident = e.rdet.ident
    /\ IF e.direct
       THEN e.ldet = LocalDetails(gr, k.lif)
       ELSE k.lif # NoIface => gr.nodes[k.src].ifaces[k.lif].ident = e.ldet.ident

(* A host learned and then linked from a known one is heard of.            *)
LEMMA LearnsAndLinks ==
    ASSUME NEW gr, NEW mid, IsGraph(mid), NEW h, Learns(gr, mid, h), mid.nodes[h].age = 0,
           NEW k \in EdgeKey, NEW e \in Edge, k.dst = h, k.src # h, k.src \in DOMAIN gr.nodes \cup {gr.local},
           Lists(mid, k, e)
    PROVE  Hears(gr, StoreEdge(mid, k, e), h)
<1> DEFINE gr2 == StoreEdge(mid, k, e)
<1>1. /\ gr2.local = mid.local
      /\ gr2.localIfaces = mid.localIfaces
      /\ gr2.nodes = mid.nodes
      /\ DOMAIN gr2.edges = DOMAIN mid.edges \cup {k}
      /\ mid.changed => gr2.changed
      /\ gr2.changed \/ Kinds(gr2.edges) = Kinds(mid.edges)
      /\ \A x \in DOMAIN mid.edges : gr2.edges[x] = mid.edges[x] \/ (x = k /\ gr2.edges[x] = e)
  BY StoreEdgeLinks
<1> HIDE DEF gr2
<1>2. NodesShown(gr2) = NodesShown(mid)
  BY <1>1, SameNodesShown
<1>3. mid.edges = gr.edges
  BY DEF Learns
<1>4. gr2.changed \/ Shape(gr2) = Shape(gr)
  BY <1>1, <1>2, <1>3 DEF Learns, Shape
<1>5. EdgesAsListed(gr, gr2)
  <2>1. LocalDetails(gr2, k.lif) = LocalDetails(mid, k.lif)
    BY <1>1 DEF LocalDetails
  <2>2. gr2.edges[k] = e => EdgeAsListed(gr2, k)
    BY <1>1, <2>1 DEF Lists, EdgeAsListed
  <2> QED
    BY <1>1, <1>3, <2>2 DEF EdgesAsListed
<1> QED
  BY <1>1, <1>3, <1>4, <1>5 DEF Learns, Hears, gr2

(* A host learned without a link is heard of.                              *)
LEMMA LearnsOnly ==
    ASSUME NEW gr, NEW gr2, NEW h, Learns(gr, gr2, h), gr2.nodes[h].age = 0
    PROVE  Hears(gr, gr2, h)
BY DEF Learns, Hears, Shape, EdgesAsListed

(* A packet is how its sender is heard of.                                 *)
LEMMA AddOrUpdateHears ==
    ASSUME NEW gr, IsGraph(gr), NEW id \in Host, id # gr.local, NEW name \in Name,
           NEW rif \in Iface, NEW rdet \in Details, NEW lif \in Iface
    PROVE  Hears(gr, AddOrUpdate(gr, id, name, rif, rdet, lif, TRUE, NoHost), id)
<1> DEFINE gr2 == AddOrUpdate(gr, id, name, rif, rdet, lif, TRUE, NoHost)
           g1 == EnsureNode(gr, id, name)
           g2 == Rename(g1, id, name)
           g3 == Touch(g2, id)
           g4 == StoreIface(g3, id, rif, rdet)
           k == [src |-> gr.local, dst |-> id, lif |-> lif, rif |-> rif]
           e == [ldet |-> LocalDetails(gr, lif), rdet |-> rdet, direct |-> TRUE, from |-> NoHost]
<1>1. gr2 = IF gr.local = NoHost THEN g4 ELSE StoreEdge(g4, k, e)
  BY DEF AddOrUpdate
<1> HIDE DEF gr2, g1, g2, g3, g4, k, e
<1>2. IsGraph(g1) /\ id \in DOMAIN g1.nodes /\ Learns(gr, g1, id)
  BY EnsureNodeStep, EnsureNodeLearns DEF g1
<1>3. IsGraph(g2) /\ id \in DOMAIN g2.nodes /\ Learns(g1, g2, id)
  BY <1>2, RenameStep, RenameLearns DEF g2
<1>4. IsGraph(g3) /\ id \in DOMAIN g3.nodes /\ Learns(g2, g3, id) /\ g3.nodes[id].age = 0
  BY <1>3, TouchStep, TouchLearns DEF g3
<1>5. /\ IsGraph(g4) /\ Learns(g3, g4, id) /\ g4.nodes[id].age = 0
      /\ g4.nodes[id].ifaces[rif].ident = rdet.ident
  BY <1>4, StoreIfaceStep, StoreIfaceLearns DEF g4
<1>6. Learns(gr, g4, id)
  BY <1>2, <1>3, <1>4, <1>5, LearnsTransitive
<1>7. CASE gr.local = NoHost
  BY <1>1, <1>5, <1>6, <1>7, LearnsOnly DEF gr2
<1>8. CASE gr.local # NoHost
  <2>1. k \in EdgeKey /\ k.dst = id /\ k.src = gr.local /\ k.lif = lif /\ k.rif = rif
    BY <1>8 DEF k, EdgeKey, IsGraph
  <2>2. e \in Edge /\ e.direct /\ e.rdet = rdet /\ e.ldet = LocalDetails(gr, lif)
    BY LocalDetailsType DEF e, Edge
  <2>3. LocalDetails(g4, lif) = LocalDetails(gr, lif)
    BY <1>6 DEF Learns, LocalDetails
  <2>4. Lists(g4, k, e)
    BY <1>5, <2>1, <2>2, <2>3 DEF Lists
  <2>5. Hears(gr, StoreEdge(g4, k, e), id)
    BY <1>5, <1>6, <2>1, <2>2, <2>4, LearnsAndLinks
  <2> QED
    BY <1>1, <1>8, <2>5 DEF gr2
<1> QED
  BY <1>7, <1>8 DEF gr2

(* A report is how the reported host is heard of.                          *)
LEMMA AddOrUpdateIndirectEdgeHears ==
    ASSUME NEW gr, IsGraph(gr), NEW nb \in NeighborInfo, NEW from \in Host, nb.id # from
    PROVE  Hears(gr, AddOrUpdateIndirectEdge(gr, nb, from), nb.id)
<1> DEFINE gr2 == AddOrUpdateIndirectEdge(gr, nb, from)
           id == nb.id
           g1 == EnsureNode(gr, id, nb.name)
           g2 == Touch(g1, id)
           g3 == StoreIface(g2, id, nb.rif, nb.rdet)
           known == from \in DOMAIN g3.nodes
           g4 == IF known /\ nb.lif # NoIface THEN StoreIface(g3, from, nb.lif, nb.ldet) ELSE g3
           k == [src |-> from, dst |-> id, lif |-> nb.lif, rif |-> nb.rif]
           e == [ldet |-> nb.ldet, rdet |-> nb.rdet, direct |-> FALSE, from |-> from]
<1>1. gr2 = IF known THEN StoreEdge(g4, k, e) ELSE g4
  BY DEF AddOrUpdateIndirectEdge, StoreNeighbor, StoreReportedEdge
<1>2. /\ id \in Host /\ id # from
      /\ nb.name \in Name /\ nb.lif \in Iface /\ nb.rif \in Iface
      /\ nb.ldet \in Details /\ nb.rdet \in Details
  BY DEF NeighborInfo
<1> HIDE DEF gr2, id, g1, g2, g3, g4, k, e
<1>3. IsGraph(g1) /\ id \in DOMAIN g1.nodes /\ Learns(gr, g1, id)
  BY <1>2, EnsureNodeStep, EnsureNodeLearns DEF g1
<1>4. IsGraph(g2) /\ id \in DOMAIN g2.nodes /\ Learns(g1, g2, id) /\ g2.nodes[id].age = 0
  BY <1>3, TouchStep, TouchLearns DEF g2
<1>5. /\ IsGraph(g3) /\ id \in DOMAIN g3.nodes /\ Learns(g2, g3, id) /\ g3.nodes[id].age = 0
      /\ g3.nodes[id].ifaces[nb.rif].ident = nb.rdet.ident
  BY <1>2, <1>4, StoreIfaceStep, StoreIfaceLearns DEF g3
<1>6. Learns(gr, g3, id)
  BY <1>3, <1>4, <1>5, LearnsTransitive
<1>7. /\ IsGraph(g4) /\ Learns(gr, g4, id) /\ g4.nodes[id].age = 0
      /\ g4.nodes[id].ifaces[nb.rif].ident = nb.rdet.ident
      /\ known /\ nb.lif # NoIface => g4.nodes[from].ifaces[nb.lif].ident = nb.ldet.ident
  <2>1. CASE known /\ nb.lif # NoIface
    <3>1. /\ IsGraph(g4)
          /\ Learns(g3, g4, from)
          /\ g4.nodes[from].age = g3.nodes[from].age
          /\ g4.nodes[from].ifaces[nb.lif].ident = nb.ldet.ident
          /\ \A x \in DOMAIN g3.nodes \ {from} : g4.nodes[x] = g3.nodes[x]
      BY <1>2, <1>5, <2>1, StoreIfaceStep, StoreIfaceLearns DEF g4
    <3>2. /\ Learns(g3, g4, id) /\ g4.nodes[id].age = 0
          /\ g4.nodes[id].ifaces[nb.rif].ident = nb.rdet.ident
      BY <1>2, <1>5, <2>1, <3>1 DEF Learns
    <3> QED
      BY <1>6, <3>1, <3>2, LearnsTransitive
  <2>2. CASE ~(known /\ nb.lif # NoIface)
    BY <1>5, <1>6, <2>2 DEF g4
  <2> QED
    BY <2>1, <2>2
<1>8. CASE ~known
  BY <1>1, <1>7, <1>8, LearnsOnly DEF gr2, id
<1>9. CASE known
  <2>1. k \in EdgeKey /\ k.dst = id /\ k.src = from /\ k.lif = nb.lif /\ k.rif = nb.rif
    BY <1>2 DEF k, EdgeKey
  <2>2. e \in Edge /\ ~e.direct /\ e.rdet = nb.rdet /\ e.ldet = nb.ldet
    BY <1>2 DEF e, Edge
  <2>3. from \in DOMAIN gr.nodes
    BY <1>2, <1>6, <1>9 DEF Learns
  <2>4. Lists(g4, k, e)
    BY <1>7, <1>9, <2>1, <2>2 DEF Lists
  <2>5. Hears(gr, StoreEdge(g4, k, e), id)
    BY <1>2, <1>7, <2>1, <2>2, <2>3, <2>4, LearnsAndLinks
  <2> QED
    BY <1>1, <1>9, <2>5 DEF gr2, id
<1> QED
  BY <1>8, <1>9 DEF gr2

(* The expiry forgets the hosts that are too old, and of a well-formed     *)
(* store exactly the edges that end at one.                                *)
LEMMA RemoveExpiredForgets ==
    ASSUME NEW gr, IsGraph(gr), WellFormed(gr)
    PROVE  LET gr2 == RemoveExpired(gr)
               dead == Expired(gr)
           IN  /\ gr2.local = gr.local
               /\ DOMAIN gr2.nodes = DOMAIN gr.nodes \ dead
               /\ \A h \in DOMAIN gr2.nodes : gr2.nodes[h] = gr.nodes[h]
               /\ DOMAIN gr2.edges = {k \in DOMAIN gr.edges : k.src \notin dead /\ k.dst \notin dead}
               /\ gr2.changed = (gr.changed \/ dead # {})
               /\ gr2.localIfaces = gr.localIfaces
               /\ dead = {} => Shape(gr2) = Shape(gr) /\ gr2.edges = gr.edges
<1> DEFINE dead == Expired(gr)
           nodes == Restrict(gr.nodes, DOMAIN gr.nodes \ dead)
           edges == Restrict(gr.edges, SurvivingEdges(gr, dead))
           changed == gr.changed \/ dead # {}
           gr2 == RemoveExpired(gr)
<1>1. gr2 = [gr EXCEPT !.nodes = nodes, !.edges = edges, !.changed = changed]
  BY Zenon DEF RemoveExpired
<1>2. /\ DOMAIN nodes = DOMAIN gr.nodes \ dead
      /\ \A h \in DOMAIN nodes : nodes[h] = gr.nodes[h]
  BY DEF Restrict
<1>3. SurvivingEdges(gr, dead) = {k \in DOMAIN gr.edges : k.src \notin dead /\ k.dst \notin dead}
  <2>1. gr.local \notin dead /\ NoHost \notin dead
    BY NoHostAssumption DEF WellFormed, SelfNotDiscovered, Expired, IsGraph, IsPartialMap
  <2>2. \A k \in DOMAIN gr.edges : gr.edges[k].from \in {k.src, NoHost}
    BY DEF WellFormed, ProvenanceKnown
  <2> QED
    BY <2>1, <2>2 DEF SurvivingEdges
<1>4. /\ DOMAIN edges = SurvivingEdges(gr, dead)
      /\ \A k \in DOMAIN edges : edges[k] = gr.edges[k]
  BY DEF Restrict
<1> HIDE DEF gr2, nodes, edges, changed, dead
<1>5. /\ gr2.nodes = nodes /\ gr2.local = gr.local /\ gr2.localIfaces = gr.localIfaces
      /\ gr2.edges = edges /\ gr2.changed = changed
  BY <1>1 DEF IsGraph
<1>6. ASSUME dead = {}
      PROVE  Shape(gr2) = Shape(gr) /\ gr2.edges = gr.edges
  <2>1. NodesShown(gr2) = NodesShown(gr)
    BY <1>2, <1>5, <1>6, SameNodesShown
  <2>2. SurvivingEdges(gr, dead) = DOMAIN gr.edges
    BY <1>3, <1>6
  <2>3. edges = [k \in DOMAIN gr.edges |-> gr.edges[k]]
    BY <2>2 DEF edges, Restrict
  <2>4. gr.edges = [k \in DOMAIN gr.edges |-> gr.edges[k]]
    BY DEF IsGraph, IsPartialMap
  <2>5. gr2.edges = gr.edges
    BY <1>5, <2>3, <2>4
  <2> QED
    BY <2>1, <2>5 DEF Shape
<1>7. gr2.changed = (gr.changed \/ dead # {})
  BY <1>5, Zenon DEF changed
<1> QED
  BY <1>2, <1>3, <1>4, <1>5, <1>6, <1>7 DEF gr2, dead

(* Clearing the flag shows nothing.                                        *)
LEMMA ClearChangesShows ==
    ASSUME NEW gr, IsGraph(gr)
    PROVE  /\ ClearChanges(gr).local = gr.local
           /\ ClearChanges(gr).nodes = gr.nodes
           /\ ClearChanges(gr).edges = gr.edges
           /\ ClearChanges(gr).changed = FALSE
           /\ ClearChanges(gr).localIfaces = gr.localIfaces
           /\ Shape(ClearChanges(gr)) = Shape(gr)
BY DEF IsGraph, ClearChanges, Shape, NodesShown

(* Time makes hosts silent, and shows nothing.                             *)
LEMMA AgeNodesShows ==
    ASSUME NEW gr, IsGraph(gr)
    PROVE  /\ AgeNodes(gr).local = gr.local
           /\ DOMAIN AgeNodes(gr).nodes = DOMAIN gr.nodes
           /\ \A h \in DOMAIN gr.nodes :
                  /\ gr.nodes[h].age > Timeout => AgeNodes(gr).nodes[h].age > Timeout
                  /\ AgeNodes(gr).nodes[h].age >= gr.nodes[h].age
           /\ AgeNodes(gr).edges = gr.edges
           /\ AgeNodes(gr).changed = gr.changed
           /\ AgeNodes(gr).localIfaces = gr.localIfaces
           /\ Shape(AgeNodes(gr)) = Shape(gr)
<1> DEFINE older(h) == [gr.nodes[h] EXCEPT !.age = Grow(gr.nodes[h].age)]
           nodes == [h \in DOMAIN gr.nodes |-> older(h)]
           gr2 == AgeNodes(gr)
<1>1. gr2 = [gr EXCEPT !.nodes = nodes]
  BY DEF AgeNodes
<1>2. ASSUME NEW h \in DOMAIN gr.nodes
      PROVE  /\ older(h).name = gr.nodes[h].name
             /\ older(h).ifaces = gr.nodes[h].ifaces
             /\ gr.nodes[h].age > Timeout => older(h).age > Timeout
             /\ older(h).age >= gr.nodes[h].age
  BY NodeFields, TimeoutAssumption DEF Node, Ages, Grow
<1> HIDE DEF older
<1>3. DOMAIN nodes = DOMAIN gr.nodes /\ \A h \in DOMAIN gr.nodes : nodes[h] = older(h)
  OBVIOUS
<1> HIDE DEF gr2, nodes
<1>4. /\ gr2.nodes = nodes /\ gr2.local = gr.local /\ gr2.localIfaces = gr.localIfaces
      /\ gr2.edges = gr.edges /\ gr2.changed = gr.changed
  BY <1>1 DEF IsGraph
<1>5. NodesShown(gr2) = NodesShown(gr)
  BY <1>2, <1>3, <1>4, SameNodesShown
<1>6. Shape(gr2) = Shape(gr)
  BY <1>4, <1>5 DEF Shape
<1> QED
  BY <1>2, <1>3, <1>4, <1>6 DEF gr2
=============================================================================
