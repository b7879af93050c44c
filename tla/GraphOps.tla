------------------------------ MODULE GraphOps ------------------------------
(***************************************************************************)
(* The topology store of one lldiscovery daemon (internal/graph/graph.go)  *)
(* as operators from a graph to a graph.  Each exported method of *Graph   *)
(* holds g.mu for its whole body, so one method call is one atomic step of *)
(* the modules that use these operators.                                   *)
(*                                                                         *)
(* A graph is a record                                                     *)
(*   nodes       machine id -> Node           (Graph.nodes)                *)
(*   local       the local machine id, or NoHost while Graph.localNode is  *)
(*               nil                                                       *)
(*   localIfaces interface -> Details         (Graph.localNode.Interfaces) *)
(*   edges       EdgeKey -> Edge              (Graph.edges; a slice holds  *)
(*               at most one edge for a pair of interfaces, because both   *)
(*               methods look for the pair before they append)             *)
(*   changed     Graph.changed                                             *)
(*                                                                         *)
(* Node.LastSeen is the age of the node: the clock ticks since LastSeen    *)
(* was assigned, saturating one tick above Timeout.                        *)
(*                                                                         *)
(* InterfaceDetails is split in two: "ident" stands for the fields the     *)
(* store compares before it overwrites them (IPAddress, RDMADevice, Speed) *)
(* and "pfx" for GlobalPrefixes, which it does not compare.  The two GUIDs *)
(* of an RDMA device are left out: they are not compared either, and       *)
(* nothing but a label is made of them.                                    *)
(*                                                                         *)
(* An operator placed before the method it is named after, with a suffix   *)
(* (SurvivingEdgesOfOwner, HandleNeighborUnfiltered, ...), is a faulty     *)
(* variant of that method; the faults show which property notices them.    *)
(***************************************************************************)
EXTENDS Naturals, Functions

CONSTANTS
    Host,       \* machine ids
    NoHost,     \* the empty string where a machine id is expected
    Iface,      \* interface names, NoIface included
    NoIface,    \* the empty string where an interface name is expected
    Name,       \* host names
    Ident,      \* values of the compared interface fields
    NoIdent,    \* their zero value
    Pfx,        \* values of GlobalPrefixes
    NoPfx,      \* its zero value
    Timeout     \* node_timeout, in clock ticks

ASSUME NoHostAssumption == NoHost \notin Host
ASSUME ZeroValuesAssumption == NoIface \in Iface /\ NoIdent \in Ident /\ NoPfx \in Pfx
ASSUME TimeoutAssumption == Timeout \in Nat

-----------------------------------------------------------------------------
(* The values of the store.                                                *)

PartialMap(S, T) == UNION {[D -> T] : D \in SUBSET S}

IsPartialMap(f, S, T) == DOMAIN f \subseteq S /\ f \in [DOMAIN f -> T]

EmptyMap == [x \in {} |-> x]

Put(f, k, v) == [x \in DOMAIN f \cup {k} |-> IF x = k THEN v ELSE f[x]]

Details == [ident : Ident, pfx : Pfx]

ZeroDetails == [ident |-> NoIdent, pfx |-> NoPfx]

Ifaces == PartialMap(Iface, Details)

Ages == 0 .. Timeout + 1

Node == [name : Name, age : Ages, ifaces : Ifaces]

EdgeKey == [src : Host, dst : Host, lif : Iface, rif : Iface]

Edge == [ldet : Details, rdet : Details, direct : BOOLEAN, from : Host \cup {NoHost}]

IsGraph(gr) ==
    /\ gr \in [nodes : {gr.nodes},
              local : Host \cup {NoHost},
              localIfaces : Ifaces,
              edges : {gr.edges},
              changed : BOOLEAN]
    /\ IsPartialMap(gr.nodes, Host, Node)
    /\ IsPartialMap(gr.edges, EdgeKey, Edge)

(* One entry of Packet.Neighbors: a direct edge as its owner reports it.   *)
NeighborInfo ==
    [id : Host, name : Name, lif : Iface, ldet : Details, rif : Iface, rdet : Details]

NewGraph ==
    [nodes |-> EmptyMap, local |-> NoHost, localIfaces |-> EmptyMap,
     edges |-> EmptyMap, changed |-> FALSE]

SetLocalNode(g, id, ifaces) ==
    [g EXCEPT !.local = id, !.localIfaces = ifaces, !.changed = TRUE]

-----------------------------------------------------------------------------
(* The steps AddOrUpdate and AddOrUpdateIndirectEdge are made of.          *)

SetNode(g, id, node, change) ==
    [g EXCEPT !.nodes = Put(g.nodes, id, node), !.changed = g.changed \/ change]

(* A node is created without interfaces and with the zero LastSeen, older  *)
(* than any timeout until it is touched.                                   *)
EnsureNode(g, id, name) ==
    IF id \in DOMAIN g.nodes
    THEN g
    ELSE SetNode(g, id, [name |-> name, age |-> Timeout + 1, ifaces |-> EmptyMap], TRUE)

Rename(g, id, name) ==
    IF g.nodes[id].name = name THEN g ELSE SetNode(g, id, [g.nodes[id] EXCEPT !.name = name], TRUE)

Touch(g, id) == SetNode(g, id, [g.nodes[id] EXCEPT !.age = 0], FALSE)

(* The details of an interface are overwritten only when a compared field  *)
(* differs: a change of the prefixes alone is not stored.                  *)
StoreIfaceOnce(g, id, iface, det) ==
    IF iface \in DOMAIN g.nodes[id].ifaces
    THEN g
    ELSE SetNode(g, id, [g.nodes[id] EXCEPT !.ifaces = Put(g.nodes[id].ifaces, iface, det)], TRUE)

StoreIface(g, id, iface, det) ==
    LET ifaces == g.nodes[id].ifaces
    IN  IF iface \in DOMAIN ifaces /\ ifaces[iface].ident = det.ident
        THEN g
        ELSE SetNode(g, id, [g.nodes[id] EXCEPT !.ifaces = Put(ifaces, iface, det)], TRUE)

StoreEdgeUnflagged(g, k, e) == [g EXCEPT !.edges = Put(g.edges, k, e)]

(* A direct edge is never overwritten by an indirect one.  The store is    *)
(* flagged for a new edge and for an indirect edge that becomes direct; an *)
(* edge overwritten by one of its own kind is not flagged.                 *)
StoreEdge(g, k, e) ==
    LET known == k \in DOMAIN g.edges
        downgrade == known /\ g.edges[k].direct /\ ~e.direct
        upgrade == known /\ ~g.edges[k].direct /\ e.direct
    IN  [g EXCEPT !.edges = IF downgrade THEN g.edges ELSE Put(g.edges, k, e),
                  !.changed = g.changed \/ ~known \/ upgrade]

(* What the local node knows of the interface a packet came in on: nothing *)
(* when the interface is unknown to the socket or was not active at start. *)
LocalDetails(g, lif) ==
    IF lif # NoIface /\ lif \in DOMAIN g.localIfaces THEN g.localIfaces[lif] ELSE ZeroDetails

-----------------------------------------------------------------------------
(* The exported methods.                                                   *)

AddOrUpdateWithoutLocal(g, id, name, rif, rdet, lif, direct, from) ==
    StoreEdge(StoreIface(Touch(EnsureNode(g, id, name), id), id, rif, rdet),
              [src |-> g.local, dst |-> id, lif |-> lif, rif |-> rif],
              [ldet |-> LocalDetails(g, lif), rdet |-> rdet, direct |-> direct, from |-> from])

AddOrUpdateUnderLearnedFrom(g, id, name, rif, rdet, lif, direct, from) ==
    StoreEdge(StoreIface(Touch(EnsureNode(g, id, name), id), id, rif, rdet),
              [src |-> from, dst |-> id, lif |-> lif, rif |-> rif],
              [ldet |-> LocalDetails(g, lif), rdet |-> rdet, direct |-> direct, from |-> from])

AddOrUpdate(g, id, name, rif, rdet, lif, direct, from) ==
    LET seen == Touch(Rename(EnsureNode(g, id, name), id, name), id)
        stored == StoreIface(seen, id, rif, rdet)
    IN  IF g.local = NoHost
        THEN stored
        ELSE StoreEdge(stored,
                       [src |-> g.local, dst |-> id, lif |-> lif, rif |-> rif],
                       [ldet |-> LocalDetails(g, lif), rdet |-> rdet, direct |-> direct, from |-> from])

(* The reported neighbour counts as seen, although only the intermediate   *)
(* host was heard from.                                                    *)
StoreNeighbor(g, nb) ==
    StoreIface(Touch(EnsureNode(g, nb.id, nb.name), nb.id), nb.id, nb.rif, nb.rdet)

StoreReportedEdgeUnderLocal(g, nb, from) ==
    StoreEdge(g,
              [src |-> g.local, dst |-> nb.id, lif |-> nb.lif, rif |-> nb.rif],
              [ldet |-> nb.ldet, rdet |-> nb.rdet, direct |-> FALSE, from |-> from])

(* The edge is stored under the intermediate host, not under the local     *)
(* node.                                                                   *)
StoreReportedEdge(g, nb, from) ==
    StoreEdge(g,
              [src |-> from, dst |-> nb.id, lif |-> nb.lif, rif |-> nb.rif],
              [ldet |-> nb.ldet, rdet |-> nb.rdet, direct |-> FALSE, from |-> from])

AddOrUpdateIndirectEdgeWithoutIface(g, nb, from) ==
    LET stored == StoreNeighbor(g, nb)
    IN  IF from \notin DOMAIN stored.nodes THEN stored ELSE StoreReportedEdge(stored, nb, from)

(* Without a node for the intermediate host no edge is stored.             *)
AddOrUpdateIndirectEdge(g, nb, from) ==
    LET stored == StoreNeighbor(g, nb)
        known == from \in DOMAIN stored.nodes
        both == IF known /\ nb.lif # NoIface THEN StoreIface(stored, from, nb.lif, nb.ldet) ELSE stored
    IN  IF known THEN StoreReportedEdge(both, nb, from) ELSE both

Expired(g) == {h \in DOMAIN g.nodes : g.nodes[h].age > Timeout}

SurvivingEdgesOfOwner(g, dead) == {k \in DOMAIN g.edges : k.src \notin dead}

SurvivingEdgesOrNone(g, dead) == IF dead = {} THEN DOMAIN g.edges ELSE {}

(* The cascade: an edge goes with either end and with the host it was      *)
(* learned from.                                                           *)
SurvivingEdges(g, dead) ==
    {k \in DOMAIN g.edges : k.src \notin dead /\ k.dst \notin dead /\ g.edges[k].from \notin dead}

RemoveExpired(g) ==
    LET dead == Expired(g)
    IN  [g EXCEPT !.nodes = Restrict(g.nodes, DOMAIN g.nodes \ dead),
                  !.edges = Restrict(g.edges, SurvivingEdges(g, dead)),
                  !.changed = g.changed \/ dead # {}]

ClearChanges(g) == [g EXCEPT !.changed = FALSE]

(* GetNodes: the local node and the discovered ones.                       *)
GetNodes(g) == DOMAIN g.nodes \cup ({g.local} \ {NoHost})

(* What GetNodes copies of the discovered hosts: all but the LastSeen that *)
(* no exporter prints.  GetEdges copies the edges whole.                   *)
NodesShown(gr) ==
    [h \in DOMAIN gr.nodes |-> [name |-> gr.nodes[h].name, ifaces |-> gr.nodes[h].ifaces]]

Topology(gr) == [nodes |-> NodesShown(gr), links |-> gr.edges]

(* Which links there are and which of them are direct, without the details *)
(* an edge repeats of the interfaces it joins.                             *)
Kinds(links) == [k \in DOMAIN links |-> links[k].direct]

Shape(gr) == [nodes |-> NodesShown(gr), links |-> Kinds(gr.edges)]

PrefixOf(ifaces, iface) == IF iface \in DOMAIN ifaces THEN ifaces[iface].pfx ELSE NoPfx

ReportEdgeSwapped(g, k) ==
    [id |-> k.dst, name |-> g.nodes[k.dst].name,
     lif |-> k.rif, ldet |-> g.edges[k].rdet, rif |-> k.lif, rdet |-> g.edges[k].ldet]

(* Addresses come from the edge, prefixes from the interface tables of the *)
(* two nodes.                                                              *)
ReportEdge(g, k) ==
    [id |-> k.dst, name |-> g.nodes[k.dst].name,
     lif |-> k.lif,
     ldet |-> [ident |-> g.edges[k].ldet.ident, pfx |-> PrefixOf(g.localIfaces, k.lif)],
     rif |-> k.rif,
     rdet |-> [ident |-> g.edges[k].rdet.ident, pfx |-> PrefixOf(g.nodes[k.dst].ifaces, k.rif)]]

DirectEdgesOfAll(g) == {k \in DOMAIN g.edges : k.dst \in DOMAIN g.nodes}

(* The local node's direct edges to hosts that still have a node.          *)
DirectEdges(g) == {k \in DOMAIN g.edges : k.src = g.local /\ g.edges[k].direct /\ k.dst \in DOMAIN g.nodes}

GetDirectNeighbors(g) == {ReportEdge(g, k) : k \in DirectEdges(g)}

HandleNeighborUnfiltered(g, nb, from) == AddOrUpdateIndirectEdge(g, nb, from)

(* One round of the neighbour loop of the receive handler (main.go): the   *)
(* entry about the local node is skipped.                                  *)
HandleNeighbor(g, nb, from) ==
    IF nb.id = g.local THEN g ELSE AddOrUpdateIndirectEdge(g, nb, from)

(* time.Now advances by one tick.                                          *)
Grow(age) == IF age > Timeout THEN age ELSE age + 1

AgeNodes(g) ==
    [g EXCEPT !.nodes = [h \in DOMAIN g.nodes |-> [g.nodes[h] EXCEPT !.age = Grow(g.nodes[h].age)]]]

-----------------------------------------------------------------------------
(* The well-formedness of a store: what the exporters and the cascade rely *)
(* on when they follow an edge to its nodes.                               *)

(* Both ends of every edge are in the store.                               *)
EndpointsKnown(g) ==
    \A k \in DOMAIN g.edges :
        /\ k.dst \in DOMAIN g.nodes
        /\ k.src \in GetNodes(g)
        /\ k.src # k.dst

(* Direct edges are the local node's own; any other edge is stored under   *)
(* the host that reported it, which is still in the store.                 *)
ProvenanceKnown(g) ==
    \A k \in DOMAIN g.edges :
        IF g.edges[k].direct
        THEN k.src = g.local /\ g.edges[k].from = NoHost
        ELSE k.src = g.edges[k].from /\ k.src \in DOMAIN g.nodes /\ k.src # g.local

(* The interfaces an edge joins are in the interface tables of its ends.   *)
IfacesKnown(g) ==
    \A k \in DOMAIN g.edges :
        /\ k.rif \in DOMAIN g.nodes[k.dst].ifaces
        /\ (~g.edges[k].direct /\ k.lif # NoIface) => k.lif \in DOMAIN g.nodes[k.src].ifaces

(* An edge repeats what the interface tables say of the interfaces it      *)
(* joins, in the compared fields.  An edge that was reported without an    *)
(* interface of its owner has no entry to repeat on that side.             *)
EdgeAsListed(gr, k) ==
    LET edge == gr.edges[k]
    IN  /\ edge.rdet.ident = gr.nodes[k.dst].ifaces[k.rif].ident
        /\ IF edge.direct
           THEN edge.ldet = LocalDetails(gr, k.lif)
           ELSE k.lif # NoIface => edge.ldet.ident = gr.nodes[k.src].ifaces[k.lif].ident

(* Hosts, interface tables and links of a view are those of the store, and *)
(* where the view has other details of a link, the store's own are in the  *)
(* interface tables and so in the view.                                    *)
UpToDate(view, gr) ==
    /\ view.nodes = NodesShown(gr)
    /\ Kinds(view.links) = Kinds(gr.edges)
    /\ \A k \in DOMAIN gr.edges : view.links[k] = gr.edges[k] \/ EdgeAsListed(gr, k)

(* The local node is not among the discovered ones.                        *)
SelfNotDiscovered(g) == g.local \notin DOMAIN g.nodes

WellFormed(g) ==
    /\ EndpointsKnown(g)
    /\ ProvenanceKnown(g)
    /\ IfacesKnown(g)
    /\ SelfNotDiscovered(g)
=============================================================================
