------------------------------- MODULE Graph --------------------------------
(***************************************************************************)
(* The topology store of one daemon under its callers: the receiver        *)
(* goroutine (the receive handler of main.go), the expiry ticker and the   *)
(* exporter's ClearChanges.  The peers are the environment: any host but   *)
(* the local one may send any packet.                                      *)
(*                                                                         *)
(* The receive handler is not atomic.  It calls AddOrUpdate for the sender *)
(* and then AddOrUpdateIndirectEdge once per neighbour, and the lock is    *)
(* free in between: "handling" is the sender of the packet whose           *)
(* neighbours are still being processed.                                   *)
(***************************************************************************)
EXTENDS GraphOps

CONSTANTS
    Self,         \* the content of /etc/machine-id
    LocalIfaces,  \* the interfaces that were active at start
    RecvIface,    \* interface names the receiver may hand to the handler
    PeerIface     \* interface names peers put into their packets

ASSUME SelfAssumption == Self \in Host
ASSUME LocalIfacesAssumption == LocalIfaces \in Ifaces
ASSUME IfaceNamesAssumption == RecvIface \subseteq Iface /\ PeerIface \subseteq Iface

VARIABLES
    g,         \* the store
    handling   \* sender of the packet in the handler, or NoHost

vars == <<g, handling>>

TypeOK ==
    /\ IsGraph(g)
    /\ handling \in Host \cup {NoHost}

(* The local node is set once, before the goroutines start, and not at all *)
(* when the interfaces cannot be listed.                                   *)
Init ==
    /\ g \in {NewGraph, SetLocalNode(NewGraph, Self, LocalIfaces)}
    /\ handling = NoHost

-----------------------------------------------------------------------------
(* The packet of host id sent from its interface rif: the direct edge is   *)
(* stored, then the neighbours follow if the packet has any and            *)
(* include_neighbors is set.  A host's own packets do not get here.        *)
ReceivePacket(id, name, rif, rdet, lif) ==
    /\ handling = NoHost
    /\ id # Self
    /\ g' = AddOrUpdate(g, id, name, rif, rdet, lif, TRUE, NoHost)
    /\ handling' \in {NoHost, id}

(* One entry of the packet's neighbour list.  A host never reports itself. *)
ReceiveNeighbor(nb) ==
    /\ handling # NoHost
    /\ nb.id # handling
    /\ g' = HandleNeighbor(g, nb, handling)
    /\ UNCHANGED handling

FinishPacket ==
    /\ handling # NoHost
    /\ handling' = NoHost
    /\ UNCHANGED g

ExpireTick ==
    /\ g' = RemoveExpired(g)
    /\ UNCHANGED handling

ExportDone ==
    /\ g.changed
    /\ g' = ClearChanges(g)
    /\ UNCHANGED handling

Tick ==
    /\ g' = AgeNodes(g)
    /\ UNCHANGED handling

(* Everything the receiver goroutine does to the store.                    *)
ReceiverStep ==
    \/ \E id \in Host, name \in Name, rif \in PeerIface, rdet \in Details, lif \in RecvIface :
           ReceivePacket(id, name, rif, rdet, lif)
    \/ \E id \in Host, name \in Name, lif \in RecvIface, ldet \in Details, rif \in PeerIface, rdet \in Details :
           ReceiveNeighbor([id |-> id, name |-> name, lif |-> lif, ldet |-> ldet, rif |-> rif, rdet |-> rdet])
    \/ FinishPacket

Next == ReceiverStep \/ ExpireTick \/ ExportDone \/ Tick

Spec == Init /\ [][Next]_vars

-----------------------------------------------------------------------------
(* Safety.                                                                 *)

(* Whatever the interleaving of packets with the expiry ticker, both ends  *)
(* of every edge have a node, which lists the interface the edge joins: no *)
(* edge is left for an exporter to draw to a host that is gone, or to one  *)
(* that came back with an empty interface table.                           *)
EdgeEndsKnown == EndpointsKnown(g) /\ IfacesKnown(g)

(* Every edge is either a direct one of the local node or is stored under  *)
(* the host that reported it, and that host is still known: nothing learned*)
(* from a host outlives it in the store.                                   *)
EdgeProvenanceKnown == ProvenanceKnown(g)

(* The local host never shows up among the discovered ones, whoever        *)
(* reports it as a neighbour (ImplementsMembership implies it).            *)
LocalNotDiscovered == SelfNotDiscovered(g)

(* What an unflagged step leaves out of date is only what an edge repeats: *)
(* no step changes the hosts, their interface tables, or which links there *)
(* are and which are direct, and leaves the store unflagged; and an edge   *)
(* that is overwritten unflagged gets addresses the tables already show,   *)
(* so that the exporter, which looks at the flag only, misses no address.  *)
TopologyChangesFlagged == [][~g'.changed => UpToDate(Topology(g), g')]_vars

(* An edge disappears only together with one of its ends or with the host  *)
(* that reported it: the expiry of one host leaves the rest in place.      *)
EdgesGoWithTheirHosts ==
    [][\A k \in DOMAIN g.edges \ DOMAIN g'.edges :
           {k.src, k.dst, g.edges[k].from} \cap (DOMAIN g.nodes \ DOMAIN g'.nodes) # {}]_vars

-----------------------------------------------------------------------------
(* The abstract specification and the state that implements it.            *)

Members ==
    INSTANCE Membership WITH
        Link <- EdgeKey,
        own <- g.local,
        known <- DOMAIN g.nodes,
        silent <- {h \in DOMAIN g.nodes : g.nodes[h].age > Timeout},
        links <- DOMAIN g.edges,
        flagged <- g.changed

(* The store implements Membership: for instance, the expiry removes the   *)
(* silent hosts and exactly the links ending at one, although the code     *)
(* decides about an edge by the host it was learned from as well, and the  *)
(* sender of a packet may be forgotten while its neighbours are processed. *)
ImplementsMembership == Members!Spec
=============================================================================
