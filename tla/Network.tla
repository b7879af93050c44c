------------------------------ MODULE Network -------------------------------
(***************************************************************************)
(* Several daemons that discover each other: the sender goroutine          *)
(* (internal/discovery/sender.go), the receiver goroutine (receiver.go)    *)
(* with the receive handler of main.go, the expiry ticker, and a network   *)
(* of links that loses, delays, duplicates and reorders datagrams.  A      *)
(* daemon may crash, losing its store, and start again.                    *)
(*                                                                         *)
(* A datagram sent on an interface is multicast on the link the interface  *)
(* is attached to.  "net" holds the datagrams a link still carries: any    *)
(* interface on that link may receive one any number of times until it is  *)
(* dropped, which happens within two clock ticks.                          *)
(***************************************************************************)
EXTENDS GraphOps, FiniteSets

CONSTANTS
    Attached,      \* triples <<host, interface, link>>: the active interfaces
    Hostname,      \* host -> its name
    DetailsAt,     \* <<host, interface>> -> the details of that interface
    Gossips,       \* the hosts that run with include_neighbors
    MayCrash,      \* the hosts that may crash
    MaxInFlight    \* bound on the datagrams the links carry at a time

ASSUME HostnameAssumption == Hostname \in [Host -> Name]
ASSUME AttachedAssumption ==
    \A at \in Attached :
        /\ at \in Host \X (Iface \ {NoIface}) \X {at[3]}
        /\ <<at[1], at[2]>> \in DOMAIN DetailsAt
        /\ DetailsAt[at[1], at[2]] \in Details
ASSUME GossipsAssumption == Gossips \subseteq Host /\ MayCrash \subseteq Host
ASSUME MaxInFlightAssumption == MaxInFlight \in Nat \ {0}

VARIABLES
    up,        \* host -> whether its daemon runs
    graph,     \* host -> the store of its daemon
    handling,  \* host -> the packet in its receive handler, or NoPacket
    net        \* the datagrams the links carry

vars == <<up, graph, handling, net>>

Links == {at[3] : at \in Attached}

IfacesOf(h) == {at[2] : at \in {x \in Attached : x[1] = h}}

NoPacket == [from |-> NoHost, rest |-> {}]

IsPacket(p) ==
    /\ p \in [id : Host, name : Name, iface : Iface, det : Details, nbrs : {p.nbrs}]
    /\ \A nb \in p.nbrs : nb \in NeighborInfo

(* Types; a daemon that runs has its local node.                           *)
TypeOK ==
    /\ up \in [Host -> BOOLEAN]
    /\ DOMAIN graph = Host
    /\ \A h \in Host : IsGraph(graph[h]) /\ (up[h] => graph[h].local = h)
    /\ DOMAIN handling = Host
    /\ \A h \in Host :
           /\ handling[h].from \in Host \cup {NoHost}
           /\ \A nb \in handling[h].rest : nb \in NeighborInfo
    /\ \A m \in net : m \in [link : Links, pkt : {m.pkt}, old : BOOLEAN] /\ IsPacket(m.pkt)

-----------------------------------------------------------------------------
(* The store a daemon starts with: empty but for the local node.           *)
StartGraph(h) == SetLocalNode(NewGraph, h, [i \in IfacesOf(h) |-> DetailsAt[h, i]])

Init ==
    /\ up = [h \in Host |-> TRUE]
    /\ graph = [h \in Host |-> StartGraph(h)]
    /\ handling = [h \in Host |-> NoPacket]
    /\ net = {}

(* sendOnInterface: the neighbours are read once per interface.            *)
MakePacket(h, i) ==
    [id |-> h, name |-> Hostname[h], iface |-> i, det |-> DetailsAt[h, i],
     nbrs |-> IF h \in Gossips THEN GetDirectNeighbors(graph[h]) ELSE {}]

Send(h, i, link) ==
    /\ up[h]
    /\ <<h, i, link>> \in Attached
    /\ Cardinality(net) < MaxInFlight
    /\ net' = net \cup {[link |-> link, pkt |-> MakePacket(h, i), old |-> FALSE]}
    /\ UNCHANGED <<up, graph, handling>>

(* The receiver drops the packets of its own host.                         *)
Accepts(h, pkt) == pkt.id # h

(* What is left for the receive handler after the direct edge is stored:   *)
(* nothing unless the receiving host runs with include_neighbors too.      *)
Continue(from, rest) == IF rest = {} THEN NoPacket ELSE [from |-> from, rest |-> rest]

Receive(h, i, m) ==
    /\ up[h]
    /\ handling[h] = NoPacket
    /\ <<h, i, m.link>> \in Attached
    /\ Accepts(h, m.pkt)
    /\ LET p == m.pkt
       IN  /\ graph' = [graph EXCEPT ![h] = AddOrUpdate(@, p.id, p.name, p.iface, p.det, i, TRUE, NoHost)]
           /\ handling' = [handling EXCEPT ![h] = Continue(p.id, IF h \in Gossips THEN p.nbrs ELSE {})]
    /\ UNCHANGED <<up, net>>

(* The neighbours come in the order of a map iteration: in any order.      *)
ReceiveNeighbor(h) ==
    /\ up[h]
    /\ \E nb \in handling[h].rest :
           /\ graph' = [graph EXCEPT ![h] = HandleNeighbor(@, nb, handling[h].from)]
           /\ handling' = [handling EXCEPT ![h] = Continue(@.from, @.rest \ {nb})]
    /\ UNCHANGED <<up, net>>

ExpireTick(h) ==
    /\ up[h]
    /\ graph' = [graph EXCEPT ![h] = RemoveExpired(@)]
    /\ UNCHANGED <<up, handling, net>>

Tick ==
    /\ graph' = [h \in Host |-> AgeNodes(graph[h])]
    /\ net' = {[m EXCEPT !.old = TRUE] : m \in {x \in net : ~x.old}}
    /\ UNCHANGED <<up, handling>>

(* A link loses a datagram.                                                *)
Drop(m) ==
    /\ net' = net \ {m}
    /\ UNCHANGED <<up, graph, handling>>

Crash(h) ==
    /\ h \in MayCrash
    /\ up[h]
    /\ up' = [up EXCEPT ![h] = FALSE]
    /\ graph' = [graph EXCEPT ![h] = NewGraph]
    /\ handling' = [handling EXCEPT ![h] = NoPacket]
    /\ UNCHANGED net

Start(h) ==
    /\ ~up[h]
    /\ up' = [up EXCEPT ![h] = TRUE]
    /\ graph' = [graph EXCEPT ![h] = StartGraph(h)]
    /\ UNCHANGED <<handling, net>>

Next ==
    \/ \E at \in Attached : Send(at[1], at[2], at[3])
    \/ \E at \in Attached, m \in net : Receive(at[1], at[2], m)
    \/ \E m \in net : Drop(m)
    \/ \E h \in Host : ReceiveNeighbor(h) \/ ExpireTick(h) \/ Crash(h) \/ Start(h)
    \/ Tick

(* Time passes, the tickers fire and the handler runs to its end.  No      *)
(* datagram need be delivered and no daemon that is down need start.       *)
Fairness ==
    /\ WF_vars(Tick)
    /\ \A h \in Host : WF_vars(ReceiveNeighbor(h)) /\ WF_vars(ExpireTick(h))

Spec == Init /\ [][Next]_vars

FairSpec == Spec /\ Fairness

-----------------------------------------------------------------------------
(* Safety.                                                                 *)

(* The stores stay well formed when their packets are what other daemons   *)
(* send, in whatever order the network delivers them.                      *)
StoresWellFormed == \A h \in Host : WellFormed(graph[h])

(* Every edge of every store joins two interfaces that are attached to the *)
(* same link and carries the details of those interfaces: no daemon mixes  *)
(* up the two sides of a reported edge or the links of a host.             *)
EdgesAreLinks ==
    \A h \in Host : \A k \in DOMAIN graph[h].edges :
        /\ \E link \in Links : {<<k.src, k.lif, link>>, <<k.dst, k.rif, link>>} \subseteq Attached
        /\ graph[h].edges[k].ldet = DetailsAt[k.src, k.lif]
        /\ graph[h].edges[k].rdet = DetailsAt[k.dst, k.rif]

Adjacent(h, x) ==
    \E link \in Links, i, j \in Iface : {<<h, i, link>>, <<x, j, link>>} \subseteq Attached

(* A daemon reports its own direct edges only, so that knowledge travels   *)
(* two links and no further; and a daemon without include_neighbors knows  *)
(* the hosts on its own links only.                                        *)
KnowledgeStopsAtTwoLinks ==
    \A h \in Host : \A x \in DOMAIN graph[h].nodes :
        \/ Adjacent(h, x)
        \/ h \in Gossips /\ \E y \in Gossips : Adjacent(h, y) /\ Adjacent(y, x)

-----------------------------------------------------------------------------
(* The abstract specification, once per daemon.                            *)

Member(h) ==
    INSTANCE Membership WITH
        Link <- EdgeKey,
        own <- graph[h].local,
        known <- DOMAIN graph[h].nodes,
        silent <- {x \in DOMAIN graph[h].nodes : graph[h].nodes[x].age > Timeout},
        links <- DOMAIN graph[h].edges,
        flagged <- graph[h].changed

(* The store of every daemon implements Membership for as long as the      *)
(* daemon runs, fed by real peers through a network that loses, repeats    *)
(* and delays: a late datagram about a host that is gone is one more time  *)
(* to hear of it, never a change of something else.  A crash and a start   *)
(* bring the store back to an initial state of Membership: nothing of the  *)
(* former run is left.                                                     *)
DaemonsImplementMembership ==
    /\ \A h \in Host : Member(h)!Init
    /\ [][\A h \in Host :
             IF up'[h] = up[h] THEN [Member(h)!Next]_(Member(h)!vars) ELSE (Member(h)!Init)']_vars

-----------------------------------------------------------------------------
(* How a host that is down is forgotten.                                   *)

(* The host is down, and what it sent is gone from the links.              *)
Silenced(x) == ~up[x] /\ \A m \in net : m.pkt.id # x

(* No two daemons that hear a host and report it hear each other.          *)
Unechoed(x) ==
    \A y, z \in Gossips \ {x} : Adjacent(y, x) /\ Adjacent(z, x) /\ Adjacent(y, z) => y = z

(* A daemon does not learn of a host, or see it again, in a step.          *)
NotFresher(h, x) ==
    x \in DOMAIN graph'[h].nodes =>
        x \in DOMAIN graph[h].nodes /\ graph'[h].nodes[x].age >= graph[h].nodes[x].age

(* First the neighbours of a host that is down forget it.  Nothing makes   *)
(* them see it again: GetDirectNeighbors reports direct edges only, so no  *)
(* report of the host comes back to a neighbour from further away.         *)
NeighborsLoseDownHosts ==
    [][\A x \in Host : \A h \in Host \ {x} :
           Silenced(x) /\ Unechoed(x) /\ Adjacent(h, x) => NotFresher(h, x)]_vars

(* No neighbour knows the host any more, and no report of it is under way. *)
Untold(x) ==
    /\ Silenced(x)
    /\ \A m \in net : \A nb \in m.pkt.nbrs : nb.id # x
    /\ \A h \in Host : \A nb \in handling[h].rest : nb.id # x
    /\ \A h \in Host : Adjacent(h, x) => x \notin DOMAIN graph[h].nodes

(* Then everybody does: those further away, who only heard of it, do not   *)
(* tell each other, and it stays so until the host starts again.           *)
UntoldHostsStayUntold ==
    [][\A x \in Host : Untold(x) =>
           (up'[x] \/ Untold(x)') /\ \A h \in Host : NotFresher(h, x)]_vars

(* So, in two stages, every daemon loses sight of a host that is down: the *)
(* nodes of the host only grow older until RemoveExpired removes them.     *)
DownHostsFade == NeighborsLoseDownHosts /\ UntoldHostsStayUntold

-----------------------------------------------------------------------------
(* Liveness.                                                               *)

(* A host that stays down is forgotten by every other daemon for good      *)
(* (README.md, "How It Works", step 6).                                    *)
DownHostsForgotten ==
    \A x \in MayCrash :
        <>[](~up[x]) => <>[](\A h \in Host : x \notin DOMAIN graph[h].nodes)
=============================================================================
