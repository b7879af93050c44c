------------------------------- MODULE Server -------------------------------
(***************************************************************************)
(* The HTTP handlers of internal/server/server.go while the receiver and   *)
(* the expiry ticker go on.  A GET of /graph, /graph.dot or /graph.nwdiag  *)
(* reads the nodes, the edges and, unless the segments are switched off,   *)
(* the segments: three calls, each under the lock, with nothing held in    *)
(* between.                                                                *)
(*                                                                         *)
(* GetNodes and GetEdges return copies.  GetNetworkSegments returns        *)
(* pointers to the stored edges (graph.go:552), and the handler reads what *)
(* they point to while it writes the answer, without the lock.  AddOrUpdate*)
(* overwrites an edge through its pointer (graph.go:181).  Segments says   *)
(* which edges are in a segment; here it is a parameter which sets of      *)
(* links make one, such as the links to two hosts heard on one interface.  *)
(*                                                                         *)
(* The store is the abstract one, which Graph implements, together with    *)
(* what its edges hold.                                                    *)
(*                                                                         *)
(* Requests other than GET are refused and /health reads nothing: neither  *)
(* touches this state.  Handlers of several requests only read, so one     *)
(* stands for all.                                                         *)
(***************************************************************************)
EXTENDS Membership, Functions

CONSTANTS
    Self,          \* the machine id of the daemon
    SegmentLinks,  \* sets of links: the edges of each are in a segment once all are stored
    Value          \* what a field of an edge may hold

(* What a read returns that meets a write of the same string.              *)
Garbled == "garbled"

ASSUME SelfAssumption == Self \in Host
ASSUME NoHostAssumption == NoHost \notin Host
ASSUME LinkAssumption == \A l \in Link : {l.src, l.dst} \subseteq Host
ASSUME SegmentLinksAssumption == SegmentLinks \subseteq SUBSET Link
ASSUME GarbledAssumption == Garbled \notin Value

VARIABLES
    content,    \* what the stored edges hold, one value for all fields
    request,    \* the next call or read of the handler
    shown,      \* the hosts GetNodes returned
    copied,     \* the links GetEdges returned
    pointed,    \* what the pointers of GetNetworkSegments show now
    inStore,    \* the links among them that may be overwritten through them
    sent,       \* the fields the handler has read through them
    learned     \* history: hosts learned since GetNodes

store == <<own, known, silent, links, flagged, content>>
views == <<shown, copied>>
pointers == <<pointed, inStore>>
serverVars == <<own, known, silent, links, flagged, content, request, shown, copied,
                pointed, inStore, sent, learned>>

(* Two of the fields of an edge, in the order they are read.               *)
Fields == {"address", "prefixes"}
After == [address |-> "prefixes", prefixes |-> "respond"]

Nothing == [k \in {} |-> k]

ServerTypeOK ==
    /\ content \in [links -> Value]
    /\ request \in {"nodes", "edges", "segments", "respond"} \cup Fields
    /\ shown \cup learned \subseteq Host
    /\ request # "nodes" => {own} \ {NoHost} \subseteq shown
    /\ copied \subseteq Link
    /\ inStore \subseteq DOMAIN pointed
    /\ pointed \in [DOMAIN pointed -> Value]
    /\ \A f \in DOMAIN sent : f \in Fields /\ sent[f] \in [DOMAIN pointed -> Value \cup {Garbled}]

ServerInit ==
    /\ Init
    /\ own \in {Self, NoHost}
    /\ content = Nothing
    /\ request = "nodes"
    /\ shown = {} /\ copied = {} /\ sent = Nothing
    /\ pointed = Nothing /\ inStore = {}
    /\ learned = {}

-----------------------------------------------------------------------------
(* The calls of one request.                                               *)
GetDiscoveredNodes == known

(* GetNodes: the local node and the discovered ones.                       *)
GetNodes == known \cup ({own} \ {NoHost})

ReadNodes ==
    /\ request = "nodes"
    /\ request' = "edges"
    /\ shown' = GetNodes
    /\ UNCHANGED <<store, copied, sent, pointers, learned>>

ReadEdges ==
    /\ request = "edges"
    /\ request' = "segments"
    /\ copied' = links
    /\ UNCHANGED <<store, shown, sent, pointers, learned>>

(* The links in segments; a daemon without a local node finds no segment.  *)
Grouped == UNION {S \in SegmentLinks : own # NoHost /\ S \subseteq links}

OverwrittenAlways == Grouped

(* The daemon's own, direct edges are overwritten through their pointer;   *)
(* an edge that is reported again is replaced by another object.           *)
OverwrittenInPlace == {k \in Grouped : k.src = own}

ReadSegments ==
    /\ request = "segments"
    /\ request' = "address"
    /\ pointed' = Restrict(content, Grouped)
    /\ inStore' = OverwrittenInPlace
    /\ UNCHANGED <<store, views, sent, learned>>

ReadField ==
    /\ request \in Fields
    /\ request' = After[request]
    /\ sent' = [f \in DOMAIN sent \cup {request} |-> IF f = request THEN pointed ELSE sent[f]]
    /\ UNCHANGED <<store, views, pointers, learned>>

(* The answer is complete, without segments if show_segments is off.       *)
Respond ==
    /\ request \in {"segments", "respond"}
    /\ request' = "nodes"
    /\ shown' = {} /\ copied' = {} /\ sent' = Nothing
    /\ pointed' = Nothing /\ inStore' = {}
    /\ learned' = {}
    /\ UNCHANGED store

-----------------------------------------------------------------------------
(* The other goroutines: a step of the store, in which at most one edge,   *)
(* to the host heard of, is written.                                       *)
WriteNothing == content' = [k \in links' |-> content[k]]

WriteEdge(h) ==
    \E k \in links', v \in Value :
        /\ k.dst = h
        /\ links' \ links \subseteq {k}
        /\ content' = [l \in links' |-> IF l = k THEN v ELSE content[l]]

Receive == \E h \in Host : Hear(h) /\ (WriteEdge(h) \/ (links' = links /\ WriteNothing))

(* What the handler has in its hands follows the writes.                   *)
FollowPointers ==
    /\ inStore' = inStore \cap links'
    /\ pointed' = [k \in DOMAIN pointed |-> IF k \in inStore' THEN content'[k] ELSE pointed[k]]

Remember == learned' = IF request = "nodes" THEN {} ELSE learned \cup (known' \ known)

OthersStep ==
    /\ Receive \/ ((FallSilent \/ Forget \/ Exported) /\ WriteNothing)
    /\ FollowPointers
    /\ Remember
    /\ UNCHANGED <<request, views, sent>>

(* The handler reads a field of the edge the receiver is writing.          *)
ReadFieldWhileWritten ==
    /\ request \in Fields
    /\ request' = After[request]
    /\ Receive
    /\ FollowPointers
    /\ Remember
    /\ \E k \in DOMAIN pointed :
           /\ pointed'[k] # pointed[k]
           /\ sent' = [f \in DOMAIN sent \cup {request} |->
                  IF f = request THEN [pointed EXCEPT ![k] = Garbled] ELSE sent[f]]
    /\ UNCHANGED views

ServerNext ==
    \/ ReadNodes
    \/ ReadEdges
    \/ ReadSegments
    \/ ReadField
    \/ ReadFieldWhileWritten
    \/ Respond
    \/ OthersStep

ServerSpec == ServerInit /\ [][ServerNext]_serverVars

-----------------------------------------------------------------------------
(* Safety.                                                                 *)

Ends(S) == {k.src : k \in S} \cup {k.dst : k \in S}

(* A host at the end of a link of the answer, of one of its segments too,  *)
(* is among the answer's nodes or was learned after the nodes were read.   *)
(* An expiry between the calls may remove the host from the store: then    *)
(* its links are missing from the calls that follow, and a link that was   *)
(* copied before still ends at a listed host.                              *)
MissingEndsAreNewcomers == Ends(copied \cup DOMAIN pointed) \subseteq shown \cup learned

Torn(k) == sent["address"][k] # sent["prefixes"][k] \/ Garbled \in {sent["address"][k], sent["prefixes"][k]}

(* What an answer says of a link this daemon was told of was in the store  *)
(* at one moment, although nothing is copied.                              *)
ReportedLinksUntorn ==
    request = "respond" => \A k \in DOMAIN pointed : k.src # own => ~Torn(k)

-----------------------------------------------------------------------------
(* Claims of the documents the code does not keep.                         *)

(* Access to the graph is thread-safe (docs/releases/RELEASE_v0.0.1.md,    *)
(* "Performance"): no answer mixes two states of one edge.                 *)
AnswersUntorn == request = "respond" => \A k \in DOMAIN pointed : ~Torn(k)
=============================================================================
