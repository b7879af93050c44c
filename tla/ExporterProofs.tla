--------------------------- MODULE ExporterProofs ---------------------------
(***************************************************************************)
(* What the output file shows, for every set of hosts, interfaces and      *)
(* details and every timeout, however packets, expiries and failing writes *)
(* interleave with the exports.                                            *)
(***************************************************************************)
EXTENDS Exporter, GraphProofs

(* The flag stays up from the tick that starts an export to the clearing.  *)
FlaggedWhileExporting == at # "select" => g.changed

(* A view is that of the store but for what UpToDate allows, its segments  *)
(* too.                                                                    *)
Shows(view, gr) == UpToDate(view, gr) /\ SegmentsUpToDate(view, gr)

(* How far an export whose store keeps its shape has come.                 *)
Progress ==
    ~raced =>
        /\ at = "edges" => snap.nodes = NodesShown(g)
        /\ at \in {"segments", "open", "write"} => UpToDate(snap, g)
        /\ at \in {"open", "write"} => SegmentsUpToDate(snap, g)
        /\ at = "clear" => file.status = "complete" /\ Shows(file.shows, g)

Settled ==
    at = "select" /\ ~g.changed /\ file # NoFile /\ ~raced =>
        file.status = "complete" /\ Shows(file.shows, g)

(* The invariants of the runs are inductive with these two and the         *)
(* invariant of the store.                                                 *)
ExporterIInv ==
    /\ IInv
    /\ ExporterTypeOK
    /\ snap \in [nodes : {snap.nodes}, links : {snap.links}, segments : {snap.segments}]
    /\ FlaggedWhileExporting
    /\ ExportedHostsStillKnown
    /\ Progress
    /\ Settled

-----------------------------------------------------------------------------
(* What the store shows is well typed.                                     *)
LEMMA ShownTypes ==
    ASSUME NEW gr, IsGraph(gr)
    PROVE  /\ IsPartialMap(NodesShown(gr), Host, [name : Name, ifaces : Ifaces])
           /\ IsPartialMap(gr.edges, EdgeKey, Edge)
           /\ IsPartialMap(SegmentSource(gr).prefixes, Host, PartialMap(Iface, Pfx))
           /\ IsPartialMap(SegmentSource(gr).links, EdgeKey, BOOLEAN)
<1>1. IsPartialMap(gr.nodes, Host, Node) /\ IsPartialMap(gr.edges, EdgeKey, Edge)
  BY DEF IsGraph
<1>2. \A h \in DOMAIN gr.nodes : gr.nodes[h] \in Node
  BY <1>1 DEF IsPartialMap
<1>3. IsPartialMap(NodesShown(gr), Host, [name : Name, ifaces : Ifaces])
  BY <1>1, <1>2 DEF NodesShown, IsPartialMap, Node
<1>4. ASSUME NEW h \in DOMAIN gr.nodes
      PROVE  [i \in DOMAIN gr.nodes[h].ifaces |-> gr.nodes[h].ifaces[i].pfx] \in PartialMap(Iface, Pfx)
  <2> DEFINE ifaces == gr.nodes[h].ifaces
             pfxs == [i \in DOMAIN ifaces |-> ifaces[i].pfx]
  <2>1. IsPartialMap(ifaces, Iface, Details)
    BY <1>1, <1>2, PartialMapEquiv DEF Node, Ifaces
  <2>2. \A i \in DOMAIN ifaces : ifaces[i].pfx \in Pfx
    BY <2>1 DEF IsPartialMap, Details
  <2>3. IsPartialMap(pfxs, Iface, Pfx)
    BY <2>1, <2>2 DEF IsPartialMap
  <2> QED
    BY <2>3, PartialMapEquiv
<1>5. IsPartialMap(Prefixes(gr.nodes), Host, PartialMap(Iface, Pfx))
  BY <1>1, <1>4 DEF Prefixes, IsPartialMap
<1>6. IsPartialMap(Kinds(gr.edges), EdgeKey, BOOLEAN)
  BY <1>1 DEF Kinds, IsPartialMap, Edge
<1> QED
  BY <1>1, <1>3, <1>5, <1>6 DEF SegmentSource

(* An empty view is well typed.                                            *)
LEMMA NothingTyped ==
    /\ TypedView(Nothing)
    /\ Nothing \in [nodes : {Nothing.nodes}, links : {Nothing.links}, segments : {Nothing.segments}]
<1>1. DOMAIN EmptyMap = {}
  BY DEF EmptyMap
<1> DEFINE e == EmptyMap
<1>2. /\ IsPartialMap(e, Host, [name : Name, ifaces : Ifaces])
      /\ IsPartialMap(e, EdgeKey, Edge)
      /\ IsPartialMap(e, Host, PartialMap(Iface, Pfx))
      /\ IsPartialMap(e, EdgeKey, BOOLEAN)
  BY <1>1 DEF IsPartialMap, EmptyMap
<1>3. Nothing = [nodes |-> e, links |-> e, segments |-> [prefixes |-> e, links |-> e]]
  BY DEF Nothing
<1> HIDE DEF e
<1> QED
  BY <1>2, <1>3 DEF TypedView

(* What a segment is computed from depends on the shape of the store only. *)
LEMMA SameSegmentSource ==
    ASSUME NEW gr, NEW gr2, Shape(gr2) = Shape(gr)
    PROVE  SegmentSource(gr2) = SegmentSource(gr)
<1>1. /\ DOMAIN gr2.nodes = DOMAIN gr.nodes
      /\ \A h \in DOMAIN gr.nodes : gr2.nodes[h].ifaces = gr.nodes[h].ifaces
      /\ Kinds(gr2.edges) = Kinds(gr.edges)
  BY SameShape
<1>2. Prefixes(gr2.nodes) = Prefixes(gr.nodes)
  BY <1>1 DEF Prefixes
<1> QED
  BY <1>1, <1>2 DEF SegmentSource

(* A view that shows the store shows it still after a step that keeps the  *)
(* shape.                                                                  *)
LEMMA ShowsStays ==
    ASSUME IInv, NEW view, Shape(g') = Shape(g), g'.localIfaces = g.localIfaces, EdgesAsListed(g, g')
    PROVE  /\ UpToDate(view, g) => UpToDate(view, g')
           /\ SegmentsUpToDate(view, g) => SegmentsUpToDate(view, g')
           /\ Shows(view, g) => Shows(view, g')
<1>1. WellFormed(g)
  BY DEF IInv
<1>2. UpToDate(view, g) => UpToDate(view, g')
  BY <1>1, UpToDateStays
<1>3. SegmentsUpToDate(view, g) => SegmentsUpToDate(view, g')
  BY SameSegmentSource DEF SegmentsUpToDate
<1> QED
  BY <1>2, <1>3 DEF Shows

-----------------------------------------------------------------------------
(* The receiver goroutine and the clock never lower the flag, only add     *)
(* hosts and links, and change the shape of the store only under the flag. *)
OthersEffects ==
    /\ g.changed => g'.changed
    /\ ~g'.changed => Shape(g') = Shape(g)
    /\ Shape(g') = Shape(g) => EdgesAsListed(g, g')
    /\ g'.localIfaces = g.localIfaces
    /\ DOMAIN g.nodes \subseteq DOMAIN g'.nodes
    /\ DOMAIN g.edges \subseteq DOMAIN g'.edges

(* That is what they do.                                                   *)
LEMMA OthersEffect ==
    ASSUME IInv, ReceiverStep \/ Tick
    PROVE  OthersEffects
<1>1. ASSUME NEW h \in Host, Hears(g, g', h)
      PROVE  /\ g.changed => g'.changed
             /\ DOMAIN g.nodes \subseteq DOMAIN g'.nodes
             /\ DOMAIN g.edges \subseteq DOMAIN g'.edges
  BY <1>1 DEF Hears
<1>2. CASE Tick
  <2>1. g' = AgeNodes(g) /\ IsGraph(g)
    BY <1>2 DEF Tick, IInv, TypeOK
  <2>2. /\ g'.changed = g.changed
        /\ DOMAIN g'.nodes = DOMAIN g.nodes
        /\ g'.edges = g.edges
    BY <2>1, AgeNodesShows
  <2> QED
    BY <1>2, <2>2, StepShows DEF OthersEffects, Next
<1>3. CASE ReceiverStep
  BY <1>1, <1>3, ReceiverEffect, StepShows DEF OthersEffects, Next
<1> QED
  BY <1>2, <1>3

(* A step of the exporter's process is one of the store's callers, or none *)
(* of the store's at all: it clears the flag only when it is up.           *)
LEMMA ExporterImplementsStore ==
    ExporterIInv /\ [ExporterNext]_exporterVars => [Next]_vars
<1> SUFFICES ASSUME ExporterIInv, [ExporterNext]_exporterVars PROVE [Next]_vars
  OBVIOUS
<1>1. CASE ExportTick \/ SnapshotNodes \/ SnapshotEdges \/ SnapshotSegments \/ OpenFile \/ WriteFile \/ WriteFails
  BY <1>1 DEF ExportTick, SnapshotNodes, SnapshotEdges, SnapshotSegments, OpenFile, WriteFile, WriteFails, FailedExport, vars
<1>2. CASE Clear
  BY <1>2 DEF Clear, Goto, ExporterIInv, FlaggedWhileExporting, Next, ExportDone
<1>3. CASE ExporterExpire
  BY <1>3 DEF ExporterExpire, Next
<1>4. CASE OthersStep
  BY <1>4 DEF OthersStep, Next
<1>5. CASE UNCHANGED exporterVars
  BY <1>5 DEF exporterVars, vars
<1> QED
  BY <1>1, <1>2, <1>3, <1>4, <1>5 DEF ExporterNext

(* The invariant holds initially.                                          *)
LEMMA ExporterInitIInv == ExporterInit => ExporterIInv
<1> SUFFICES ASSUME ExporterInit PROVE ExporterIInv
  OBVIOUS
<1>1. IInv /\ TypeOK
  BY InitIInv DEF ExporterInit, IInv
<1>2. /\ TypedView(Nothing)
      /\ Nothing \in [nodes : {Nothing.nodes}, links : {Nothing.links}, segments : {Nothing.segments}]
  BY NothingTyped
<1>3. /\ at = "select" /\ snap = Nothing /\ raced = FALSE
      /\ file = NoFile /\ file.status = "absent" /\ file.shows = Nothing
  BY DEF ExporterInit, NoFile
<1>4. ExporterTypeOK /\ snap \in [nodes : {snap.nodes}, links : {snap.links}, segments : {snap.segments}]
  BY <1>2, <1>3 DEF ExporterTypeOK
<1> QED
  BY <1>1, <1>3, <1>4 DEF ExporterIInv, FlaggedWhileExporting, ExportedHostsStillKnown, Progress, Settled

(* Every step of the exporter, the expiry, the receiver and the clock      *)
(* keeps the invariant.                                                    *)
LEMMA ExporterNextIInv == ExporterIInv /\ [ExporterNext]_exporterVars => ExporterIInv'
<1> SUFFICES ASSUME ExporterIInv, [ExporterNext]_exporterVars PROVE ExporterIInv'
  OBVIOUS
<1>1. IInv'
  BY ExporterImplementsStore, NextIInv DEF ExporterIInv
<1>2. IInv /\ IsGraph(g) /\ WellFormed(g) /\ DOMAIN g.nodes \subseteq Host /\ DOMAIN g.edges \subseteq EdgeKey
  BY DEF ExporterIInv, IInv, TypeOK, IsGraph, IsPartialMap
<1>t. /\ IsPartialMap(NodesShown(g), Host, [name : Name, ifaces : Ifaces])
      /\ IsPartialMap(g.edges, EdgeKey, Edge)
      /\ IsPartialMap(SegmentSource(g).prefixes, Host, PartialMap(Iface, Pfx))
      /\ IsPartialMap(SegmentSource(g).links, EdgeKey, BOOLEAN)
  BY <1>2, ShownTypes
<1>n. /\ TypedView(Nothing)
      /\ Nothing \in [nodes : {Nothing.nodes}, links : {Nothing.links}, segments : {Nothing.segments}]
  BY NothingTyped
<1> DEFINE SnapShape == snap \in [nodes : {snap.nodes}, links : {snap.links}, segments : {snap.segments}]
<1>i. ExporterTypeOK /\ SnapShape /\ FlaggedWhileExporting /\ ExportedHostsStillKnown /\ Progress /\ Settled
  BY DEF ExporterIInv
<1>q. ExporterTypeOK' /\ SnapShape' /\ FlaggedWhileExporting' /\ ExportedHostsStillKnown' /\ Progress' /\ Settled'
      => ExporterIInv'
  BY <1>1 DEF ExporterIInv
<1>3. CASE ExportTick
  <2>1. /\ at' = "nodes" /\ g' = g /\ g.changed /\ snap' = snap /\ file' = file /\ raced' = raced
    BY <1>3 DEF ExportTick, Goto
  <2> QED
    BY <1>i, <1>q, <2>1 DEF ExporterTypeOK, FlaggedWhileExporting, ExportedHostsStillKnown, Progress, Settled
<1>4. CASE SnapshotNodes
  <2>1. /\ snap' = [snap EXCEPT !.nodes = NodesShown(g)]
        /\ at' = "edges" /\ raced' = FALSE /\ g' = g /\ g.changed /\ file' = file
    BY <1>4, <1>i DEF SnapshotNodes, Goto, FlaggedWhileExporting
  <2>2. snap' = [nodes |-> NodesShown(g), links |-> snap.links, segments |-> snap.segments]
    BY <1>i, <2>1
  <2>3. ExporterTypeOK' /\ SnapShape'
    BY <1>i, <1>t, <2>1, <2>2 DEF ExporterTypeOK, TypedView
  <2>4. DOMAIN NodesShown(g) = DOMAIN g.nodes
    BY DEF NodesShown
  <2> QED
    BY <1>q, <2>1, <2>2, <2>3, <2>4 DEF FlaggedWhileExporting, ExportedHostsStillKnown, Progress, Settled
<1>5. CASE SnapshotEdges
  <2>1. /\ snap' = [snap EXCEPT !.links = g.edges]
        /\ at = "edges" /\ at' = AfterEdges /\ raced' = raced /\ g' = g /\ g.changed /\ file' = file
    BY <1>5, <1>i DEF SnapshotEdges, Goto, FlaggedWhileExporting
  <2>2. snap' = [nodes |-> snap.nodes, links |-> g.edges, segments |-> snap.segments]
    BY <1>i, <2>1
  <2>3. /\ at' \in {"segments", "open"}
        /\ at' = "open" => ~ShowSegments
    BY <2>1 DEF AfterEdges
  <2>4. ExporterTypeOK' /\ SnapShape'
    BY <1>i, <1>t, <2>1, <2>2, <2>3 DEF ExporterTypeOK, TypedView
  <2>5. ~raced => UpToDate(snap', g)
    BY <1>i, <2>1, <2>2 DEF Progress, UpToDate
  <2>6. at' = "open" => SegmentsUpToDate(snap', g)
    BY <2>3 DEF SegmentsUpToDate
  <2>7. DOMAIN snap'.nodes \subseteq DOMAIN g.nodes /\ DOMAIN snap'.links \subseteq DOMAIN g.edges
    BY <1>i, <2>1, <2>2 DEF ExportedHostsStillKnown
  <2> QED
    BY <1>q, <2>1, <2>3, <2>4, <2>5, <2>6, <2>7
       DEF FlaggedWhileExporting, ExportedHostsStillKnown, Progress, Settled
<1>s. CASE SnapshotSegments
  <2>1. /\ snap' = [snap EXCEPT !.segments = SegmentSource(g)]
        /\ at = "segments" /\ at' = "open" /\ raced' = raced /\ g' = g /\ g.changed /\ file' = file
    BY <1>s, <1>i DEF SnapshotSegments, Goto, FlaggedWhileExporting
  <2>2. snap' = [nodes |-> snap.nodes, links |-> snap.links, segments |-> SegmentSource(g)]
    BY <1>i, <2>1
  <2>3. ExporterTypeOK' /\ SnapShape'
    BY <1>i, <1>t, <2>1, <2>2 DEF ExporterTypeOK, TypedView
  <2>4. ~raced => UpToDate(snap', g)
    BY <1>i, <2>1, <2>2 DEF Progress, UpToDate
  <2>5. SegmentsUpToDate(snap', g)
    BY <2>2 DEF SegmentsUpToDate
  <2> QED
    BY <1>q, <2>1, <2>3, <2>4, <2>5 DEF FlaggedWhileExporting, ExportedHostsStillKnown, Progress, Settled
<1>6. CASE OpenFile
  <2>1. /\ at = "open" /\ at' = "write" /\ raced' = raced /\ g' = g /\ snap' = snap
        /\ file'.status = "partial" /\ file'.shows = Nothing
    BY <1>6 DEF OpenFile, Goto, Partial
  <2> QED
    BY <1>i, <1>n, <1>q, <2>1 DEF ExporterTypeOK, FlaggedWhileExporting, ExportedHostsStillKnown, Progress, Settled
<1>7. CASE WriteFile
  <2>1. /\ at = "write" /\ at' = "clear" /\ raced' = raced /\ g' = g /\ snap' = Nothing
        /\ file'.status = "complete" /\ file'.shows = snap
    BY <1>7 DEF WriteFile, Goto, Complete
  <2>2. ~raced => Shows(file'.shows, g)
    BY <1>i, <2>1 DEF Progress, Shows
  <2> QED
    BY <1>i, <1>n, <1>q, <2>1, <2>2
       DEF ExporterTypeOK, FlaggedWhileExporting, ExportedHostsStillKnown, Progress, Settled
<1>8. CASE WriteFails
  <2>1. /\ at \in {"open", "write"} /\ at' = "select" /\ raced' = raced /\ g' = g /\ snap' = Nothing
        /\ file' = file /\ g.changed
    BY <1>8, <1>i DEF WriteFails, FailedExport, FlaggedWhileExporting
  <2> QED
    BY <1>i, <1>n, <1>q, <2>1 DEF ExporterTypeOK, FlaggedWhileExporting, ExportedHostsStillKnown, Progress, Settled
<1>9. CASE Clear
  <2>1. /\ at = "clear" /\ at' = "select" /\ g' = ClearChanges(g)
        /\ snap' = snap /\ file' = file /\ raced' = raced
    BY <1>9 DEF Clear, Goto
  <2>2. Shape(g') = Shape(g) /\ g'.localIfaces = g.localIfaces /\ g'.edges = g.edges
    BY <1>2, <2>1, ClearChangesShows
  <2>3. EdgesAsListed(g, g')
    BY <2>2 DEF EdgesAsListed
  <2>4. Shows(file.shows, g) => Shows(file.shows, g')
    BY <1>2, <2>2, <2>3, ShowsStays
  <2>5. ~raced => file.status = "complete" /\ Shows(file.shows, g')
    BY <1>i, <2>1, <2>4 DEF Progress
  <2> QED
    BY <1>i, <1>q, <2>1, <2>5 DEF ExporterTypeOK, FlaggedWhileExporting, ExportedHostsStillKnown, Progress, Settled
<1>10. CASE ExporterExpire
  <2>1. /\ at = "select" /\ at' = at /\ g' = RemoveExpired(g)
        /\ snap' = snap /\ file' = file /\ raced' = raced
    BY <1>10 DEF ExporterExpire, MayExpire, ExpireTick, exporter
  <2>2. g'.changed = (g.changed \/ Expired(g) # {})
    BY <1>2, <2>1, RemoveExpiredForgets
  <2>3. /\ g'.localIfaces = g.localIfaces
        /\ Expired(g) = {} => Shape(g') = Shape(g) /\ EdgesAsListed(g, g')
    BY <1>2, <2>1, RemoveExpiredForgets DEF EdgesAsListed
  <2>4. ~g'.changed /\ Shows(file.shows, g) => Shows(file.shows, g')
    BY <1>2, <2>2, <2>3, ShowsStays
  <2> QED
    BY <1>i, <1>q, <2>1, <2>2, <2>4 DEF ExporterTypeOK, FlaggedWhileExporting, ExportedHostsStillKnown, Progress, Settled
<1>11. CASE OthersStep
  <2>1. /\ at' = at /\ snap' = snap /\ file' = file
        /\ raced' = (raced \/ (at # "select" /\ Shape(g') # Shape(g)))
    BY <1>11 DEF OthersStep, exporter
  <2>2. OthersEffects
    BY <1>2, <1>11, OthersEffect DEF OthersStep
  <2>3. ExporterTypeOK' /\ SnapShape'
    BY <1>i, <2>1 DEF ExporterTypeOK
  <2>4. FlaggedWhileExporting' /\ ExportedHostsStillKnown'
    BY <1>i, <2>1, <2>2 DEF OthersEffects, FlaggedWhileExporting, ExportedHostsStillKnown
  <2>5. ASSUME NEW view, Shape(g') = Shape(g)
        PROVE  /\ UpToDate(view, g) => UpToDate(view, g')
               /\ SegmentsUpToDate(view, g) => SegmentsUpToDate(view, g')
               /\ Shows(view, g) => Shows(view, g')
    BY <1>2, <2>2, <2>5, ShowsStays DEF OthersEffects
  <2>6. Shape(g') = Shape(g) => NodesShown(g') = NodesShown(g)
    BY DEF Shape
  <2>7. Progress'
    BY <1>i, <2>1, <2>5, <2>6 DEF Progress
  <2>8. Settled'
    BY <1>i, <2>1, <2>2, <2>5 DEF Settled, OthersEffects
  <2> QED
    BY <1>q, <2>3, <2>4, <2>7, <2>8
<1>12. CASE UNCHANGED exporterVars
  <2>1. g' = g /\ at' = at /\ snap' = snap /\ file' = file /\ raced' = raced
    BY <1>12 DEF exporterVars
  <2> QED
    BY <1>i, <1>q, <2>1 DEF ExporterTypeOK, FlaggedWhileExporting, ExportedHostsStillKnown, Progress, Settled
<1> QED
  BY <1>3, <1>4, <1>5, <1>s, <1>6, <1>7, <1>8, <1>9, <1>10, <1>11, <1>12 DEF ExporterNext

(* The exporter's invariant holds in every reachable state, and with it    *)
(* the store's: the goroutines of main.go are callers the store allows.    *)
THEOREM ExporterInvariance == ExporterSpec => []ExporterIInv
BY ExporterInitIInv, ExporterNextIInv, PTL DEF ExporterSpec

(* Snapshots and file are well typed, the edges they show included.        *)
THEOREM ExporterTypeCorrect == ExporterSpec => []ExporterTypeOK
<1>1. ExporterIInv => ExporterTypeOK
  BY DEF ExporterIInv
<1> QED
  BY <1>1, ExporterInvariance, PTL

(* A complete file of an unflagged store shows its hosts, interface tables *)
(* and links, in its segments too, unless hosts or links changed between   *)
(* the snapshots and the clearing of the last export; the details it shows *)
(* of a link are those of the store, or the store's are the ones the file  *)
(* shows in the interface tables.                                          *)
THEOREM OnlyRacedChangesAreEverLost == ExporterSpec => []OnlyRacedChangesAreLost
<1>1. ExporterIInv => OnlyRacedChangesAreLost
  BY DEF ExporterIInv, Settled, Shows, OnlyRacedChangesAreLost
<1> QED
  BY <1>1, ExporterInvariance, PTL

(* The hosts and links of a half-taken snapshot are still in the store.    *)
THEOREM ExportedHostsAlwaysKnown == ExporterSpec => []ExportedHostsStillKnown
<1>1. ExporterIInv => ExportedHostsStillKnown
  BY DEF ExporterIInv
<1> QED
  BY <1>1, ExporterInvariance, PTL

(* The exporter goroutine, the expiry it races with and the receive        *)
(* handler are callers the store of Graph allows, so that everything said  *)
(* of that store under any caller is true of the daemon's.                 *)
THEOREM ExporterRunsTheStore == ExporterSpec => Spec
<1>1. ExporterInit => Init
  BY DEF ExporterInit
<1> QED
  BY <1>1, ExporterImplementsStore, ExporterInvariance, PTL DEF ExporterSpec, Spec

(* The store under the exporter implements Membership: an export in        *)
(* progress, one whose writing failed included, is invisible in it but for *)
(* the moment it clears the flag.                                          *)
THEOREM ExporterImplementsMembership == ExporterSpec => ImplementsMembership
BY ExporterRunsTheStore, StoreImplementsMembership
=============================================================================
