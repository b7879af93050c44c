------------------------------ MODULE Exporter ------------------------------
(***************************************************************************)
(* runExporter (cmd/lldiscovery/main.go): the goroutine that writes the    *)
(* DOT file when the store is flagged and runs the expiry, interleaved     *)
(* with the receiver goroutine.  One select loop serves both tickers, so   *)
(* no expiry happens during an export; packets do.                         *)
(*                                                                         *)
(* Each method call on the store takes the lock by itself, and "at" is the *)
(* call the goroutine makes next:                                          *)
(*   select -> nodes -> edges -> segments -> open -> write -> clear        *)
(*                                                                         *)
(* GetNetworkSegments computes the segments from the links, their kinds    *)
(* and the prefixes of the interface tables (module Segments): of its      *)
(* answer is kept what it was computed from.  The details in EdgeInfo are  *)
(* not in it, only pointers to the stored edges (module Server); speeds,   *)
(* which only decide about the name of a merged segment, are left out.     *)
(***************************************************************************)
EXTENDS Graph

CONSTANT ShowSegments   \* cfg.ShowSegments

ASSUME ShowSegmentsAssumption == ShowSegments \in BOOLEAN

VARIABLES
    at,     \* the next call of the exporter goroutine
    snap,   \* what the three reads of the store returned to it
    file,   \* the output file
    raced   \* history: hosts or links changed during the last export

exporter == <<at, snap, file>>
exporterVars == <<g, handling, at, snap, file, raced>>

Prefixes(nodes) ==
    [h \in DOMAIN nodes |-> [i \in DOMAIN nodes[h].ifaces |-> nodes[h].ifaces[i].pfx]]

SegmentSource(gr) == [prefixes |-> Prefixes(gr.nodes), links |-> Kinds(gr.edges)]

Nothing ==
    [nodes |-> EmptyMap, links |-> EmptyMap, segments |-> [prefixes |-> EmptyMap, links |-> EmptyMap]]

(* os.WriteFile truncates the file before it writes: a file that is open,  *)
(* or whose writing failed, holds no complete graph.                       *)
NoFile == [status |-> "absent", shows |-> Nothing]
Partial == [status |-> "partial", shows |-> Nothing]
Complete(view) == [status |-> "complete", shows |-> view]

TypedView(view) ==
    /\ IsPartialMap(view.nodes, Host, [name : Name, ifaces : Ifaces])
    /\ IsPartialMap(view.links, EdgeKey, Edge)
    /\ IsPartialMap(view.segments.prefixes, Host, PartialMap(Iface, Pfx))
    /\ IsPartialMap(view.segments.links, EdgeKey, BOOLEAN)

(* Types of the snapshots and of the file: every edge shown is one of two  *)
(* hosts.                                                                  *)
ExporterTypeOK ==
    /\ at \in {"select", "nodes", "edges", "segments", "open", "write", "clear"}
    /\ TypedView(snap)
    /\ file.status \in {"absent", "partial", "complete"} /\ TypedView(file.shows)
    /\ raced \in BOOLEAN

ExporterInit ==
    /\ Init
    /\ at = "select"
    /\ snap = Nothing
    /\ file = NoFile
    /\ raced = FALSE

Goto(from, to) == at = from /\ at' = to

-----------------------------------------------------------------------------
(* The export ticker: HasChanges.                                          *)
ExportTick ==
    /\ Goto("select", "nodes")
    /\ g.changed
    /\ UNCHANGED <<g, handling, snap, file, raced>>

SnapshotNodes ==
    /\ Goto("nodes", "edges")
    /\ snap' = [snap EXCEPT !.nodes = NodesShown(g)]
    /\ raced' = FALSE
    /\ UNCHANGED <<g, handling, file>>

AfterEdges == IF ShowSegments THEN "segments" ELSE "open"

SnapshotEdges ==
    /\ Goto("edges", AfterEdges)
    /\ snap' = [snap EXCEPT !.links = g.edges]
    /\ UNCHANGED <<g, handling, file, raced>>

SnapshotSegments ==
    /\ Goto("segments", "open")
    /\ snap' = [snap EXCEPT !.segments = SegmentSource(g)]
    /\ UNCHANGED <<g, handling, file, raced>>

OpenFile ==
    /\ Goto("open", "write")
    /\ file' = Partial
    /\ UNCHANGED <<g, handling, snap, raced>>

WriteFile ==
    /\ Goto("write", "clear")
    /\ file' = Complete(snap)
    /\ snap' = Nothing
    /\ UNCHANGED <<g, handling, raced>>

(* The directory, the open or the write may fail: the store stays flagged  *)
(* and the next tick of the export ticker tries again.                     *)
FailedExportCleared == g' = ClearChanges(g)

FailedExport == UNCHANGED g

WriteFails ==
    /\ at \in {"open", "write"}
    /\ at' = "select"
    /\ snap' = Nothing
    /\ FailedExport
    /\ UNCHANGED <<handling, file, raced>>

Clear ==
    /\ Goto("clear", "select")
    /\ g' = ClearChanges(g)
    /\ UNCHANGED <<handling, snap, file, raced>>

(* The expiry ticker, served by the same loop.                             *)
MayExpireAnytime == TRUE

MayExpire == at = "select"

ExporterExpire ==
    /\ MayExpire
    /\ ExpireTick
    /\ UNCHANGED <<exporter, raced>>

(* The receiver goroutine and the clock.                                   *)
OthersStep ==
    /\ ReceiverStep \/ Tick
    /\ raced' = (raced \/ (at # "select" /\ Shape(g') # Shape(g)))
    /\ UNCHANGED exporter

ExporterNext ==
    \/ ExportTick
    \/ SnapshotNodes
    \/ SnapshotEdges
    \/ SnapshotSegments
    \/ OpenFile
    \/ WriteFile
    \/ WriteFails
    \/ Clear
    \/ ExporterExpire
    \/ OthersStep

ExporterSpec == ExporterInit /\ [][ExporterNext]_exporterVars

(* The ticker fires and the goroutine runs on; opening and writing the     *)
(* file do not fail for ever.                                              *)
ExporterFairness ==
    /\ WF_exporterVars(ExportTick)
    /\ WF_exporterVars(SnapshotNodes \/ SnapshotEdges \/ SnapshotSegments \/ Clear)
    /\ WF_exporterVars(OpenFile \/ WriteFile \/ WriteFails)
    /\ SF_exporterVars(OpenFile) /\ SF_exporterVars(WriteFile)

FairExporterSpec == ExporterSpec /\ ExporterFairness

-----------------------------------------------------------------------------
(* Safety.                                                                 *)

SegmentsUpToDate(view, gr) ==
    ShowSegments => view.segments = SegmentSource(gr)

(* While no export is under way and the store is not flagged, a complete   *)
(* file has the hosts, interface tables and links of the store, in its     *)
(* segments as well, unless hosts or links changed during the last export; *)
(* a link whose details it has not got in their present state joins        *)
(* interfaces whose present addresses it shows.  So an update is lost in   *)
(* that window only, never by an expiry or a failed write; but the label   *)
(* of a link whose edge was overwritten unflagged (graph.go:181, 294) may  *)
(* keep an old address, and the old prefixes.                              *)
OnlyRacedChangesAreLost ==
    at = "select" /\ ~g.changed /\ file # NoFile /\ ~raced =>
        /\ file.status = "complete"
        /\ UpToDate(file.shows, g)
        /\ SegmentsUpToDate(file.shows, g)

(* Between the snapshots of one export hosts and links are only added: no  *)
(* export shows a host together with the links left after it expired, or a *)
(* link together with the segments computed without it.                    *)
ExportedHostsStillKnown ==
    /\ at \in {"edges", "segments"} => DOMAIN snap.nodes \subseteq DOMAIN g.nodes
    /\ at = "segments" => DOMAIN snap.links \subseteq DOMAIN g.edges

(* A flagged store is exported in the end.                                 *)
FlaggedChangesAreExported == g.changed ~> at = "clear"

-----------------------------------------------------------------------------
(* Claims of the documents the code does not keep.                         *)

(* The exporter checks for changes and exports the graph (README.md, "How  *)
(* It Works", step 7): a file of an unflagged store has its hosts, their   *)
(* interfaces and its links.                                               *)
UnflaggedStoreIsExported ==
    at = "select" /\ ~g.changed /\ file # NoFile =>
        file.shows.nodes = NodesShown(g) /\ Kinds(file.shows.links) = Kinds(g.edges)
=============================================================================
