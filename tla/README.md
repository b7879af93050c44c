# lldiscovery in TLA+

lldiscovery is a daemon that multicasts JSON packets on every active interface of
a host, collects the packets of the other hosts on its links into a graph of
hosts and links, and exports that graph to a DOT file and over HTTP.  With
`include_neighbors` a packet also carries the sender's direct neighbours, so that
a daemon learns of hosts one link further away.

These modules specify the daemon as it is in `src/`, TLC checks them on small
instances, and TLAPS proves for every value of the constants what TLC checks of
safety: every invariant and every action property of the passing runs, and that the
topology store, also that of each daemon in a network and that under the exporter,
implements an abstract specification.

## The system

| part | code | state | operations |
|---|---|---|---|
| topology store | `internal/graph/graph.go` | `nodes`, `localNode`, `edges`, `changed`, one RW lock | `SetLocalNode`, `AddOrUpdate`, `AddOrUpdateIndirectEdge`, `RemoveExpired`, `ClearChanges`; readers `GetNodes`, `GetEdges`, `GetDirectNeighbors`, `GetNetworkSegments`, `HasChanges` |
| receiver and its handler | `internal/discovery/receiver.go`, `cmd/lldiscovery/main.go:228-266` | the packet being handled | drop own packets, `AddOrUpdate` for the sender, `AddOrUpdateIndirectEdge` per neighbour |
| sender | `internal/discovery/sender.go`, `packet.go` | none | on a ticker: one packet per active interface with `GetDirectNeighbors` |
| exporter and expiry | `runExporter`, `main.go:313-360`; `WriteDOTFile` in `internal/export/dot.go` | the snapshot, the output file | export when `HasChanges`, then `ClearChanges`; `RemoveExpired` every 30 s; one `select` loop serves both tickers |
| HTTP server | `internal/server/server.go` | none | three handlers that read the store in two or three calls |
| network segments | `GetNetworkSegments` and the merges in `graph.go:510-1205` | none | groups hosts that share a link |
| exports | `internal/export/dot.go`, `nwdiag.go` | none | text from nodes, edges, segments |
| interface discovery | `internal/discovery/interfaces.go` | none | netlink, sysfs, ethtool |
| configuration | `internal/config/config.go`, flags in `main.go` | the configuration | defaults, file, flags, endpoint parser |
| start and shutdown | `main.go:60-311` | context, error channel | four goroutines, cancel, sleep 100 ms |
| telemetry | `internal/telemetry` | counters, spans | no effect on the topology |

The receiver, the sender, the exporter and the HTTP server are goroutines that
share nothing but the store.  Every method of the store holds the lock for its
whole body, so one call is one atomic step; what is not atomic is everything made
of several calls: the handling of one packet, an export, an HTTP answer.  One thing
escapes the lock: `GetNetworkSegments` hands out pointers to stored edges.  Daemons
interact through UDP multicast only, which may lose, delay, duplicate and reorder.

What makes each part correct:

- **store**: edges never dangle, nothing learned from a host outlives it, the
  local host is not discovered, what changes unflagged is nothing but the details
  an edge repeats of its interfaces, an expiry removes what depends on the expired
  host and nothing else;
- **handler, sender, network**: a stored edge is a physical link with the right
  details on the right side, knowledge travels exactly two links, a host that is
  gone is forgotten, and one that is up and heard is not;
- **exporter**: a flagged store is exported in the end, an unflagged one is in
  the file, a failed write loses nothing, an export is not torn by an expiry;
- **segments**: the hosts of a segment share a link, hosts reached over one link
  are together, every member has an edge the exporters can draw, and none of this
  depends on the iteration order of Go maps;
- **exports**: what is left out because a segment stands for it is of that
  segment's link, lines end at interfaces, the two diagrams agree;
- **HTTP server**: an answer put together from three calls lists the hosts its links
  end at, but for hosts learned in between, and shows no link as it never was;
- **configuration**: the command line decides, an endpoint and its protocol belong
  together, no setting of the command line or the defaults stops the daemon;
- **start and shutdown**: a signal or a failed component ends the process, and no
  goroutine waits for ever to report its error.

`PROJECT.json` lists the hazards behind these properties, each at its line.

## The modules

| module | what it is |
|---|---|
| `GraphOps` | the store as operators from a graph to a graph, one per method, and the predicates of a well-formed store |
| `Graph` | the store of one daemon under the receive handler, the expiry, `ClearChanges` and the clock; peers send anything |
| `Membership` | the abstract specification of the store: known hosts, silence, links, a flag |
| `Exporter` | extends `Graph` with the exporter goroutine call by call and the output file |
| `Network` | several daemons, their senders and handlers, links that carry datagrams, crashes and restarts |
| `Segments` | `GetNetworkSegments` round by round, with its merges, on the stores a daemon on given links can have |
| `Export` | extends `Segments` with what the DOT file and the nwdiag diagram make of its result |
| `Server` | extends `Membership` with the HTTP handlers call by call and the pointers they hold |
| `Config` | defaults, file, command line and endpoint as operators |
| `Lifecycle` | extends `Config` with one process from `main` to its exit |
| `Timing` | the periods: send ticker, delay and loss, `LastSeen`, expiry ticker |
| `GraphOpsProofs` | lemmas: what each method of the store preserves, and what it does to the hosts and the links the store shows |
| `GraphProofs` | the inductive invariant of `Graph` and the theorems; `Graph` implements `Membership`; the action properties |
| `ExporterProofs` | the inductive invariant of `Exporter` and the theorems; the exporter runs the store of `Graph` |
| `TimingProofs` | the inductive invariant of `Timing` and the theorems |
| `ServerProofs` | the inductive invariant of `Server` and the theorems |
| `NetworkProofs` | the inductive invariant of `Network`: well-formed stores, sound packets; what they say is true of its links, and how far it travels; every daemon implements `Membership`; how a host is forgotten |
| `SegmentsProofs` | the inductive invariants of `Segments` and the theorems on `Segments` and `Export` |
| `LifecycleProofs` | the inductive invariant of `Lifecycle` and the theorems |
| `MCGraph`, `MCExporter`, `MCNetwork`, `MCSegments`, `MCServer`, `MCLifecycle`, `MCTiming` | instances for TLC |

### GraphOps

A graph is a record.  `nodes` maps a machine id to name, age and interface table;
`edges` maps `[src, dst, lif, rif]` to the rest of the edge.  The code keeps a
slice of edges per pair of hosts; both methods that append look for the pair of
interfaces first, so a pair occurs once and a function on the pair is the same.

- *Age instead of `LastSeen`.*  `age` counts clock ticks since `LastSeen` was
  assigned and saturates at `Timeout + 1`; `RemoveExpired` removes what is older
  than `Timeout` ticks, as `now.Sub(LastSeen) > timeout`.
- *Two fields instead of six.*  The store compares `IPAddress`, `RDMADevice` and
  `Speed` before it overwrites the details of an interface and does not compare
  `GlobalPrefixes`.  `ident` stands for the former, `pfx` for the latter.  The two
  GUIDs of an RDMA device are not compared either and appear in labels only; they
  are left out.
- `StoreEdge` is the search for the pair of interfaces that both methods end in:
  a direct edge is not overwritten by an indirect one, an indirect edge that
  becomes direct and a new edge set `changed`, an edge overwritten by one of its
  kind does not (`graph.go:181`, 294).  The branch for an indirect edge that becomes
  direct (line 178) is in the model although nothing reaches it: direct edges are
  stored under the local host and reported ones never are.
- `Topology` is all that `GetNodes` and `GetEdges` copy, `Shape` the part of it whose
  changes are flagged: names, interface tables, which links there are and which are
  direct.  `UpToDate` is how far a view may lag behind without a flag.
- `AddOrUpdateIndirectEdge` stores the edge under the reporting host, and only if
  that host has a node; the reported host counts as seen either way.
- `RemoveExpired` removes the expired nodes and every edge from, to or learned
  from one of them.  It does not remove nodes that lose their last edge.

Definitions that end in a suffix and stand before the method they vary
(`SurvivingEdgesOfOwner`, `HandleNeighborUnfiltered`, ...) are faulty variants,
one per property: with the variant in place of the method the property fails.

### Graph

`g` is the store, `handling` the sender of the packet whose neighbours the
handler is still processing.  `ReceivePacket` is the filter of own packets and
the first call of the handler, `ReceiveNeighbor` one round of its loop,
`FinishPacket` its end; `ExpireTick`, `ExportDone` and `Tick` come in between.
The environment is any set of packets from hosts other than the local one.  One
thing is assumed of them: a host does not report itself as its own neighbour,
which `GetDirectNeighbors` cannot do because own packets are dropped.  The local
node may be missing, as it is when the interfaces cannot be listed at start; the
host may then discover itself from a report, because the filter of the handler
compares with an empty id.

### Membership

What the store promises, without packets, interfaces or clocks.  A host is learned
when it is heard of (`Hear`), together with at most one link to it from a host that
is known already; it is forgotten only after it fell silent (`FallSilent`,
`Forget`), all silent hosts at once, and exactly the links that end at one go with
them; `flagged` is up after every change until `Exported`.

`Graph!Members` is the refinement mapping: the abstract links are the keys of the
edges, and a host is silent when its age exceeds the timeout.  The code decides
about an edge by its owner, its end and the host it was learned from, in a loop over
a map it deletes from; that this amounts to the removal of the links that end at a
silent host, and of no other, is part of what the refinement says.

The daemons implement it too.  The exporter goroutine and what it races with make
steps that `Graph` has (`ExporterRunsTheStore`).  In `Network` each daemon has a
`Membership` of its own, from a start to the next crash (`DaemonsImplementMembership`):
whatever the network does to the datagrams, and whatever other daemons send before and
after their own crashes, a packet is hosts heard of and nothing else.

### Exporter

`at` is the call the goroutine makes next: `HasChanges` at the ticker, `GetNodes`,
`GetEdges`, with `ShowSegments` `GetNetworkSegments` (`main.go:332`), open (which
truncates), write, `ClearChanges`.  Packets and the clock interleave with every one of
them; the expiry runs only at `select`, because the same goroutine serves both tickers.
A write may fail before or after the file was truncated.  `snap` is what the reads
returned, the edges with all their details; of the segments it is what they are computed
from, the links, their kinds and the prefixes of the interface tables.  `raced` is a
history variable: hosts or links changed during the last export.

What a file of an unflagged store may lack, without any race, is the present
details of an edge: an edge overwritten by one of its kind does not set the flag, so
the address on its line's label may be the old one, and its prefixes.
`OnlyRacedChangesAreLost` says how far that goes: hosts, interface tables, links and
segments are those of the store, and a link shown with other details than it has now
joins interfaces whose present addresses the tables in the file show.

### Network

`up`, `graph` and `handling` per host, `net` for the datagrams on the links.
`Send` is one `sendOnInterface`; the neighbours are read at that moment, so two
packets of one round may differ.  A datagram may be received by every interface
on its link any number of times in any order, until `Drop` loses it or it is two
ticks old.  The neighbours of a packet are handled in any order, that of a map
iteration.  `Crash` loses the store, `Start` begins with an empty one; old packets
of the host stay under way.

### Segments

`g` is the store and `handling` what the receive handler has yet to do with a
packet.  `Hear`, `Report` and `ReceiveNeighbor` build the store with the operators
of `GraphOps` while the function is not called, so its input is always one the
daemon can have; `Call` may come between two neighbours of one packet, unless the
bound `MidPacket` keeps them apart.

`phase` is the part of `GetNetworkSegments` that comes next, `todo` the interface
names it has yet to visit and `segs` the list of segments so far.  A step is one
round of one of its loops:

| action | code |
|---|---|
| `FindLocal` | one local interface of part 1 |
| `StartRemote`, `NextGroup` | the next group of part 2: `iface` and `nodeEdges` |
| `FindRemote`, `GroupDone` | one round of the search over the group: what the breadth-first search finds from a host that is not `visited` |
| `StartMerge`, `MergeFirst` | a merge begins the next group of segments with the same key |
| `MergeByPrefix`, `MergeByNodeSet` | the next segment of that group, by primary prefix and by hosts; `maxSpeed` is the speed of the name chosen so far |
| `KeepUnmerged` | the segments that are in no group, in their order |
| `EndMerge` | `result` becomes the list; after the first merge the second begins |

`merged` holds the indices the merge has taken up.  The lock is held from `Call` to
`Return`, so the store does not change and nobody sees the steps between.

The order of a Go map is a choice in each place it is used: which local interface
or group comes first; in which order the sources of a group are visited, which
decides the edge that stands for a host (`FirstEdges`); at which host the
search starts; which merged segment comes first.  What the
breadth-first search finds is the least set that is closed under the links of the
group (`ReachableFrom`); the code computes it with a queue.  Names are numbers, so
that `Min` is the first of a sorted list; prefixes are sets of numbers; the speed of
an interface is kept, because it decides the name of a merged segment.  The ids of
segments are left out.

### Export

The operators `Lines`, `Boxes`, `SegmentPorts` and `Hidden` are what
`GenerateDOTWithSegments` draws and leaves out, `Processed` and `PeerNetworks` what
`ExportNwdiag` does.  They are evaluated in the state in which `GetNetworkSegments`
returns, so nodes, edges and segments are of one moment, as they are in an export
during which nothing arrives (`Server` and `Exporter` have the other case).  The two
exporters decide differently which links a segment stands for: DOT hides an edge
between members by the name of its local interface, after marking for every pair of
members the interfaces of both; nwdiag marks edges by prefix.  Labels, colours,
widths and network names are left out.

A member is joined to a segment by the interface of its `EdgeInfo` and by those with a
prefix of the segment (`OwnIfaces`); if there is none, by the first of its connected
interfaces that a map iteration yields (`dot.go:415-421`), which `SegmentPorts` has as
the set of all of them.  Only the local host can need that, because it has no
`EdgeInfo`, in a segment without a prefix of its interfaces.  In `segments_campus`
this is its WiFi segment, which the DOT file may join to its wired interface; for the
local host `SegmentPortsOnLink` therefore says no more than that an interface on the
segment's link is among those the fallback may pick.

### Server

`request` is the handler's next call: `GetNodes`, `GetEdges`, `GetNetworkSegments`,
then the fields of the segments' edges one by one while the answer is written.  The
other goroutines take steps of `Membership` in between; `content` is what an edge
holds, and a step writes at most one edge.  `pointed` is what the handler's pointers
show: it follows a write to an edge that is overwritten in place (`inStore`), and
keeps its value when the edge leaves the store or is replaced by another object.
Only edges from the local host are overwritten in place; a reported edge is replaced
(graph.go:294).  `SegmentLinks` says which links make a segment: in `server_torn` the
two links to hosts heard on one interface, as in the code.  In `server_reads` it is
each link by itself, as if another host, to which nothing happens, were on it; that is
more than the code shows of two peers, and what holds of more holds of less.  `ReadFieldWhileWritten` is the data race: a read that meets the
write returns a value that is neither.

### Config and Lifecycle

`Config` is pure: `Effective(file, flags)` is what `main` runs with.  An endpoint is
a scheme and a port, which is all that `ParseEndpoint` looks at; an interval is any
number, missing, or a text that is no duration.  A flag counts when it is above zero:
`--send-interval=0` or a negative value is passed over without a word.  `Lifecycle` takes a pair of a file
and a command line, computes the settings and goes on to the goroutines.  `main`
may return at any point of their work, because nothing makes them finish within its
100 ms; so an export or an answer can be cut off (the README's "Graceful shutdown",
`PROJECT_SUMMARY.md:19`, is not stated as a property: it fails in one step).  A
broken socket makes the receiver spin, in `recv = "spin"`.  A ticker with a period
that is not positive panics and ends the process with code 2.

### Timing

One sender and one observer with clocks that count in the unit of the constants.
`Tick` cannot pass what is due: a send, the arrival of a packet (at most `MaxDelay`
after it was sent), an expiry (at most `Busy` late, because an export occupies the
loop).  `Lose` may lose packets for `Tolerated` time units in a row.  The
code compares `node_timeout` with nothing; `TimeoutAssumption`
(`Timeout >= Tolerated + Interval + MaxDelay`) is what it would have to check.

## The runs

| run | instance | what it shows |
|---|---|---|
| `graph_safety` | a daemon, 2 peers with 2 addresses per interface, timeout 0 | the store is well formed in every state; what changes without setting `changed` is no host, interface or link, and no address the interface tables do not show; the store implements `Membership` |
| `network_chain` | a chain of 4 daemons, no clock | every edge is a link, with the details of its two interfaces; nobody knows a host three links away |
| `network_forget` | a chain of 3, the last host comes and goes | the stores are well formed, have their local node and implement `Membership`; the neighbours of a host that is down do not see it again, then nobody does, and so it is forgotten by all |
| `exporter_export` | 1 peer with 2 addresses, heard on 2 interfaces, failing writes | the file of an unflagged store has its hosts, interfaces, links and segments unless hosts or links changed during the last export; no expiry between the three reads of an export; a flagged store is exported in the end |
| `segments_campus` | a daemon with wire and WiFi, 3 hosts on its links, a fourth beyond; every partial knowledge | segments are hosts of one link, complete for the daemon's own links and for links reported from both sides; the two merges leave no two segments that should be one; what the diagrams leave out is of the segment that stands for it, and they agree |
| `server_reads` | a daemon that hears one peer, which reports another | the local host is in every answer; a host at the end of a link of an answer is listed in it or was learned after the nodes were read; a reported link is shown as it was |
| `lifecycle_daemon` | every file and command line over the intervals, the switches or the endpoint | the command line decides; a signal and a failed component end the process; nobody blocks on `errChan` |
| `timing_steady` | 30 s interval, two losses in a row, the shortest timeout allowed, in units of 10 s | a host that is up and heard stays; a silent one goes in time; a started one is heard at once |

Four runs end in a violation, on purpose: each states what a document of the
repository says and the code does not do.

| run | document | code |
|---|---|---|
| `network_zombie` | hosts that do not send are removed (`README.md:456`) | two daemons that report a dead host on their link to each other keep it alive |
| `exporter_lost` | changes are exported (`README.md:457`) | `ClearChanges` clears a change that came after the snapshot |
| `segments_order` | 3 hosts that share an interface name are a segment (`REMOTE_VLAN_DETECTION.md:35`) | the search follows edges one way: started at a host that reports nothing it finds that host alone |
| `server_torn` | graph access is thread-safe (`RELEASE_v0.0.1.md:114`) | the handlers read stored edges through pointers without the lock, and mix two states of one edge |

More documents say what the models contradict, each in one step or one evaluation,
so that no run is spent on it:

- prefixes are not stored when only they changed (`NETWORK_PREFIXES.md:133`, `StoreIface`);
- the DOT file is truncated before it is written (`PROJECT_SUMMARY.md:62`, `OpenFile`);
- a node learned only through a host that expired stays until its own timeout
  (`TRANSITIVE_DISCOVERY.md:143`, `RemoveExpired`);
- an edge overwritten by one of its kind does not set `changed`, so an address on an
  exported label can stay the old one (`README.md:457`, `StoreEdge`);
- two hosts other than the local one make a segment of an interface (`SegmentIfaces`),
  as `docs/features/TWO_NODE_SEGMENTS.md:13` has it, where `README.md:613` asks for three;
- an edge between two members is hidden if it leaves by an interface of the segment
  (`Hidden`), whichever member it leaves; `README.md:626` keeps all edges between members
  and hides those of the local host only;
- the `protocol` of a file that names an endpoint is not heeded: without a scheme the
  endpoint is taken for one of gRPC (`OPENTELEMETRY.md:337`, `ParseEndpoint`);
- without prefixes, one link is a local and a remote segment when the local
  interface has another name (`SEGMENT_INTERFACE_FIX.md:69`, `RemoteIfaces`; the
  ports `{<<a,1,1>>, <<b,2,1>>, <<c,2,1>>, <<d,2,1>>}` show it).
  `OneSegmentPerInterface` therefore speaks of interfaces with a prefix, and of names
  the daemon has a segment on;
- the `show_segments` of a file is not read (`README.md:607`, `MergeFile`), and a
  file that gives an endpoint or enables telemetry switches off the telemetry
  settings it does not name (`MergeFile`);
- an `http://` endpoint of a file becomes one of gRPC: `Load` strips its scheme, and
  the second `ParseEndpoint` in `main` takes what is left for gRPC (`README.md:232`,
  `Effective`).  `CommandLineWins` therefore says so of the command line only;
- an interval of zero in a file panics a ticker (`BadIntervalsComeFromFile`);
- the process ends with code 0 when a component fails (`Return`).

`segments_campus` checks, and `SegmentsProofs` proves, the properties of `Export` and
`OneSegmentPerInterface` where the links are as they ask.  Where they are not, four of
them fail, and TLC shows it when `Attached` and `DetailsAt` of `MCSegments` are replaced
by these, and the conjunct of `LinksAssumption` they break is dropped:

- `HiddenLinksAreOfSegments` with `{<<a,1,1>>, <<b,1,1>>, <<c,2,1>>, <<a,2,2>>, <<c,3,2>>}`
  and one prefix per link.  `dot.go:533` hides an edge by the name of its local
  interface, and `dot.go:189-192` marks the interfaces of both members for a pair: the
  second cable leaves the local host by an interface named as the one `c` has on the
  segment, and is left out.  `README.md:621` says that an edge is hidden "only when the
  edge uses the segment's interface".
- `LinesEndAtInterfaces` with `{<<a,1,1>>, <<a,4,1>>, <<b,1,1>>, <<b,4,1>>, <<c,1,1>>}`
  and one prefix.  A segment is drawn to every interface of a member that has its prefix
  (`dot.go:383-410`), a cluster has only those that an edge uses (`dot.go:268`):
  Graphviz puts the other outside of its machine, where
  `SUBGRAPH_VISUALIZATION.md:38` has each interface inside.
- `DrawnLinksArePeerNetworks` with `{<<a,1,1>>, <<a,4,2>>, <<b,1,1>>, <<b,4,2>>, <<c,1,1>>,
  <<c,3,2>>}`, the prefix 1 on interfaces 1, the prefix 2 on interface 3 and none on
  interfaces 4.  The link from `a`'s 4 to `c`'s 3 is drawn in the DOT file, and has no
  network in nwdiag, because its other end has a prefix of the segment.  No document
  says that the diagrams agree.
- `OneSegmentPerInterface` with `{<<a,1,1>>, <<a,4,1>>, <<b,1,1>>, <<c,1,1>>, <<d,1,1>>}`
  and no prefixes: what is heard on `a`'s two interfaces on the link becomes two
  segments, and `b`, heard on both, is in both.  And with the ports of the list above,
  the prefix 1 on `b`'s interface, 2 on those of `c` and `d` and none on `a`'s: the local
  and the remote segment have different primary prefixes and are not merged.

`network_forget` and `network_zombie` check the same property.  In the chain the
dead host has one neighbour, whose direct edge expires, and it is no longer
reported; on a shared link two hosts that both saw it refresh it at each other
before either expires it.  `Unechoed` says where the line is: the property is that the
neighbours lose the host if no two gossiping ones among them hear each other, which
holds in the chain and not on the shared link.

### Bounds

- Three hosts are the least with a local host, a reporter and a reported one, and
  each peer may be both; four hosts in a chain are the least where knowledge could
  travel too far.
- `Timeout` is 0 or 1 tick.  With 1 a host can be seen again between two ticks
  before it expires, which the refreshing by reports needs; with 0 every tick
  makes every host expire that is not seen.
- `graph_safety` receives on one interface, peers send from one and report
  neighbours on another, so that a reporter's interface may be known from its
  report only.  The chain has two interfaces per host, one per link.
- Two values of `ident` (or of `pfx`, or of an edge's content) are what a change
  needs.
- `MaxInFlight` is 1: one datagram on the links at a time.  It may be received
  late, several times, by several hosts and after its sender crashed; an order
  between different datagrams is an order of sends here.  That reordered datagrams,
  the clock and several prefixes change nothing rests on the theorems of
  `NetworkProofs`, which have no such bound.
- `network_chain` stops the clock (`ClockStopped`): its two properties say what
  may be learned, and expiry only removes.
- `exporter_export` has one peer, heard on two interfaces: what races with an export is
  one host that comes, goes or changes its address, and its two edges get the new
  address one after the other.  The local node is there (`LocalSpec`), and nobody
  reports the peer; both are in `graph_safety`.  Its three invariants are proved for
  every number of peers, with and without a local node; only the liveness rests on
  the instance.
- `segments_campus` has the least of each kind: a local link with two hosts, one
  with three, a link of three beyond that the search must follow for two steps,
  and one name used on two links.  A report names one neighbour, on all the links it
  shares with the reporter, and the function is not called in the middle of one
  (`MidPacket` is false; the theorems have it true as well).  `segments_order` needs
  three hosts on a link of which the daemon hears two.
- `server_reads` has one link of each kind, overwritten in place and replaced, and
  one request: handlers only read.  `server_torn` has two links of the first kind,
  the least of which the code makes a segment.
- `lifecycle_daemon` varies the intervals, the switches and the endpoint one at a
  time, because no code relates them; each part is complete over the kinds of
  values the code tells apart.  One request at a time may hang.
- `timing_steady` has the shortest timeout the assumption allows, so that one unit
  less would break it.
- Symmetry (peers, values) is used where only safety is checked.

### Fairness

`Network`: the clock goes on, the expiry ticker of every daemon fires and its
handler ends.  `Tick` and the tickers are timers, the handler is a loop over a
finite list with no blocking call, and a Go program schedules its runnable
goroutines, so weak fairness is what the runtime provides.  No datagram need be
sent or arrive and no daemon need start.  `ExpireTick` stays enabled while the
daemon is up; a daemon may still crash before it.

`Exporter`: the goroutine goes on through the calls on the store.  `OpenFile` and
`WriteFile` get strong fairness: the disk does not fail for ever.  Without that a
flagged store is never exported, rightly.

`Lifecycle`: `main` and the four goroutines are scheduled, again weakly fair steps
of a Go program.  Nothing need fail, no request need come or be answered and no
signal need be sent.

## What is proved

For all constants that satisfy the assumptions of the modules:

| theorem | module | what it says |
|---|---|---|
| `TypeCorrect`, `EdgeEndsAlwaysKnown`, `EdgeProvenanceAlwaysKnown`, `LocalNeverDiscovered` | `GraphProofs` | the invariants of `graph_safety`, and one that `ImplementsMembership` implies, from `Invariance` |
| `StoreImplementsMembership` | `GraphProofs` | `Graph` implements `Membership` under the mapping `Members` |
| `TopologyChangesAlwaysFlagged`, `EdgesAlwaysGoWithTheirHosts` | `GraphProofs` | what no step of the store does |
| `ExporterTypeCorrect`, `OnlyRacedChangesAreEverLost`, `ExportedHostsAlwaysKnown` | `ExporterProofs` | the invariants of `exporter_export`, from `ExporterInvariance` |
| `LiveHostsAlwaysStay`, `SilentHostsAlwaysGo`, `StartedHostsAreHeard` | `TimingProofs` | the properties of `timing_steady`, from `TimingInvariant` |
| `ExporterRunsTheStore`, `ExporterImplementsMembership` | `ExporterProofs` | `Exporter` implements `Graph` and with it `Membership` |
| `NetworkTypeCorrect`, `StoresAlwaysWellFormed` | `NetworkProofs` | the invariants of `network_forget`, from `NetworkInvariance` |
| `DaemonsAlwaysImplementMembership` | `NetworkProofs` | every daemon of every network implements `Membership` between a start and a crash |
| `NeighborsAlwaysLoseDownHosts`, `UntoldHostsAlwaysStayUntold`, `DownHostsAlwaysFade` | `NetworkProofs` | the two stages in which a host that is down is lost sight of, in every network |
| `EdgesAlwaysLinks`, `KnowledgeAlwaysStops` | `NetworkProofs` | the properties of `network_chain`, for every network and with the clock running |
| `ServerTypeCorrect`, `MissingEndsAlwaysNewcomers`, `ReportedLinksNeverTorn` | `ServerProofs` | the invariants of `server_reads`, from `ServerInvariance` |
| `SegmentsAlwaysTyped`, `MembersAlwaysHaveEdges`, `LocalLinksAlwaysShown`, `AnsweredLinksAlwaysShown`, `SegmentsAlwaysApart` | `SegmentsProofs` | the invariants of `segments_campus` about segments, from `SegmentsInvariance`: for any hosts, links, names and prefixes and every order of the maps |
| `MembersAlwaysShareLink` | `SegmentsProofs` | the members of a segment share a link, if an interface is on one link and a prefix is used on one link; from `LinkInvariance` |
| `SegmentPortsAlwaysOnLink`, `ProcessedLinksAlwaysOfSegments` | `SegmentsProofs` | what the DOT file connects to a segment is of its link, where only the local host can need the fallback and then one of its choices is; what nwdiag leaves to a segment is of its link; under the same hypotheses |
| `HiddenLinksAlwaysOfSegments`, `LinesAlwaysEndAtInterfaces`, `DrawnLinksAlwaysPeerNetworks` | `SegmentsProofs` | the other properties of `Export`, each under one more hypothesis on the links |
| `OneSegmentAlwaysPerInterface` | `SegmentsProofs` | an interface with a prefix, or with the name of an interface the daemon has a segment on, is in one segment; under all hypotheses but `NamesOnOneLink` |
| `NobodyEverBlocksOnErrors`, `CommandLineAlwaysWins`, `BadIntervalsAlwaysComeFromFile`, `CollectorAlwaysComplete` | `LifecycleProofs` | the invariants of `lifecycle_daemon`, from `LifecycleInvariance` |

The assumptions are: the zero values are values of their types and not host ids,
the local host is a host, the interface names packets bring are interface names,
the attached interfaces are interfaces of hosts and have details (`Network`), the
ends of links are hosts, the links a segment is read of are links and a garbled value is
no value (`Server`), the relations
between the periods that `Timing` names, what a file and a command line can say at
all (`UserAssumption` of `Lifecycle`), and that hosts are finitely many,
the prefix sets are the subsets of a finite set of numbers, names are numbers and
every attached interface has details (`Segments`).

The theorems about what segments stand for have hypotheses on the links beside these,
each named in `Segments` or `Export`; TLC evaluates all of them on the instances of
`segments_campus` and `segments_order`, where they hold:

| hypothesis | says | used by | without it |
|---|---|---|---|
| `PortsOnOneLink` | an interface is plugged into one link | all | no meaning to "the link of an interface" |
| `PrefixesOnOneLink` | a global prefix is the address range of one link | all but `DrawnLinksAlwaysPeerNetworks` | the code merges what has a prefix in common, so private ranges used twice do join two links |
| `NamesOnOneLink` | a host on a link has no interface on another link with a name used on the first (it implies `PortsOnOneLink`) | `HiddenLinksAlwaysOfSegments` | the first of the instances above |
| `OnePortPerLink` | a host has one interface on a link | `LinesAlwaysEndAtInterfaces`, `OneSegmentAlwaysPerInterface` | the second and the fourth of them |
| `SamePrefixes` | the interfaces on a link have the same prefixes | `DrawnLinksAlwaysPeerNetworks`, `OneSegmentAlwaysPerInterface` | the third and the fifth of them |

**Graph.**  None of the invariants is inductive alone.  That an edge's provenance is known
needs that the handled packet is not the local host's (`handling # Self`) and that
the local node, once set, is `Self`.  `IInv` is their conjunction with `TypeOK`.
The argument has three layers:

1. `KeepsKnown(g1, g2)`: hosts and interface tables only grow and the edges stay.
   Every step that touches nodes only (`EnsureNode`, `Rename`, `Touch`,
   `StoreIface`, `AgeNodes`) has it, it is transitive, and it keeps a store well
   formed as long as the local host is not added.
2. `EdgeFits(g, k, e)`: what an edge must satisfy to be stored.  `StoreEdge` keeps
   a store well formed if the edge fits, and both methods establish that before
   they store it.
3. `RemoveExpired` keeps exactly the edges whose owner, end and reporter survive,
   and the surviving hosts keep their interface tables.

`NextIInv` then has one step per action.

**Membership.**  Every call of the handler, whatever it stores, has one effect on
the membership (`ReceiverEffect`): it adds the host heard of, makes it not silent,
adds at most one edge that fits, and leaves the flag up if anything changed.
`StepEffect` collects this with the effects of expiry, export and clock; the
refinement and both action properties follow from it, one step per action of the
abstract `Next`.

A daemon of `Network` has the same effects on its store.  `StoreStep` lists them and
`DaemonEffect` shows that every step of the network is one of them for every daemon,
or replaces its store by an empty one when it crashes or starts; `MemberStep` maps each
to a step of `Membership`.  `StoreStep` also says of whom a daemon can hear at all: the
senders of the datagrams on the links and the neighbours its handler is at work on.

**Exporter.**  `ExporterIInv` adds to the invariant of `Graph` that the flag stays
up while an export is under way (`ClearChanges` is called by this goroutine alone),
that no host of the nodes snapshot is missing (the expiry cannot run before the
goroutine is back at `select`) nor, while the segments are read, a link of the edges
snapshot, and what is known of the file at each call: until `raced`, the snapshots
taken so far are up to date with the store in the sense of `UpToDate`, and after the
write the file holds them.  They need not equal the store: an edge overwritten by one of
its kind sets no flag (graph.go:181, 294).  That `UpToDate` survives it is because the
call that overwrites an edge has first stored the same address in the interface table,
and a change of that is flagged.  That the receive handler may run between any two of the calls, and
the expiry at `select` only, is all `Graph` allows and more restricted than it;
`ExporterRunsTheStore` maps each call to a step of `Graph` or to none.

**Timing.**  The invariant bounds the silence of a host by the current outage and the
time since its last send, plus one interval while a packet is under way
(`SteadySilence`); for a host that was heard since it started the silence is its
age.  `Lose` bounds the outage, `Tick` the rest, and `TimeoutAssumption` their sum.

**Network.**  A store stays well formed only if no packet reports its sender and the
handler works on a packet of another host.  The first holds because a well-formed
store has no node for the local host, so `GetDirectNeighbors` cannot report it; the
second because own packets are dropped.  `NInv` says both of every store, handler
and datagram at once; the steps on one store are the lemmas of `GraphOpsProofs`.

That edges are links (`LInv`) follows an interface's details from its owner's packet
into a store, from there into a report, and from the report into the store of a
third host.  The one delicate place is `GetDirectNeighbors`: it takes the address
from the edge and the prefixes from two interface tables, and the two agree because
every entry of a table, too, holds the details of that very interface.  How far
knowledge travels (`KInv`) needs that only gossiping hosts report and only gossiping
neighbours of theirs keep a report to work on; it rests on `LInv`, because a report
says who is adjacent to the reporter.  Interfaces do not change in `Network`; a daemon
whose interfaces change is in `Graph`, where peers send anything.

How a host that is down is lost sight of (`DownHostsFade`) uses both invariants.  A daemon that cannot hear of
a host does not see it again (`NotHeard`, from `DaemonEffect`).  Could a neighbour of
the dead host hear of it, then from a report; the reporter gossips, is on a link with
it (`KInv`) and, as the report is true (`LInv`), on a link with the dead host, so there
are two gossiping neighbours that hear each other.  Once no neighbour knows the host and
no report of it is under way, none comes: a daemon reports its direct edges to hosts
in its store, and those are its neighbours (`ReportsNeighbors`).  That ages then exceed
the timeout and expiries come is what fairness adds; `DownHostsForgotten` is the part of
the argument that TLC has to itself.

**Server.**  `ServerInv` says that the ends of all links are known, so the links read
after the hosts end at hosts that were read or learned since; and that only links of
the local host are overwritten in place, so what was read of any other link through
a pointer is still what the pointer shows.

**Segments.**  `IInv` has four parts, and each is needed for the next.

- `StoreInv`: the store is well formed and true to the links, as in `Network`.  Only
  so is a host of an edge in the store, where `getAllPrefixes` looks for it, and is an
  edge what joins two interfaces of one link.
- `CallInv`: the types of the call.  `EdgeInfo` maps members other than the local host
  to edges they are an end of, and the local host is in no group of part 2.
- `CoverInv` says why no merge loses hosts.  In the middle of a merge a segment is
  either still to be taken up or part of one in `result`; `MergeCovered` states that
  what was together in `segs` is together in `result` or in a segment that is left.
  For part 2 the invariant speaks of sets of hosts that lead to each other
  (`Connected`, `Linked`): the search visits all of such a set or nothing, because
  what it has visited is closed under the links.
- `ApartInv`: a merge by prefix makes one segment of each primary prefix.  The merge
  by hosts after it changes primary prefixes, to the least of all prefixes of a group;
  it does not make two segments equal, because a group's least prefix is the primary
  prefix of one of its segments, which the first merge has left nowhere else.

`LinkInv` is for `MembersAlwaysShareLink`.  Until the first merge has ended the members
of a segment and all its prefixes are of one link.  Two segments with the same
primary prefix are therefore of the same link and may be merged.  After that only
the members are: two segments of the same hosts may be of two links, and their
prefixes are put together, each with a link that all members are on.

`OneSegmentAlwaysPerInterface` follows the interfaces of a segment's edges through the
parts of the call.  After the two searches (`FoundInv`) a local segment is the only one
of its name, and the edges of a remote one have its name, no local segment's, at both
ends.  Two segments then share an interface with a prefix only if they are of one link,
and with `SamePrefixes` they have the same primary prefix, as has every other segment of
the link: the first merge makes them one.  An interface without a prefix, but with a
local segment's name, is in no remote segment, and two local segments that have it are
of one link and therefore, by `OnePortPerLink`, the same.  `PortsInv` carries this through the
merges: segments without prefixes pass the first one unchanged, and the second one only
joins segments with the same hosts.

**Export.**  The properties are about the state in which the call returns, and follow
from `IInv` and `LinkInv` by what an exporter looks at.  An interface from `EdgeInfo` is the
end of an edge that joins two members (`MembersHaveEdges`); so no member but the local
host, which has no entry there, comes to the fallback of dot.go:415.  One found by a
prefix has a prefix of a link that all members are on (`Spread`), so with
`PrefixesOnOneLink` it is on that link.  An edge of the store whose local interface is
marked has, by `NamesOnOneLink`, that link too.  A line ends at an interface of a host
of the store because edges only join listed interfaces (`WellFormed`); that a segment's
interface is one some edge uses needs `OnePortPerLink`: the interface a prefix leads to
is the one the member's edge ends at.

`DrawnLinksArePeerNetworks` needs one more invariant, `DressedInv`: a segment has all
prefixes of its members' interfaces, and if it has any each of these interfaces has
one.  Whatever nwdiag takes for part of a segment, by `EdgeInfo` or by a prefix, then
is marked in the DOT file.  The invariant is delicate in the merge by hosts, which
keeps for each member the edge with the most prefixes (`Counted`): it must not leave a
member with an edge without prefixes in a segment that has some.

**Lifecycle.**  A configured process runs with `Effective(file, flags)`, and settings do
not change.  The rest is about this operator, whatever the intervals and switches:
`ParsedEndpoint`, `LoadStep` and `EffectiveSettings` follow a setting from the default
through the file and the command line to `main`.  `ErrorsInv` bounds what is in
`errChan` by the goroutines that have reported: the receiver and the server each put
one error there at most and are over then, so there is always room for it.

Model-checked only: liveness (`DownHostsForgotten`, `FlaggedChangesAreExported`,
`SignalEndsDaemon`, `FailureEndsDaemon`), which TLAPS does not prove from fairness.
Every other property of the passing runs is a theorem.

## What is not modelled, and the plan

Not modelled: group membership, JSON, the wording of the exports and the addresses
nwdiag lists (it lists every member of a segment with the address of the local
host, `nwdiag.go:110`), netlink and sysfs, what telemetry records, packaging.
Interfaces and links do not change while a daemon runs.

The plan, in order of importance:

1. done: `GraphOps`, `Graph`, `Membership`, `Network`, `Exporter`, `Segments`,
   `Export`, `Server`, `Config`, `Lifecycle`, `Timing`; the proofs above.
2. done: the properties of `Export` as theorems, under the conditions on the links
   they depend on.
3. done: `OneSegmentPerInterface` as a theorem, and the conditions it needs; `Membership`
   for the daemons of `Network` and for the store under the exporter; how a host is
   forgotten, step by step.
4. Interfaces and links that change while a daemon runs: what stays in its store of a
   cable that moved and of an interface that was renumbered.
