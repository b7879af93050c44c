----------------------------- MODULE MCExporter -----------------------------
(* Small instances of Exporter for TLC: a daemon "a" and a peer that is    *)
(* heard on two interfaces, so that the edges to it get a new address one  *)
(* after the other.                                                        *)
EXTENDS Exporter

CONSTANTS a, b, eth, ib, one, two

MCNoHost == "no host"

OnePeer == {a, b}

OwnIfaces == [i \in {eth, ib} |-> [ident |-> one, pfx |-> one]]

(* The behaviours of a daemon that found its local node.  The exporter of  *)
(* one that did not makes the same steps on a store without direct edges.  *)
LocalInit == ExporterInit /\ g.local = Self

LocalSpec == LocalInit /\ [][ExporterNext]_exporterVars /\ ExporterFairness
=============================================================================
