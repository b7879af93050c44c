----------------------------- MODULE Membership -----------------------------
(***************************************************************************)
(* What the topology store promises its users, without packets, interfaces *)
(* or clocks: a set of known hosts and the links between them.  A host is  *)
(* learned when it is heard of, forgotten only after it was silent, and    *)
(* takes its links with it; a link joins two known hosts; whoever watches  *)
(* "flagged" misses no change.  Graph is shown to implement this module.   *)
(***************************************************************************)
CONSTANTS
    Host,   \* machine ids
    NoHost, \* no host
    Link    \* values of links: records with the fields src and dst

VARIABLES
    own,       \* the local host, which is never learned, or NoHost
    known,     \* the discovered hosts
    silent,    \* those among them not heard of for longer than the timeout
    links,     \* the links between the known hosts and the local one
    flagged    \* there is a change nobody has exported

vars == <<own, known, silent, links, flagged>>

Init ==
    /\ own \in Host \cup {NoHost}
    /\ known = {}
    /\ silent = {}
    /\ links = {}
    /\ flagged \in BOOLEAN

(* Host h is heard of, by itself or through another host, and with it at   *)
(* most one link, to h from a host that is known already.                  *)
Hear(h) ==
    /\ h # own
    /\ known' = known \cup {h}
    /\ silent' = silent \ {h}
    /\ \/ links' = links
       \/ \E l \in Link :
              /\ l.dst = h
              /\ l.src \in (known \cup {own}) \ {h}
              /\ links' = links \cup {l}
    /\ flagged' \in BOOLEAN
    /\ flagged \/ known' # known \/ links' # links => flagged'
    /\ UNCHANGED own

FallSilent ==
    /\ silent' \in SUBSET known
    /\ silent \subseteq silent'
    /\ UNCHANGED <<own, known, links, flagged>>

(* All silent hosts are forgotten, and exactly the links that end at one.  *)
Forget ==
    /\ known' = known \ silent
    /\ silent' = {}
    /\ links' = {l \in links : l.src \notin silent /\ l.dst \notin silent}
    /\ flagged' = (flagged \/ silent # {})
    /\ UNCHANGED own

Exported ==
    /\ flagged' = FALSE
    /\ UNCHANGED <<own, known, silent, links>>

Next ==
    \/ \E h \in Host : Hear(h)
    \/ FallSilent
    \/ Forget
    \/ Exported

Spec == Init /\ [][Next]_vars
=============================================================================
