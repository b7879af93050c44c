---------------------------- MODULE ServerProofs ----------------------------
(***************************************************************************)
(* What an HTTP answer shows, for every set of hosts, links and values,    *)
(* however the receiver and the expiry interleave with the calls of the    *)
(* handler.                                                                *)
(***************************************************************************)
EXTENDS Server, TLAPS

(* The links of the store are between hosts it knows.                      *)
StoreInv ==
    /\ own \in Host \cup {NoHost}
    /\ known \subseteq Host
    /\ links \subseteq Link
    /\ Ends(links) \subseteq GetNodes

(* Between two requests the handler holds nothing; during one it has       *)
(* listed every known host, but for those learned since.                   *)
ListedInv ==
    /\ request \in {"nodes", "edges"} => copied = {} /\ DOMAIN pointed = {}
    /\ request \notin {"prefixes", "respond"} => DOMAIN sent = {}
    /\ request # "nodes" => GetNodes \subseteq shown \cup learned

(* Only what is overwritten in place changes behind a pointer,             *)
PointersInv == \A k \in inStore : k.src = own

(* and the fields of all other links are still as they were read.          *)
ReadInv ==
    \A k \in DOMAIN pointed : k.src # own =>
        /\ request \in {"prefixes", "respond"} => "address" \in DOMAIN sent /\ sent["address"][k] = pointed[k]
        /\ request = "respond" => "prefixes" \in DOMAIN sent /\ sent["prefixes"][k] = pointed[k]

ServerInv ==
    /\ ServerTypeOK
    /\ StoreInv
    /\ ListedInv
    /\ MissingEndsAreNewcomers
    /\ PointersInv
    /\ ReadInv

-----------------------------------------------------------------------------
(* A step of the store keeps its links between known hosts, and what an    *)
(* edge holds a value; hosts that were not known are the ones learned.     *)
LEMMA HearEffect ==
    ASSUME StoreInv, content \in [links -> Value], Receive
    PROVE  /\ StoreInv' /\ own' = own
           /\ content' \in [links' -> Value]
<1>1. PICK h \in Host : Hear(h) /\ (WriteEdge(h) \/ (links' = links /\ WriteNothing))
  BY DEF Receive
<1>2. own' = own /\ known' = known \cup {h}
  BY <1>1 DEF Hear
<1>3. links' = links \/ \E l \in Link :
          l.dst = h /\ l.src \in (known \cup {own}) \ {h} /\ links' = links \cup {l}
  BY <1>1 DEF Hear
<1>4. links' \subseteq Link
  BY <1>3 DEF StoreInv
<1>5. Ends(links') \subseteq GetNodes'
  <2>1. GetNodes' = GetNodes \cup {h}
    BY <1>2, NoHostAssumption DEF GetNodes
  <2>2. CASE links' = links
    BY <2>1, <2>2 DEF StoreInv
  <2>3. ASSUME NEW l \in Link, l.dst = h, l.src \in (known \cup {own}) \ {h}, links' = links \cup {l}
        PROVE  Ends(links') \subseteq GetNodes'
    <3>1. l.src \in Host
      BY LinkAssumption
    <3>2. l.src \in GetNodes
      BY <2>3, <3>1, NoHostAssumption DEF GetNodes
    <3>3. Ends(links') = Ends(links) \cup {l.src, l.dst}
      BY <2>3 DEF Ends
    <3> QED BY <2>1, <2>3, <3>2, <3>3 DEF StoreInv
  <2> QED BY <1>3, <2>2, <2>3
<1>6. content' \in [links' -> Value]
  <2>1. CASE WriteEdge(h)
    BY <2>1 DEF WriteEdge
  <2>2. CASE links' = links /\ WriteNothing
    BY <2>2 DEF WriteNothing
  <2> QED BY <1>1, <2>1, <2>2
<1> QED BY <1>2, <1>4, <1>5, <1>6 DEF StoreInv, Ends

(* So do the expiry, the clock and the end of an export.                   *)
LEMMA ForgetEffect ==
    ASSUME StoreInv, content \in [links -> Value], FallSilent \/ Forget \/ Exported, WriteNothing
    PROVE  /\ StoreInv' /\ own' = own
           /\ content' \in [links' -> Value]
<1>1. own' = own
  BY DEF FallSilent, Forget, Exported
<1>2. CASE FallSilent \/ Exported
  BY <1>2 DEF FallSilent, Exported, WriteNothing, StoreInv, GetNodes, Ends
<1>3. CASE Forget
  <2>1. known' = known \ silent /\ links' = {l \in links : l.src \notin silent /\ l.dst \notin silent}
    BY <1>3 DEF Forget
  <2>2. Ends(links') \subseteq GetNodes'
    BY <1>1, <2>1 DEF Ends, GetNodes, StoreInv
  <2>3. content' \in [links' -> Value]
    BY <2>1 DEF WriteNothing
  <2> QED BY <1>1, <2>1, <2>2, <2>3 DEF StoreInv
<1> QED BY <1>1, <1>2, <1>3

(* What the handler has in its hands after a step of the store: the same   *)
(* links, with other content only where they are overwritten in place.     *)
LEMMA PointersFollow ==
    ASSUME ServerTypeOK, PointersInv, content' \in [links' -> Value], own' = own, FollowPointers
    PROVE  /\ DOMAIN pointed' = DOMAIN pointed
           /\ pointed' \in [DOMAIN pointed' -> Value]
           /\ inStore' \subseteq DOMAIN pointed'
           /\ PointersInv'
           /\ \A k \in DOMAIN pointed : k.src # own => pointed'[k] = pointed[k]
<1>1. inStore' \subseteq inStore /\ inStore' \subseteq links' /\ inStore' \subseteq DOMAIN pointed
  BY DEF FollowPointers, ServerTypeOK
<1>2. pointed' = [k \in DOMAIN pointed |-> IF k \in inStore' THEN content'[k] ELSE pointed[k]]
  BY DEF FollowPointers
<1>3. pointed' \in [DOMAIN pointed -> Value]
  BY <1>1, <1>2 DEF ServerTypeOK
<1> QED BY <1>1, <1>2, <1>3 DEF PointersInv

(* What was listed and learned covers the hosts known after the step.      *)
LEMMA ListedFollows ==
    ASSUME ListedInv, MissingEndsAreNewcomers, StoreInv', own' = own, Remember,
           DOMAIN pointed' = DOMAIN pointed, shown' = shown, copied' = copied,
           request # "nodes" /\ request' = "nodes" => FALSE,
           request' \in {"nodes", "edges"} => request \in {"nodes", "edges"},
           request' # "nodes" => request # "nodes",
           request' \notin {"prefixes", "respond"} => request' = request /\ sent' = sent,
           shown \subseteq Host, learned \subseteq Host
    PROVE  ListedInv' /\ MissingEndsAreNewcomers' /\ learned' \subseteq Host
<1>1. CASE request = "nodes"
  <2>1. learned' = {}
    BY <1>1 DEF Remember
  <2>2. copied' = {} /\ DOMAIN pointed' = {} /\ request' = "nodes"
    BY <1>1 DEF ListedInv
  <2>3. Ends(copied' \cup DOMAIN pointed') = {}
    BY <2>2 DEF Ends
  <2> QED BY <2>1, <2>2, <2>3 DEF ListedInv, MissingEndsAreNewcomers
<1>2. CASE request # "nodes"
  <2>1. learned' = learned \cup (known' \ known)
    BY <1>2 DEF Remember
  <2>2. GetNodes' \subseteq GetNodes \cup (known' \ known)
    BY DEF GetNodes
  <2>3. ListedInv'
    BY <1>2, <2>1, <2>2 DEF ListedInv
  <2>4. MissingEndsAreNewcomers'
    BY <2>1 DEF MissingEndsAreNewcomers, Ends
  <2> QED BY <2>1, <2>3, <2>4 DEF StoreInv
<1> QED BY <1>1, <1>2

-----------------------------------------------------------------------------
(* The invariant holds initially.                                          *)
LEMMA ServerInitInv == ServerInit => ServerInv
<1> SUFFICES ASSUME ServerInit PROVE ServerInv
  OBVIOUS
<1>1. /\ known = {} /\ links = {} /\ copied = {} /\ shown = {} /\ learned = {} /\ inStore = {}
      /\ own \in Host \cup {NoHost} /\ request = "nodes"
      /\ content = Nothing /\ pointed = Nothing /\ sent = Nothing
  BY DEF ServerInit, Init
<1>2. DOMAIN Nothing = {} /\ Nothing \in [{} -> Value]
  BY DEF Nothing
<1> QED
  BY <1>1, <1>2
  DEF ServerInv, ServerTypeOK, StoreInv, ListedInv, MissingEndsAreNewcomers, PointersInv, ReadInv, Ends

(* The four calls of the handler, and every step of the others, keep the   *)
(* invariant.                                                              *)
LEMMA ServerNextInv == ServerInv /\ [ServerNext]_serverVars => ServerInv'
<1> SUFFICES ASSUME ServerInv, [ServerNext]_serverVars PROVE ServerInv'
  OBVIOUS
<1> USE DEF ServerInv
<1>1. CASE ReadNodes
  <2>1. /\ UNCHANGED <<own, known, links, content, copied, pointed, inStore, sent, learned>>
        /\ request = "nodes" /\ request' = "edges" /\ shown' = GetNodes
    BY <1>1 DEF ReadNodes, store, pointers
  <2>2. ServerTypeOK'
    BY <2>1, SelfAssumption DEF ServerTypeOK, StoreInv, GetNodes
  <2>3. StoreInv' /\ PointersInv'
    BY <2>1 DEF StoreInv, PointersInv, Ends, GetNodes
  <2>4. ListedInv' /\ MissingEndsAreNewcomers' /\ ReadInv'
    BY <2>1 DEF ListedInv, MissingEndsAreNewcomers, ReadInv, Ends, GetNodes
  <2> QED BY <2>2, <2>3, <2>4
<1>2. CASE ReadEdges
  <2>1. /\ UNCHANGED <<own, known, links, content, shown, pointed, inStore, sent, learned>>
        /\ request = "edges" /\ request' = "segments" /\ copied' = links
    BY <1>2 DEF ReadEdges, store, pointers
  <2>2. ServerTypeOK'
    BY <2>1 DEF ServerTypeOK, StoreInv
  <2>3. StoreInv' /\ PointersInv' /\ ReadInv'
    BY <2>1 DEF StoreInv, PointersInv, Ends, GetNodes, ReadInv
  <2>4. ListedInv' /\ MissingEndsAreNewcomers'
    BY <2>1 DEF ListedInv, MissingEndsAreNewcomers, Ends, GetNodes, StoreInv
  <2> QED BY <2>2, <2>3, <2>4
<1>3. CASE ReadSegments
  <2>1. /\ UNCHANGED <<own, known, links, content, shown, copied, sent, learned>>
        /\ request = "segments" /\ request' = "address"
        /\ pointed' = Restrict(content, Grouped) /\ inStore' = {k \in Grouped : k.src = own}
    BY <1>3 DEF ReadSegments, store, views, OverwrittenInPlace
  <2> DEFINE S == Grouped
  <2>5. S \subseteq links
    BY DEF Grouped
  <2> HIDE DEF S
  <2>6. DOMAIN pointed' = S /\ pointed' \in [S -> Value]
    <3>1. pointed' = [k \in S |-> content[k]]
      BY <2>1 DEF Restrict, S
    <3> QED BY <2>5, <3>1 DEF ServerTypeOK
  <2>7. inStore' \subseteq S /\ \A k \in inStore' : k.src = own
    BY <2>1 DEF S
  <2>2. ServerTypeOK'
    BY <2>1, <2>6, <2>7 DEF ServerTypeOK, StoreInv, ListedInv, Fields
  <2>3. StoreInv' /\ PointersInv' /\ ReadInv'
    BY <2>1, <2>7 DEF StoreInv, PointersInv, Ends, GetNodes, ReadInv
  <2>8. ListedInv'
    BY <2>1, <2>6 DEF ListedInv, GetNodes
  <2>9. Ends(copied' \cup DOMAIN pointed') \subseteq Ends(copied) \cup Ends(links)
    BY <2>1, <2>5, <2>6 DEF Ends
  <2>10. Ends(copied) \subseteq shown \cup learned
    BY DEF MissingEndsAreNewcomers, Ends
  <2>4. ListedInv' /\ MissingEndsAreNewcomers'
    BY <2>1, <2>8, <2>9, <2>10 DEF ListedInv, MissingEndsAreNewcomers, StoreInv
  <2> QED BY <2>2, <2>3, <2>4
<1>4. CASE ReadField
  <2>1. /\ UNCHANGED <<own, known, links, content, shown, copied, pointed, inStore, learned>>
        /\ request \in Fields /\ request' = After[request]
        /\ sent' = [f \in DOMAIN sent \cup {request} |-> IF f = request THEN pointed ELSE sent[f]]
    BY <1>4 DEF ReadField, store, views, pointers
  <2>2. request \in {"address", "prefixes"} /\ request' \in {"prefixes", "respond"}
    BY <2>1 DEF Fields, After
  <2>3. sent'[request] \in [DOMAIN pointed -> Value \cup {Garbled}]
    BY <2>1 DEF ServerTypeOK
  <2>4. ServerTypeOK'
    <3>1. \A f \in DOMAIN sent' : f \in Fields /\ sent'[f] \in [DOMAIN pointed' -> Value \cup {Garbled}]
      BY <2>1, <2>3 DEF ServerTypeOK
    <3> QED BY <2>1, <2>2, <3>1 DEF ServerTypeOK, Fields
  <2>5. StoreInv' /\ PointersInv'
    BY <2>1 DEF StoreInv, PointersInv, Ends, GetNodes
  <2>6. ListedInv' /\ MissingEndsAreNewcomers'
    BY <2>1, <2>2 DEF ListedInv, MissingEndsAreNewcomers, Ends, GetNodes
  <2>7. ReadInv'
    <3>1. request = "address" => request' = "prefixes"
      BY <2>1 DEF After
    <3>2. request = "prefixes" => request' = "respond"
      BY <2>1 DEF After
    <3> QED BY <2>1, <2>2, <3>1, <3>2 DEF ReadInv
  <2> QED BY <2>4, <2>5, <2>6, <2>7
<1>5. CASE ReadFieldWhileWritten
  <2>1. /\ request \in Fields /\ request' = After[request]
        /\ Receive /\ FollowPointers /\ Remember
        /\ shown' = shown /\ copied' = copied
    BY <1>5 DEF ReadFieldWhileWritten, views
  <2>2. PICK w \in DOMAIN pointed :
          /\ pointed'[w] # pointed[w]
          /\ sent' = [f \in DOMAIN sent \cup {request} |->
                        IF f = request THEN [pointed EXCEPT ![w] = Garbled] ELSE sent[f]]
    BY <1>5 DEF ReadFieldWhileWritten
  <2>3. request \in {"address", "prefixes"} /\ request' \in {"prefixes", "respond"}
    BY <2>1 DEF Fields, After
  <2>4. StoreInv' /\ own' = own /\ content' \in [links' -> Value]
    BY <2>1, HearEffect DEF ServerTypeOK
  <2>5. /\ DOMAIN pointed' = DOMAIN pointed
        /\ pointed' \in [DOMAIN pointed' -> Value]
        /\ inStore' \subseteq DOMAIN pointed'
        /\ PointersInv'
        /\ \A k \in DOMAIN pointed : k.src # own => pointed'[k] = pointed[k]
    BY <2>1, <2>4, PointersFollow
  <2>6. ListedInv' /\ MissingEndsAreNewcomers' /\ learned' \subseteq Host
    BY <2>1, <2>3, <2>4, <2>5, ListedFollows DEF ServerTypeOK
  <2>7. sent'[request] \in [DOMAIN pointed -> Value \cup {Garbled}]
    BY <2>2 DEF ServerTypeOK
  <2>8. ServerTypeOK'
    <3>1. \A f \in DOMAIN sent' : f \in Fields /\ sent'[f] \in [DOMAIN pointed' -> Value \cup {Garbled}]
      BY <2>1, <2>2, <2>5, <2>7 DEF ServerTypeOK
    <3> QED BY <2>1, <2>3, <2>4, <2>5, <2>6, <3>1 DEF ServerTypeOK, Fields
  <2>9. ReadInv'
    <3>1. request = "address" => request' = "prefixes"
      BY <2>1 DEF After
    <3>2. request = "prefixes" => request' = "respond"
      BY <2>1 DEF After
    <3>3. w.src = own
      BY <2>2, <2>5
    <3>4. \A k \in DOMAIN pointed : k.src # own => sent'[request][k] = pointed'[k]
      BY <2>2, <2>5, <3>3
    <3> QED BY <2>2, <2>3, <2>4, <2>5, <3>1, <3>2, <3>4 DEF ReadInv
  <2> QED BY <2>4, <2>5, <2>6, <2>8, <2>9
<1>6. CASE Respond
  <2>1. /\ UNCHANGED <<own, known, links, content>>
        /\ request' = "nodes" /\ shown' = {} /\ copied' = {} /\ learned' = {} /\ inStore' = {}
        /\ sent' = Nothing /\ pointed' = Nothing
    BY <1>6 DEF Respond, store
  <2>2. DOMAIN Nothing = {} /\ Nothing \in [{} -> Value]
    BY DEF Nothing
  <2>3. Ends(copied' \cup DOMAIN pointed') = {}
    BY <2>1, <2>2 DEF Ends
  <2>4. StoreInv'
    BY <2>1 DEF StoreInv, Ends, GetNodes
  <2> QED
    BY <2>1, <2>2, <2>3, <2>4
    DEF ServerTypeOK, ListedInv, MissingEndsAreNewcomers, PointersInv, ReadInv
<1>7. CASE OthersStep
  <2>1. /\ Receive \/ ((FallSilent \/ Forget \/ Exported) /\ WriteNothing)
        /\ FollowPointers /\ Remember
        /\ request' = request /\ shown' = shown /\ copied' = copied /\ sent' = sent
    BY <1>7 DEF OthersStep, views
  <2>2. StoreInv' /\ own' = own /\ content' \in [links' -> Value]
    BY <2>1, HearEffect, ForgetEffect DEF ServerTypeOK
  <2>3. /\ DOMAIN pointed' = DOMAIN pointed
        /\ pointed' \in [DOMAIN pointed' -> Value]
        /\ inStore' \subseteq DOMAIN pointed'
        /\ PointersInv'
        /\ \A k \in DOMAIN pointed : k.src # own => pointed'[k] = pointed[k]
    BY <2>1, <2>2, PointersFollow
  <2>4. ListedInv' /\ MissingEndsAreNewcomers' /\ learned' \subseteq Host
    BY <2>1, <2>2, <2>3, ListedFollows DEF ServerTypeOK
  <2>5. ServerTypeOK'
    BY <2>1, <2>2, <2>3, <2>4 DEF ServerTypeOK
  <2>6. ReadInv'
    BY <2>1, <2>2, <2>3 DEF ReadInv
  <2> QED BY <2>2, <2>3, <2>4, <2>5, <2>6
<1>8. CASE UNCHANGED serverVars
  BY <1>8 DEF serverVars, ServerTypeOK, StoreInv, ListedInv, MissingEndsAreNewcomers, PointersInv, ReadInv,
              Ends, GetNodes
<1> QED
  BY <1>1, <1>2, <1>3, <1>4, <1>5, <1>6, <1>7, <1>8 DEF ServerNext

(* The inductive invariant holds in every reachable state.                 *)
THEOREM ServerInvariance == ServerSpec => []ServerInv
<1> QED BY ServerInitInv, ServerNextInv, PTL DEF ServerSpec

(* Snapshots, pointers and answers keep their types: the local host is in  *)
(* every answer, and what the handler reads through a pointer is a value   *)
(* or the outcome of the race.                                             *)
THEOREM ServerTypeCorrect == ServerSpec => []ServerTypeOK
<1> QED BY ServerInvariance, PTL DEF ServerInv

(* Whatever happens between the calls of a request, a host that a link of  *)
(* the answer ends at is listed in the answer, or was learned in between.  *)
THEOREM MissingEndsAlwaysNewcomers == ServerSpec => []MissingEndsAreNewcomers
<1> QED BY ServerInvariance, PTL DEF ServerInv

(* The fields of a link the daemon was told of are those of one moment.    *)
THEOREM ReportedLinksNeverTorn == ServerSpec => []ReportedLinksUntorn
<1>1. ServerInv => ReportedLinksUntorn
  <2> SUFFICES ASSUME ServerInv, request = "respond", NEW k \in DOMAIN pointed, k.src # own
               PROVE  ~Torn(k)
    BY DEF ReportedLinksUntorn
  <2>1. sent["address"][k] = pointed[k] /\ sent["prefixes"][k] = pointed[k]
    BY DEF ServerInv, ReadInv
  <2>2. pointed[k] \in Value
    BY DEF ServerInv, ServerTypeOK
  <2> QED BY <2>1, <2>2, GarbledAssumption DEF Torn
<1> QED BY <1>1, ServerInvariance, PTL
=============================================================================
