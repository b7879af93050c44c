------------------------------- MODULE Timing -------------------------------
(***************************************************************************)
(* When one host stays known to another: the sender's ticker               *)
(* (internal/discovery/sender.go), a network that delays and loses         *)
(* packets, LastSeen (graph.go) and the expiry ticker of the observer,     *)
(* which shares its loop with the exports (main.go).  Nobody reports the   *)
(* host: include_neighbors is off.                                         *)
(*                                                                         *)
(* The code compares node_timeout with nothing.  TimeoutAssumption says    *)
(* what it must be for the hosts that are up to stay known.                *)
(***************************************************************************)
EXTENDS Integers

CONSTANTS
    Interval,     \* send_interval of the host
    Timeout,      \* node_timeout of the observer
    ExpireEvery,  \* the period of its expiry ticker
    Busy,         \* how long an export may keep the ticker waiting
    MaxDelay,     \* how long a packet is under way
    Tolerated     \* how long the network may lose every packet

ASSUME IntervalAssumption == Interval \in Nat \ {0} /\ ExpireEvery \in Nat \ {0}
ASSUME DelayAssumption == MaxDelay \in Nat /\ MaxDelay < Interval /\ Busy \in Nat /\ Busy < ExpireEvery
ASSUME TimeoutAssumption ==
    /\ Timeout \in Nat /\ Tolerated \in Nat
    /\ Timeout >= Tolerated + Interval + MaxDelay

VARIABLES
    up,           \* the host runs
    sinceSend,    \* the time since its sender's last tick
    packet,       \* how long its packet is under way, or NoPacket
    outage,       \* the time for which all its packets were lost
    known,        \* the observer has a node for it
    age,          \* the time since LastSeen
    sinceExpire,  \* the time since the last expiry tick that was due
    silence,      \* history: how long the host is up without being heard
    steady        \* history: it was heard since it started

host == <<up, sinceSend>>
observer == <<known, age>>
history == <<silence, steady>>
vars == <<up, sinceSend, packet, outage, known, age, sinceExpire, silence, steady>>

NoPacket == -1

TypeOK ==
    /\ up \in BOOLEAN /\ known \in BOOLEAN /\ steady \in BOOLEAN
    /\ sinceSend \in 0 .. Interval
    /\ packet \in NoPacket .. MaxDelay
    /\ outage \in 0 .. Tolerated
    /\ age \in Nat /\ silence \in Nat
    /\ sinceExpire \in 0 .. ExpireEvery + Busy

Init ==
    /\ up = FALSE
    /\ sinceSend = Interval
    /\ packet = NoPacket
    /\ outage \in 0 .. Tolerated
    /\ known = FALSE
    /\ age = 0
    /\ sinceExpire \in 0 .. ExpireEvery
    /\ silence = 0
    /\ steady = FALSE

-----------------------------------------------------------------------------
StartLater ==
    /\ ~up /\ up' = TRUE
    /\ packet = NoPacket
    /\ sinceSend' = 0
    /\ silence' = 0
    /\ steady' = FALSE
    /\ UNCHANGED <<packet, outage, observer, sinceExpire>>

(* The sender sends at once when it starts.  A restart takes longer than a *)
(* packet.                                                                 *)
Start ==
    /\ ~up /\ up' = TRUE
    /\ packet = NoPacket
    /\ sinceSend' = Interval
    /\ silence' = 0
    /\ steady' = FALSE
    /\ UNCHANGED <<packet, outage, observer, sinceExpire>>

Stop ==
    /\ up /\ up' = FALSE
    /\ silence' = 0
    /\ steady' = FALSE
    /\ UNCHANGED <<sinceSend, packet, outage, observer, sinceExpire>>

Send ==
    /\ up
    /\ sinceSend = Interval /\ sinceSend' = 0
    /\ packet = NoPacket /\ packet' = 0
    /\ UNCHANGED <<up, outage, observer, sinceExpire, history>>

Deliver ==
    /\ packet # NoPacket /\ packet' = NoPacket
    /\ outage' = 0
    /\ known' = TRUE /\ age' = 0
    /\ silence' = 0
    /\ steady' = up
    /\ UNCHANGED <<host, sinceExpire>>

Lose ==
    /\ packet # NoPacket /\ packet' = NoPacket
    /\ outage + Interval <= Tolerated
    /\ outage' = outage + Interval
    /\ UNCHANGED <<host, observer, sinceExpire, history>>

ExpiredAtTimeout == known /\ age >= Timeout

ExpiredUnlessLate == known /\ age > Timeout /\ sinceExpire = ExpireEvery

(* RemoveExpired.                                                          *)
Expired == known /\ age > Timeout

(* The ticker keeps its schedule when an export delays the loop.           *)
Expire ==
    /\ sinceExpire >= ExpireEvery
    /\ sinceExpire' = sinceExpire - ExpireEvery
    /\ known' = (known /\ ~Expired)
    /\ age' = IF Expired THEN 0 ELSE age
    /\ UNCHANGED <<host, packet, outage, history>>

(* Time passes, but no further than the next thing that is due.            *)
Tick ==
    /\ up => sinceSend < Interval
    /\ packet < MaxDelay
    /\ sinceExpire < ExpireEvery + Busy
    /\ sinceSend' = IF up THEN sinceSend + 1 ELSE sinceSend
    /\ packet' = IF packet = NoPacket THEN NoPacket ELSE packet + 1
    /\ age' = IF known THEN age + 1 ELSE age
    /\ sinceExpire' = sinceExpire + 1
    /\ silence' = IF up THEN silence + 1 ELSE silence
    /\ UNCHANGED <<up, outage, known, steady>>

Next ==
    \/ Start
    \/ Stop
    \/ Send
    \/ Deliver
    \/ Lose
    \/ Expire
    \/ Tick

Spec == Init /\ [][Next]_vars

-----------------------------------------------------------------------------
(* Safety.                                                                 *)

(* A host that was heard since it started is not removed while it is up,   *)
(* although packets are late and lost.                                     *)
LiveHostsStay == [][known /\ ~known' => ~steady]_vars

(* A host that falls silent is removed a timeout, a period of the expiry   *)
(* ticker and an export after it was last heard, at the latest.            *)
SilentHostsGo == known => age <= Timeout + ExpireEvery + Busy

(* A host that starts is heard as soon as the network lets a packet        *)
(* through: it does not wait for the first tick of its ticker.             *)
HeardInTime == up /\ ~steady => silence <= Tolerated + MaxDelay
=============================================================================
