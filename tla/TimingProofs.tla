---------------------------- MODULE TimingProofs ----------------------------
(***************************************************************************)
(* That hosts which are up stay known and hosts which are silent go, for   *)
(* every interval, timeout, delay and outage that TimeoutAssumption        *)
(* admits.  The invariant adds up what may lie between two packets that    *)
(* are heard: the outage so far, and the time since the last one was sent. *)
(***************************************************************************)
EXTENDS Timing, TLAPS

(* A packet under way was sent at the last tick.                           *)
PacketInv == up /\ packet # NoPacket => packet = sinceSend

(* What was heard since it started is known, and its silence is the age of *)
(* the node.                                                               *)
SteadyInv == steady => up /\ known /\ age = silence

(* The silence of a host that was heard since it started,                  *)
SteadySilence ==
    steady =>
        /\ packet = NoPacket => silence <= outage + sinceSend
        /\ packet # NoPacket => silence <= outage + Interval + sinceSend

(* and of one that was not: its first packet was sent at once.             *)
FirstSilence ==
    up /\ ~steady =>
        /\ packet = NoPacket =>
               (silence = 0 /\ sinceSend = Interval) \/ silence + Interval <= outage + sinceSend
        /\ packet # NoPacket => silence <= outage + sinceSend

(* The last expiry that was due left no node older than the timeout.       *)
AgeInv == known => age <= Timeout + sinceExpire

IInv ==
    /\ TypeOK
    /\ PacketInv
    /\ SteadyInv
    /\ SteadySilence
    /\ FirstSilence
    /\ AgeInv

(* A host heard since it started is never old enough to be removed.        *)
LEMMA SteadyIsFresh ==
    ASSUME IInv, steady
    PROVE  ~Expired
<1>1. TypeOK /\ up /\ age = silence
  BY DEF IInv, SteadyInv
<1>2. CASE packet = NoPacket
  <2>1. silence <= outage + sinceSend
    BY <1>2 DEF IInv, SteadySilence
  <2> QED BY <1>1, <2>1, IntervalAssumption, DelayAssumption, TimeoutAssumption DEF TypeOK, Expired
<1>3. CASE packet # NoPacket
  <2>1. silence <= outage + Interval + sinceSend /\ packet = sinceSend
    BY <1>1, <1>3 DEF IInv, SteadySilence, PacketInv
  <2> QED BY <1>1, <2>1, IntervalAssumption, DelayAssumption, TimeoutAssumption DEF TypeOK, Expired, NoPacket
<1> QED BY <1>2, <1>3

(* The invariant holds initially.                                          *)
LEMMA InitIInv == Init => IInv
<1> SUFFICES ASSUME Init PROVE IInv
  OBVIOUS
<1>1. TypeOK
  <2>1. packet \in NoPacket .. MaxDelay /\ sinceSend \in 0 .. Interval
    BY IntervalAssumption, DelayAssumption DEF Init, NoPacket
  <2>2. sinceExpire \in 0 .. ExpireEvery + Busy
    BY IntervalAssumption, DelayAssumption DEF Init
  <2> QED BY <2>1, <2>2 DEF Init, TypeOK
<1> QED
  BY <1>1, IntervalAssumption, DelayAssumption
  DEF Init, IInv, PacketInv, SteadyInv, SteadySilence, FirstSilence, AgeInv, NoPacket

(* Every step keeps the invariant.                                         *)
LEMMA NextIInv == IInv /\ [Next]_vars => IInv'
<1> SUFFICES ASSUME IInv, [Next]_vars PROVE IInv'
  OBVIOUS
<1> USE IntervalAssumption, DelayAssumption, TimeoutAssumption
<1> USE DEF IInv, TypeOK, PacketInv, SteadyInv, SteadySilence, FirstSilence, AgeInv, NoPacket
<1>1. CASE Start
  <2>1. /\ up' /\ ~steady' /\ silence' = 0 /\ sinceSend' = Interval
        /\ packet' = NoPacket /\ outage' = outage
        /\ known' = known /\ age' = age /\ sinceExpire' = sinceExpire
    BY <1>1 DEF Start, observer
  <2>2. up' \in BOOLEAN /\ steady' \in BOOLEAN
    BY <1>1 DEF Start
  <2>3. sinceSend' \in 0 .. Interval
    BY <2>1
  <2> QED BY <2>1, <2>2, <2>3
<1>2. CASE Stop
  BY <1>2 DEF Stop, observer
<1>3. CASE Send
  BY <1>3 DEF Send, observer, history
<1>4. CASE Deliver
  BY <1>4 DEF Deliver, host
<1>5. CASE Lose
  BY <1>5 DEF Lose, host, observer, history
<1>6. CASE Expire
  <2>1. steady => ~Expired
    BY SteadyIsFresh
  <2>2. known' => known /\ age <= Timeout /\ age' = age
    BY <1>6 DEF Expire, Expired
  <2>3. TypeOK'
    BY <1>6 DEF Expire, Expired, host, history
  <2>4. SteadyInv'
    BY <1>6, <2>1 DEF Expire, host, history
  <2>5. AgeInv'
    <3>1. sinceExpire' \in Nat
      BY <2>3
    <3>2. known' => age' \in Nat /\ age' <= Timeout
      BY <2>2
    <3> QED BY <3>1, <3>2
  <2> QED BY <1>6, <2>3, <2>4, <2>5 DEF Expire, host, history
<1>7. CASE Tick
  BY <1>7 DEF Tick
<1>8. CASE UNCHANGED vars
  BY <1>8 DEF vars
<1> QED BY <1>1, <1>2, <1>3, <1>4, <1>5, <1>6, <1>7, <1>8 DEF Next

(* The invariant holds in every state.                                     *)
THEOREM TimingInvariant == Spec => []IInv
BY InitIInv, NextIInv, PTL DEF Spec

(* A host that is up and was heard is never removed (LiveHostsStay), when  *)
(* node_timeout leaves room for an interval, the delay and the outages.    *)
THEOREM LiveHostsAlwaysStay == Spec => LiveHostsStay
<1>1. IInv /\ [Next]_vars => [known /\ ~known' => ~steady]_vars
  <2> SUFFICES ASSUME IInv, [Next]_vars, known, ~known', steady PROVE FALSE
    OBVIOUS
  <2>1. ~Expired
    BY SteadyIsFresh
  <2>2. CASE Expire
    BY <2>1, <2>2 DEF Expire
  <2>3. CASE ~Expire
    BY <2>3 DEF Next, Start, Stop, Send, Deliver, Lose, Tick, vars, host, observer
  <2> QED BY <2>2, <2>3
<1> QED BY <1>1, TimingInvariant, PTL DEF Spec, LiveHostsStay

(* A host that is not heard any more is removed (SilentHostsGo).           *)
THEOREM SilentHostsAlwaysGo == Spec => []SilentHostsGo
<1>1. IInv => SilentHostsGo
  BY DelayAssumption, IntervalAssumption, TimeoutAssumption DEF IInv, TypeOK, AgeInv, SilentHostsGo
<1> QED BY <1>1, TimingInvariant, PTL

(* A host that starts is heard in time (HeardInTime).                      *)
THEOREM StartedHostsAreHeard == Spec => []HeardInTime
<1>1. IInv => HeardInTime
  BY DelayAssumption, IntervalAssumption, TimeoutAssumption
  DEF IInv, TypeOK, PacketInv, FirstSilence, HeardInTime, NoPacket
<1> QED BY <1>1, TimingInvariant, PTL
=============================================================================
