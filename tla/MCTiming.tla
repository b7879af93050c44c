------------------------------ MODULE MCTiming ------------------------------
(* Timing for TLC, in units of ten seconds: an interval of 30 s, an expiry *)
(* every 30 s and two packets in a row that may be lost.                   *)
EXTENDS Timing
=============================================================================
