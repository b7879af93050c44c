------------------------------- MODULE Config -------------------------------
(***************************************************************************)
(* How the settings of a daemon come about: the defaults, the              *)
(* configuration file (internal/config/config.go) and the command line     *)
(* (main.go), in this order, and the telemetry endpoint, which is parsed   *)
(* by Load and again by main.                                              *)
(*                                                                         *)
(* A configuration is a record                                             *)
(*   ok        the settings could be read                                  *)
(*   value     Setting -> number: the intervals, in seconds                *)
(*   on        the switches that are true                                  *)
(*   endpoint  Telemetry.Endpoint                                          *)
(*   protocol  Telemetry.Protocol                                          *)
(*                                                                         *)
(* The settings that are texts (addresses, output file, log level) and the *)
(* port follow the pattern of the intervals, with the empty text or zero   *)
(* for "not given".                                                        *)
(***************************************************************************)
EXTENDS Integers

CONSTANTS
    Setting,   \* the intervals: send_interval, export_interval, ...
    Default,   \* Setting -> its default
    Switch,    \* the settings that are true or false
    Missing,   \* what the file says of an interval it does not name
    NoDuration \* what it says of one it gives a text that is no duration

ASSUME DefaultAssumption == Default \in [Setting -> Nat \ {0}]
ASSUME SwitchAssumption == {"include_neighbors", "show_segments", "enabled"} \subseteq Switch

-----------------------------------------------------------------------------
(* What the user writes.  The file is a record                             *)
(*   state     "absent", "broken" (no permission, no JSON) or "read"       *)
(*   value     Setting -> Missing, NoDuration or any number                *)
(*   on        the switches it sets to true                                *)
(*   endpoint  the endpoint, or NoEndpoint                                 *)
(*   protocol  the protocol, or the empty text                             *)
(* and the command line is a record                                        *)
(*   value     Setting -> number, zero when the flag is not given          *)
(*   given     the switches it names                                       *)
(*   on        those of them it sets to true                               *)
(*   endpoint  the endpoint, or NoEndpoint                                 *)

(* An endpoint is a scheme and a port, both possibly empty.                *)
NoEndpoint == [scheme |-> "", port |-> "none"]

IsEndpoint(e) ==
    /\ e = [scheme |-> e.scheme, port |-> e.port]
    /\ e.port = "none" => e = NoEndpoint

IsFile(f) ==
    /\ f.state \in {"absent", "broken", "read"}
    /\ f.value \in [Setting -> Int \cup {Missing, NoDuration}]
    /\ f.on \subseteq Switch
    /\ IsEndpoint(f.endpoint)
    /\ f.protocol \in {"", "grpc", "http"}

IsCommandLine(l) ==
    /\ l.value \in [Setting -> Int]
    /\ l.on \subseteq l.given /\ l.given \subseteq Switch
    /\ IsEndpoint(l.endpoint)

TelemetrySwitches == Switch \ {"include_neighbors", "show_segments"}

-----------------------------------------------------------------------------
(* Default().  The endpoint is grpc://localhost:4317.                      *)
DefaultConfig ==
    [ok |-> TRUE,
     value |-> Default,
     on |-> {"insecure", "traces", "metrics"} \cap Switch,
     endpoint |-> [scheme |-> "grpc", port |-> "4317"],
     protocol |-> "grpc"]

Failed == [DefaultConfig EXCEPT !.ok = FALSE]

ProtocolOf(e) == IF e.scheme \in {"", "grpc"} THEN "grpc" ELSE "http"

DefaultPort == [grpc |-> "4317", http |-> "4318"]

ParseEndpointWithoutPort(cfg) ==
    CASE cfg.endpoint = NoEndpoint -> cfg
      [] cfg.endpoint # NoEndpoint /\ cfg.endpoint.scheme = "ftp" -> Failed
      [] OTHER -> [cfg EXCEPT
                      !.protocol = ProtocolOf(cfg.endpoint),
                      !.endpoint.scheme = ""]

(* ParseEndpoint: the scheme becomes the protocol and leaves the endpoint, *)
(* and an endpoint without a scheme is taken for one of gRPC.              *)
ParseEndpoint(cfg) ==
    LET e == cfg.endpoint
        protocol == ProtocolOf(e)
        port == IF e.port = "" THEN DefaultPort[protocol] ELSE e.port
    IN  CASE e = NoEndpoint -> cfg
          [] e # NoEndpoint /\ e.scheme = "ftp" -> Failed
          [] OTHER -> [cfg EXCEPT !.protocol = protocol, !.endpoint = [scheme |-> "", port |-> port]]

(* An interval that is no duration is passed over.                         *)
MergeValue(value, given) ==
    [s \in Setting |-> IF given[s] \in {Missing, NoDuration} THEN value[s] ELSE given[s]]

(* The telemetry settings of a file that gives an endpoint or enables      *)
(* telemetry replace the defaults altogether, the ones it does not name    *)
(* too.  show_segments is not read.                                        *)
MergeFile(cfg, file) ==
    LET replaced == file.endpoint # NoEndpoint \/ "enabled" \in file.on
        telemetry == IF replaced THEN file.on ELSE cfg.on
    IN  [ok |-> TRUE,
         value |-> MergeValue(cfg.value, file.value),
         on |-> (telemetry \cap TelemetrySwitches) \cup (file.on \cap {"include_neighbors"}),
         endpoint |-> IF replaced THEN file.endpoint ELSE cfg.endpoint,
         protocol |-> IF replaced THEN file.protocol ELSE cfg.protocol]

(* Load.  Without a file the endpoint is not parsed.                       *)
Load(file) ==
    CASE file.state = "absent" -> DefaultConfig
      [] file.state = "broken" -> Failed
      [] OTHER -> ParseEndpoint(MergeFile(DefaultConfig, file))

OverrideNonZero(cfg, flags) ==
    [ok |-> TRUE,
     value |-> [s \in Setting |-> IF flags.value[s] # 0 THEN flags.value[s] ELSE cfg.value[s]],
     on |-> (cfg.on \ flags.given) \cup (flags.on \cap flags.given),
     endpoint |-> IF flags.endpoint # NoEndpoint THEN flags.endpoint ELSE cfg.endpoint,
     protocol |-> cfg.protocol]

OverrideWhenTrue(cfg, flags) ==
    [ok |-> TRUE,
     value |-> [s \in Setting |-> IF flags.value[s] > 0 THEN flags.value[s] ELSE cfg.value[s]],
     on |-> cfg.on \cup (flags.on \cap flags.given),
     endpoint |-> IF flags.endpoint # NoEndpoint THEN flags.endpoint ELSE cfg.endpoint,
     protocol |-> cfg.protocol]

(* The command line.  A switch counts when it is given, also with the      *)
(* value false; an interval counts when it is above zero.                  *)
Override(cfg, flags) ==
    [ok |-> TRUE,
     value |-> [s \in Setting |-> IF flags.value[s] > 0 THEN flags.value[s] ELSE cfg.value[s]],
     on |-> (cfg.on \ flags.given) \cup (flags.on \cap flags.given),
     endpoint |-> IF flags.endpoint # NoEndpoint THEN flags.endpoint ELSE cfg.endpoint,
     protocol |-> cfg.protocol]

(* The settings main starts the daemon with.                               *)
Effective(file, flags) ==
    LET loaded == Load(file)
    IN  IF loaded.ok THEN ParseEndpoint(Override(loaded, flags)) ELSE loaded
=============================================================================
