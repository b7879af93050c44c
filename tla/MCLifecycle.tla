---------------------------- MODULE MCLifecycle -----------------------------
(* What a user may write, for TLC: all that bears on the intervals, all on *)
(* the switches and all on the endpoint.                                   *)
EXTENDS Lifecycle

CONSTANTS missing, noDuration

Intervals == {"send_interval", "export_interval"}

Seconds == [s \in Intervals |-> IF s = "send_interval" THEN 30 ELSE 60]

Switches == {"include_neighbors", "show_segments", "enabled", "insecure", "traces"}

NotSet == [s \in Intervals |-> missing]
NoValue == [s \in Intervals |-> 0]

MCEndpoints ==
    {NoEndpoint} \cup [scheme : {"", "grpc", "http", "ftp"}, port : {"", "given"}]

Files(values, switchSets, endpoints, protocols) ==
    [state : {"absent", "broken", "read"}, value : values, on : switchSets, endpoint : endpoints,
     protocol : protocols]

Lines(values, switchSets, endpoints) ==
    {l \in [value : values, given : switchSets, on : switchSets, endpoint : endpoints] : l.on \subseteq l.given}

UserIntervals ==
    [file : Files([Intervals -> {missing, noDuration, 0, 5}], {{}}, {NoEndpoint}, {""}),
     flags : Lines([Intervals -> {-1, 0, 7}], {{}}, {NoEndpoint})]

UserSwitches ==
    [file : Files({NotSet}, SUBSET {"include_neighbors", "enabled", "insecure"}, {NoEndpoint}, {""}),
     flags : Lines({NoValue}, SUBSET {"include_neighbors", "enabled", "insecure"}, {NoEndpoint})]

UserEndpoints ==
    [file : Files({NotSet}, {{}, {"enabled"}, {"enabled", "traces", "show_segments"}}, MCEndpoints, {"", "http"}),
     flags : Lines({NoValue}, {{}, {"enabled"}}, MCEndpoints)]

Users == UserIntervals \cup UserSwitches \cup UserEndpoints
=============================================================================
