-------------------------- MODULE LifecycleProofs ---------------------------
(***************************************************************************)
(* The safety of Lifecycle, for every file and command line a user may     *)
(* write and every set of intervals and switches.                          *)
(***************************************************************************)
EXTENDS Lifecycle, TLAPS

-----------------------------------------------------------------------------
(* What the settings are made of.                                          *)

(* The settings of a file that could be read: intervals that are those of  *)
(* the defaults or of the file, and an endpoint that was parsed, unless    *)
(* the file enables telemetry without one.                                 *)
LoadedFrom(c, file) ==
    /\ DOMAIN c.value = Setting
    /\ \A s \in Setting :
           c.value[s] = Default[s] \/ (file.state = "read" /\ c.value[s] = file.value[s])
    /\ IsEndpoint(c.endpoint)
    /\ c.endpoint = NoEndpoint =>
           file.state = "read" /\ "enabled" \in file.on /\ file.endpoint = NoEndpoint

IsConfig(c) ==
    c = [ok |-> c.ok, value |-> c.value, on |-> c.on, endpoint |-> c.endpoint, protocol |-> c.protocol]

(* What parsing makes of settings: an endpoint with a port and without a   *)
(* scheme, and the protocol of the scheme; no endpoint stays none.         *)
Parsed(c, parsed) ==
    /\ IsConfig(parsed)
    /\ parsed.value = c.value
    /\ parsed.on = c.on
    /\ IsEndpoint(parsed.endpoint)
    /\ c.endpoint = NoEndpoint => parsed.endpoint = NoEndpoint
    /\ c.endpoint # NoEndpoint =>
           /\ parsed.endpoint # NoEndpoint
           /\ parsed.endpoint.scheme = ""
           /\ parsed.endpoint.port \notin {"", "none"}
           /\ parsed.endpoint.port \in {c.endpoint.port, DefaultPort[parsed.protocol]}
           /\ parsed.protocol = ProtocolOf(c.endpoint)
           /\ parsed.protocol \in {"grpc", "http"}

(* ParseEndpoint changes the endpoint and the protocol only, and keeps     *)
(* them a pair.                                                            *)
LEMMA ParsedEndpoint ==
    ASSUME NEW c, IsConfig(c), IsEndpoint(c.endpoint), ParseEndpoint(c).ok
    PROVE  Parsed(c, ParseEndpoint(c))
<1> DEFINE endpoint == c.endpoint
<1>1. CASE endpoint = NoEndpoint
  BY <1>1 DEF ParseEndpoint, Parsed
<1>2. CASE endpoint # NoEndpoint
  <2> DEFINE p == ProtocolOf(endpoint)
             port == IF endpoint.port = "" THEN DefaultPort[p] ELSE endpoint.port
             e == [scheme |-> "", port |-> port]
             parsed == ParseEndpoint(c)
  <2>1. p \in {"grpc", "http"} /\ p = ProtocolOf(endpoint)
    BY DEF ProtocolOf
  <2>2. DefaultPort[p] \in {"4317", "4318"}
    BY <2>1 DEF DefaultPort
  <2>3. endpoint.port # "none"
    BY <1>2 DEF IsEndpoint
  <2>4. port \notin {"", "none"} /\ port \in {endpoint.port, DefaultPort[p]}
    <3>1. CASE endpoint.port = ""
      BY <3>1, <2>2
    <3>2. CASE endpoint.port # ""
      BY <3>2, <2>3
    <3> QED
      BY <3>1, <3>2
  <2>5. ~Failed.ok
    BY DEF Failed, DefaultConfig
  <2>6. endpoint.scheme # "ftp"
    BY <1>2, <2>5 DEF ParseEndpoint
  <2>7. parsed = [ok |-> c.ok, value |-> c.value, on |-> c.on, endpoint |-> e, protocol |-> p]
    BY <1>2, <2>6 DEF ParseEndpoint, IsConfig
  <2> HIDE DEF port, p, parsed
  <2>8. e.scheme = "" /\ e.port = port /\ IsEndpoint(e) /\ e # NoEndpoint
    BY <2>4 DEF IsEndpoint, NoEndpoint
  <2> HIDE DEF e
  <2>9. /\ IsConfig(parsed)
        /\ parsed.value = c.value
        /\ parsed.on = c.on
        /\ parsed.endpoint = e
        /\ parsed.protocol = p
    BY <2>7 DEF IsConfig
  <2> QED
    BY <1>2, <2>1, <2>4, <2>8, <2>9 DEF Parsed, parsed
<1> QED
  BY <1>1, <1>2

(* Load gives the defaults or what the file says, or fails.                *)
LEMMA LoadStep ==
    ASSUME NEW file, IsFile(file), Load(file).ok
    PROVE  LoadedFrom(Load(file), file) /\ IsConfig(Load(file))
<1> USE DefaultAssumption
<1>1. CASE file.state = "absent"
  <2>1. Load(file) = DefaultConfig
    BY <1>1 DEF Load
  <2>2. /\ IsConfig(DefaultConfig)
        /\ DefaultConfig.value = Default
        /\ DefaultConfig.endpoint = [scheme |-> "grpc", port |-> "4317"]
    BY DEF DefaultConfig, IsConfig
  <2> DEFINE e == DefaultConfig.endpoint
  <2> HIDE DEF e
  <2>3. e = [scheme |-> "grpc", port |-> "4317"]
    BY <2>2 DEF e
  <2>4. e.scheme = "grpc" /\ e.port = "4317" /\ NoEndpoint.port = "none"
    BY <2>3 DEF NoEndpoint
  <2>5. IsEndpoint(e) /\ e # NoEndpoint
    BY <2>3, <2>4 DEF IsEndpoint
  <2> QED
    BY <2>1, <2>2, <2>5 DEF LoadedFrom, e
<1>2. CASE file.state = "broken"
  BY <1>2 DEF Load, Failed, DefaultConfig
<1>3. CASE file.state = "read"
  <2> DEFINE merged == MergeFile(DefaultConfig, file)
             loaded == ParseEndpoint(merged)
  <2>1. Load(file) = loaded
    BY <1>3 DEF Load
  <2>2. /\ IsConfig(merged)
        /\ DOMAIN merged.value = Setting
        /\ \A s \in Setting : merged.value[s] \in {Default[s], file.value[s]}
        /\ IsEndpoint(merged.endpoint)
        /\ merged.endpoint = NoEndpoint => "enabled" \in file.on /\ file.endpoint = NoEndpoint
    BY DEF MergeFile, MergeValue, DefaultConfig, IsFile, IsEndpoint, NoEndpoint, IsConfig
  <2> HIDE DEF merged
  <2>3. Parsed(merged, loaded)
    BY <2>1, <2>2, ParsedEndpoint
  <2> QED
    BY <1>3, <2>1, <2>2, <2>3 DEF LoadedFrom, Parsed
<1> QED
  BY <1>1, <1>2, <1>3 DEF IsFile

-----------------------------------------------------------------------------
(* The properties of the settings, apart from the process.                 *)
Follows(settings, file, flags) ==
    /\ \A s \in Setting : flags.value[s] > 0 => settings.value[s] = flags.value[s]
    /\ \A s \in Setting : settings.value[s] <= 0 => file.state = "read" /\ file.value[s] = settings.value[s]
    /\ settings.on \cap flags.given = flags.on
    /\ flags.endpoint # NoEndpoint =>
           /\ settings.protocol = ProtocolOf(flags.endpoint)
           /\ settings.endpoint.port \in {flags.endpoint.port, DefaultPort[settings.protocol]}
    /\ \/ /\ settings.endpoint.scheme = ""
          /\ settings.endpoint.port \notin {"", "none"}
          /\ settings.protocol \in {"grpc", "http"}
       \/ /\ file.state = "read" /\ "enabled" \in file.on
          /\ NoEndpoint = file.endpoint /\ NoEndpoint = flags.endpoint

(* What main runs with follows the file and the command line.              *)
LEMMA EffectiveSettings ==
    ASSUME NEW file, IsFile(file), NEW flags, IsCommandLine(flags), Effective(file, flags).ok
    PROVE  Follows(Effective(file, flags), file, flags)
<1> DEFINE loaded == Load(file)
           overridden == Override(loaded, flags)
           effective == Effective(file, flags)
<1>1. loaded.ok /\ effective = ParseEndpoint(overridden)
  BY DEF Effective
<1>2. LoadedFrom(loaded, file)
  BY <1>1, LoadStep
<1> HIDE DEF loaded
<1>3. /\ IsConfig(overridden)
      /\ overridden.value = [s \in Setting |-> IF flags.value[s] > 0 THEN flags.value[s] ELSE loaded.value[s]]
      /\ overridden.on = (loaded.on \ flags.given) \cup (flags.on \cap flags.given)
      /\ overridden.endpoint = IF flags.endpoint # NoEndpoint THEN flags.endpoint ELSE loaded.endpoint
  BY DEF Override, IsConfig
<1>4. IsEndpoint(overridden.endpoint)
  BY <1>2, <1>3 DEF LoadedFrom, IsCommandLine
<1>5. Parsed(overridden, effective)
  <2> HIDE DEF overridden
  <2> QED
    BY <1>1, <1>3, <1>4, ParsedEndpoint
<1> HIDE DEF overridden, effective
<1>6. \A s \in Setting : flags.value[s] > 0 => effective.value[s] = flags.value[s]
  BY <1>3, <1>5 DEF Parsed
<1>7. ASSUME NEW s \in Setting, effective.value[s] <= 0
      PROVE  file.state = "read" /\ file.value[s] = effective.value[s]
  <2>1. flags.value[s] \in Int /\ Default[s] \in Nat \ {0}
    BY DefaultAssumption DEF IsCommandLine
  <2>2. effective.value[s] = loaded.value[s]
    <3>1. effective.value[s] = IF flags.value[s] > 0 THEN flags.value[s] ELSE loaded.value[s]
      BY <1>3, <1>5 DEF Parsed
    <3> QED
      BY <1>7, <2>1, <3>1
  <2> QED
    BY <1>2, <1>7, <2>1, <2>2 DEF LoadedFrom
<1>8. effective.on \cap flags.given = flags.on
  BY <1>3, <1>5 DEF Parsed, IsCommandLine
<1>9. CASE overridden.endpoint = NoEndpoint
  <2>1. flags.endpoint = NoEndpoint /\ loaded.endpoint = NoEndpoint
    BY <1>3, <1>9
  <2> QED
    BY <1>2, <1>6, <1>7, <1>8, <2>1 DEF LoadedFrom, Follows, effective
<1>10. CASE overridden.endpoint # NoEndpoint
  <2>1. flags.endpoint # NoEndpoint => overridden.endpoint = flags.endpoint
    BY <1>3
  <2> QED
    BY <1>5, <1>6, <1>7, <1>8, <1>10, <2>1 DEF Parsed, Follows, effective
<1> QED
  BY <1>9, <1>10

-----------------------------------------------------------------------------
(* Where the settings come from.  Until telemetry is set up they are what  *)
(* the user wrote makes of them.                                           *)
SettingsInv ==
    /\ main = "load" => user \in User
    /\ main = "telemetry" /\ exit = "none" =>
           /\ user \in User
           /\ cfg = Effective(user.file, user.flags)
           /\ cfg.ok

(* Who has reported an error.  The receiver and the server report at most  *)
(* one each, and none before they are done.                                *)
Reports(state) == IF state = "done" THEN 1 ELSE 0

ErrorsInv ==
    /\ main \in {"load", "telemetry", "receiver"} => recv = "off" /\ serv = "off"
    /\ errChan \in Nat
    /\ errChan <= Reports(recv) + Reports(serv)

IInv == SettingsInv /\ ErrorsInv

(* The invariant holds initially.                                          *)
LEMMA InitIInv == Init => IInv
  BY DEF Init, IInv, SettingsInv, ErrorsInv, Reports

(* A configured process runs with settings that follow what its user       *)
(* wrote.                                                                  *)
LEMMA ConfiguredFollows == SettingsInv /\ Configured => Follows(cfg, user.file, user.flags)
  BY EffectiveSettings, UserAssumption DEF SettingsInv, Configured

(* Settings do not change once they are made.                              *)
LEMMA NextSettings == SettingsInv /\ [Next]_vars => SettingsInv'
<1> SUFFICES ASSUME SettingsInv, [Next]_vars PROVE SettingsInv'
  OBVIOUS
<1> USE DEF SettingsInv, Proceed
<1>1. CASE Configure
  BY <1>1 DEF Configure
<1>2. CASE SetupTelemetry
  BY <1>2 DEF SetupTelemetry
<1>3. CASE StartFails
  BY <1>3 DEF StartFails, Exit
<1>4. CASE Launch
  BY <1>4 DEF Launch
<1>5. CASE Signal
  BY <1>5 DEF Signal
<1>6. CASE Wait
  BY <1>6 DEF Wait
<1>7. CASE Return
  BY <1>7 DEF Return
<1>8. CASE ReceiverStep
  BY <1>8 DEF ReceiverStep
<1>9. CASE SenderStep
  BY <1>9 DEF SenderStep
<1>10. CASE ExporterStep
  BY <1>10 DEF ExporterStep
<1>11. CASE ListenFails \/ Request \/ Answer
  BY <1>11 DEF ListenFails, Request, Answer
<1>12. CASE ServerStep
  BY <1>12 DEF ServerStep
<1>13. CASE Stopped \/ UNCHANGED vars
  BY <1>13 DEF Stopped, vars
<1> QED
  BY <1>1, <1>2, <1>3, <1>4, <1>5, <1>6, <1>7, <1>8, <1>9, <1>10, <1>11, <1>12, <1>13 DEF Next

(* A goroutine reports one error at most, and then it is over.             *)
LEMMA NextErrors == ErrorsInv /\ [Next]_vars => ErrorsInv'
<1> SUFFICES ASSUME ErrorsInv, [Next]_vars PROVE ErrorsInv'
  OBVIOUS
<1> USE DEF ErrorsInv, Reports, Proceed
<1>1. CASE Configure \/ SetupTelemetry
  BY <1>1 DEF Configure, SetupTelemetry, goroutines
<1>2. CASE StartFails
  BY <1>2 DEF StartFails, goroutines
<1>3. CASE Launch
  BY <1>3 DEF Launch
<1>4. CASE Signal \/ Return
  BY <1>4 DEF Signal, Return, goroutines
<1>5. CASE Wait
  BY <1>5 DEF Wait, goroutines
<1>6. CASE ReceiverStep
  BY <1>6 DEF ReceiverStep, ReportError, server
<1>7. CASE SenderStep \/ ExporterStep
  BY <1>7 DEF SenderStep, ExporterStep, server
<1>8. CASE ListenFails \/ Request \/ Answer
  BY <1>8 DEF ListenFails, Request, Answer
<1>9. CASE ServerStep
  BY <1>9 DEF ServerStep, ServerTakesError, ReportError
<1>10. CASE Stopped \/ UNCHANGED vars
  BY <1>10 DEF Stopped, vars
<1> QED
  BY <1>1, <1>2, <1>3, <1>4, <1>5, <1>6, <1>7, <1>8, <1>9, <1>10 DEF Next

(* What the settings come from and who has reported an error is known in   *)
(* every state: the inductive invariant of the start and the shutdown.     *)
THEOREM LifecycleInvariance == Spec => []IInv
<1>1. IInv /\ [Next]_vars => IInv'
  BY NextSettings, NextErrors DEF IInv
<1> QED
  BY InitIInv, <1>1, PTL DEF Spec

(* NobodyBlocksOnErrors for every start: when the receiver or the server   *)
(* has an error to report, errChan has room for it.                        *)
THEOREM NobodyEverBlocksOnErrors == Spec => []NobodyBlocksOnErrors
<1>1. IInv => NobodyBlocksOnErrors
  BY DEF IInv, ErrorsInv, Reports, NobodyBlocksOnErrors, ErrChanCap
<1> QED
  BY LifecycleInvariance, <1>1, PTL

(* CommandLineWins for every file and command line.                        *)
THEOREM CommandLineAlwaysWins == Spec => []CommandLineWins
<1>1. IInv => CommandLineWins
  BY ConfiguredFollows DEF IInv, Follows, CommandLineWins
<1> QED
  BY LifecycleInvariance, <1>1, PTL

(* BadIntervalsComeFromFile for every file and command line.               *)
THEOREM BadIntervalsAlwaysComeFromFile == Spec => []BadIntervalsComeFromFile
<1>1. IInv => BadIntervalsComeFromFile
  BY ConfiguredFollows DEF IInv, Follows, BadIntervalsComeFromFile
<1> QED
  BY LifecycleInvariance, <1>1, PTL

(* CollectorComplete for every file and command line.                      *)
THEOREM CollectorAlwaysComplete == Spec => []CollectorComplete
<1>1. IInv => CollectorComplete
  BY ConfiguredFollows DEF IInv, Follows, CollectorComplete
<1> QED
  BY LifecycleInvariance, <1>1, PTL
=============================================================================
