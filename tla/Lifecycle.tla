----------------------------- MODULE Lifecycle ------------------------------
(***************************************************************************)
(* One daemon process from main() to its exit: the settings, the steps of  *)
(* the start that may fail, the goroutines main launches (the receiver,    *)
(* the sender, the HTTP server with the one that listens, the exporter)    *)
(* and the shutdown.                                                       *)
(*                                                                         *)
(* main waits for a signal or the first error on errChan, cancels the      *)
(* context, sleeps for 100 ms, shuts the telemetry down and returns; the   *)
(* process ends with it, whatever the goroutines are doing.  How fast they *)
(* are is not known: main may return at any point of their work.           *)
(***************************************************************************)
EXTENDS Config

CONSTANT User   \* pairs of a configuration file and a command line

ASSUME UserAssumption == \A u \in User : IsFile(u.file) /\ IsCommandLine(u.flags)

VARIABLES
    user,       \* what the user wrote, until it is turned into settings
    cfg,        \* the settings
    main,       \* load -> telemetry -> receiver -> wait -> sleep -> returned
    exit,       \* the exit code of the process, or "none" while it runs
    recv,       \* the receiver: open -> read -> spin, failed, done
    send,       \* the sender: start -> run -> done
    serv,       \* the server's Run: run -> shutdown, failed -> done
    listener,   \* its goroutine in ListenAndServe: run -> failed, done
    busy,       \* a request is being answered
    expo,       \* the exporter: start -> idle <-> write, done
    errChan,    \* the number of messages in errChan
    cancelled,  \* the context is cancelled
    signalled   \* a signal is in sigChan

server == <<serv, listener, busy>>
goroutines == <<recv, send, serv, listener, busy, expo>>
vars == <<user, cfg, main, exit, recv, send, serv, listener, busy, expo, errChan, cancelled, signalled>>

Init ==
    /\ user \in User
    /\ cfg = DefaultConfig
    /\ main = "load" /\ exit = "none"
    /\ recv = "off" /\ send = "off" /\ expo = "off"
    /\ serv = "off" /\ listener = "off" /\ busy = FALSE
    /\ errChan = 0 /\ cancelled = FALSE /\ signalled = FALSE

(* The user no longer matters.                                             *)
Consumed == [consumed |-> TRUE]

Exit(code) == exit = "none" /\ exit' = code

Proceed(from, to) == exit = "none" /\ main = from /\ main' = to

-----------------------------------------------------------------------------
(* The start.                                                              *)
Configure ==
    /\ Proceed("load", "telemetry")
    /\ LET effective == Effective(user.file, user.flags)
       IN  /\ cfg' = effective
           /\ exit' = IF effective.ok THEN "none" ELSE "1"
    /\ UNCHANGED <<user, goroutines, errChan, cancelled, signalled>>

(* Telemetry and metrics are set up.  From here on the intervals are what  *)
(* matters of the settings.                                                *)
SetupTelemetry ==
    /\ Proceed("telemetry", "receiver")
    /\ user' = Consumed
    /\ cfg' = [cfg EXCEPT !.on = {}, !.endpoint = NoEndpoint, !.protocol = ""]
    /\ UNCHANGED <<exit, goroutines, errChan, cancelled, signalled>>

(* The collector's client, a metric or, without a machine id, the receiver *)
(* cannot be created.                                                      *)
StartFails ==
    /\ \/ main = "telemetry" /\ "enabled" \in cfg.on
       \/ main = "receiver"
    /\ Exit("1")
    /\ UNCHANGED <<user, cfg, main, goroutines, errChan, cancelled, signalled>>

(* NewReceiver, signal.Notify and the four go statements.                  *)
Launch ==
    /\ Proceed("receiver", "wait")
    /\ recv' = "open" /\ send' = "start" /\ expo' = "start"
    /\ serv' = "run" /\ listener' = "run"
    /\ UNCHANGED <<user, cfg, exit, busy, errChan, cancelled, signalled>>

-----------------------------------------------------------------------------
(* main.                                                                   *)
Signal ==
    /\ exit = "none" /\ main \in {"wait", "sleep"}
    /\ signalled' = TRUE
    /\ UNCHANGED <<user, cfg, main, exit, goroutines, errChan, cancelled>>

WaitForErrorOnly ==
    /\ Proceed("wait", "sleep")
    /\ errChan > 0 /\ errChan' = errChan - 1
    /\ cancelled' = TRUE
    /\ UNCHANGED <<user, cfg, exit, goroutines, signalled>>

(* The first of a signal and an error cancels the context; another one     *)
(* stays in its channel.                                                   *)
Wait ==
    /\ Proceed("wait", "sleep")
    /\ \/ signalled /\ signalled' = FALSE /\ UNCHANGED errChan
       \/ errChan > 0 /\ errChan' = errChan - 1 /\ UNCHANGED signalled
    /\ cancelled' = TRUE
    /\ UNCHANGED <<user, cfg, exit, goroutines>>

Return ==
    /\ Proceed("sleep", "returned")
    /\ exit' = "0"
    /\ UNCHANGED <<user, cfg, goroutines, errChan, cancelled, signalled>>

ErrChanCapOfOne == 1

(* A goroutine puts its error into errChan, if there is room.              *)
ErrChanCap == 3

ReportError == errChan < ErrChanCap /\ errChan' = errChan + 1

-----------------------------------------------------------------------------
(* The receiver.  A read error does not end it unless the context is       *)
(* cancelled: while the socket stays broken it spins.                      *)
ReceiverStep ==
    /\ exit = "none"
    /\ \/ recv = "open" /\ recv' \in {"read", "failed"} /\ UNCHANGED errChan
       \/ recv = "read" /\ ~cancelled /\ recv' = "spin" /\ UNCHANGED errChan
       \/ recv \in {"read", "spin"} /\ cancelled /\ recv' = "done" /\ UNCHANGED errChan
       \/ recv = "failed" /\ ReportError /\ recv' = "done"
    /\ UNCHANGED <<user, cfg, main, exit, send, server, expo, cancelled, signalled>>

(* time.NewTicker panics unless the interval is positive, and the process  *)
(* ends.                                                                   *)
NewTicker(setting) == exit' = IF cfg.value[setting] > 0 THEN "none" ELSE "2"

SenderStep ==
    /\ exit = "none"
    /\ \/ send = "start" /\ send' = "run" /\ NewTicker("send_interval")
       \/ send = "run" /\ cancelled /\ send' = "done" /\ UNCHANGED exit
    /\ UNCHANGED <<user, cfg, main, recv, server, expo, errChan, cancelled, signalled>>

(* An export may begin after the context is cancelled: the select of the   *)
(* loop takes any case that is ready.                                      *)
ExporterStep ==
    /\ exit = "none"
    /\ \/ expo = "start" /\ expo' = "idle" /\ NewTicker("export_interval")
       \/ expo = "idle" /\ expo' = "write" /\ UNCHANGED exit
       \/ expo = "write" /\ expo' = "idle" /\ UNCHANGED exit
       \/ expo = "idle" /\ cancelled /\ expo' = "done" /\ UNCHANGED exit
    /\ UNCHANGED <<user, cfg, main, recv, send, server, errChan, cancelled, signalled>>

-----------------------------------------------------------------------------
(* The HTTP server.                                                        *)
ListenFails ==
    /\ exit = "none" /\ listener = "run" /\ listener' = "failed"
    /\ UNCHANGED <<user, cfg, main, exit, recv, send, serv, busy, expo, errChan, cancelled, signalled>>

Request ==
    /\ exit = "none" /\ listener = "run"
    /\ ~busy /\ busy' = TRUE
    /\ UNCHANGED <<user, cfg, main, exit, recv, send, serv, listener, expo, errChan, cancelled, signalled>>

Answer ==
    /\ exit = "none"
    /\ busy /\ busy' = FALSE
    /\ UNCHANGED <<user, cfg, main, exit, recv, send, serv, listener, expo, errChan, cancelled, signalled>>

ServerTakesNoError == FALSE /\ UNCHANGED <<serv, listener, errChan>>

ServerTakesError ==
    /\ serv = "run" /\ listener = "failed"
    /\ serv' = "failed" /\ listener' = "done"
    /\ UNCHANGED errChan

(* Shutdown stops the listener and waits for the requests, for at most 5 s.*)
ServerStep ==
    /\ exit = "none"
    /\ \/ ServerTakesError
       \/ /\ serv = "run" /\ cancelled
          /\ serv' = "shutdown"
          /\ listener' = IF listener = "run" THEN "done" ELSE listener
          /\ UNCHANGED errChan
       \/ serv = "shutdown" /\ serv' = (IF busy THEN "failed" ELSE "done") /\ UNCHANGED <<listener, errChan>>
       \/ serv = "failed" /\ ReportError /\ serv' = "done" /\ UNCHANGED listener
    /\ UNCHANGED <<user, cfg, main, exit, recv, send, busy, expo, cancelled, signalled>>

-----------------------------------------------------------------------------
Stopped == exit # "none" /\ UNCHANGED vars

Next ==
    \/ Configure
    \/ SetupTelemetry
    \/ StartFails
    \/ Launch
    \/ Signal
    \/ Wait
    \/ Return
    \/ ReceiverStep
    \/ SenderStep
    \/ ExporterStep
    \/ ListenFails
    \/ Request
    \/ Answer
    \/ ServerStep
    \/ Stopped

(* main and the goroutines are scheduled.  Nothing need fail, no request   *)
(* need come or be answered and no signal need be sent.                    *)
Fairness ==
    /\ WF_vars(Configure) /\ WF_vars(SetupTelemetry) /\ WF_vars(Launch) /\ WF_vars(Wait) /\ WF_vars(Return)
    /\ WF_vars(ReceiverStep) /\ WF_vars(SenderStep) /\ WF_vars(ExporterStep) /\ WF_vars(ServerStep)

Spec == Init /\ [][Next]_vars

FairSpec == Spec /\ Fairness

-----------------------------------------------------------------------------
(* Safety.                                                                 *)

Configured == main = "telemetry" /\ exit = "none"

(* What the command line says is what the daemon runs with (README.md,     *)
(* "Configuration"), whatever the file says: a switch also when it is      *)
(* given as false, an endpoint with the protocol of its scheme although    *)
(* the endpoint of the file was parsed before.                             *)
CommandLineWins ==
    Configured =>
        LET flags == user.flags
        IN  /\ \A s \in Setting : flags.value[s] > 0 => cfg.value[s] = flags.value[s]
            /\ cfg.on \cap flags.given = flags.on
            /\ flags.endpoint # NoEndpoint =>
                   /\ cfg.protocol = ProtocolOf(flags.endpoint)
                   /\ cfg.endpoint.port \in {flags.endpoint.port, DefaultPort[cfg.protocol]}

(* An interval that makes NewTicker panic was in the file and nowhere else.*)
BadIntervalsComeFromFile ==
    Configured =>
        \A s \in Setting : cfg.value[s] <= 0 => user.file.state = "read" /\ user.file.value[s] = cfg.value[s]

(* Telemetry that is switched on knows a host, a port and a protocol,      *)
(* unless the file switches it on and nobody names an endpoint.            *)
CollectorComplete ==
    Configured /\ "enabled" \in cfg.on =>
        \/ cfg.endpoint.scheme = "" /\ cfg.endpoint.port \notin {"", "none"} /\ cfg.protocol \in {"grpc", "http"}
        \/ /\ user.file.state = "read" /\ "enabled" \in user.file.on
           /\ NoEndpoint = user.file.endpoint /\ NoEndpoint = user.flags.endpoint

(* No goroutine waits for room in errChan, which main reads once.          *)
NobodyBlocksOnErrors == "failed" \in {recv, serv} => errChan < ErrChanCap

-----------------------------------------------------------------------------
(* Liveness.                                                               *)

(* A signal ends the daemon, also while its socket is broken, a request    *)
(* hangs or an export is under way.                                        *)
SignalEndsDaemon == signalled ~> exit # "none"

(* So does a component that fails: the daemon does not go on without its   *)
(* socket or its HTTP server.                                              *)
FailureEndsDaemon == recv = "failed" \/ listener = "failed" ~> exit # "none"
=============================================================================
