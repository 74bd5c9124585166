---------------------------- MODULE DaemonLogging ---------------------------
(***************************************************************************)
(* The internal log of a daemon, from Start on: what the prestart pipeline *)
(* (Prestart) reports is read and logged by Start, the signal watcher logs *)
(* on its own, and once the services are started they log through child    *)
(* loggers while RPC calls change levels (LogLevels).  All messages of the *)
(* internal logger end in one file (LogFile).                              *)
(***************************************************************************)
EXTENDS Prestart, LogFile, LogLevels

CONSTANTS ErrorLevel, NoticeLevel, DebugLevel   \* levels of the daemon's own messages

ASSUME DaemonLoggingAssumption ==
    /\ Writers = {"start", "signals", "service"}
    /\ {ErrorLevel, NoticeLevel, DebugLevel} \subseteq Levels

VARIABLES
    started,        \* Start has gone past the prestart pipeline
    signals         \* what the signal watcher is at, or has seen

vars == <<prestartVars, fileVars, levelVars, started, signals>>

Init ==
    /\ PrestartInit /\ LogFileInit /\ LogLevelsInit
    /\ started = FALSE /\ signals = "watching"

\* logger.Log of writer w, through a logger of level current.
Log(w, current, v) ==
    IF Logs(current, v) THEN \E n \in Lengths : BeginHandle(w, n) ELSE UNCHANGED fileVars

\* The loop over errC: each failure is logged as an error before the next is taken.
StartLogsFailure ==
    /\ handling["start"] = 0
    /\ TakeError
    /\ Log("start", level["internal"], ErrorLevel)
    /\ UNCHANGED <<levelVars, started, signals>>

\* A defect: Start goes on as soon as errC is closed, whatever is in it.
StartServicesAtOnce ==
    /\ ~started
    /\ place = "done" /\ handling["start"] = 0
    /\ started' = TRUE
    /\ UNCHANGED <<prestartVars, fileVars, levelVars, signals>>

\* errC is closed and drained: services and RPC server are started.
StartServices ==
    /\ ~started
    /\ place = "done" /\ errC = 0 /\ handling["start"] = 0
    /\ started' = TRUE
    /\ UNCHANGED <<prestartVars, fileVars, levelVars, signals>>

\* The signal watcher logs that the context is done, or that a signal came; in the
\* second case it cancels the context when it has logged.
SeesContextDone ==
    /\ signals = "watching" /\ cancelled
    /\ signals' = "context"
    /\ Log("signals", level["internal"], DebugLevel)
    /\ UNCHANGED <<prestartVars, levelVars, started>>

SeesSignal ==
    /\ signals = "watching"
    /\ signals' = "signal"
    /\ Log("signals", level["internal"], NoticeLevel)
    /\ UNCHANGED <<prestartVars, levelVars, started>>

SignalCancels ==
    /\ signals = "signal" /\ handling["signals"] = 0
    /\ CancelPrestart
    /\ UNCHANGED <<fileVars, levelVars, started, signals>>

\* The goroutine of a service makes its context, with loggers of its own.
ServiceBegins ==
    /\ started
    /\ MakeChildren
    /\ UNCHANGED <<prestartVars, fileVars, started, signals>>

\* A watch of the service logs through its internal logger (service_context.go:199).
ServiceLogs(v) ==
    /\ childLevel["internal"] # 0
    /\ handling["service"] = 0
    /\ Logs(childLevel["internal"], v) /\ Log("service", childLevel["internal"], v)
    /\ UNCHANGED <<prestartVars, levelVars, started, signals>>

PipelineRuns == PrestartStep /\ UNCHANGED <<fileVars, levelVars, started, signals>>

\* The parent context of Start is cancelled.
Cancel == CancelPrestart /\ UNCHANGED <<fileVars, levelVars, started, signals>>

Write(w) == HandleStep(w) /\ UNCHANGED <<prestartVars, levelVars, started, signals>>

ServerRuns(c) == ServerStep(c) /\ UNCHANGED <<prestartVars, fileVars, started, signals>>

ClientRuns(c) == ClientStep(c) /\ UNCHANGED <<prestartVars, fileVars, started, signals>>

ClientCalls(c) ==
    /\ started
    /\ ChangeLogLevel(c) \/ ContextDone(c)
    /\ UNCHANGED <<prestartVars, fileVars, started, signals>>

StartStep == StartLogsFailure \/ StartServices

SignalStep == SeesContextDone \/ SignalCancels

Next ==
    \/ PipelineRuns \/ Cancel \/ StartStep \/ SignalStep \/ SeesSignal \/ ServiceBegins
    \/ \E v \in Levels : ServiceLogs(v)
    \/ \E w \in Writers : Write(w)
    \/ \E c \in RPCClients : ServerRuns(c) \/ ClientRuns(c) \/ ClientCalls(c)

Spec == Init /\ [][Next]_vars

\* Goroutines run, stage functions return, and system calls on the file end.  Nobody
\* has to cancel, to call or to log.
Fairness ==
    /\ WF_vars(PipelineRuns) /\ WF_vars(StartStep) /\ WF_vars(SignalStep)
    /\ \A w \in Writers : WF_vars(Write(w))
    /\ \A c \in RPCClients : WF_vars(ServerRuns(c)) /\ WF_vars(ClientRuns(c))

FairSpec == Spec /\ Fairness

-----------------------------------------------------------------------------
(* Safety *)

TypeOK ==
    /\ PrestartTypeOK /\ LogFileTypeOK /\ LogLevelsTypeOK
    /\ started \in BOOLEAN
    /\ signals \in {"watching", "context", "signal"}

\* Services are started only after the pipeline: after an attempt in which every stage
\* succeeded (the last one, if failures do not restart it) or after a cancellation, and
\* with each reported failure handed to the log (daemon.go:130-137).
ServicesAfterPrestart ==
    started =>
        /\ errC = 0
        /\ \/ cancelled
           \/ \A k \in Stages : restartOnError \/ k = NumStages => outcome[k] = "ok"

-----------------------------------------------------------------------------
(* Liveness *)

\* A daemon that is cancelled or gets a signal leaves the pipeline, whatever stage, delay
\* or report that is at and whatever becomes of the log file (daemon.go:113-128,
\* daemon_prestart.go:74-89).
CancelEndsPrestart == cancelled \/ signals = "signal" ~> started

\* A pipeline that restarts on errors ends once its stages no longer fail: no failure is
\* left unreported and no timer unarmed.
RestartsUntilSuccess ==
    (restartOnError /\ <>[][~StageFails]_vars) => <>started
=============================================================================
