---------------------------- MODULE LoggingProofs ---------------------------
(***************************************************************************)
(* Proofs about DaemonLogging, for any number of stages, any limit of the  *)
(* log file, any lengths of messages and any clients: types, the order of  *)
(* the stages, the one case in which the pipeline hangs, the size of the   *)
(* file, what an answered call means, and when services start.             *)
(***************************************************************************)
EXTENDS DaemonLogging, TLAPS

(***************************************************************************)
(* The inductive invariant, in a part per module it is about.              *)
(***************************************************************************)

\* The pipeline is at a stage while it is in an attempt; a stage that is reported has
\* failed; and it ends by a cancellation or after an attempt that may end it.
PrestartInv ==
    /\ place # "done" => NumStages \in Stages /\ stage \in Stages
    /\ place \in {"checking", "running", "reporting"} =>
         /\ \A k \in Stages : k < stage =>
              outcome[k] \in (IF restartOnError THEN {"ok"} ELSE {"ok", "failed"})
         /\ \A k \in Stages : k > stage => outcome[k] = "none"
    /\ place \in {"checking", "running"} => outcome[stage] = "none"
    /\ place = "reporting" => outcome[stage] = "failed"
    /\ place = "done" =>
         \/ cancelled
         \/ \A k \in Stages : restartOnError \/ k = NumStages => outcome[k] = "ok"

\* As long as the count is within the limit the file was not longer than the count says;
\* from then on every message empties it first.
FileInv ==
    /\ total <= Limit => size <= MaxExisting + total
    /\ total > Limit => \E n \in Lengths : size <= n

\* A logger that a call has come past has the level of such a call.
CallInv ==
    /\ \A c \in RPCClients :
         /\ handler[c] \in {"between", "handled", "replied"} =>
              \E d \in RPCClients :
                level["service"] = Want[d] /\ handler[d] \notin {"none", "received"}
         /\ handler[c] \in {"handled", "replied"} =>
              \E d \in RPCClients :
                level["internal"] = Want[d] /\ handler[d] \notin {"none", "received"}
         /\ doneC[c] = "reply" \/ client[c] = "answered" => handler[c] = "replied"
         /\ client[c] = "idle" => handler[c] = "none"

StartInv == started => place = "done" /\ errC = 0

PrestartPart == PrestartTypeOK /\ PrestartInv /\ HangsOnlyAfterLastFailure
FilePart == LogFileTypeOK /\ FileInv
CallPart == LogLevelsTypeOK /\ CallInv

LInv ==
    /\ PrestartPart /\ FilePart /\ CallPart /\ StartInv
    /\ started \in BOOLEAN /\ signals \in {"watching", "context", "signal"}

-----------------------------------------------------------------------------
(* The pipeline *)

LEMMA PrestartBegins ==
  ASSUME PrestartInit
  PROVE  PrestartPart
<1>1. PrestartTypeOK
  <2>1. outcome \in [Stages -> {"none", "ok", "failed"}]
    BY DEF PrestartInit
  <2>2. stage = 1 /\ errC = 0 /\ place \in {"waiting", "done"}
    BY DEF PrestartInit
  <2>3. restartOnError \in BOOLEAN /\ armed \in BOOLEAN /\ cancelled \in BOOLEAN
    BY DEF PrestartInit
  <2>. QED  BY <2>1, <2>2, <2>3 DEF PrestartTypeOK
<1>2. PrestartInv
  BY PrestartAssumption DEF PrestartInit, PrestartInv, Stages
<1>3. HangsOnlyAfterLastFailure
  BY DEF PrestartInit, HangsOnlyAfterLastFailure
<1>. QED  BY <1>1, <1>2, <1>3 DEF PrestartPart

\* A stage that succeeds is followed by the next one, or ends the pipeline.
LEMMA SuccessKeepsPrestart ==
  ASSUME PrestartPart, StageSucceeds
  PROVE  PrestartPart'
<1>. USE PrestartAssumption DEF PrestartPart, StageSucceeds, GoOn, Stages
<1>1. PrestartTypeOK'
  <2>. USE DEF PrestartTypeOK
  <2>1. outcome' \in [Stages -> {"none", "ok", "failed"}]
    OBVIOUS
  <2>2. stage' \in Nat \ {0}
    OBVIOUS
  <2>3. place' \in {"waiting", "checking", "running", "reporting", "done"}
    OBVIOUS
  <2>4. UNCHANGED <<restartOnError, armed, errC, cancelled>>
    OBVIOUS
  <2>. QED  BY <2>1, <2>2, <2>3, <2>4
<1>2. PrestartInv'
  BY DEF PrestartTypeOK, PrestartInv
<1>3. HangsOnlyAfterLastFailure'
  BY DEF PrestartTypeOK, HangsOnlyAfterLastFailure
<1>. QED  BY <1>1, <1>2, <1>3

\* A reported failure ends the attempt and arms the timer, or is followed by the next
\* stage; after the last stage nobody arms the timer.
LEMMA ReportKeepsPrestart ==
  ASSUME PrestartPart, Report
  PROVE  PrestartPart'
<1>. USE PrestartAssumption DEF PrestartPart, Report, GoOn, Stages
<1>1. PrestartTypeOK'
  <2>. USE DEF PrestartTypeOK
  <2>1. stage' \in Nat \ {0}
    OBVIOUS
  <2>2. place' \in {"waiting", "checking", "running", "reporting", "done"}
    OBVIOUS
  <2>3. errC' \in Stages \cup {0}
    BY DEF PrestartInv
  <2>4. armed' \in BOOLEAN /\ UNCHANGED <<restartOnError, outcome, cancelled>>
    OBVIOUS
  <2>. QED  BY <2>1, <2>2, <2>3, <2>4
<1>2. PrestartInv'
  BY DEF PrestartTypeOK, PrestartInv
<1>3. HangsOnlyAfterLastFailure'
  BY DEF PrestartTypeOK, PrestartInv, HangsOnlyAfterLastFailure
<1>. QED  BY <1>1, <1>2, <1>3

LEMMA PrestartKept ==
  ASSUME PrestartPart,
         PrestartStep \/ TakeError \/ CancelPrestart \/ UNCHANGED prestartVars
  PROVE  PrestartPart'
<1>. USE PrestartAssumption DEF PrestartPart, PrestartTypeOK, PrestartInv,
         HangsOnlyAfterLastFailure, Stages
<1>1. CASE PrestartCancelled
  BY <1>1 DEF PrestartCancelled
<1>2. CASE Tick
  <2>. USE <1>2 DEF Tick
  <2>1. PrestartTypeOK'
    <3>1. outcome' \in [Stages -> {"none", "ok", "failed"}]
      OBVIOUS
    <3>2. stage' \in Nat \ {0}
      OBVIOUS
    <3>3. place' \in {"waiting", "checking", "running", "reporting", "done"}
      OBVIOUS
    <3>4. armed' \in BOOLEAN /\ restartOnError' \in BOOLEAN /\ cancelled' \in BOOLEAN
      OBVIOUS
    <3>5. errC' \in Stages \cup {0}
      OBVIOUS
    <3>. QED  BY <3>1, <3>2, <3>3, <3>4, <3>5
  <2>2. PrestartInv'
    OBVIOUS
  <2>3. HangsOnlyAfterLastFailure'
    OBVIOUS
  <2>. QED  BY <2>1, <2>2, <2>3
<1>3. CASE RunStage
  BY <1>3 DEF RunStage
<1>4. CASE StageSucceeds
  BY <1>4, SuccessKeepsPrestart
<1>5. CASE StageFails
  BY <1>5 DEF StageFails
<1>6. CASE Report
  BY <1>6, ReportKeepsPrestart
<1>7. CASE TakeError
  BY <1>7 DEF TakeError
<1>8. CASE CancelPrestart
  BY <1>8 DEF CancelPrestart
<1>9. CASE UNCHANGED prestartVars
  BY <1>9 DEF prestartVars
<1>. QED  BY <1>1, <1>2, <1>3, <1>4, <1>5, <1>6, <1>7, <1>8, <1>9 DEF PrestartStep

-----------------------------------------------------------------------------
(* The log file *)

LEMMA FileBegins ==
  ASSUME LogFileInit
  PROVE  FilePart
<1>. USE LogFileAssumption DEF LogFileInit
<1>1. LogFileTypeOK
  <2>1. handling \in [Writers -> Lengths \cup {0}]
    OBVIOUS
  <2>2. total \in 0 .. Limit + 1 /\ size \in Nat
    OBVIOUS
  <2>. QED  BY <2>1, <2>2 DEF LogFileTypeOK
<1>2. FileInv
  BY DEF FileInv
<1>. QED  BY <1>1, <1>2 DEF FilePart

\* Either the count stays within the limit, and with it the file, or the message that
\* exceeds it finds an empty file.
LEMMA WriteKeepsFile ==
  ASSUME FilePart, NEW w \in Writers, WriteMessage(w)
  PROVE  FilePart'
<1>. DEFINE n == handling[w]
            before == IF Exceeds(n) THEN 0 ELSE size
<1>1. /\ n \in Lengths /\ n \in Nat
      /\ total \in Nat /\ total <= Limit + 1 /\ size \in Nat
      /\ Limit \in Nat /\ MaxExisting \in Nat
  <2>1. n \in Lengths
    BY DEF FilePart, LogFileTypeOK, WriteMessage
  <2>2. total \in 0 .. Limit + 1 /\ size \in Nat
    BY DEF FilePart, LogFileTypeOK
  <2>3. Limit \in Nat /\ MaxExisting \in Nat
    BY LogFileAssumption
  <2>4. n \in Nat
    BY <2>1, LogFileAssumption
  <2>5. total \in Nat /\ total <= Limit + 1
    BY <2>2, <2>3
  <2>. QED  BY <2>1, <2>2, <2>3, <2>4, <2>5
<1>2. PICK k \in 0 .. n : /\ size' = before + k
                          /\ total' = Counted(k)
                          /\ EndHandle(w)
  BY DEF WriteMessage, Append
<1>3. k \in Nat /\ k <= n
  BY <1>1, <1>2
<1>4. LogFileTypeOK'
  <2>1. total' \in 0 .. Limit + 1 /\ size' \in Nat
    BY <1>1, <1>2, <1>3 DEF Counted
  <2>2. handling' \in [Writers -> Lengths \cup {0}]
    BY <1>2 DEF EndHandle, FilePart, LogFileTypeOK
  <2>3. enabled' \in BOOLEAN /\ opened' \in BOOLEAN
    BY DEF WriteMessage, FilePart, LogFileTypeOK
  <2>. QED  BY <2>1, <2>2, <2>3 DEF LogFileTypeOK
<1>5. total' <= Limit => size' <= MaxExisting + total'
  BY <1>1, <1>2, <1>3 DEF Counted, Exceeds, FilePart, FileInv
<1>6. total' > Limit => size' <= n
  BY <1>1, <1>2, <1>3 DEF Counted, Exceeds
<1>. QED  BY <1>1, <1>4, <1>5, <1>6 DEF FilePart, FileInv

LEMMA FileKept ==
  ASSUME FilePart,
         \/ \E w \in Writers : HandleStep(w) \/ \E n \in Lengths : BeginHandle(w, n)
         \/ UNCHANGED fileVars
  PROVE  FilePart'
<1>1. CASE \E w \in Writers : HandleStep(w)
  <2>1. PICK w \in Writers : HandleStep(w)
    BY <1>1
  <2>2. CASE WriteMessage(w)
    BY <2>2, WriteKeepsFile
  <2>3. CASE OpenFails(w) \/ TruncateFails(w) \/ WriteNowhere(w)
    BY <2>3, LogFileAssumption
    DEF OpenFails, TruncateFails, WriteNowhere, EndHandle, FilePart, LogFileTypeOK, FileInv
  <2>. QED  BY <2>1, <2>2, <2>3 DEF HandleStep
<1>2. CASE \E w \in Writers : \E n \in Lengths : BeginHandle(w, n)
  BY <1>2 DEF BeginHandle, FilePart, LogFileTypeOK, FileInv
<1>3. CASE UNCHANGED fileVars
  BY <1>3 DEF fileVars, FilePart, LogFileTypeOK, FileInv
<1>. QED  BY <1>1, <1>2, <1>3

-----------------------------------------------------------------------------
(* Levels and calls *)

LEMMA CallsBegin ==
  ASSUME LogLevelsInit
  PROVE  CallPart
<1>1. LogLevelsTypeOK
  BY DEF LogLevelsInit, LogLevelsTypeOK
<1>2. CallInv
  BY DEF LogLevelsInit, CallInv
<1>. QED  BY <1>1, <1>2 DEF CallPart

\* A call that has reached a logger leaves it at the level it wants, and every call that
\* found another level there has come as far.
LEMMA ServerKeepsCalls ==
  ASSUME CallPart, NEW c \in RPCClients, ServerStep(c)
  PROVE  CallPart'
<1>0. LogLevelsTypeOK /\ CallInv /\ Want[c] \in Levels
  BY LogLevelsAssumption DEF CallPart
<1>1. CASE ChangeServiceLevel(c)
  <2>. USE <1>0, <1>1 DEF ChangeServiceLevel, SetLevel, callVars
  <2>1. LogLevelsTypeOK'
    BY DEF LogLevelsTypeOK, Roots
  <2>2. handler[c] = "received" /\ handler' = [handler EXCEPT ![c] = "between"]
    OBVIOUS
  <2>3. level'["service"] = Want[c] /\ level'["internal"] = level["internal"]
    BY DEF LogLevelsTypeOK, Roots
  <2>4. CallInv'
    BY <2>2, <2>3 DEF CallInv, LogLevelsTypeOK
  <2>. QED  BY <2>1, <2>4 DEF CallPart
<1>2. CASE ChangeInternalLevel(c)
  <2>. USE <1>0, <1>2 DEF ChangeInternalLevel, SetLevel, callVars
  <2>1. LogLevelsTypeOK'
    BY DEF LogLevelsTypeOK, Roots
  <2>2. handler[c] = "between" /\ handler' = [handler EXCEPT ![c] = "handled"]
    OBVIOUS
  <2>3. level'["internal"] = Want[c] /\ level'["service"] = level["service"]
    BY DEF LogLevelsTypeOK, Roots
  <2>4. CallInv'
    BY <2>2, <2>3 DEF CallInv, LogLevelsTypeOK
  <2>. QED  BY <2>1, <2>4 DEF CallPart
<1>3. CASE Reply(c)
  <2>. USE <1>0, <1>3 DEF Reply
  <2>1. LogLevelsTypeOK'
    BY DEF LogLevelsTypeOK
  <2>2. CallInv'
    BY DEF CallInv, LogLevelsTypeOK
  <2>. QED  BY <2>1, <2>2 DEF CallPart
<1>. QED  BY <1>1, <1>2, <1>3 DEF ServerStep

\* The steps of a client do not touch the loggers.
LEMMA ClientKeepsCalls ==
  ASSUME CallPart, NEW c \in RPCClients,
         ClientStep(c) \/ ChangeLogLevel(c) \/ ContextDone(c)
  PROVE  CallPart'
<1>. USE DEF CallPart, LogLevelsTypeOK, CallInv
<1>1. CASE TakeResult(c)
  BY <1>1 DEF TakeResult
<1>2. CASE TakeContext(c)
  BY <1>2 DEF TakeContext
<1>3. CASE Push(c)
  BY <1>3 DEF Push
<1>4. CASE ChangeLogLevel(c)
  BY <1>4 DEF ChangeLogLevel
<1>5. CASE ContextDone(c)
  BY <1>5 DEF ContextDone
<1>. QED  BY <1>1, <1>2, <1>3, <1>4, <1>5 DEF ClientStep

LEMMA CallsKept ==
  ASSUME CallPart, MakeChildren \/ UNCHANGED levelVars
  PROVE  CallPart'
<1>. USE DEF CallPart, LogLevelsTypeOK, CallInv, callVars
<1>1. CASE MakeChildren
  BY <1>1 DEF MakeChildren
<1>2. CASE UNCHANGED levelVars
  BY <1>2 DEF levelVars
<1>. QED  BY <1>1, <1>2

-----------------------------------------------------------------------------
(* The composition *)

LEMMA LoggingBegins == Init => LInv
<1>. SUFFICES ASSUME Init PROVE LInv
  OBVIOUS
<1>1. PrestartPart /\ FilePart /\ CallPart
  BY PrestartBegins, FileBegins, CallsBegin DEF Init
<1>2. StartInv /\ started \in BOOLEAN /\ signals \in {"watching", "context", "signal"}
  BY DEF Init, StartInv
<1>. QED  BY <1>1, <1>2 DEF LInv

\* Every message goes through Log.
LEMMA LogKeepsFile ==
  ASSUME FilePart, NEW w \in Writers, NEW current, NEW v, Log(w, current, v)
  PROVE  FilePart'
BY FileKept DEF Log

LEMMA LoggingKept == LInv /\ [Next]_vars => LInv'
<1>. SUFFICES ASSUME LInv, [Next]_vars PROVE LInv'
  OBVIOUS
<1>. USE DEF LInv
<1>a. {"start", "signals", "service"} \subseteq Writers
  BY DaemonLoggingAssumption
<1>b. ASSUME UNCHANGED <<place, errC, started>> PROVE StartInv'
  BY <1>b DEF StartInv
<1>1. CASE PipelineRuns
  <2>1. started /\ place = "done" => UNCHANGED <<place, errC>>
    BY <1>1 DEF PipelineRuns, PrestartStep, PrestartCancelled, Tick, RunStage,
       StageSucceeds, StageFails, Report
  <2>2. StartInv'
    BY <2>1, <1>1 DEF PipelineRuns, StartInv
  <2>3. PrestartPart'
    BY <1>1, PrestartKept DEF PipelineRuns
  <2>4. FilePart' /\ CallPart'
    BY <1>1, FileKept, CallsKept DEF PipelineRuns
  <2>. QED  BY <2>2, <2>3, <2>4, <1>1 DEF PipelineRuns
<1>2. CASE Cancel \/ SignalCancels
  <2>1. CancelPrestart /\ UNCHANGED <<fileVars, levelVars, started, signals>>
    BY <1>2 DEF Cancel, SignalCancels
  <2>2. StartInv'
    BY <2>1, <1>b DEF CancelPrestart
  <2>3. PrestartPart' /\ FilePart' /\ CallPart'
    BY <2>1, PrestartKept, FileKept, CallsKept
  <2>. QED  BY <2>1, <2>2, <2>3
<1>3. CASE StartLogsFailure
  <2>1. TakeError /\ UNCHANGED <<levelVars, started, signals>>
        /\ Log("start", level["internal"], ErrorLevel)
    BY <1>3 DEF StartLogsFailure
  <2>2. StartInv'
    BY <2>1 DEF TakeError, StartInv
  <2>3. PrestartPart' /\ CallPart'
    BY <2>1, PrestartKept, CallsKept
  <2>4. FilePart'
    BY <2>1, <1>a, LogKeepsFile
  <2>. QED  BY <2>1, <2>2, <2>3, <2>4
<1>4. CASE StartServices
  <2>1. StartInv' /\ started' \in BOOLEAN
    BY <1>4 DEF StartServices, StartInv, prestartVars
  <2>2. PrestartPart' /\ FilePart' /\ CallPart'
    BY <1>4, PrestartKept, FileKept, CallsKept DEF StartServices
  <2>. QED  BY <2>1, <2>2, <1>4 DEF StartServices
<1>5. CASE SeesContextDone \/ SeesSignal
  <2>1. UNCHANGED <<prestartVars, levelVars, started>>
        /\ signals' \in {"watching", "context", "signal"}
    BY <1>5 DEF SeesContextDone, SeesSignal
  <2>2. StartInv'
    BY <2>1, <1>b DEF prestartVars
  <2>3. PrestartPart' /\ CallPart'
    BY <2>1, PrestartKept, CallsKept
  <2>4. FilePart'
    BY <1>5, <1>a, LogKeepsFile DEF SeesContextDone, SeesSignal
  <2>. QED  BY <2>1, <2>2, <2>3, <2>4
<1>6. CASE ServiceBegins
  <2>1. StartInv'
    BY <1>6, <1>b DEF ServiceBegins, prestartVars
  <2>2. PrestartPart' /\ FilePart' /\ CallPart'
    BY <1>6, PrestartKept, FileKept, CallsKept DEF ServiceBegins
  <2>. QED  BY <2>1, <2>2, <1>6 DEF ServiceBegins
<1>7. CASE \E v \in Levels : ServiceLogs(v)
  <2>1. UNCHANGED <<prestartVars, levelVars, started, signals>>
    BY <1>7 DEF ServiceLogs
  <2>2. StartInv'
    BY <2>1, <1>b DEF prestartVars
  <2>3. PrestartPart' /\ CallPart'
    BY <2>1, PrestartKept, CallsKept
  <2>4. FilePart'
    BY <1>7, <1>a, LogKeepsFile DEF ServiceLogs
  <2>. QED  BY <2>1, <2>2, <2>3, <2>4
<1>8. CASE \E w \in Writers : Write(w)
  <2>1. UNCHANGED <<prestartVars, levelVars, started, signals>>
    BY <1>8 DEF Write
  <2>2. StartInv'
    BY <2>1, <1>b DEF prestartVars
  <2>3. PrestartPart' /\ CallPart'
    BY <2>1, PrestartKept, CallsKept
  <2>4. FilePart'
    BY <1>8, FileKept DEF Write
  <2>. QED  BY <2>1, <2>2, <2>3, <2>4
<1>9. CASE \E c \in RPCClients : ServerRuns(c) \/ ClientRuns(c) \/ ClientCalls(c)
  <2>1. PICK c \in RPCClients : ServerRuns(c) \/ ClientRuns(c) \/ ClientCalls(c)
    BY <1>9
  <2>2. UNCHANGED <<prestartVars, fileVars, started, signals>>
    BY <2>1 DEF ServerRuns, ClientRuns, ClientCalls
  <2>3. StartInv'
    BY <2>2, <1>b DEF prestartVars
  <2>4. PrestartPart' /\ FilePart'
    BY <2>2, PrestartKept, FileKept
  <2>5. CallPart'
    BY <2>1, ServerKeepsCalls, ClientKeepsCalls DEF ServerRuns, ClientRuns, ClientCalls
  <2>. QED  BY <2>2, <2>3, <2>4, <2>5
<1>10. CASE UNCHANGED vars
  <2>1. UNCHANGED <<prestartVars, fileVars, levelVars, started, signals>>
    BY <1>10 DEF vars
  <2>2. StartInv'
    BY <2>1, <1>b DEF prestartVars
  <2>3. PrestartPart' /\ FilePart' /\ CallPart'
    BY <2>1, PrestartKept, FileKept, CallsKept
  <2>. QED  BY <2>1, <2>2, <2>3
<1>. QED  BY <1>1, <1>2, <1>3, <1>4, <1>5, <1>6, <1>7, <1>8, <1>9, <1>10
          DEF Next, StartStep, SignalStep

\* The inductive invariant holds in every reachable state of the specification.
THEOREM LoggingInvariant == Spec => []LInv
BY LoggingBegins, LoggingKept, PTL DEF Spec

-----------------------------------------------------------------------------
(* What follows *)

\* Each variable of the pipeline, the file, the loggers and the calls keeps its type.
THEOREM LoggingTypes == Spec => []TypeOK
<1>1. LInv => TypeOK
  BY DEF LInv, PrestartPart, FilePart, CallPart, TypeOK
<1>. QED  BY <1>1, LoggingInvariant, PTL

\* Stages run in order, however many there are (daemon_prestart.go:73-109).
THEOREM StagesRunInOrder == Spec => []StagesInOrder
<1>1. LInv => StagesInOrder
  <2>. SUFFICES ASSUME LInv, place \in {"checking", "running"} PROVE StagesInOrder
    BY DEF StagesInOrder
  <2>1. PrestartInv /\ stage \in Nat /\ outcome[stage] = "none"
    BY DEF LInv, PrestartPart, PrestartTypeOK, PrestartInv
  <2>2. \A k \in Stages : k >= stage => k > stage \/ k = stage
    BY <2>1, PrestartAssumption DEF Stages
  <2>. QED  BY <2>1, <2>2 DEF StagesInOrder, PrestartInv
<1>. QED  BY <1>1, LoggingInvariant, PTL

\* The pipeline waits for ever only after its last stage failed without a restart
\* (daemon_prestart.go:69, 104-114).
THEOREM OneHang == Spec => []HangsOnlyAfterLastFailure
<1>1. LInv => HangsOnlyAfterLastFailure
  BY DEF LInv, PrestartPart
<1>. QED  BY <1>1, LoggingInvariant, PTL

\* The log file stays within its limit, whatever the limit, the lengths of messages and
\* the goroutines that log (daemon_log.go:67-81).
THEOREM FileBounded == Spec => []FileWithinLimit
<1>1. LInv => FileWithinLimit
  <2>. SUFFICES ASSUME LInv PROVE FileWithinLimit
    OBVIOUS
  <2>1. FileInv /\ total \in 0 .. Limit + 1 /\ size \in Nat
    BY DEF LInv, FilePart, LogFileTypeOK
  <2>2. CASE total <= Limit
    BY <2>1, <2>2, LogFileAssumption DEF FileInv, FileWithinLimit
  <2>3. CASE total > Limit
    BY <2>1, <2>3 DEF FileInv, FileWithinLimit
  <2>. QED  BY <2>1, <2>2, <2>3, LogFileAssumption
<1>. QED  BY <1>1, LoggingInvariant, PTL

\* A client's answer means that both loggers were set, for any number of clients
\* (daemon_rpc.go:68-72, pkg/rpc/client.go:62).
THEOREM AnswerIsTrue == Spec => []AnsweredMeansChanged
<1>1. LInv => AnsweredMeansChanged
  <2>. SUFFICES ASSUME LInv, NEW c \in RPCClients, client[c] = "answered"
                PROVE  \A r \in Roots : \E d \in RPCClients :
                         level[r] = Want[d] /\ handler[d] \notin {"none", "received"}
    BY DEF AnsweredMeansChanged
  <2>1. handler[c] = "replied"
    BY DEF LInv, CallPart, CallInv
  <2>. QED  BY <2>1 DEF LInv, CallPart, CallInv, Roots
<1>. QED  BY <1>1, LoggingInvariant, PTL

\* No service starts before the pipeline has ended and each of its reports was taken
\* (daemon.go:130-137).
THEOREM PrestartComesFirst == Spec => []ServicesAfterPrestart
<1>1. LInv => ServicesAfterPrestart
  BY DEF LInv, StartInv, PrestartPart, PrestartInv, ServicesAfterPrestart
<1>. QED  BY <1>1, LoggingInvariant, PTL
=============================================================================
