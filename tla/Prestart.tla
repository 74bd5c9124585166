------------------------------ MODULE Prestart ------------------------------
(***************************************************************************)
(* The prestart pipeline (daemon_prestart.go): a goroutine that runs the   *)
(* stages in order, reports each failure on a channel with room for one,   *)
(* and starts again after a delay or goes on, as it is configured.  Its    *)
(* channel is closed when it ends; daemon.Start reads until then.  The     *)
(* length of the delay is abstracted: an armed timer fires at some time.   *)
(***************************************************************************)
EXTENDS Naturals

CONSTANT NumStages      \* number of stages

ASSUME PrestartAssumption == NumStages \in Nat

Stages == 1 .. NumStages

VARIABLES
    restartOnError, \* PrestartConfig.RestartOnError, which never changes
    place,          \* where the pipeline's goroutine is
    stage,          \* the stage it is at
    outcome,        \* outcome[k]: what stage k returned in this attempt
    armed,          \* the timer will fire
    errC,           \* the failed stage in errC, 0 if it is empty
    cancelled       \* the context is done

prestartVars == <<restartOnError, place, stage, outcome, armed, errC, cancelled>>


\* Without stages the goroutine ends at once.
PrestartInit ==
    /\ restartOnError \in BOOLEAN
    /\ place = IF NumStages = 0 THEN "done" ELSE "waiting"
    /\ stage = 1
    /\ outcome = [k \in Stages |-> "none"]
    /\ armed = TRUE
    /\ errC = 0
    /\ cancelled = FALSE

\* A defect: a wait for the timer alone.
PrestartCancelledBeforeStage ==
    /\ cancelled /\ place = "checking"
    /\ place' = "done"
    /\ UNCHANGED <<restartOnError, stage, outcome, armed, errC, cancelled>>

\* Both selects see the context; the one before a stage must take it.
PrestartCancelled ==
    /\ cancelled /\ place \in {"waiting", "checking"}
    /\ place' = "done"
    /\ UNCHANGED <<restartOnError, stage, outcome, armed, errC, cancelled>>

Tick ==
    /\ place = "waiting" /\ armed
    /\ armed' = FALSE
    /\ place' = "checking" /\ stage' = 1
    /\ outcome' = [k \in Stages |-> "none"]
    /\ UNCHANGED <<restartOnError, errC, cancelled>>

RunStage ==
    /\ place = "checking" /\ ~cancelled
    /\ place' = "running"
    /\ UNCHANGED <<restartOnError, stage, outcome, armed, errC, cancelled>>

\* A defect: off by one.
GoOnPast(failed) ==
    IF stage <= NumStages
    THEN place' = "checking" /\ stage' = stage + 1
    ELSE place' = (IF failed THEN "waiting" ELSE "done") /\ UNCHANGED stage

\* The next stage, or the end of the attempt.
GoOn(failed) ==
    IF stage < NumStages
    THEN place' = "checking" /\ stage' = stage + 1
    ELSE place' = (IF failed THEN "waiting" ELSE "done") /\ UNCHANGED stage

StageSucceeds ==
    /\ place = "running"
    /\ outcome' = [outcome EXCEPT ![stage] = "ok"]
    /\ GoOn(FALSE)
    /\ UNCHANGED <<restartOnError, armed, errC, cancelled>>

StageFails ==
    /\ place = "running"
    /\ outcome' = [outcome EXCEPT ![stage] = "failed"]
    /\ place' = "reporting"
    /\ UNCHANGED <<restartOnError, stage, armed, errC, cancelled>>

\* Two defects: a failure does not end the attempt, or does not arm the timer.
ReportGoesOn ==
    /\ place = "reporting" /\ errC = 0
    /\ errC' = stage
    /\ armed' = restartOnError
    /\ GoOn(TRUE)
    /\ UNCHANGED <<restartOnError, outcome, cancelled>>
ReportUnarmed ==
    /\ place = "reporting" /\ errC = 0
    /\ errC' = stage
    /\ IF restartOnError THEN place' = "waiting" /\ UNCHANGED stage ELSE GoOn(TRUE)
    /\ UNCHANGED <<restartOnError, outcome, armed, cancelled>>

\* The send on errC; then the timer is armed for another attempt, or the next stage
\* follows.
Report ==
    /\ place = "reporting" /\ errC = 0
    /\ errC' = stage
    /\ IF restartOnError
       THEN place' = "waiting" /\ armed' = TRUE /\ UNCHANGED stage
       ELSE GoOn(TRUE) /\ UNCHANGED armed
    /\ UNCHANGED <<restartOnError, outcome, cancelled>>

\* daemon.Start takes a failure from the channel.
TakeError ==
    /\ errC # 0
    /\ errC' = 0
    /\ UNCHANGED <<restartOnError, place, stage, outcome, armed, cancelled>>

CancelPrestart ==
    /\ ~cancelled
    /\ cancelled' = TRUE
    /\ UNCHANGED <<restartOnError, place, stage, outcome, armed, errC>>

PrestartStep ==
    \/ PrestartCancelled \/ Tick \/ RunStage \/ StageSucceeds \/ StageFails \/ Report

-----------------------------------------------------------------------------

PrestartTypeOK ==
    /\ restartOnError \in BOOLEAN
    /\ place \in {"waiting", "checking", "running", "reporting", "done"}
    /\ stage \in Nat \ {0}
    /\ outcome \in [Stages -> {"none", "ok", "failed"}]
    /\ armed \in BOOLEAN
    /\ errC \in Stages \cup {0}
    /\ cancelled \in BOOLEAN

\* "The pipeline will run the stages in order": a stage runs only when every stage before
\* it has run in the same attempt, and has succeeded if failures restart the pipeline
\* (daemon_prestart.go:73-109).
StagesInOrder ==
    place \in {"checking", "running"} =>
        /\ \A k \in Stages : k < stage =>
             outcome[k] \in (IF restartOnError THEN {"ok"} ELSE {"ok", "failed"})
        /\ \A k \in Stages : k >= stage => outcome[k] = "none"

\* The pipeline waits for a timer that nobody armed in one case only: its last stage
\* failed and it is not to restart (daemon_prestart.go:69, 104-114).
HangsOnlyAfterLastFailure ==
    place = "waiting" /\ ~armed => ~restartOnError /\ outcome[NumStages] = "failed"
=============================================================================
