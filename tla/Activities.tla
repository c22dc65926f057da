----------------------------- MODULE Activities -----------------------------
(***************************************************************************)
(* The activities of the worker (internal/pipeline/activities.go) under    *)
(* the retry policies of workflow.go.  The workflow runs each control      *)
(* activity at most once and one Resize per variant, so an activity        *)
(* execution is a task: a control name or a variant.                       *)
(*                                                                         *)
(* act[t] is "idle" until the workflow schedules t, then the store or      *)
(* image-service call the current attempt makes next, then "ok" or "err",  *)
(* the result recorded in the workflow's history.                          *)
(***************************************************************************)
EXTENDS Stores

Controls == {"validate", "processing", "complete", "fail", "abandon"}
Tasks == Controls \cup Variants

ASSUME TasksAssumption == Variants \cap Controls = {}

VARIABLES
    act,      \* where each task is
    attempt,  \* number of the attempt that runs, or ran last
    data      \* what the running Resize attempt of a variant downloaded

activityVars == <<act, attempt, data>>

Steps == {"status", "sniff", "head", "delete", "verdict", "refuse",
          "get", "call", "put", "reply"}
Running(t) == act[t] \in Steps

\* The calls of each activity.
StepsOf(t) == CASE t \in Variants  -> {"get", "call", "put", "reply"}
                [] t = "validate"  -> {"status", "sniff", "head", "delete", "verdict", "refuse", "reply"}
                [] t = "abandon"   -> {"delete", "status", "reply"}
                [] OTHER           -> {"status", "reply"}

MaximumAttempts(t) == IF t = "validate" THEN 1 ELSE MaxAttempts

\* The first call of an attempt.
FirstStep(t) == IF t \in Variants THEN "get"
                ELSE IF t = "abandon" THEN "delete"
                ELSE "status"

\* The status an activity writes.
StatusOf(t) == CASE t = "validate"   -> "validating"
                 [] t = "processing" -> "processing"
                 [] t = "complete"   -> "complete"
                 [] t = "fail"       -> "failed"
                 [] t = "abandon"    -> "abandoned"

ActivitiesInit ==
    /\ act = [t \in Tasks |-> "idle"]
    /\ attempt = [t \in Tasks |-> 1]
    /\ data = [v \in Variants |-> NoObject]

\* ExecuteActivity: the tasks of ts are put on the task queue.
Schedule(ts) ==
    /\ act' = [t \in Tasks |-> IF t \in ts THEN FirstStep(t) ELSE act[t]]
    /\ UNCHANGED <<attempt, data>>

Advance(t, from, to) ==
    /\ act[t] = from
    /\ act' = [act EXCEPT ![t] = to]
    /\ UNCHANGED attempt

(***************************************************************************)
(* Calls that succeed.                                                     *)
(***************************************************************************)
SetStatus(t) ==
    /\ t \in Controls
    /\ Advance(t, "status", IF t = "validate" THEN "sniff" ELSE "reply")
    /\ WriteRow(StatusOf(t))
    /\ UNCHANGED <<objectVars, data>>

\* GetFirstNBytes and DetectContentType.
SniffOriginal ==
    /\ original # NoObject
    /\ Advance("validate", "sniff",
               IF original.kind = "badtype" THEN "delete" ELSE "head")
    /\ UNCHANGED <<storeVars, data>>

\* Mutant: maxImageBytes is not compared with the size.
BugAnySize ==
    /\ original # NoObject
    /\ Advance("validate", "head", "reply")
    /\ UNCHANGED <<storeVars, data>>

\* Head, which may see another object than the one sniffed.
MeasureOriginal ==
    /\ original # NoObject
    /\ Advance("validate", "head",
               IF original.kind = "toolarge" THEN "delete" ELSE "reply")
    /\ UNCHANGED <<storeVars, data>>

\* The Delete of Abandon and of reject.  Both ignore its error: the next call
\* is made whatever became of this one.
RemoveOriginal(t) ==
    /\ t \in {"validate", "abandon"}
    /\ Advance(t, "delete", IF t = "validate" THEN "verdict" ELSE "status")
    /\ DeleteOriginalErrs(attempt[t])
    /\ UNCHANGED <<rowVars, data>>

\* The UpdateStatus of reject, whose error it ignores too.
SetRejected ==
    /\ Advance("validate", "verdict", "refuse")
    /\ WriteRowErrs("rejected", attempt["validate"])
    /\ UNCHANGED <<objectVars, data>>

GetOriginal(v) ==
    /\ original # NoObject
    /\ Advance(v, "get", "call")
    /\ data' = [data EXCEPT ![v] = original]
    /\ UNCHANGED storeVars

\* The gRPC call of the image service returns the resized bytes.
CallResizer(v) ==
    /\ data[v].kind \in {"image", "toolarge"}
    /\ Advance(v, "call", "put")
    /\ UNCHANGED <<storeVars, data>>

StoreVariant(v) ==
    /\ Advance(v, "put", "reply")
    /\ PutVariant(v, data[v])
    /\ UNCHANGED <<rowVars, data>>

\* The worker reports a nil error.
Succeed(t) ==
    /\ Advance(t, "reply", "ok")
    /\ UNCHANGED <<storeVars, data>>

\* The worker reports the non-retryable error of reject.
Refuse ==
    /\ Advance("validate", "refuse", "err")
    /\ UNCHANGED <<storeVars, data>>

(***************************************************************************)
(* An attempt that does not report success: a call returned an error, the  *)
(* worker died, StartToCloseTimeout passed, or the report was lost.  The   *)
(* call in progress has the effect it has; no later call of the attempt is *)
(* made, its context is done.  Temporal runs the task again or, after the  *)
(* last attempt, records the error.                                        *)
(***************************************************************************)
CallInDoubt(t) ==
    CASE act[t] = "status"  -> WriteRowErrs(StatusOf(t), attempt[t]) /\ UNCHANGED objectVars
      [] act[t] = "verdict" -> WriteRowErrs("rejected", attempt[t]) /\ UNCHANGED objectVars
      [] act[t] = "delete"  -> DeleteOriginalErrs(attempt[t]) /\ UNCHANGED rowVars
      [] act[t] = "put"     -> PutVariantErrs(t, attempt[t], data[t]) /\ UNCHANGED rowVars
      [] OTHER              -> UNCHANGED storeVars

\* Mutant: one retry too many.
BugRetryOnceMore(t) ==
    /\ attempt[t] <= MaximumAttempts(t)
    /\ attempt' = [attempt EXCEPT ![t] = @ + 1]
    /\ act' = [act EXCEPT ![t] = FirstStep(t)]

Retry(t) ==
    /\ attempt[t] < MaximumAttempts(t)
    /\ attempt' = [attempt EXCEPT ![t] = @ + 1]
    /\ act' = [act EXCEPT ![t] = FirstStep(t)]

\* Mutant: an error of the image service is not retried.
BugGiveUpOnResizer(t) ==
    /\ attempt[t] >= MaximumAttempts(t) \/ act[t] = "call"
    /\ act' = [act EXCEPT ![t] = "err"]
    /\ UNCHANGED attempt

GiveUp(t) ==
    /\ attempt[t] >= MaximumAttempts(t)
    /\ act' = [act EXCEPT ![t] = "err"]
    /\ UNCHANGED attempt

AttemptFails(t) ==
    /\ Running(t)
    /\ CallInDoubt(t)
    /\ Retry(t) \/ GiveUp(t)
    /\ data' = IF t \in Variants THEN [data EXCEPT ![t] = NoObject] ELSE data

ControlStep(t) ==
    \/ SetStatus(t)
    \/ RemoveOriginal(t)
    \/ t = "validate" /\ (SniffOriginal \/ MeasureOriginal \/ SetRejected \/ Refuse)

ResizeStep(v) == GetOriginal(v) \/ CallResizer(v) \/ StoreVariant(v)

\* One step of a worker on task t.
TaskStep(t) ==
    \/ t \in Controls /\ ControlStep(t)
    \/ t \in Variants /\ ResizeStep(t)
    \/ Succeed(t)
    \/ AttemptFails(t)

ActivitiesTypeOK ==
    /\ act \in [Tasks -> Steps \cup {"idle", "ok", "err"}]
    /\ \A t \in Tasks : Running(t) => act[t] \in StepsOf(t)
    /\ attempt \in [Tasks -> Attempts]
    /\ data \in [Variants -> Objects]
=============================================================================
