--------------------------- MODULE UploadWorkflow ---------------------------
(***************************************************************************)
(* UploadWorkflow (internal/pipeline/workflow.go): one Temporal workflow   *)
(* execution, which starts before the bytes exist, waits for the           *)
(* "upload-complete" signal or its timer, and drives the activities.       *)
(*                                                                         *)
(* A step here is a decision recorded in the execution's history.  The     *)
(* death of a worker loses none: another one replays the history, so a     *)
(* crash between two steps is no step of the specification.                *)
(***************************************************************************)
EXTENDS Activities

VARIABLES
    wf,      \* where the workflow function is
    signal   \* a signal is in the channel's buffer

workflowVars == <<wf, signal>>

\* "none": no execution; "started": its first workflow task is on the queue;
\* "select": blocked on the signal and the timer; then the activity it waits
\* for; "done" and "failed": the function returned nil or an error.
Waiting == {"started", "select"}
Deciding == {"validating", "processing", "resizing", "failing", "completing", "abandoning"}
Closed == {"done", "failed"}
Open == Waiting \cup Deciding

WorkflowInit == wf = "none" /\ signal = FALSE

Finished(t) == act[t] \in {"ok", "err"}

Goto(from, to) == wf = from /\ wf' = to /\ UNCHANGED <<signal, storeVars>>

Then(from, to, ts) == Goto(from, to) /\ Schedule(ts)

Return(from, to) == Goto(from, to) /\ UNCHANGED activityVars

\* The first workflow task starts the timer and blocks in Select.
BeginSelect == Return("started", "select")

\* Mutant: the resizes do not wait for Validate.
BugResizeUnvalidated == signal /\ Then("select", "validating", {"validate"} \cup Variants)

\* Select takes the signal; the timer is cancelled.
ReceiveSignal == signal /\ Then("select", "validating", {"validate"})

\* Mutant: a signal that is already in the history does not stop the timer.
BugTimerWins == Then("select", "abandoning", {"abandon"})

\* Select takes the timer: no signal precedes it in the history.
TimerFires == ~signal /\ Then("select", "abandoning", {"abandon"})

\* Mutant: every error ends in Fail.
BugFailRejected ==
    \/ act["validate"] = "ok"  /\ Then("validating", "processing", {"processing"})
    \/ act["validate"] = "err" /\ Then("validating", "failing", {"fail"})

\* Mutant: the error of Validate is ignored.
BugValidateIgnored == Finished("validate") /\ Then("validating", "processing", {"processing"})

\* Mutant: Processing runs beside the resizes.
BugProcessingBeside ==
    \/ act["validate"] = "ok"  /\ Then("validating", "resizing", {"processing"} \cup Variants)
    \/ act["validate"] = "err" /\ Return("validating", "failed")

AfterValidate ==
    \/ act["validate"] = "ok"  /\ Then("validating", "processing", {"processing"})
    \/ act["validate"] = "err" /\ Return("validating", "failed")

\* Mutant: Complete is one of the activities that are fanned out.
BugCompleteBeside ==
    \/ act["processing"] = "ok"  /\ Then("processing", "resizing", Variants \cup {"complete"})
    \/ act["processing"] = "err" /\ Return("processing", "failed")

AfterProcessing ==
    \/ act["processing"] = "ok"  /\ Then("processing", "resizing", Variants)
    \/ act["processing"] = "err" /\ Return("processing", "failed")

\* Mutant: the first error of a resize breaks the loop over the futures.
BugFirstError ==
    \/ (\A v \in Variants : act[v] = "ok")  /\ Then("resizing", "completing", {"complete"})
    \/ (\E v \in Variants : act[v] = "err") /\ Then("resizing", "failing", {"fail"})

\* The workflow collects every future before it looks at the errors.
AfterResize ==
    /\ \A v \in Variants : Finished(v)
    /\ \/ (\A v \in Variants : act[v] = "ok")  /\ Then("resizing", "completing", {"complete"})
       \/ (\E v \in Variants : act[v] = "err") /\ Then("resizing", "failing", {"fail"})

\* Mutant: the workflow waits for a Fail that succeeds.
BugFailMustSucceed == act["fail"] = "ok" /\ Return("failing", "failed")

\* The error of Fail is ignored, the error of the resize is returned.
AfterFail == Finished("fail") /\ Return("failing", "failed")

AfterComplete ==
    \/ act["complete"] = "ok"  /\ Return("completing", "done")
    \/ act["complete"] = "err" /\ Return("completing", "failed")

AfterAbandon ==
    \/ act["abandon"] = "ok"  /\ Return("abandoning", "done")
    \/ act["abandon"] = "err" /\ Return("abandoning", "failed")

\* A workflow task that is not the firing of the timer.
WorkflowTask ==
    \/ BeginSelect \/ ReceiveSignal
    \/ AfterValidate \/ AfterProcessing \/ AfterResize
    \/ AfterFail \/ AfterComplete \/ AfterAbandon

\* Another party's signal: it only ever fills the buffer.
DeliverSignal == wf \in Open /\ signal' = TRUE /\ UNCHANGED wf

WorkflowTypeOK ==
    /\ wf \in {"none"} \cup Open \cup Closed
    /\ signal \in BOOLEAN
=============================================================================
