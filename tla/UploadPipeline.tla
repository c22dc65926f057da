--------------------------- MODULE UploadPipeline ---------------------------
(***************************************************************************)
(* One upload from negotiation to its last status: the http server         *)
(* (internal/upload, internal/transport), the client with its presigned    *)
(* URL, the workflow, the worker's activities and the two stores.          *)
(***************************************************************************)
EXTENDS UploadWorkflow

VARIABLES
    neg,        \* where Negotiate is
    url,        \* the presigned PUT URL the client holds
    puts,       \* PUTs the client has begun
    uploading,  \* bodies of PUTs still under way
    excused,    \* some POST /uploads/{id}/complete got its 200 for a NotFound
    shown       \* terminal statuses a poller of the row could have read

requestVars == <<neg, url, puts, uploading, excused>>
vars == <<storeVars, activityVars, workflowVars, requestVars, shown>>

Init ==
    /\ StoresInit
    /\ ActivitiesInit
    /\ WorkflowInit
    /\ neg = "create"
    /\ url = "none"
    /\ puts = 0
    /\ uploading = {}
    /\ excused = FALSE
    /\ shown = {}

-----------------------------------------------------------------------------
(***************************************************************************)
(* Service.Negotiate.  Each call can fail, or take effect without the http *)
(* server learning of it (or living to see it): the client gets a 500 or   *)
(* nothing, in either case no URL, and nothing is undone.                  *)
(***************************************************************************)
Negotiating(from, to) == neg = from /\ neg' = to /\ UNCHANGED <<puts, uploading, excused>>

CreateRecord ==
    /\ \/ Negotiating("create", "start") /\ WriteRow("pending")
       \/ Negotiating("create", "error") /\ WriteRowErrs("pending", 1)
    /\ UNCHANGED <<objectVars, activityVars, workflowVars, url>>

\* Mutant: the workflow is started beside the INSERT, not after it.
BugStartBeside ==
    /\ \/ Negotiating("start", "presign") /\ wf' = "started"
       \/ neg = "create" /\ wf = "none" /\ wf' = "started" /\ UNCHANGED <<neg, puts, uploading, excused>>
    /\ UNCHANGED <<storeVars, activityVars, signal, url>>

StartWorkflow ==
    /\ \/ Negotiating("start", "presign") /\ wf' = "started"
       \/ Negotiating("start", "error") /\ wf' \in {"none", "started"}
    /\ UNCHANGED <<storeVars, activityVars, signal, url>>

PresignURL ==
    /\ \/ Negotiating("presign", "done") /\ url' = "valid"
       \/ Negotiating("presign", "error") /\ UNCHANGED url
    /\ UNCHANGED <<storeVars, activityVars, workflowVars>>

Negotiate == CreateRecord \/ StartWorkflow \/ PresignURL

-----------------------------------------------------------------------------
(***************************************************************************)
(* The client.  It may PUT while the URL is valid, as often as it likes    *)
(* (MaxPuts bounds it); MinIO checks the URL when a PUT begins, so one     *)
(* that takes its time ends after the URL has expired.                     *)
(***************************************************************************)
BeginPut ==
    /\ url = "valid"
    /\ puts < MaxPuts
    /\ puts' = puts + 1
    /\ \E k \in Kinds : uploading' = uploading \cup {[put |-> puts + 1, kind |-> k]}
    /\ UNCHANGED <<storeVars, activityVars, workflowVars, neg, url, excused>>

EndPut ==
    /\ \E b \in uploading : original' = b /\ uploading' = uploading \ {b}
    /\ UNCHANGED <<rowVars, variant, lateDelete, latePut>>
    /\ UNCHANGED <<activityVars, workflowVars, neg, url, puts, excused>>

UrlExpires ==
    /\ url = "valid"
    /\ url' = "expired"
    /\ UNCHANGED <<storeVars, activityVars, workflowVars, neg, puts, uploading, excused>>

\* POST /uploads/{id}/complete: requireOwner needs the row.  An open execution
\* gets the signal, whether the caller learns of it or not; for any other the
\* service answers NotFound, which Orchestrator.Signal turns into a 200.
CompleteUpload ==
    /\ row # "none"
    /\ \/ DeliverSignal /\ UNCHANGED excused
       \/ wf \notin Open /\ excused' = TRUE /\ UNCHANGED workflowVars
    /\ UNCHANGED <<storeVars, activityVars, neg, url, puts, uploading>>

Client == BeginPut \/ EndPut \/ UrlExpires \/ CompleteUpload

-----------------------------------------------------------------------------
Workflow == (WorkflowTask \/ TimerFires) /\ UNCHANGED requestVars
Worker(t) == TaskStep(t) /\ UNCHANGED <<workflowVars, requestVars>>
Delayed == StoresLand /\ UNCHANGED <<activityVars, workflowVars, requestVars>>

Step == Negotiate \/ Client \/ Workflow \/ (\E t \in Tasks : Worker(t)) \/ Delayed

Next == Step /\ shown' = shown \cup ({row'} \cap Terminal)

SafeSpec == Init /\ [][Next]_vars

\* Temporal hands every workflow task and every activity attempt to some
\* worker, and fires the timer.  Nothing obliges a client to do anything.
Fairness ==
    /\ WF_vars(WorkflowTask /\ Next)
    /\ WF_vars(TimerFires /\ Next)
    /\ \A t \in Tasks : WF_vars(Worker(t) /\ Next)

Spec == SafeSpec /\ Fairness

-----------------------------------------------------------------------------
TypeOK ==
    /\ StoresTypeOK
    /\ ActivitiesTypeOK
    /\ WorkflowTypeOK
    /\ neg \in {"create", "start", "presign", "done", "error"}
    /\ url \in {"none", "valid", "expired"}
    /\ puts \in 0 .. MaxPuts
    /\ uploading \subseteq Bodies
    /\ excused \in BOOLEAN
    /\ shown \subseteq Terminal

(***************************************************************************)
(* Safety, with any store lagging.                                         *)
(***************************************************************************)
\* However attempts are retried, lost or applied late, no two pollers ever read
\* different final statuses: the branches of UploadWorkflow exclude each other.
OneVerdict == \A s, t \in shown : s = t

\* Once someone can have read "complete", the original and every resized object
\* are there to be fetched, for good: no deletion of Validate or Abandon is left.
CompleteMeansServed ==
    "complete" \in shown =>
        /\ original # NoObject
        /\ \A v \in Variants : variant[v] # NoObject

\* An upload that reads "rejected" or "abandoned" has no resized object, and no
\* Put of one is still under way that would make it appear later.
DeadUploadHasNoVariants ==
    shown \cap {"rejected", "abandoned"} # {} =>
        /\ \A v \in Variants : variant[v] = NoObject
        /\ latePut = {}

\* "failed" is the last resort: some resize has used up every attempt that its
\* RetryPolicy allows.
FailedMeansExhausted ==
    "failed" \in shown =>
        \E v \in Variants : act[v] = "err" /\ attempt[v] = MaxAttempts

\* A client that PUTs once gets what it sent: the resized objects of a complete
\* upload come from the original that is served, which passed both checks of
\* Validate.  (A second PUT while the URL is valid replaces the original unseen.)
SinglePutServed ==
    puts = 1 /\ "complete" \in shown =>
        /\ original.kind = "image"
        /\ \A v \in Variants : variant[v] = original

\* The activities whose futures the workflow function has still to collect.
Awaited ==
    CASE wf = "validating" -> {"validate"}
      [] wf = "processing" -> {"processing"}
      [] wf = "resizing"   -> Variants
      [] wf = "failing"    -> {"fail"}
      [] wf = "completing" -> {"complete"}
      [] wf = "abandoning" -> {"abandon"}
      [] OTHER             -> {}

\* The workflow waits for whatever runs, and for nothing that was never scheduled:
\* no resize is at work any more when Fail or Complete writes its status, nor any
\* activity when the workflow has returned.
WaitsForAll ==
    /\ \A t \in Tasks : Running(t) => t \in Awaited
    /\ \A t \in Awaited : act[t] # "idle"

\* The pipeline implements the promise made to the http server and to pollers.
\* The verdict is decided when the activity that will write it is scheduled, or
\* when Validate turns to reject; a Validate that fails without rejecting leaves
\* the upload as dead.  A signal that comes after the timer is not heard.
Verdict ==
    CASE act["complete"] # "idle" -> "complete"
      [] act["fail"] # "idle"     -> "failed"
      [] act["abandon"] # "idle"  -> "abandoned"
      [] act["validate"] \in {"delete", "verdict", "refuse", "err"} -> "rejected"
      [] OTHER                    -> "none"

Published == {v \in Variants : variant[v] # NoObject}

Started == wf # "none"
Heard == signal /\ act["abandon"] = "idle"

Lifecycle == INSTANCE UploadLifecycle WITH
                 status <- row, verdict <- Verdict, published <- Published,
                 started <- Started, signalled <- Heard

ImplementsLifecycle == Lifecycle!Spec

(***************************************************************************)
(* Safety when the stores apply a write before its caller gives up.        *)
(***************************************************************************)
\* The arrows of docs/architecture.md, "Status vocabulary".
Arrows == {<<"none", "pending">>, <<"pending", "validating">>, <<"pending", "abandoned">>,
           <<"validating", "processing">>, <<"validating", "rejected">>,
           <<"processing", "complete">>, <<"processing", "failed">>}

\* The row only moves along the arrows of the documented diagram, although
\* UpdateStatus never looks at the status it replaces.
StatusDiagram == [][row' # row => <<row, row'>> \in Arrows]_row

\* Once the workflow has a nil error from the activity that ends its branch, the
\* row holds that activity's status: no UPDATE has missed the row and no earlier
\* attempt's UPDATE has overwritten it.
ReportMeansStatus ==
    \A t \in {"complete", "fail", "abandon"} : act[t] = "ok" => row = StatusOf(t)

(***************************************************************************)
(* Promises of the documents and comments that the code does not keep.     *)
(***************************************************************************)
\* workflow.go:69, of a failed Validate: "Validate already set status
\* "rejected" and deleted the object".
FailedValidateIsRejected ==
    wf = "failed" /\ act["validate"] = "err" => row = "rejected"

\* orchestrator.go:32, of a NotFound: "the work is done, so we treat it as
\* success": the workflow had taken the signal of an earlier call.
ExcusedMeansDone ==
    excused /\ wf \in Closed => act["validate"] # "idle"

(***************************************************************************)
(* Liveness.                                                               *)
(***************************************************************************)
\* No workflow waits for ever: not for a client that never signals, nor for an
\* activity whose attempts all fail.
WorkflowCloses == wf # "none" ~> wf \in Closed

\* A signal that reaches the workflow while it waits is acted upon: the upload
\* is validated, whatever the timer does.
HeardSignalIsValidated == signal /\ wf \in Waiting ~> Finished("validate")
=============================================================================
