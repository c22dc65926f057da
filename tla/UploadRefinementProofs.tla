----------------------- MODULE UploadRefinementProofs -----------------------
(***************************************************************************)
(* UploadPipeline implements UploadLifecycle: every step of the pipeline   *)
(* is a step of the lifecycle a poller is promised, or does not concern it.*)
(***************************************************************************)
EXTENDS UploadPipelineProofs

\* The record is inserted once, before anything updates it.
Recorded ==
    /\ neg = "create" => row = "none" /\ lateRow = {}
    /\ neg \in {"start", "presign", "done"} \/ wf # "none" =>
           row # "none" /\ \A w \in lateRow : w.status # "pending"
    /\ (\E w \in lateRow : w.status = "pending") =>
           row = "none" /\ \A x, y \in lateRow : x = y

\* Validation is only ever scheduled by a signal, which stays in the buffer.
Asked == act["validate"] # "idle" => signal

RInv == IInv /\ Recorded /\ Asked

\* Once a workflow exists so does the record, and every UPDATE finds it.
LEMMA WorkerRecorded ==
  ASSUME IInv, Recorded, NEW t \in Tasks, TaskStep(t), UNCHANGED <<neg, wf>>
  PROVE  /\ Recorded'
         /\ row # "none"
  <1> USE TasksAssumption DEF Tasks, Controls
  <1>1. act[t] # "idle"
    BY TaskMoves DEF IInv, Steps
  <1>2. wf # "none"
    BY <1>1 DEF IInv, Flow
  <1>3. row # "none" /\ (\A w \in lateRow : w.status # "pending") /\ neg # "create"
    BY <1>2 DEF Recorded, IInv, Flow
  <1>4. ASSUME NEW s, s \notin {"none", "pending"}, NEW n, WriteRow(s) \/ WriteRowErrs(s, n)
        PROVE  row' # "none" /\ \A w \in lateRow' : w.status # "pending"
    BY <1>3, <1>4 DEF WriteRow, WriteRowErrs, Written, rowVars
  <1>5. row' # "none" /\ \A w \in lateRow' : w.status # "pending"
    <2>1. CASE UNCHANGED rowVars
      BY <1>3, <2>1 DEF rowVars
    <2>2. \A u \in Controls : StatusOf(u) \notin {"none", "pending"}
      BY DEF StatusOf
    <2>3. CASE t \in Controls /\ ControlStep(t)
      BY <1>4, <2>1, <2>2, <2>3
      DEF ControlStep, SetStatus, RemoveOriginal, SniffOriginal, MeasureOriginal, SetRejected,
          Refuse, storeVars, rowVars
    <2>4. CASE t \in Variants /\ ResizeStep(t)
      BY <2>1, <2>4 DEF ResizeStep, GetOriginal, CallResizer, StoreVariant, storeVars, rowVars
    <2>5. CASE Succeed(t)
      BY <2>1, <2>5 DEF Succeed, storeVars, rowVars
    <2>6. CASE AttemptFails(t)
      <3>1. Running(t) /\ CallInDoubt(t) /\ act[t] \in StepsOf(t)
        BY <2>6 DEF AttemptFails, IInv, TypeOK, ActivitiesTypeOK
      <3>2. CASE act[t] = "status"
        BY <1>4, <2>2, <3>1, <3>2 DEF CallInDoubt, StepsOf
      <3>3. CASE act[t] = "verdict"
        BY <1>4, <3>1, <3>3 DEF CallInDoubt
      <3>4. CASE act[t] \notin {"status", "verdict"}
        BY <2>1, <3>1, <3>4 DEF CallInDoubt, storeVars, rowVars
      <3> QED
        BY <3>2, <3>3, <3>4
    <2> QED
      BY <2>3, <2>4, <2>5, <2>6 DEF TaskStep
  <1> QED
    BY <1>3, <1>5 DEF Recorded

\* Every step keeps a row under a running workflow.
LEMMA StepRecorded ==
  ASSUME IInv, Recorded, [Next]_vars
  PROVE  Recorded'
  <1>1. CASE UNCHANGED <<neg, wf, row, lateRow>>
    BY <1>1 DEF Recorded
  <1>2. CASE CreateRecord
    <2>1. neg = "create" /\ neg' \in {"start", "error"} /\ UNCHANGED wf /\ wf = "none"
      BY <1>2 DEF CreateRecord, Negotiating, workflowVars, IInv, Flow
    <2>2. row = "none" /\ lateRow = {}
      BY <2>1 DEF Recorded
    <2> QED
      BY <1>2, <2>1, <2>2
      DEF CreateRecord, Negotiating, WriteRow, WriteRowErrs, Written, rowVars, Recorded
  <1>3. CASE StartWorkflow \/ PresignURL
    BY <1>3 DEF StartWorkflow, PresignURL, Negotiating, storeVars, workflowVars, Recorded
  <1>4. CASE Client
    BY <1>4 DEF Client, BeginPut, EndPut, UrlExpires, CompleteUpload, DeliverSignal, storeVars,
       rowVars, workflowVars, Recorded, Open, Waiting, Deciding
  <1>5. CASE Workflow
    <2>1. UNCHANGED <<neg, row, lateRow>>
      BY <1>5, WorkflowSchedules DEF IInv, storeVars, requestVars
    <2>2. wf # "none"
      BY <1>5 DEF Workflow, WorkflowTask, BeginSelect, ReceiveSignal, TimerFires, AfterValidate,
         AfterProcessing, AfterResize, AfterFail, AfterComplete, AfterAbandon, Then, Return, Goto
    <2> QED
      BY <2>1, <2>2 DEF Recorded
  <1>6. CASE \E t \in Tasks : Worker(t)
    BY <1>6, WorkerRecorded DEF Worker, workflowVars, requestVars
  <1>7. CASE Delayed
    <2>1. UNCHANGED <<neg, wf>>
      BY <1>7 DEF Delayed, requestVars, workflowVars
    <2>2. CASE LateRowLands
      <3>1. PICK w \in lateRow : row' = Written(w.status) /\ lateRow' = lateRow \ {w}
        BY <2>2 DEF LateRowLands
      <3>2. w.status # "none"
        BY DEF IInv, TypeOK, StoresTypeOK, RowWrites, Statuses, Terminal
      <3>3. CASE w.status = "pending"
        <4>1. lateRow' = {} /\ row' = "pending" /\ row = "none"
          BY <3>1, <3>3 DEF Recorded, Written
        <4> QED
          BY <2>1, <4>1 DEF Recorded
      <3>4. CASE w.status # "pending"
        BY <2>1, <3>1, <3>2, <3>4 DEF Recorded, Written
      <3> QED
        BY <3>3, <3>4
    <2>3. CASE LateDeleteLands \/ LatePutLands
      BY <1>1, <2>1, <2>3 DEF LateDeleteLands, LatePutLands
    <2> QED
      BY <1>7, <2>2, <2>3 DEF Delayed, StoresLand
  <1> QED
    BY <1>1, <1>2, <1>3, <1>4, <1>5, <1>6, <1>7
    DEF Next, Step, Negotiate, vars, storeVars, workflowVars, requestVars

\* The buffer is never emptied, and Validate waits for it to be filled.
LEMMA StepAsked ==
  ASSUME IInv, Asked, [Next]_vars
  PROVE  Asked' /\ (signal => signal')
  <1> USE TasksAssumption DEF Tasks, Controls, Asked
  <1>1. CASE UNCHANGED <<act, signal>>
    BY <1>1
  <1>2. CASE Negotiate
    BY <1>2 DEF Negotiate, CreateRecord, StartWorkflow, PresignURL, workflowVars, activityVars
  <1>3. CASE Client \/ Delayed
    BY <1>3 DEF Client, BeginPut, EndPut, UrlExpires, CompleteUpload, DeliverSignal, Delayed,
       workflowVars, activityVars
  <1>4. CASE Workflow
    <2>1. CASE ReceiveSignal
      BY <2>1 DEF ReceiveSignal, Then, Goto
    <2>2. CASE ~ReceiveSignal
      <3>1. UNCHANGED signal /\ act'["validate"] = act["validate"]
        BY <1>4, <2>2 DEF Workflow, WorkflowTask, BeginSelect, TimerFires, AfterValidate,
           AfterProcessing, AfterResize, AfterFail, AfterComplete, AfterAbandon, Then, Return,
           Goto, Schedule, activityVars, IInv, TypeOK, ActivitiesTypeOK
      <3> QED
        BY <3>1
    <2> QED
      BY <2>1, <2>2
  <1>5. CASE \E t \in Tasks : Worker(t)
    <2>1. PICK t \in Tasks : Worker(t)
      BY <1>5
    <2>2. UNCHANGED signal /\ TaskStep(t)
      BY <2>1 DEF Worker, workflowVars
    <2>3. act'["validate"] # "idle" => act["validate"] # "idle"
      BY <2>2, TaskMoves DEF IInv, Steps, TypeOK, ActivitiesTypeOK
    <2> QED
      BY <2>2, <2>3
  <1> QED
    BY <1>1, <1>2, <1>3, <1>4, <1>5 DEF Next, Step, vars, activityVars, workflowVars

-----------------------------------------------------------------------------
Rejecting == {"delete", "verdict", "refuse", "err"}

\* The verdict by the branch that has been taken.
Branch ==
    /\ act["complete"] # "idle" => Verdict = "complete"
    /\ act["fail"] # "idle" => Verdict = "failed"
    /\ act["abandon"] # "idle" => Verdict = "abandoned"
    /\ act["validate"] \in Rejecting => Verdict = "rejected"
    /\ /\ act["complete"] = "idle" /\ act["fail"] = "idle" /\ act["abandon"] = "idle"
       /\ act["validate"] \notin Rejecting
       => Verdict = "none"

\* The invariant makes the branches of the workflow exclude each other.
LEMMA VerdictOf == IInv => Branch
  <1> SUFFICES ASSUME IInv PROVE Branch
    OBVIOUS
  <1>1. /\ act["complete"] # "idle" => act["fail"] = "idle" /\ act["abandon"] = "idle"
                                       /\ act["validate"] = "ok"
        /\ act["fail"] # "idle" => act["abandon"] = "idle" /\ act["validate"] = "ok"
        /\ act["abandon"] # "idle" => act["validate"] = "idle"
    BY BranchesExclude DEF IInv, Order
  <1> QED
    BY <1>1 DEF Branch, Verdict, Rejecting

\* The same in the next state.
LEMMA VerdictOfNext == IInv' => Branch'
  BY VerdictOf, PTL

\* An upload that was validated is not abandoned, nor rejected if it passed.
LEMMA VerdictExcludes ==
  ASSUME IInv
  PROVE  /\ act["validate"] # "idle" => Verdict # "abandoned"
         /\ act["validate"] = "ok" => Verdict \notin {"rejected", "abandoned"}
         /\ \A v \in Variants : act[v] # "idle" => act["validate"] = "ok"
         /\ act["processing"] # "idle" => act["validate"] = "ok"
  BY VerdictOf DEF Branch, IInv, Order, Rejecting, Verdict

\* Every activity but Abandon is behind a signal that was heard.
Behind == \A u \in Tasks : act[u] # "idle" => Started /\ (Heard <=> u # "abandon")

\* The order of the activities leads back from each to Validate.
LEMMA SignalBehind == RInv => Behind
  <1> USE TasksAssumption DEF Tasks, Controls
  <1> SUFFICES ASSUME RInv, NEW u \in Tasks, act[u] # "idle"
               PROVE  Started /\ (Heard <=> u # "abandon")
    BY DEF Behind
  <1>1. Started
    BY DEF RInv, IInv, Flow, Started
  <1>2. u # "abandon" => act["validate"] # "idle"
    BY DEF RInv, IInv, Order
  <1>3. u # "abandon" => signal /\ act["abandon"] = "idle"
    BY <1>2 DEF RInv, IInv, Order, Asked
  <1> QED
    BY <1>1, <1>3 DEF Heard

\* The same in the next state.
LEMMA SignalBehindNext == RInv' => Behind'
  BY SignalBehind, PTL

\* A status that the row has had is the verdict, or precedes it on its branch.
OnBranch ==
    \A s \in {"validating", "processing"} \cup Terminal :
        Has(s) => \/ s = "validating" /\ Heard
                  \/ s = "processing" /\ Heard /\ Verdict \notin {"rejected", "abandoned"}
                  \/ s = Verdict

\* Every status anyone may read lies on the branch of the verdict.
LEMMA StatusOnBranch == RInv => OnBranch
  <1> SUFFICES ASSUME RInv, NEW s \in {"validating", "processing"} \cup Terminal, Has(s)
               PROVE  \/ s = "validating" /\ Heard
                      \/ s = "processing" /\ Heard /\ Verdict \notin {"rejected", "abandoned"}
                      \/ s = Verdict
    BY DEF OnBranch
  <1> USE DEF RInv, Tasks, Controls
  <1>1. CASE s = "validating"
    BY <1>1, SignalBehind DEF Behind, IInv, StatusOrigin
  <1>2. CASE s = "processing"
    BY <1>2, SignalBehind, VerdictExcludes DEF Behind, IInv, StatusOrigin, StatusOf
  <1>3. CASE s \in {"complete", "failed", "abandoned"}
    BY <1>3, VerdictOf DEF Branch, IInv, StatusOrigin, StatusOf
  <1>4. CASE s = "rejected"
    BY <1>4, VerdictOf DEF Branch, IInv, StatusOrigin, Rejecting
  <1> QED
    BY <1>1, <1>2, <1>3, <1>4 DEF Terminal

\* The same in the next state.
LEMMA StatusOnBranchNext == RInv' => OnBranch'
  BY StatusOnBranch, PTL

\* An UPDATE that reaches the record is a Show.
LEMMA RowShows ==
  ASSUME RInv', row' \in {"validating", "processing"} \cup Terminal,
         UNCHANGED <<Verdict, Published, Started, Heard>>
  PROVE  Lifecycle!Run
  <1>1. PICK s \in {"validating", "processing"} \cup Terminal : s = row'
    OBVIOUS
  <1>2. Has(s)'
    BY <1>1 DEF Has
  <1>3. Lifecycle!Show(s)
    BY <1>1, <1>2, StatusOnBranchNext
    DEF OnBranch, Lifecycle!Show, Lifecycle!Dead, Terminal
  <1> QED
    BY <1>3 DEF Lifecycle!Run, Lifecycle!Verdicts, Terminal

\* Validate does not turn back from rejecting.
LEMMA RejectingStays ==
  ASSUME IInv, NEW t \in Tasks, TaskStep(t), act["validate"] \in Rejecting
  PROVE  act'["validate"] \in Rejecting
  <1> USE TasksAssumption DEF Tasks, Controls, IInv, TypeOK, ActivitiesTypeOK, Rejecting
  <1>1. CASE t # "validate"
    BY <1>1, TaskMoves
  <1>2. CASE AttemptFails("validate")
    BY <1>2, BoundsAssumption DEF AttemptFails, Retry, GiveUp, MaximumAttempts, Attempts
  <1>3. CASE t = "validate" /\ ~AttemptFails(t)
    BY <1>3 DEF TaskStep, ControlStep, SetStatus, RemoveOriginal, SniffOriginal, MeasureOriginal,
       SetRejected, Refuse, Succeed, Advance
  <1> QED
    BY <1>1, <1>2, <1>3

\* What a worker's step does to the record.
LEMMA WorkerRow ==
  ASSUME IInv, row # "none", NEW t \in Tasks, TaskStep(t)
  PROVE  \/ UNCHANGED row
         \/ t \in Controls /\ act[t] = "status" /\ row' = StatusOf(t)
         \/ t = "validate" /\ act[t] = "verdict" /\ row' = "rejected"
  <1> USE TasksAssumption DEF Tasks, IInv, TypeOK, ActivitiesTypeOK, WriteRow, WriteRowErrs,
          Written, rowVars, storeVars
  <1>1. CASE t \in Controls /\ ControlStep(t)
    BY <1>1 DEF ControlStep, SetStatus, RemoveOriginal, SniffOriginal, MeasureOriginal, SetRejected,
       Refuse, Advance
  <1>2. CASE t \in Variants /\ ResizeStep(t)
    BY <1>2 DEF ResizeStep, GetOriginal, CallResizer, StoreVariant
  <1>3. CASE Succeed(t)
    BY <1>3 DEF Succeed
  <1>4. CASE AttemptFails(t)
    <2>1. Running(t) /\ CallInDoubt(t) /\ act[t] \in StepsOf(t)
      BY <1>4 DEF AttemptFails
    <2>2. CASE act[t] = "status"
      BY <2>1, <2>2 DEF CallInDoubt, StepsOf, Controls
    <2>3. CASE act[t] = "verdict"
      BY <2>1, <2>3 DEF CallInDoubt, StepsOf, Controls
    <2>4. CASE act[t] \notin {"status", "verdict"}
      BY <2>1, <2>4 DEF CallInDoubt
    <2> QED
      BY <2>2, <2>3, <2>4
  <1> QED
    BY <1>1, <1>2, <1>3, <1>4 DEF TaskStep

\* What a worker's step does to the resized objects.
LEMMA WorkerPublishes ==
  ASSUME IInv, NEW t \in Tasks, TaskStep(t)
  PROVE  \/ UNCHANGED Published
         \/ t \in Variants /\ Published' = Published \cup {t} /\ UNCHANGED row
  <1> USE TasksAssumption DEF Tasks, Controls, IInv, TypeOK, ActivitiesTypeOK, StoresTypeOK
  <1>1. CASE UNCHANGED variant
    BY <1>1 DEF Published
  <1>2. ASSUME t \in Variants, act[t] = "put", PutVariant(t, data[t]), UNCHANGED rowVars
        PROVE  t \in Variants /\ Published' = Published \cup {t} /\ UNCHANGED row
    BY <1>2, BodyIsObject DEF PutVariant, Published, Downloaded, rowVars
  <1>3. CASE t \in Controls /\ ControlStep(t)
    BY <1>1, <1>3 DEF ControlStep, SetStatus, RemoveOriginal, SniffOriginal, MeasureOriginal,
       SetRejected, Refuse, Advance, DeleteOriginalErrs, DeleteOriginal, storeVars, objectVars
  <1>4. CASE t \in Variants /\ ResizeStep(t)
    BY <1>1, <1>2, <1>4
    DEF ResizeStep, GetOriginal, CallResizer, StoreVariant, Advance, storeVars
  <1>5. CASE Succeed(t)
    BY <1>1, <1>5 DEF Succeed, storeVars
  <1>6. CASE AttemptFails(t)
    <2>1. Running(t) /\ CallInDoubt(t) /\ act[t] \in StepsOf(t)
      BY <1>6 DEF AttemptFails
    <2>2. CASE act[t] = "put"
      BY <1>1, <1>2, <2>1, <2>2 DEF CallInDoubt, StepsOf, PutVariantErrs, objectVars
    <2>3. CASE act[t] # "put"
      BY <1>1, <2>1, <2>3 DEF CallInDoubt, DeleteOriginalErrs, DeleteOriginal, storeVars, objectVars
    <2> QED
      BY <2>2, <2>3
  <1> QED
    BY <1>3, <1>4, <1>5, <1>6 DEF TaskStep

\* The verdict only depends on which branches have been entered.
LEMMA VerdictStays ==
  ASSUME \A u \in {"complete", "fail", "abandon"} : act'[u] = "idle" <=> act[u] = "idle",
         act'["validate"] \in Rejecting <=> act["validate"] \in Rejecting
  PROVE  UNCHANGED Verdict
  BY DEF Verdict, Rejecting

\* A worker's step is a Publish, a Decide, a Show or a stutter.
LEMMA WorkerRefines ==
  ASSUME RInv, RInv', NEW t \in Tasks, TaskStep(t), UNCHANGED <<neg, wf, signal>>
  PROVE  Lifecycle!Run \/ UNCHANGED Lifecycle!vars
  <1> USE TasksAssumption DEF Tasks, Controls
  <1>1. act[t] \in Steps /\ act'[t] # "idle" /\ \A u \in Tasks \ {t} : act'[u] = act[u]
    BY TaskMoves DEF Steps, RInv, IInv, TypeOK, ActivitiesTypeOK
  <1>2. row # "none"
    BY WorkerRecorded DEF RInv
  <1>3. row' = row \/ row' \in {"validating", "processing"} \cup Terminal
    BY <1>2, WorkerRow DEF RInv, StatusOf, Terminal
  <1>6. UNCHANGED <<Started, Heard>>
    BY <1>1 DEF Started, Heard, Steps
  <1>7. Started /\ (Heard <=> t # "abandon")
    BY <1>1, SignalBehind DEF Behind, Steps
  <1>4. CASE t = "validate" /\ act[t] \notin Rejecting /\ act'[t] \in Rejecting
    <2>1. Verdict = "none" /\ Published = {} /\ Published' = Published
      <3>1. act["validate"] # "ok" /\ act["validate"] # "idle"
        BY <1>1, <1>4 DEF Steps
      <3>2. \A v \in Variants : variant[v] = NoObject
        BY <3>1 DEF RInv, IInv, VariantOrigin, Order
      <3>3. act["complete"] = "idle" /\ act["fail"] = "idle" /\ act["abandon"] = "idle"
        BY <3>1, BranchesExclude DEF RInv, IInv, Order
      <3> QED
        BY <1>4, <3>2, <3>3, VerdictOf, WorkerPublishes DEF Branch, RInv, Published
    <2>2. Verdict' = "rejected"
      BY <1>1, <1>4, <2>1 DEF Verdict, Rejecting
    <2>3. row' = row \/ row' = "validating"
      BY <1>2, <1>4, WorkerRow DEF RInv, StatusOf, Rejecting
    <2>4. Lifecycle!Decide("rejected")
      BY <1>4, <1>6, <1>7, <2>1, <2>2, <2>3 DEF Lifecycle!Decide, Lifecycle!Dead
    <2> QED
      BY <2>4 DEF Lifecycle!Run, Lifecycle!Verdicts
  <1>5. CASE ~(t = "validate" /\ act[t] \notin Rejecting /\ act'[t] \in Rejecting)
    <2>1. act'["validate"] \in Rejecting <=> act["validate"] \in Rejecting
      BY <1>1, <1>5, RejectingStays DEF RInv
    <2>2. UNCHANGED Verdict
      BY <1>1, <2>1, VerdictStays DEF Steps
    <2>3. CASE UNCHANGED Published /\ row' # row
      BY <1>3, <1>6, <2>2, <2>3, RowShows
    <2>4. CASE t \in Variants /\ Published' = Published \cup {t} /\ UNCHANGED row
      <3>1. act["validate"] = "ok"
        BY <1>1, <2>4, VerdictExcludes DEF RInv, Steps
      <3>2. Lifecycle!Publish(t)
        BY <1>6, <1>7, <2>2, <2>4, <3>1, VerdictExcludes, TasksAssumption
        DEF Lifecycle!Publish, Lifecycle!Dead, RInv
      <3> QED
        BY <2>4, <3>2 DEF Lifecycle!Run
    <2>5. CASE UNCHANGED Published /\ row' = row
      BY <1>6, <2>2, <2>5 DEF Lifecycle!vars
    <2> QED
      BY <2>3, <2>4, <2>5, WorkerPublishes DEF RInv
  <1> QED
    BY <1>4, <1>5

\* The workflow decides: it enters a branch that no other has been entered before.
LEMMA WorkflowRefines ==
  ASSUME RInv, RInv', Workflow
  PROVE  Lifecycle!Run \/ UNCHANGED Lifecycle!vars
  <1> USE TasksAssumption DEF Tasks, Controls
  <1>1. UNCHANGED <<row, Published>>
    BY WorkflowSchedules DEF RInv, IInv, storeVars, Published
  <1>2. \A u \in Tasks : \/ act'[u] = act[u]
                         \/ act[u] = "idle" /\ act'[u] = FirstStep(u)
    BY WorkflowSchedules DEF RInv, IInv
  <1>3. act'["validate"] \in Rejecting <=> act["validate"] \in Rejecting
    BY <1>2 DEF FirstStep, Rejecting
  <1>6. wf # "none" /\ wf' # "none" /\ UNCHANGED signal
    BY DEF Workflow, WorkflowTask, BeginSelect, ReceiveSignal, TimerFires, AfterValidate,
       AfterProcessing, AfterResize, AfterFail, AfterComplete, AfterAbandon, Then, Return, Goto
  <1>7. Started /\ UNCHANGED Started
    BY <1>6 DEF Started
  <1>4. CASE \A u \in {"complete", "fail", "abandon"} : act'[u] = "idle" <=> act[u] = "idle"
    <2>1. UNCHANGED Heard
      BY <1>4, <1>6 DEF Heard
    <2> QED
      BY <1>1, <1>3, <1>4, <1>7, <2>1, VerdictStays DEF Lifecycle!vars
  <1>5. ASSUME NEW u \in {"complete", "fail", "abandon"}, act[u] = "idle", act'[u] # "idle"
        PROVE  Lifecycle!Run
    <2>1. act["complete"] = "idle" /\ act["fail"] = "idle" /\ act["abandon"] = "idle"
            /\ act["validate"] \notin Rejecting
      BY <1>5 DEF Workflow, WorkflowTask, BeginSelect, ReceiveSignal, TimerFires, AfterValidate,
         AfterProcessing, AfterResize, AfterFail, AfterComplete, AfterAbandon, Then, Return, Goto,
         Schedule, activityVars, RInv, IInv, Flow, Order, Rejecting
    <2>2. Verdict = "none"
      BY <2>1, VerdictOf DEF Branch, RInv
    <2>3. Verdict' = StatusOf(u)
      BY <1>5, VerdictOfNext DEF Branch, RInv, StatusOf
    <2>4. u = "complete" => Published = Variants
      <3>1. u = "complete" => \A v \in Variants : act'[v] = "ok" /\ act[v] = "ok"
        BY <1>2, <1>5 DEF RInv, IInv, Order, FirstStep
      <3> QED
        BY <3>1 DEF RInv, IInv, VariantOrigin, Published
    <2>5. u = "abandon" => Published = {}
      <3>1. u = "abandon" => \A v \in Variants : act'[v] = "idle" /\ act[v] = "idle"
        BY <1>2, <1>5 DEF RInv, IInv, Order, FirstStep
      <3> QED
        BY <3>1 DEF RInv, IInv, VariantOrigin, Published
    <2>7. UNCHANGED Heard /\ (Heard <=> u # "abandon")
      <3>1. Heard' <=> u # "abandon"
        BY <1>5, SignalBehindNext DEF Behind
      <3>2. CASE u = "abandon"
        <4>1. TimerFires
          BY <1>5, <3>2 DEF Workflow, WorkflowTask, BeginSelect, ReceiveSignal, AfterValidate,
             AfterProcessing, AfterResize, AfterFail, AfterComplete, AfterAbandon, Then, Return,
             Schedule, activityVars, RInv, IInv, TypeOK, ActivitiesTypeOK
        <4> QED
          BY <3>1, <3>2, <4>1 DEF TimerFires, Heard
      <3>3. CASE u # "abandon"
        BY <1>6, <2>1, <3>1, <3>3 DEF Heard
      <3> QED
        BY <3>1, <3>2, <3>3
    <2>6. Lifecycle!Decide(StatusOf(u))
      BY <1>1, <1>7, <2>2, <2>3, <2>4, <2>5, <2>7 DEF Lifecycle!Decide, Lifecycle!Dead, StatusOf
    <2> QED
      BY <2>6 DEF Lifecycle!Run, Lifecycle!Verdicts, StatusOf
  <1> QED
    BY <1>2, <1>4, <1>5 DEF FirstStep

\* A delayed write is a Record, a Show, a Publish or a stutter.
LEMMA DelayedRefines ==
  ASSUME RInv, RInv', Delayed
  PROVE  Lifecycle!Record \/ Lifecycle!Run \/ UNCHANGED Lifecycle!vars
  <1>1. UNCHANGED <<Verdict, Started, Heard>>
    BY DEF Delayed, activityVars, workflowVars, Verdict, Started, Heard
  <1>2. CASE LateRowLands
    <2>1. PICK w \in lateRow : row' = Written(w.status)
      BY <1>2 DEF LateRowLands
    <2>2. UNCHANGED Published
      BY <1>2 DEF LateRowLands, objectVars, Published
    <2>3. CASE w.status = "pending"
      <3>1. row = "none" /\ row' = "pending"
        BY <2>1, <2>3 DEF RInv, Recorded, Written
      <3> QED
        BY <1>1, <2>2, <3>1 DEF Lifecycle!Record
    <2>4. CASE w.status # "pending" /\ row # "none"
      <3>1. row' \in {"validating", "processing"} \cup Terminal
        BY <2>1, <2>4 DEF RInv, IInv, TypeOK, StoresTypeOK, RowWrites, Statuses, Written
      <3> QED
        BY <1>1, <2>2, <3>1, RowShows
    <2>5. CASE w.status # "pending" /\ row = "none"
      BY <1>1, <2>1, <2>2, <2>5 DEF Written, Lifecycle!vars
    <2> QED
      BY <2>3, <2>4, <2>5
  <1>3. CASE LateDeleteLands
    BY <1>1, <1>3 DEF LateDeleteLands, Published, Lifecycle!vars
  <1>4. CASE LatePutLands
    <2>1. PICK w \in latePut : variant' = [variant EXCEPT ![w.variant] = w.body]
      BY <1>4 DEF LatePutLands
    <2>2. w.variant \in Variants /\ w.body # NoObject
      BY BodyIsObject DEF RInv, IInv, TypeOK, StoresTypeOK, VariantPuts
    <2>3. Published' = Published \cup {w.variant} /\ UNCHANGED row
      BY <1>4, <2>1, <2>2 DEF LatePutLands, Published, RInv, IInv, TypeOK, StoresTypeOK
    <2>4. act["validate"] = "ok" /\ Heard
      BY <2>2, VerdictExcludes, SignalBehind, TasksAssumption
      DEF RInv, IInv, VariantOrigin, Behind, Tasks, Controls
    <2>5. Lifecycle!Publish(w.variant)
      BY <1>1, <2>3, <2>4, VerdictExcludes DEF Lifecycle!Publish, Lifecycle!Dead, RInv
    <2> QED
      BY <2>2, <2>5 DEF Lifecycle!Run
  <1> QED
    BY <1>2, <1>3, <1>4 DEF Delayed, StoresLand

\* A signal is heard once, before the verdict, or changes nothing.
LEMMA CompleteRefines ==
  ASSUME RInv, CompleteUpload
  PROVE  Lifecycle!Hear \/ UNCHANGED Lifecycle!vars
  <1> USE DEF RInv
  <1>1. /\ UNCHANGED <<row, act, variant, wf>>
        /\ UNCHANGED signal \/ (signal' = TRUE /\ wf # "none")
    BY DEF CompleteUpload, DeliverSignal, Open, Waiting, Deciding, storeVars, rowVars, activityVars,
       workflowVars
  <1>2. UNCHANGED <<Verdict, Published, Started>>
    BY <1>1 DEF Verdict, Published, Started
  <1>3. CASE UNCHANGED Heard
    BY <1>1, <1>2, <1>3 DEF Lifecycle!vars
  <1>4. CASE Heard' # Heard
    <2>1. Started /\ ~signal /\ signal' = TRUE /\ act["abandon"] = "idle"
      BY <1>1, <1>4 DEF Heard, Started, IInv, TypeOK, WorkflowTypeOK
    <2>2. act["validate"] = "idle"
      BY <2>1 DEF Asked
    <2>3. act["complete"] = "idle" /\ act["fail"] = "idle"
      BY <2>2 DEF IInv, Order
    <2>4. Verdict = "none"
      BY <2>1, <2>2, <2>3, VerdictOf DEF Branch, Rejecting
    <2>5. Heard' = TRUE
      BY <1>1, <2>1 DEF Heard
    <2> QED
      BY <1>1, <1>2, <2>1, <2>4, <2>5 DEF Lifecycle!Hear
  <1> QED
    BY <1>3, <1>4

\* The http server and the client only record, start and signal.
LEMMA RequestRefines ==
  ASSUME RInv, Negotiate \/ Client
  PROVE  Lifecycle!Record \/ Lifecycle!Start \/ Lifecycle!Hear \/ UNCHANGED Lifecycle!vars
  <1>1. CASE UNCHANGED <<row, act, variant, wf, signal>>
    BY <1>1 DEF Lifecycle!vars, Verdict, Published, Started, Heard
  <1>2. CASE CreateRecord
    <2>1. row = "none" /\ row' \in {"none", "pending"}
      BY <1>2 DEF CreateRecord, Negotiating, WriteRow, WriteRowErrs, Written, rowVars, RInv, Recorded
    <2>2. UNCHANGED <<act, variant, Verdict, Published, Started, Heard>>
      BY <1>2 DEF CreateRecord, objectVars, activityVars, workflowVars, Verdict, Published, Started,
         Heard
    <2> QED
      BY <2>1, <2>2 DEF Lifecycle!Record, Lifecycle!vars
  <1>3. CASE StartWorkflow
    <2>1. UNCHANGED <<row, act, variant, signal, Verdict, Published, Heard>>
      BY <1>3 DEF StartWorkflow, storeVars, rowVars, activityVars, Verdict, Published, Heard
    <2>2. row # "none" /\ wf = "none"
      BY <1>3 DEF StartWorkflow, Negotiating, RInv, Recorded, IInv, Flow
    <2>3. Started' = TRUE \/ Started' = Started
      BY <1>3, <2>2 DEF StartWorkflow, Started
    <2> QED
      BY <2>1, <2>2, <2>3 DEF Lifecycle!Start, Lifecycle!vars
  <1>7. CASE PresignURL \/ BeginPut \/ EndPut \/ UrlExpires
    BY <1>1, <1>7
    DEF PresignURL, BeginPut, EndPut, UrlExpires, storeVars, rowVars, activityVars, workflowVars
  <1>8. CASE CompleteUpload
    BY <1>8, CompleteRefines
  <1> QED
    BY <1>2, <1>3, <1>7, <1>8 DEF Negotiate, Client

\* Every step of the pipeline is a step of the lifecycle or a stutter.
LEMMA StepRefines ==
  ASSUME RInv, RInv', [Next]_vars
  PROVE  [Lifecycle!Next]_(Lifecycle!vars)
  <1>1. CASE UNCHANGED <<row, act, variant, wf, signal>>
    BY <1>1 DEF Lifecycle!vars, Verdict, Published, Started, Heard
  <1>2. CASE Negotiate \/ Client
    BY <1>2, RequestRefines DEF Lifecycle!Next
  <1>4. CASE Workflow
    BY <1>4, WorkflowRefines DEF Lifecycle!Next
  <1>5. CASE \E t \in Tasks : Worker(t)
    BY <1>5, WorkerRefines DEF Worker, workflowVars, requestVars, Lifecycle!Next
  <1>6. CASE Delayed
    BY <1>6, DelayedRefines DEF Lifecycle!Next
  <1> QED
    BY <1>1, <1>2, <1>4, <1>5, <1>6
    DEF Next, Step, vars, storeVars, rowVars, activityVars, workflowVars

LEMMA RInvariance == SafeSpec => []RInv
  <1>1. Init => RInv
    BY InitIInv DEF Init, StoresInit, ActivitiesInit, WorkflowInit, RInv, Recorded, Asked, Tasks,
       Controls
  <1>2. RInv /\ [Next]_vars => RInv'
    BY StepIInv, StepRecorded, StepAsked DEF RInv
  <1> QED
    BY <1>1, <1>2, PTL DEF SafeSpec

\* Each side of the lifecycle takes its own steps only: what Temporal and the
\* workers do is Run, which HttpApi lets happen between the steps of its handlers;
\* what the http server and the client do is what HttpApi's handlers do.
KeepsSides ==
    /\ Workflow \/ (\E t \in Tasks : Worker(t)) => Lifecycle!Run \/ UNCHANGED Lifecycle!vars
    /\ Negotiate \/ Client =>
           Lifecycle!Record \/ Lifecycle!Start \/ Lifecycle!Hear \/ UNCHANGED Lifecycle!vars

THEOREM SidesAreKept == SafeSpec => [][KeepsSides]_vars
  <1>1. RInv /\ RInv' => KeepsSides
    BY WorkflowRefines, WorkerRefines, RequestRefines
    DEF KeepsSides, Worker, workflowVars, requestVars
  <1> QED
    BY <1>1, RInvariance, PTL

\* ImplementsLifecycle: the pipeline keeps the promise made to pollers.
THEOREM Refinement == SafeSpec => ImplementsLifecycle
  <1>1. Init => Lifecycle!Init
    BY DEF Init, StoresInit, ActivitiesInit, WorkflowInit, Lifecycle!Init, Verdict, Published,
       Started, Heard, Tasks, Controls
  <1>2. RInv /\ RInv' /\ [Next]_vars => [Lifecycle!Next]_(Lifecycle!vars)
    BY StepRefines
  <1> QED
    BY <1>1, <1>2, RInvariance, PTL DEF SafeSpec, ImplementsLifecycle, Lifecycle!Spec
=============================================================================
