------------------------ MODULE UploadPipelineProofs ------------------------
(***************************************************************************)
(* Theorems of UploadPipeline, for every set of variants, every number of  *)
(* attempts and PUTs, and whichever stores lag.                            *)
(***************************************************************************)
EXTENDS UploadPipeline, TLAPS

\* What a Resize attempt works on once its download has returned.
Downloaded ==
    \A v \in Variants : act[v] \in {"call", "put"} => data[v] \in Bodies

\* Where the workflow is tells which activities it has not scheduled yet.
Flow ==
    /\ neg \in {"create", "start"} => wf = "none"
    /\ wf \in {"none", "started", "select"} => \A t \in Tasks : act[t] = "idle"
    /\ wf = "validating" => \A t \in Tasks \ {"validate"} : act[t] = "idle"
    /\ wf = "processing" => \A t \in Tasks \ {"validate", "processing"} : act[t] = "idle"
    /\ wf = "resizing" => /\ act["processing"] = "ok"
                          /\ \A t \in {"complete", "fail", "abandon"} : act[t] = "idle"

\* A scheduled activity tells the results of those before it.
Order ==
    /\ act["processing"] # "idle" => act["validate"] = "ok"
    /\ \A v \in Variants : act[v] # "idle" => act["processing"] = "ok"
    /\ act["complete"] # "idle" => \A v \in Variants : act[v] = "ok"
    /\ act["fail"] # "idle" => \E v \in Variants : act[v] = "err"
    /\ act["complete"] # "idle" \/ act["fail"] # "idle" => act["processing"] = "ok"
    /\ act["abandon"] # "idle" => act["validate"] = "idle"

\* A status that was read, or may be read later, was written by its activity.
Has(s) == row = s \/ s \in shown \/ \E w \in lateRow : w.status = s

StatusOrigin ==
    /\ Has("validating") => act["validate"] # "idle"
    /\ \A t \in {"processing", "complete", "fail", "abandon"} :
           Has(StatusOf(t)) => act[t] # "idle"
    /\ Has("rejected") => act["validate"] \in {"refuse", "err"}

\* The original of an upload that passed its checks is never deleted.
OriginalKept ==
    /\ act["validate"] \in {"head", "reply", "ok"} => original # NoObject
    /\ lateDelete # {} => \/ act["validate"] \in {"verdict", "refuse", "err"}
                          \/ act["abandon"] # "idle"

\* A resized object comes from its Resize, which stores it before it reports.
VariantOrigin ==
    /\ \A v \in Variants : variant[v] # NoObject => act[v] # "idle"
    /\ \A w \in latePut : act[w.variant] # "idle"
    /\ \A v \in Variants : act[v] \in {"reply", "ok"} => variant[v] # NoObject

\* A Resize whose error is recorded has had all its attempts.
Exhausted == \A v \in Variants : act[v] = "err" => attempt[v] = MaxAttempts

\* The strengthening of the safety properties that every step preserves.
IInv ==
    /\ TypeOK
    /\ Downloaded
    /\ Flow
    /\ Order
    /\ StatusOrigin
    /\ OriginalKept
    /\ VariantOrigin
    /\ Exhausted

-----------------------------------------------------------------------------
(***************************************************************************)
(* Type correctness.                                                       *)
(***************************************************************************)
LEMMA BodyIsObject == Bodies \subseteq Objects /\ NoObject \in Objects /\ NoObject \notin Bodies
  BY BoundsAssumption DEF Bodies, Objects, NoObject, Kinds

\* The statements on the row keep its type.
LEMMA WriteRowType ==
  ASSUME NEW s \in Statuses, NEW n \in Attempts, StoresTypeOK, WriteRow(s) \/ WriteRowErrs(s, n)
  PROVE  row' \in Statuses \cup {"none"} /\ lateRow' \subseteq RowWrites
  BY DEF StoresTypeOK, WriteRow, WriteRowErrs, Written, Statuses, Terminal, RowWrites, rowVars

\* The requests on the objects keep theirs.
LEMMA ObjectsType ==
  ASSUME NEW v \in Variants, NEW n \in Attempts, NEW b \in Bodies, StoresTypeOK,
         DeleteOriginalErrs(n) \/ PutVariant(v, b) \/ PutVariantErrs(v, n, b)
  PROVE  /\ original' \in Objects
         /\ variant' \in [Variants -> Objects]
         /\ lateDelete' \subseteq Attempts
         /\ latePut' \subseteq VariantPuts
  BY BodyIsObject
  DEF StoresTypeOK, DeleteOriginalErrs, DeleteOriginal, PutVariant, PutVariantErrs, VariantPuts, objectVars

\* A worker's step moves its own task only, one that was running, and never back
\* to "idle".
LEMMA TaskMoves ==
  ASSUME TypeOK, NEW t \in Tasks, TaskStep(t)
  PROVE  /\ act[t] \in Steps
         /\ \E x \in Steps \cup {"ok", "err"} : act' = [act EXCEPT ![t] = x]
  BY DEF TaskStep, ControlStep, ResizeStep, SetStatus, RemoveOriginal, SniffOriginal,
         MeasureOriginal, SetRejected, Refuse, GetOriginal, CallResizer, StoreVariant, Succeed,
         AttemptFails, Retry, GiveUp, Advance, FirstStep, Running, Steps, Tasks, Controls

\* No activity runs more attempts than its retry policy allows.
LEMMA AttemptsType ==
  ASSUME TypeOK, NEW t \in Tasks, TaskStep(t)
  PROVE  attempt' \in [Tasks -> Attempts]
  <1>1. CASE UNCHANGED attempt
    BY <1>1 DEF TypeOK, ActivitiesTypeOK
  <1>2. CASE Retry(t)
    <2>1. attempt[t] \in Nat /\ attempt[t] >= 1 /\ MaximumAttempts(t) <= MaxAttempts
      BY BoundsAssumption DEF TypeOK, ActivitiesTypeOK, Attempts, MaximumAttempts
    <2>2. attempt[t] + 1 \in Attempts
      BY <1>2, <2>1, BoundsAssumption DEF Retry, Attempts, MaximumAttempts
    <2> QED
      BY <1>2, <2>2 DEF Retry, TypeOK, ActivitiesTypeOK
  <1> QED
    BY <1>1, <1>2
    DEF TaskStep, ControlStep, ResizeStep, SetStatus, RemoveOriginal, SniffOriginal,
        MeasureOriginal, SetRejected, Refuse, GetOriginal, CallResizer, StoreVariant, Succeed,
        AttemptFails, GiveUp, Advance

\* What a Resize downloads is a body some PUT wrote.
LEMMA DataType ==
  ASSUME TypeOK, Downloaded, NEW t \in Tasks, TaskStep(t)
  PROVE  data' \in [Variants -> Objects] /\ Downloaded'
  <1> USE TasksAssumption, BodyIsObject DEF TypeOK, ActivitiesTypeOK, StoresTypeOK, Downloaded,
      Objects, Tasks, Controls
  <1>1. CASE t \in Controls /\ ControlStep(t)
    BY <1>1 DEF ControlStep, SetStatus, RemoveOriginal, SniffOriginal, MeasureOriginal, SetRejected,
       Refuse, Advance
  <1>2. CASE t \in Variants /\ ResizeStep(t)
    BY <1>2 DEF ResizeStep, GetOriginal, CallResizer, StoreVariant, Advance
  <1>3. CASE Succeed(t)
    BY <1>3 DEF Succeed, Advance
  <1>4. CASE AttemptFails(t)
    BY <1>4 DEF AttemptFails, Retry, GiveUp, FirstStep
  <1> QED
    BY <1>1, <1>2, <1>3, <1>4 DEF TaskStep

\* A step of a task takes it to a call of its own activity, or to its result.
LEMMA ActType ==
  ASSUME TypeOK, NEW t \in Tasks, TaskStep(t)
  PROVE  /\ act' \in [Tasks -> Steps \cup {"idle", "ok", "err"}]
         /\ \A u \in Tasks : Running(u)' => act'[u] \in StepsOf(u)
  <1> USE TasksAssumption DEF TypeOK, ActivitiesTypeOK, Tasks, Controls
  <1>1. \E x \in StepsOf(t) \cup {"ok", "err"} : act' = [act EXCEPT ![t] = x]
    <2>1. CASE t \in Controls /\ ControlStep(t)
      BY <2>1 DEF ControlStep, SetStatus, RemoveOriginal, SniffOriginal, MeasureOriginal,
         SetRejected, Refuse, Advance, StepsOf
    <2>2. CASE t \in Variants /\ ResizeStep(t)
      BY <2>2 DEF ResizeStep, GetOriginal, CallResizer, StoreVariant, Advance, StepsOf
    <2>3. CASE Succeed(t)
      BY <2>3 DEF Succeed, Advance
    <2>4. CASE AttemptFails(t)
      <3>1. FirstStep(t) \in StepsOf(t)
        BY DEF FirstStep, StepsOf
      <3> QED
        BY <2>4, <3>1 DEF AttemptFails, Retry, GiveUp
    <2> QED
      BY <2>1, <2>2, <2>3, <2>4 DEF TaskStep
  <1>2. StepsOf(t) \subseteq Steps /\ Steps \cap {"ok", "err"} = {}
    BY DEF Steps, StepsOf
  <1> QED
    BY <1>1, <1>2 DEF Running

\* A worker writes only statuses, attempts and bodies that exist.
LEMMA StoresType ==
  ASSUME TypeOK, Downloaded, NEW t \in Tasks, TaskStep(t)
  PROVE  StoresTypeOK'
  <1> USE TasksAssumption DEF TypeOK, ActivitiesTypeOK, Tasks
  <1> attempt[t] \in Attempts
    OBVIOUS
  <1> StatusOf(t) \in Statuses \/ t \notin Controls
    BY DEF StatusOf, Controls, Statuses, Terminal
  <1>1. CASE UNCHANGED storeVars
    BY <1>1 DEF StoresTypeOK, storeVars
  <1>2. CASE \E s \in Statuses, n \in Attempts :
                (WriteRow(s) \/ WriteRowErrs(s, n)) /\ UNCHANGED objectVars
    BY <1>2, WriteRowType DEF StoresTypeOK, objectVars
  <1>3. CASE DeleteOriginalErrs(attempt[t]) /\ UNCHANGED rowVars
    BY <1>3, BodyIsObject
    DEF StoresTypeOK, DeleteOriginalErrs, DeleteOriginal, objectVars, rowVars
  <1>4. CASE /\ t \in Variants /\ act[t] = "put" /\ UNCHANGED rowVars
             /\ PutVariant(t, data[t]) \/ PutVariantErrs(t, attempt[t], data[t])
    <2>1. data[t] \in Bodies
      BY <1>4 DEF Downloaded
    <2> QED
      BY <1>4, <2>1, ObjectsType DEF StoresTypeOK, rowVars
  <1>5. CASE AttemptFails(t)
    <2>1. Running(t) /\ CallInDoubt(t) /\ act[t] \in StepsOf(t)
      BY <1>5 DEF AttemptFails
    <2>2. CASE act[t] \in {"status", "verdict"}
      <3>1. t \in Controls
        BY <2>1, <2>2 DEF StepsOf, Controls
      <3>2. \E s \in Statuses : WriteRowErrs(s, attempt[t]) /\ UNCHANGED objectVars
        BY <2>1, <2>2, <3>1 DEF CallInDoubt, Statuses, Terminal
      <3> QED
        BY <1>2, <3>2
    <2>3. CASE act[t] = "delete"
      BY <1>3, <2>1, <2>3 DEF CallInDoubt
    <2>4. CASE act[t] = "put"
      BY <1>4, <2>1, <2>4 DEF CallInDoubt, StepsOf
    <2>5. CASE act[t] \notin {"status", "verdict", "delete", "put"}
      BY <1>1, <2>1, <2>5 DEF CallInDoubt
    <2> QED
      BY <2>2, <2>3, <2>4, <2>5
  <1>6. CASE t \in Controls /\ ControlStep(t)
    <2>1. CASE SetStatus(t)
      BY <1>2, <2>1 DEF SetStatus, objectVars
    <2>2. CASE RemoveOriginal(t)
      BY <1>3, <2>2 DEF RemoveOriginal
    <2>3. CASE t = "validate" /\ SetRejected
      BY <1>2, <2>3 DEF SetRejected, Statuses, Terminal, objectVars
    <2>4. CASE SniffOriginal \/ MeasureOriginal \/ Refuse
      BY <1>1, <2>4 DEF SniffOriginal, MeasureOriginal, Refuse
    <2> QED
      BY <1>6, <2>1, <2>2, <2>3, <2>4 DEF ControlStep
  <1>7. CASE t \in Variants /\ ResizeStep(t)
    BY <1>1, <1>4, <1>7 DEF ResizeStep, GetOriginal, CallResizer, StoreVariant, Advance
  <1>8. CASE Succeed(t)
    BY <1>1, <1>8 DEF Succeed
  <1> QED
    BY <1>5, <1>6, <1>7, <1>8 DEF TaskStep

\* ExecuteActivity keeps the types of the worker's variables.
LEMMA ScheduleType ==
  ASSUME TypeOK, Downloaded, NEW ts, Schedule(ts)
  PROVE  ActivitiesTypeOK' /\ Downloaded'
  <1>1. \A t \in Tasks : FirstStep(t) \in StepsOf(t) /\ FirstStep(t) \in Steps \ {"call", "put"}
    BY TasksAssumption DEF Tasks, Controls, FirstStep, StepsOf, Steps
  <1>2. Steps \cap {"idle", "ok", "err"} = {}
    BY DEF Steps
  <1>3. Variants \subseteq Tasks
    BY DEF Tasks
  <1> QED
    BY <1>1, <1>2, <1>3 DEF Schedule, TypeOK, ActivitiesTypeOK, Running, Downloaded

\* A workflow task touches nothing but the workflow and the tasks it schedules.
LEMMA WorkflowType ==
  ASSUME TypeOK, Downloaded, Workflow
  PROVE  /\ WorkflowTypeOK' /\ ActivitiesTypeOK' /\ Downloaded'
         /\ UNCHANGED <<storeVars, requestVars>>
  <1> USE DEF Workflow, WorkflowTask, Goto, TypeOK, WorkflowTypeOK, Open, Closed, Waiting, Deciding
  <1>1. UNCHANGED <<storeVars, requestVars>> /\ WorkflowTypeOK'
    BY DEF Then, Return, BeginSelect, ReceiveSignal, TimerFires, AfterValidate, AfterProcessing,
       AfterResize, AfterFail, AfterComplete, AfterAbandon
  <1>2. UNCHANGED activityVars \/ \E ts \in SUBSET Tasks : Schedule(ts)
    BY DEF Then, Return, BeginSelect, ReceiveSignal, TimerFires, AfterValidate, AfterProcessing,
       AfterResize, AfterFail, AfterComplete, AfterAbandon, Tasks, Controls
  <1>3. CASE UNCHANGED activityVars
    BY <1>1, <1>3 DEF activityVars, ActivitiesTypeOK, Running, Downloaded
  <1> QED
    BY <1>1, <1>2, <1>3, ScheduleType

\* The initial state has the types.
LEMMA InitType == Init => TypeOK /\ Downloaded
  <1> SUFFICES ASSUME Init PROVE TypeOK /\ Downloaded
    OBVIOUS
  <1> USE BoundsAssumption, BodyIsObject
  <1>1. StoresTypeOK
    BY DEF Init, StoresInit, StoresTypeOK
  <1>2. ActivitiesTypeOK /\ Downloaded
    BY DEF Init, ActivitiesInit, ActivitiesTypeOK, Attempts, Running, Steps, Downloaded, Tasks
  <1>3. WorkflowTypeOK
    BY DEF Init, WorkflowInit, WorkflowTypeOK
  <1>4. puts \in 0 .. MaxPuts /\ uploading \subseteq Bodies /\ shown \subseteq Terminal
    BY DEF Init
  <1>5. neg = "create" /\ url = "none" /\ excused = FALSE
    BY DEF Init
  <1> QED
    BY <1>1, <1>2, <1>3, <1>4, <1>5 DEF TypeOK

\* Every step keeps them.
LEMMA StepType ==
  ASSUME TypeOK, Downloaded, [Next]_vars
  PROVE  TypeOK' /\ Downloaded'
  <1> USE DEF TypeOK
  <1>1. CASE UNCHANGED vars
    BY <1>1 DEF vars, storeVars, activityVars, workflowVars, requestVars, StoresTypeOK,
       ActivitiesTypeOK, WorkflowTypeOK, Running, Downloaded
  <1>2. ASSUME Next PROVE shown' \subseteq Terminal
    BY <1>2 DEF Next
  <1>3. CASE Next /\ Negotiate
    <2>1. ActivitiesTypeOK' /\ Downloaded' /\ UNCHANGED <<signal, puts, uploading, excused>>
      BY <1>3 DEF Negotiate, CreateRecord, StartWorkflow, PresignURL, Negotiating, activityVars,
         workflowVars, ActivitiesTypeOK, Running, Downloaded
    <2>2. StoresTypeOK'
      <3>1. CASE CreateRecord
        <4>1. "pending" \in Statuses /\ 1 \in Attempts
          BY BoundsAssumption DEF Statuses, Attempts
        <4> QED
          BY <3>1, <4>1, WriteRowType DEF CreateRecord, StoresTypeOK, objectVars
      <3> QED
        BY <1>3, <3>1 DEF Negotiate, StartWorkflow, PresignURL, storeVars, StoresTypeOK
    <2>3. neg' \in {"create", "start", "presign", "done", "error"} /\ WorkflowTypeOK'
             /\ url' \in {"none", "valid", "expired"}
      BY <1>3 DEF Negotiate, CreateRecord, StartWorkflow, PresignURL, Negotiating, workflowVars,
         WorkflowTypeOK, Open, Closed, Waiting
    <2> QED
      BY <1>2, <1>3, <2>1, <2>2, <2>3
  <1>4. CASE Next /\ Client
    <2>1. ActivitiesTypeOK' /\ Downloaded' /\ UNCHANGED <<rowVars, neg>>
      BY <1>4 DEF Client, BeginPut, EndPut, UrlExpires, CompleteUpload, activityVars, rowVars,
         storeVars, ActivitiesTypeOK, Running, Downloaded
    <2>2. StoresTypeOK'
      BY <1>4, <2>1, BodyIsObject
      DEF Client, BeginPut, EndPut, UrlExpires, CompleteUpload, StoresTypeOK, rowVars, storeVars
    <2>3. WorkflowTypeOK'
      BY <1>4 DEF Client, BeginPut, EndPut, UrlExpires, CompleteUpload, DeliverSignal,
         workflowVars, WorkflowTypeOK
    <2>4. puts' \in 0 .. MaxPuts /\ uploading' \subseteq Bodies
      BY <1>4, BoundsAssumption
      DEF Client, BeginPut, EndPut, UrlExpires, CompleteUpload, Bodies
    <2> QED
      BY <1>2, <1>4, <2>1, <2>2, <2>3, <2>4
      DEF Client, BeginPut, EndPut, UrlExpires, CompleteUpload
  <1>5. CASE Next /\ Workflow
    BY <1>2, <1>5, WorkflowType DEF storeVars, requestVars, StoresTypeOK
  <1>6. CASE Next /\ \E t \in Tasks : Worker(t)
    <2>1. PICK t \in Tasks : Worker(t)
      BY <1>6
    <2>2. ActivitiesTypeOK' /\ Downloaded' /\ StoresTypeOK'
      BY <2>1, ActType, AttemptsType, DataType, StoresType DEF Worker, ActivitiesTypeOK
    <2> QED
      BY <1>2, <1>6, <2>1, <2>2 DEF Worker, workflowVars, requestVars, WorkflowTypeOK
  <1>7. CASE Next /\ Delayed
    <2>1. ActivitiesTypeOK' /\ Downloaded' /\ WorkflowTypeOK' /\ UNCHANGED requestVars
      BY <1>7 DEF Delayed, activityVars, workflowVars, ActivitiesTypeOK, WorkflowTypeOK, Running,
         Downloaded
    <2>2. StoresTypeOK'
      BY <1>7, BodyIsObject
      DEF Delayed, StoresLand, LateRowLands, LateDeleteLands, LatePutLands, Written, StoresTypeOK,
          objectVars, RowWrites, VariantPuts
    <2> QED
      BY <1>2, <1>7, <2>1, <2>2 DEF requestVars
  <1> QED
    BY <1>1, <1>3, <1>4, <1>5, <1>6, <1>7 DEF Next, Step

\* Every variable stays within its type, whatever fails, lags or is retried.
THEOREM TypeCorrect == SafeSpec => []TypeOK
  <1>1. Init => TypeOK /\ Downloaded
    BY InitType
  <1>2. TypeOK /\ Downloaded /\ [Next]_vars => TypeOK' /\ Downloaded'
    BY StepType
  <1> QED
    BY <1>1, <1>2, PTL DEF SafeSpec

-----------------------------------------------------------------------------
(***************************************************************************)
(* The order of the activities.                                            *)
(***************************************************************************)
LEMMA WorkerFlow ==
  ASSUME TypeOK, Flow, Order, NEW t \in Tasks, TaskStep(t), UNCHANGED <<wf, neg>>
  PROVE  Flow' /\ Order'
  <1> USE TasksAssumption DEF Tasks, Controls
  <1>1. act[t] \notin {"idle", "ok", "err"}
    BY TaskMoves DEF Steps
  <1>2. PICK x : x # "idle" /\ act' = [act EXCEPT ![t] = x]
    BY TaskMoves DEF Steps
  <1>3. \A u \in Tasks : /\ act[u] \in {"idle", "ok", "err"} => act'[u] = act[u]
                         /\ act'[u] = "idle" => act[u] = "idle"
    BY <1>1, <1>2 DEF TypeOK, ActivitiesTypeOK
  <1>4. Flow'
    BY <1>1, <1>2, <1>3 DEF Flow, TypeOK, ActivitiesTypeOK
  <1>5. Order'
    BY <1>1, <1>3 DEF Order
  <1> QED
    BY <1>4, <1>5

\* A workflow task schedules the activities in the order of the workflow's code.
LEMMA WorkflowFlow ==
  ASSUME TypeOK, Flow, Order, Workflow
  PROVE  Flow' /\ Order'
  <1> USE TasksAssumption DEF Tasks, Controls, requestVars
  <1>0. UNCHANGED neg /\ wf # "none" /\ wf' # "none" /\ neg \notin {"create", "start"}
    BY DEF Workflow, WorkflowTask, BeginSelect, ReceiveSignal, TimerFires, AfterValidate,
       AfterProcessing, AfterResize, AfterFail, AfterComplete, AfterAbandon, Then, Return, Goto, Flow
  <1>1. \A u \in Tasks : FirstStep(u) \notin {"idle", "ok", "err"}
    BY DEF FirstStep
  <1>2. CASE BeginSelect
    BY <1>0, <1>2 DEF BeginSelect, Return, Goto, activityVars, Flow, Order
  <1>3. CASE ReceiveSignal
    BY <1>0, <1>1, <1>3 DEF ReceiveSignal, Then, Goto, Schedule, Flow, Order
  <1>4. CASE TimerFires
    BY <1>0, <1>1, <1>4 DEF TimerFires, Then, Goto, Schedule, Flow, Order
  <1>5. CASE AfterValidate
    <2>1. CASE act["validate"] = "ok" /\ Then("validating", "processing", {"processing"})
      <3>1. /\ wf' = "processing"
            /\ act'["validate"] = "ok"
            /\ \A u \in Tasks \ {"validate", "processing"} : act'[u] = "idle"
        BY <2>1 DEF Then, Goto, Schedule, Flow
      <3> QED
        <4>1. Flow'
          BY <1>0, <3>1 DEF Flow, Order
        <4>2. Order'
          BY <3>1 DEF Order
        <4> QED
          BY <4>1, <4>2
    <2>2. CASE Return("validating", "failed")
      BY <1>0, <2>2 DEF Return, Goto, activityVars, Flow, Order
    <2> QED
      BY <1>5, <2>1, <2>2 DEF AfterValidate
  <1>6. CASE AfterProcessing
    BY <1>0, <1>1, <1>6 DEF AfterProcessing, Then, Return, Goto, Schedule, activityVars, Flow, Order
  <1>7. CASE AfterResize
    <2>1. CASE (\A v \in Variants : act[v] = "ok") /\ Then("resizing", "completing", {"complete"})
      <3>1. /\ wf' = "completing"
            /\ act'["fail"] = "idle" /\ act'["abandon"] = "idle"
            /\ \A v \in Variants : act'[v] = "ok"
            /\ act'["validate"] = act["validate"]
            /\ act["processing"] = "ok" /\ act'["processing"] = "ok"
        BY <2>1 DEF Then, Goto, Schedule, Flow
      <3> QED
        BY <1>0, <3>1 DEF Flow, Order
    <2>2. CASE (\E v \in Variants : act[v] = "err") /\ Then("resizing", "failing", {"fail"})
      <3>1. /\ wf' = "failing"
            /\ act'["complete"] = "idle" /\ act'["abandon"] = "idle"
            /\ \A v \in Variants : act'[v] = act[v]
            /\ act'["validate"] = act["validate"]
            /\ act["processing"] = "ok" /\ act'["processing"] = "ok"
        BY <2>2 DEF Then, Goto, Schedule, Flow
      <3> QED
        BY <1>0, <2>2, <3>1 DEF Flow, Order
    <2> QED
      BY <1>7, <2>1, <2>2 DEF AfterResize
  <1>8. CASE AfterFail \/ AfterComplete \/ AfterAbandon
    BY <1>0, <1>8 DEF AfterFail, AfterComplete, AfterAbandon, Return, Goto, activityVars, Flow, Order
  <1> QED
    BY <1>2, <1>3, <1>4, <1>5, <1>6, <1>7, <1>8 DEF Workflow, WorkflowTask

\* What a workflow task does to the tasks: it puts idle ones on the queue.
LEMMA WorkflowSchedules ==
  ASSUME TypeOK, Flow, Workflow
  PROVE  /\ UNCHANGED <<storeVars, requestVars, attempt, data>>
         /\ \A u \in Tasks : \/ act'[u] = act[u]
                             \/ act[u] = "idle" /\ act'[u] = FirstStep(u)
  <1> USE TasksAssumption DEF Tasks, Controls, Then, Return, Goto, Schedule, activityVars
  <1>1. UNCHANGED <<storeVars, requestVars, attempt, data>>
    BY DEF Workflow, WorkflowTask, BeginSelect, ReceiveSignal, TimerFires, AfterValidate,
       AfterProcessing, AfterResize, AfterFail, AfterComplete, AfterAbandon
  <1> SUFFICES ASSUME NEW u \in Tasks
               PROVE  act'[u] = act[u] \/ (act[u] = "idle" /\ act'[u] = FirstStep(u))
    BY <1>1
  <1>2. CASE ReceiveSignal \/ TimerFires
    BY <1>2 DEF ReceiveSignal, TimerFires, Flow
  <1>3. CASE AfterValidate
    BY <1>3 DEF AfterValidate, Flow
  <1>4. CASE AfterProcessing
    BY <1>4 DEF AfterProcessing, Flow
  <1>5. CASE AfterResize
    BY <1>5 DEF AfterResize, Flow
  <1>6. CASE BeginSelect \/ AfterFail \/ AfterComplete \/ AfterAbandon
    BY <1>6 DEF BeginSelect, AfterFail, AfterComplete, AfterAbandon
  <1> QED
    BY <1>2, <1>3, <1>4, <1>5, <1>6 DEF Workflow, WorkflowTask

\* The order of the activities is kept by every step.
LEMMA StepFlow ==
  ASSUME TypeOK, Flow, Order, [Next]_vars
  PROVE  Flow' /\ Order'
  <1>1. CASE UNCHANGED <<act, wf, neg>>
    BY <1>1 DEF Flow, Order
  <1>2. CASE Negotiate
    BY <1>2 DEF Negotiate, CreateRecord, StartWorkflow, PresignURL, Negotiating, activityVars,
       workflowVars, Flow, Order
  <1>3. CASE Client \/ Delayed
    BY <1>1, <1>3 DEF Client, BeginPut, EndPut, UrlExpires, CompleteUpload, DeliverSignal, Delayed,
       activityVars, workflowVars, requestVars
  <1>4. CASE Workflow
    BY <1>4, WorkflowFlow
  <1>5. CASE \E t \in Tasks : Worker(t)
    BY <1>5, WorkerFlow DEF Worker, workflowVars, requestVars
  <1> QED
    BY <1>1, <1>2, <1>3, <1>4, <1>5 DEF Next, Step, vars, activityVars, workflowVars, requestVars

-----------------------------------------------------------------------------
(***************************************************************************)
(* Where statuses and objects come from.                                   *)
(***************************************************************************)
\* A statement on the row brings in no status but its own.
LEMMA RowBrings ==
  ASSUME NEW s, NEW n, WriteRow(s) \/ WriteRowErrs(s, n),
         shown' = shown \cup ({row'} \cap Terminal), NEW u
  PROVE  Has(u)' => Has(u) \/ u = s
  BY DEF WriteRow, WriteRowErrs, Written, rowVars, Has

\* A step that leaves the row alone brings in no status.
LEMMA RowStays ==
  ASSUME UNCHANGED rowVars, shown' = shown \cup ({row'} \cap Terminal), NEW u
  PROVE  Has(u)' => Has(u)
  BY DEF rowVars, Has

\* Neither does a delayed UPDATE: its status was among the late ones.
LEMMA LateRowBrings ==
  ASSUME LateRowLands, shown' = shown \cup ({row'} \cap Terminal), NEW u
  PROVE  Has(u)' => Has(u)
  BY DEF LateRowLands, Written, Has

\* A worker's step brings in the status of its activity, or "rejected".
LEMMA WorkerBrings ==
  ASSUME TypeOK, NEW t \in Tasks, TaskStep(t), shown' = shown \cup ({row'} \cap Terminal), NEW u
  PROVE  Has(u)' => \/ Has(u)
                    \/ t \in Controls /\ u = StatusOf(t)
                    \/ t = "validate" /\ u = "rejected" /\ act'[t] \in {"refuse", "err"}
  <1> USE TasksAssumption DEF Tasks, TypeOK, ActivitiesTypeOK
  <1>1. CASE UNCHANGED rowVars
    BY <1>1, RowStays
  <1>2. CASE t \in Controls /\ ControlStep(t)
    <2>1. CASE SetStatus(t)
      BY <2>1, RowBrings DEF SetStatus
    <2>2. CASE t = "validate" /\ SetRejected
      BY <2>2, RowBrings DEF SetRejected, Advance
    <2> QED
      BY <1>1, <1>2, <2>1, <2>2
      DEF ControlStep, RemoveOriginal, SniffOriginal, MeasureOriginal, Refuse, storeVars, rowVars
  <1>3. CASE t \in Variants /\ ResizeStep(t)
    BY <1>1, <1>3 DEF ResizeStep, GetOriginal, CallResizer, StoreVariant, storeVars, rowVars
  <1>4. CASE Succeed(t)
    BY <1>1, <1>4 DEF Succeed, storeVars, rowVars
  <1>5. CASE AttemptFails(t)
    <2>1. Running(t) /\ CallInDoubt(t) /\ act[t] \in StepsOf(t)
      BY <1>5 DEF AttemptFails
    <2>2. CASE act[t] = "status"
      <3>1. t \in Controls /\ WriteRowErrs(StatusOf(t), attempt[t])
        BY <2>1, <2>2 DEF CallInDoubt, StepsOf, Controls
      <3> QED
        BY <3>1, RowBrings
    <2>3. CASE act[t] = "verdict"
      <3>1. t = "validate" /\ WriteRowErrs("rejected", attempt[t])
        BY <2>1, <2>3 DEF CallInDoubt, StepsOf, Controls
      <3>2. act'[t] = "err"
        BY <1>5, <3>1, BoundsAssumption DEF AttemptFails, Retry, GiveUp, MaximumAttempts, Attempts
      <3> QED
        BY <3>1, <3>2, RowBrings
    <2>4. CASE act[t] \notin {"status", "verdict"}
      BY <1>1, <2>1, <2>4 DEF CallInDoubt, storeVars, rowVars
    <2> QED
      BY <2>2, <2>3, <2>4
  <1> QED
    BY <1>2, <1>3, <1>4, <1>5 DEF TaskStep

\* A Validate that has rejected, or failed, only ever ends in an error.
LEMMA RefusedStays ==
  ASSUME TypeOK, NEW t \in Tasks, TaskStep(t), act["validate"] \in {"refuse", "err"}
  PROVE  act'["validate"] \in {"refuse", "err"}
  <1> USE TasksAssumption DEF Tasks, Controls, TypeOK, ActivitiesTypeOK
  <1>1. CASE t # "validate"
    BY <1>1, TaskMoves
  <1>2. CASE t = "validate"
    <2>1. act["validate"] = "refuse"
      BY <1>2, TaskMoves DEF Steps
    <2>2. CASE AttemptFails("validate")
      BY <2>2, BoundsAssumption DEF AttemptFails, Retry, GiveUp, MaximumAttempts, Attempts
    <2> QED
      BY <1>2, <2>1, <2>2
      DEF TaskStep, ControlStep, SetStatus, RemoveOriginal, SniffOriginal, MeasureOriginal,
          SetRejected, Refuse, Succeed, Advance
  <1> QED
    BY <1>1, <1>2

\* Every status anyone may read was written by the activity it belongs to.
LEMMA StepStatusOrigin ==
  ASSUME TypeOK, Flow, StatusOrigin, [Next]_vars
  PROVE  StatusOrigin'
  <1> USE TasksAssumption DEF Tasks, Controls
  <1>1. CASE UNCHANGED vars
    BY <1>1 DEF vars, storeVars, activityVars, StatusOrigin, Has
  <1>2. SUFFICES ASSUME Next PROVE StatusOrigin'
    BY <1>1
  <1>3. shown' = shown \cup ({row'} \cap Terminal)
    BY <1>2 DEF Next
  <1>4. ASSUME UNCHANGED act, \A u : Has(u)' => Has(u) \/ u = "pending" PROVE StatusOrigin'
    BY <1>4 DEF StatusOrigin, StatusOf
  <1>5. CASE Negotiate
    <2>1. WriteRow("pending") \/ WriteRowErrs("pending", 1) \/ UNCHANGED rowVars
      BY <1>5 DEF Negotiate, CreateRecord, StartWorkflow, PresignURL, storeVars, rowVars
    <2>2. UNCHANGED act
      BY <1>5 DEF Negotiate, CreateRecord, StartWorkflow, PresignURL, activityVars
    <2> QED
      BY <1>3, <1>4, <2>1, <2>2, RowBrings, RowStays
  <1>6. CASE Client
    <2>1. UNCHANGED <<act, rowVars>>
      BY <1>6 DEF Client, BeginPut, EndPut, UrlExpires, CompleteUpload, activityVars, storeVars, rowVars
    <2> QED
      BY <1>3, <1>4, <2>1, RowStays
  <1>7. CASE Delayed
    <2>1. UNCHANGED act /\ (LateRowLands \/ UNCHANGED rowVars)
      BY <1>7 DEF Delayed, StoresLand, LateDeleteLands, LatePutLands, activityVars, rowVars
    <2> QED
      BY <1>3, <1>4, <2>1, RowStays, LateRowBrings
  <1>8. CASE Workflow
    <2>1. UNCHANGED rowVars
      BY <1>8, WorkflowSchedules DEF storeVars, rowVars
    <2>2. \A u \in Controls : act'[u] = "idle" => act[u] = "idle"
      BY <1>8, WorkflowSchedules DEF FirstStep
    <2>3. act["validate"] \in {"refuse", "err"} => act'["validate"] = act["validate"]
      BY <1>8, WorkflowSchedules
    <2> QED
      BY <1>3, <2>1, <2>2, <2>3, RowStays DEF StatusOrigin
  <1>9. CASE \E t \in Tasks : Worker(t)
    <2>1. PICK t \in Tasks : TaskStep(t)
      BY <1>9 DEF Worker
    <2>2. act[t] # "idle" /\ act'[t] # "idle" /\ \A u \in Tasks \ {t} : act'[u] = act[u]
      BY <2>1, TaskMoves DEF Steps, TypeOK, ActivitiesTypeOK
    <2>3. Has("validating")' => act'["validate"] # "idle"
      BY <1>3, <2>1, <2>2, WorkerBrings DEF StatusOrigin, StatusOf
    <2>4. ASSUME NEW u \in {"processing", "complete", "fail", "abandon"}, Has(StatusOf(u))'
          PROVE  act'[u] # "idle"
      BY <1>3, <2>1, <2>2, <2>4, WorkerBrings DEF StatusOrigin, StatusOf
    <2>5. Has("rejected")' => act'["validate"] \in {"refuse", "err"}
      BY <1>3, <2>1, <2>2, WorkerBrings, RefusedStays DEF StatusOrigin, StatusOf
    <2> QED
      BY <2>3, <2>4, <2>5 DEF StatusOrigin, StatusOf
  <1> QED
    BY <1>2, <1>5, <1>6, <1>7, <1>8, <1>9 DEF Next, Step

\* A worker's step leaves the original alone unless it is the Delete of Validate
\* or Abandon, and only moves Validate past its checks while an original exists.
LEMMA WorkerOriginal ==
  ASSUME TypeOK, Order, OriginalKept, NEW t \in Tasks, TaskStep(t)
  PROVE  OriginalKept'
  <1> USE TasksAssumption DEF Tasks, Controls, TypeOK, ActivitiesTypeOK
  <1>1. act[t] \in Steps /\ act'[t] # "idle" /\ \A u \in Tasks \ {t} : act'[u] = act[u]
    BY TaskMoves DEF Steps
  <1>2. ASSUME t = "validate", UNCHANGED <<original, lateDelete>>,
               act["validate"] \in {"head", "reply"} => act'["validate"] # "head",
               act'["validate"] \in {"reply", "ok"} => act["validate"] \in {"head", "reply"}
                                                        /\ original # NoObject,
               act'["validate"] = "head" => original # NoObject,
               act["validate"] \in {"verdict", "refuse"} => act'["validate"] \in {"verdict", "refuse", "err"}
        PROVE  OriginalKept'
    BY <1>1, <1>2 DEF OriginalKept, Steps
  <1>3. ASSUME t # "validate", UNCHANGED <<original, lateDelete>> PROVE OriginalKept'
    BY <1>1, <1>3 DEF OriginalKept
  <1>4. ASSUME t \in {"validate", "abandon"}, act[t] = "delete", DeleteOriginalErrs(attempt[t]),
               act'["validate"] \in {"idle", "verdict", "err"}
        PROVE  OriginalKept'
    BY <1>1, <1>4 DEF OriginalKept, DeleteOriginalErrs, DeleteOriginal, objectVars, Order
  <1>5. CASE t \in Controls /\ ControlStep(t)
    <2>1. CASE SetStatus(t)
      BY <1>2, <1>3, <2>1 DEF SetStatus, Advance, objectVars
    <2>2. CASE RemoveOriginal(t)
      BY <1>1, <1>4, <2>2 DEF RemoveOriginal, Advance, Order
    <2>3. CASE t = "validate" /\ SniffOriginal
      BY <1>2, <2>3 DEF SniffOriginal, Advance, storeVars
    <2>4. CASE t = "validate" /\ MeasureOriginal
      BY <1>2, <2>4 DEF MeasureOriginal, Advance, storeVars
    <2>5. CASE t = "validate" /\ (SetRejected \/ Refuse)
      BY <1>2, <2>5 DEF SetRejected, Refuse, Advance, storeVars, objectVars
    <2> QED
      BY <1>5, <2>1, <2>2, <2>3, <2>4, <2>5 DEF ControlStep
  <1>6. CASE t \in Variants /\ ResizeStep(t)
    BY <1>3, <1>6
    DEF ResizeStep, GetOriginal, CallResizer, StoreVariant, PutVariant, storeVars
  <1>7. CASE Succeed(t)
    BY <1>2, <1>3, <1>7 DEF Succeed, Advance, storeVars, OriginalKept
  <1>8. CASE AttemptFails(t)
    <2>1. Running(t) /\ CallInDoubt(t) /\ act[t] \in StepsOf(t)
      BY <1>8 DEF AttemptFails
    <2>2. t = "validate" => act'[t] = "err"
      BY <1>8, BoundsAssumption DEF AttemptFails, Retry, GiveUp, MaximumAttempts, Attempts
    <2>3. CASE act[t] = "delete"
      <3>1. t \in {"validate", "abandon"} /\ DeleteOriginalErrs(attempt[t])
        BY <2>1, <2>3 DEF CallInDoubt, StepsOf
      <3> QED
        BY <1>1, <1>4, <2>2, <2>3, <3>1 DEF Order, Steps
    <2>4. CASE act[t] # "delete"
      <3>1. UNCHANGED <<original, lateDelete>>
        BY <2>1, <2>4 DEF CallInDoubt, storeVars, objectVars, PutVariantErrs, PutVariant
      <3> QED
        BY <1>2, <1>3, <2>2, <3>1
    <2> QED
      BY <2>3, <2>4
  <1> QED
    BY <1>5, <1>6, <1>7, <1>8 DEF TaskStep

\* The original that passed its checks is still there after any step.
LEMMA StepOriginal ==
  ASSUME TypeOK, Flow, Order, OriginalKept, [Next]_vars
  PROVE  OriginalKept'
  <1> USE TasksAssumption DEF Tasks, Controls
  <1>1. CASE UNCHANGED <<act, original, lateDelete>>
    BY <1>1 DEF OriginalKept
  <1>2. CASE EndPut
    <2>1. original' # NoObject /\ UNCHANGED <<act, lateDelete>>
      BY <1>2, BodyIsObject DEF EndPut, TypeOK, activityVars
    <2> QED
      BY <2>1 DEF OriginalKept
  <1>3. CASE Negotiate \/ BeginPut \/ UrlExpires \/ CompleteUpload
    BY <1>1, <1>3 DEF Negotiate, CreateRecord, StartWorkflow, PresignURL, BeginPut, UrlExpires,
       CompleteUpload, activityVars, storeVars, objectVars
  <1>4. CASE Delayed
    <2>1. CASE LateDeleteLands
      <3>1. UNCHANGED act /\ lateDelete # {} /\ lateDelete' \subseteq lateDelete
        BY <1>4, <2>1 DEF Delayed, LateDeleteLands, activityVars
      <3> QED
        BY <3>1 DEF OriginalKept, Order
    <2> QED
      BY <1>1, <1>4, <2>1
      DEF Delayed, StoresLand, LateRowLands, LatePutLands, activityVars, objectVars
  <1>5. CASE Workflow
    BY <1>5, WorkflowSchedules DEF OriginalKept, FirstStep, storeVars
  <1>6. CASE \E t \in Tasks : Worker(t)
    BY <1>6, WorkerOriginal DEF Worker
  <1> QED
    BY <1>1, <1>2, <1>3, <1>4, <1>5, <1>6
    DEF Next, Step, Client, vars, storeVars, activityVars

\* A worker stores a variant before it reports it, and gives up after the last attempt only.
LEMMA WorkerVariants ==
  ASSUME TypeOK, Downloaded, VariantOrigin, Exhausted, NEW t \in Tasks, TaskStep(t)
  PROVE  VariantOrigin' /\ Exhausted'
  <1> USE TasksAssumption DEF Tasks, Controls, TypeOK, ActivitiesTypeOK
  <1>1. act[t] \in Steps /\ act'[t] # "idle" /\ \A u \in Tasks \ {t} : act'[u] = act[u]
    BY TaskMoves DEF Steps
  <1>2. ASSUME UNCHANGED <<variant, latePut>>,
               t \in Variants /\ act'[t] \in {"reply", "ok"} => act[t] \in {"reply", "ok"}
        PROVE  VariantOrigin'
    BY <1>1, <1>2 DEF VariantOrigin, StoresTypeOK, VariantPuts
  <1>3. ASSUME t \in Variants, act[t] = "put", PutVariant(t, data[t])
        PROVE  VariantOrigin'
    <2>1. data[t] # NoObject
      BY <1>3, BodyIsObject DEF Downloaded
    <2> QED
      BY <1>1, <1>3, <2>1 DEF VariantOrigin, PutVariant, StoresTypeOK, VariantPuts
  <1>4. ASSUME t \in Variants, act[t] = "put", PutVariantErrs(t, attempt[t], data[t]),
               act'[t] \notin {"reply", "ok"}
        PROVE  VariantOrigin'
    <2>1. CASE PutVariant(t, data[t])
      BY <1>3, <1>4, <2>1
    <2>2. CASE UNCHANGED objectVars
      BY <1>2, <1>4, <2>2 DEF objectVars
    <2>3. CASE /\ latePut' = latePut \cup {[variant |-> t, attempt |-> attempt[t], body |-> data[t]]}
               /\ UNCHANGED variant
      <3>1. \A w \in latePut' : w \in latePut \/ w.variant = t
        BY <2>3
      <3>2. \A w \in latePut : w.variant \in Tasks
        BY DEF StoresTypeOK, VariantPuts
      <3> QED
        BY <1>1, <1>4, <2>3, <3>1, <3>2 DEF VariantOrigin
    <2> QED
      BY <1>4, <2>1, <2>2, <2>3 DEF PutVariantErrs
  <1>5. CASE t \in Controls /\ ControlStep(t)
    <2>1. UNCHANGED <<variant, latePut, attempt>> /\ t \notin Variants
      BY <1>5 DEF ControlStep, SetStatus, RemoveOriginal, SniffOriginal, MeasureOriginal,
         SetRejected, Refuse, Advance, DeleteOriginalErrs, DeleteOriginal, storeVars, objectVars
    <2> QED
      BY <1>1, <1>2, <2>1 DEF Exhausted
  <1>6. CASE t \in Variants /\ ResizeStep(t)
    <2>1. Exhausted'
      BY <1>1, <1>6
      DEF Exhausted, ResizeStep, GetOriginal, CallResizer, StoreVariant, Advance
    <2>2. VariantOrigin'
      BY <1>2, <1>3, <1>6
      DEF ResizeStep, GetOriginal, CallResizer, StoreVariant, Advance, storeVars
    <2> QED
      BY <2>1, <2>2
  <1>7. CASE Succeed(t)
    BY <1>1, <1>2, <1>7 DEF Succeed, Advance, Exhausted, storeVars
  <1>8. CASE AttemptFails(t)
    <2>1. Running(t) /\ CallInDoubt(t) /\ act[t] \in StepsOf(t)
      BY <1>8 DEF AttemptFails
    <2>2. t \in Variants => act'[t] \in {"get", "err"}
      BY <1>8 DEF AttemptFails, Retry, GiveUp, FirstStep
    <2>3. Exhausted'
      <3>1. \A u \in Tasks \ {t} : attempt'[u] = attempt[u]
        BY <1>8 DEF AttemptFails, Retry, GiveUp
      <3>2. t \in Variants /\ act'[t] = "err" => attempt'[t] = MaxAttempts
        <4>1. CASE Retry(t)
          BY <4>1 DEF Retry, FirstStep
        <4>2. CASE GiveUp(t) /\ t \in Variants
          BY <4>2, BoundsAssumption DEF GiveUp, MaximumAttempts, Attempts
        <4> QED
          BY <1>8, <4>1, <4>2 DEF AttemptFails
      <3> QED
        BY <1>1, <3>1, <3>2 DEF Exhausted
    <2>4. CASE act[t] = "put"
      BY <1>4, <2>1, <2>2, <2>3, <2>4 DEF CallInDoubt, StepsOf
    <2>5. CASE act[t] # "put"
      <3>1. UNCHANGED <<variant, latePut>>
        BY <2>1, <2>5 DEF CallInDoubt, storeVars, objectVars, DeleteOriginalErrs, DeleteOriginal
      <3> QED
        BY <1>2, <2>2, <2>3, <3>1
    <2> QED
      BY <2>4, <2>5
  <1> QED
    BY <1>5, <1>6, <1>7, <1>8 DEF TaskStep

\* Every resized object comes from its own Resize, after any step.
LEMMA StepVariants ==
  ASSUME TypeOK, Downloaded, Flow, VariantOrigin, Exhausted, [Next]_vars
  PROVE  VariantOrigin' /\ Exhausted'
  <1> USE TasksAssumption DEF Tasks
  <1>1. CASE UNCHANGED <<act, attempt, variant, latePut>>
    BY <1>1 DEF VariantOrigin, Exhausted
  <1>2. CASE Negotiate \/ Client
    BY <1>1, <1>2 DEF Negotiate, CreateRecord, StartWorkflow, PresignURL, Client, BeginPut, EndPut,
       UrlExpires, CompleteUpload, activityVars, storeVars, objectVars
  <1>3. CASE Delayed
    <2>1. CASE LatePutLands
      <3>1. UNCHANGED <<act, attempt>>
        BY <1>3 DEF Delayed, activityVars
      <3>2. PICK w \in latePut : /\ variant' = [variant EXCEPT ![w.variant] = w.body]
                                 /\ latePut' = latePut \ {w}
        BY <2>1 DEF LatePutLands
      <3>3. w.body # NoObject /\ w.variant \in Variants
        BY BodyIsObject DEF TypeOK, StoresTypeOK, VariantPuts
      <3> QED
        BY <3>1, <3>2, <3>3 DEF VariantOrigin, Exhausted, TypeOK, StoresTypeOK
    <2> QED
      BY <1>1, <1>3, <2>1
      DEF Delayed, StoresLand, LateRowLands, LateDeleteLands, activityVars, objectVars
  <1>4. CASE Workflow
    <2>1. \A w \in latePut : w.variant \in Tasks
      BY DEF TypeOK, StoresTypeOK, VariantPuts
    <2> QED
      BY <1>4, <2>1, WorkflowSchedules DEF VariantOrigin, Exhausted, FirstStep, storeVars
  <1>5. CASE \E t \in Tasks : Worker(t)
    BY <1>5, WorkerVariants DEF Worker
  <1> QED
    BY <1>1, <1>2, <1>3, <1>4, <1>5 DEF Next, Step, vars, storeVars, activityVars

-----------------------------------------------------------------------------
(***************************************************************************)
(* The invariant, and what follows from it.                                *)
(***************************************************************************)
LEMMA InitIInv == Init => IInv
  <1> SUFFICES ASSUME Init PROVE IInv
    OBVIOUS
  <1> USE DEF Init, StoresInit, ActivitiesInit, WorkflowInit, Tasks, Controls
  <1>1. \A t \in Tasks : act[t] = "idle"
    OBVIOUS
  <1>2. Flow /\ Order /\ Exhausted
    BY <1>1 DEF Flow, Order, Exhausted
  <1>3. StatusOrigin
    BY DEF StatusOrigin, StatusOf, Has
  <1>4. OriginalKept /\ VariantOrigin
    BY <1>1 DEF OriginalKept, VariantOrigin
  <1> QED
    BY <1>2, <1>3, <1>4, InitType DEF IInv

\* The strengthened invariant is inductive.
LEMMA StepIInv == IInv /\ [Next]_vars => IInv'
  BY StepType, StepFlow, StepStatusOrigin, StepOriginal, StepVariants DEF IInv

\* The inductive invariant holds of every behaviour.
THEOREM Invariance == SafeSpec => []IInv
  BY InitIInv, StepIInv, PTL DEF SafeSpec

\* Only terminal statuses are shown, and each comes from its own branch.
LEMMA ShownOrigin ==
  ASSUME IInv
  PROVE  /\ \A s \in shown : s \in Terminal
         /\ "complete" \in shown => act["complete"] # "idle"
         /\ "failed" \in shown => act["fail"] # "idle"
         /\ "abandoned" \in shown => act["abandon"] # "idle"
         /\ "rejected" \in shown => act["validate"] \in {"refuse", "err"}
  BY DEF IInv, TypeOK, StatusOrigin, Has, StatusOf

\* The branches of UploadWorkflow exclude each other.
LEMMA BranchesExclude ==
  ASSUME IInv
  PROVE  /\ act["complete"] # "idle" => act["fail"] = "idle"
         /\ act["complete"] # "idle" \/ act["fail"] # "idle" =>
                act["validate"] = "ok" /\ act["abandon"] = "idle"
         /\ act["validate"] \in {"refuse", "err"} => act["abandon"] = "idle"
  BY DEF IInv, Order

\* OneVerdict: no two pollers ever read different final statuses.
THEOREM OneVerdictHolds == SafeSpec => []OneVerdict
  <1>1. ASSUME IInv PROVE OneVerdict
    BY <1>1, ShownOrigin, BranchesExclude DEF OneVerdict, Terminal
  <1> QED
    BY <1>1, Invariance, PTL

\* CompleteMeansServed: what reads "complete" can be fetched, for good.
THEOREM CompleteIsServed == SafeSpec => []CompleteMeansServed
  <1>1. ASSUME IInv, "complete" \in shown
        PROVE  original # NoObject /\ \A v \in Variants : variant[v] # NoObject
    <2>1. act["complete"] # "idle" /\ act["validate"] = "ok"
      BY <1>1, ShownOrigin, BranchesExclude
    <2> QED
      BY <1>1, <2>1 DEF IInv, Order, OriginalKept, VariantOrigin
  <1>2. IInv => CompleteMeansServed
    BY <1>1 DEF CompleteMeansServed
  <1> QED
    BY <1>2, Invariance, PTL

\* DeadUploadHasNoVariants: nothing is, or will be, resized for an upload that
\* reads "rejected" or "abandoned".
THEOREM DeadHasNoVariants == SafeSpec => []DeadUploadHasNoVariants
  <1>1. ASSUME IInv, shown \cap {"rejected", "abandoned"} # {}
        PROVE  (\A v \in Variants : variant[v] = NoObject) /\ latePut = {}
    <2>1. act["validate"] # "ok"
      BY <1>1, ShownOrigin DEF IInv, Order
    <2>2. \A v \in Variants : act[v] = "idle"
      BY <1>1, <2>1 DEF IInv, Order
    <2>3. \A w \in latePut : w.variant \in Variants
      BY <1>1 DEF IInv, TypeOK, StoresTypeOK, VariantPuts
    <2> QED
      BY <1>1, <2>2, <2>3 DEF IInv, VariantOrigin
  <1>2. IInv => DeadUploadHasNoVariants
    BY <1>1 DEF DeadUploadHasNoVariants
  <1> QED
    BY <1>2, Invariance, PTL

\* FailedMeansExhausted: "failed" is read only after a resize has used up its
\* attempts.
THEOREM FailedIsExhausted == SafeSpec => []FailedMeansExhausted
  <1>1. IInv => FailedMeansExhausted
    BY ShownOrigin DEF FailedMeansExhausted, IInv, Order, Exhausted
  <1> QED
    BY <1>1, Invariance, PTL

-----------------------------------------------------------------------------
(***************************************************************************)
(* No work is lost or endless: the safety that WorkflowCloses rests on.    *)
(***************************************************************************)
\* A worker's step is taken on a task that is awaited, and loses no task.
LEMMA WorkerAwaited ==
  ASSUME IInv, WaitsForAll, NEW t \in Tasks, TaskStep(t), UNCHANGED wf
  PROVE  WaitsForAll'
  <1>1. UNCHANGED Awaited
    BY DEF Awaited
  <1>2. PICK x \in Steps \cup {"ok", "err"} : act' = [act EXCEPT ![t] = x]
    BY TaskMoves DEF IInv
  <1>3. act[t] \in Steps /\ x # "idle"
    BY TaskMoves DEF IInv, Steps
  <1>4. \A u \in Tasks : (Running(u)' => Running(u)) /\ (act'[u] = "idle" => act[u] = "idle")
    BY <1>2, <1>3 DEF Running, IInv, TypeOK, ActivitiesTypeOK, Steps
  <1>5. Awaited \subseteq Tasks
    BY DEF Awaited, Tasks, Controls
  <1> QED
    BY <1>1, <1>4, <1>5 DEF WaitsForAll

\* The workflow goes on when nothing of what it waited for runs any more, and
\* waits for all that it then schedules.
LEMMA WorkflowAwaits ==
  ASSUME IInv, WaitsForAll, Workflow
  PROVE  WaitsForAll'
  <1> USE TasksAssumption DEF Tasks, Controls
  <1> DEFINE Starts(ts) == act' = [u \in Tasks |-> IF u \in ts THEN FirstStep(u) ELSE act[u]]
  <1>1. ASSUME \A u \in Awaited : ~Running(u), NEW ts \in SUBSET Tasks, Awaited' = ts, Starts(ts)
        PROVE  WaitsForAll'
    <2>1. \A u \in Tasks : ~Running(u)
      BY <1>1 DEF WaitsForAll
    <2>2. \A u \in Tasks : act'[u] = IF u \in ts THEN FirstStep(u) ELSE act[u]
      BY <1>1
    <2>3. \A u \in Tasks : FirstStep(u) # "idle"
      BY DEF FirstStep
    <2> QED
      BY <1>1, <2>1, <2>2, <2>3 DEF WaitsForAll, Running
  <1>2. ASSUME \A u \in Awaited : ~Running(u), Awaited' = {}, UNCHANGED act
        PROVE  WaitsForAll'
    BY <1>2 DEF WaitsForAll, Running
  <1>3. \A u \in Tasks : Finished(u) => ~Running(u)
    BY DEF Finished, Running, Steps
  <1> USE DEF Then, Return, Goto, Schedule, activityVars
  <1>4. CASE BeginSelect
    BY <1>2, <1>4 DEF BeginSelect, Awaited
  <1>5. CASE ReceiveSignal
    BY <1>1, <1>5 DEF ReceiveSignal, Awaited
  <1>6. CASE TimerFires
    BY <1>1, <1>6 DEF TimerFires, Awaited
  <1>7. CASE AfterValidate
    <2>1. Awaited = {"validate"} /\ ~Running("validate")
      BY <1>3, <1>7 DEF AfterValidate, Awaited, Finished
    <2> QED
      BY <1>1, <1>2, <1>7, <2>1 DEF AfterValidate, Awaited
  <1>8. CASE AfterProcessing
    <2>1. Awaited = {"processing"} /\ ~Running("processing")
      BY <1>3, <1>8 DEF AfterProcessing, Awaited, Finished
    <2> QED
      BY <1>1, <1>2, <1>8, <2>1 DEF AfterProcessing, Awaited
  <1>9. CASE AfterResize
    <2>1. Awaited = Variants /\ \A v \in Variants : ~Running(v)
      BY <1>3, <1>9 DEF AfterResize, Awaited
    <2>2. (Awaited' = {"complete"} /\ Starts({"complete"})) \/ (Awaited' = {"fail"} /\ Starts({"fail"}))
      BY <1>9 DEF AfterResize, Awaited
    <2> QED
      BY <1>1, <2>1, <2>2
  <1>10. CASE AfterFail
    BY <1>2, <1>3, <1>10 DEF AfterFail, Awaited
  <1>11. CASE AfterComplete \/ AfterAbandon
    BY <1>2, <1>3, <1>11 DEF AfterComplete, AfterAbandon, Awaited, Finished
  <1> QED
    BY <1>4, <1>5, <1>6, <1>7, <1>8, <1>9, <1>10, <1>11 DEF Workflow, WorkflowTask

\* Nothing else touches the tasks or the workflow once it waits for any.
LEMMA StepAwaits == IInv /\ WaitsForAll /\ [Next]_vars => WaitsForAll'
  <1> SUFFICES ASSUME IInv, WaitsForAll, [Next]_vars PROVE WaitsForAll'
    OBVIOUS
  <1>1. CASE UNCHANGED <<act, wf>>
    BY <1>1 DEF WaitsForAll, Awaited, Running
  <1>2. CASE CreateRecord \/ PresignURL \/ Client \/ Delayed
    BY <1>1, <1>2 DEF CreateRecord, PresignURL, Client, BeginPut, EndPut, UrlExpires,
       CompleteUpload, DeliverSignal, Delayed, activityVars, workflowVars
  <1>3. CASE StartWorkflow
    <2>1. wf = "none" /\ wf' \in {"none", "started"} /\ UNCHANGED act
      BY <1>3 DEF StartWorkflow, Negotiating, activityVars, IInv, Flow
    <2>2. Awaited = {} /\ Awaited' = {}
      BY <2>1 DEF Awaited
    <2> QED
      BY <2>1, <2>2 DEF WaitsForAll, Running
  <1>4. CASE Workflow
    BY <1>4, WorkflowAwaits
  <1>5. CASE \E t \in Tasks : Worker(t)
    BY <1>5, WorkerAwaited DEF Worker, workflowVars
  <1> QED
    BY <1>1, <1>2, <1>3, <1>4, <1>5 DEF Next, Step, Negotiate, vars, activityVars, workflowVars

\* WaitsForAll: no activity outlives the workflow's wait for it.
THEOREM WaitingIsComplete == SafeSpec => []WaitsForAll
  <1>1. Init => WaitsForAll
    BY DEF Init, ActivitiesInit, WorkflowInit, WaitsForAll, Awaited, Running, Steps
  <1> QED
    BY <1>1, StepAwaits, Invariance, PTL DEF SafeSpec

\* How far an attempt has come: each call is behind those that lead to it.
Rank(t, s) ==
    CASE s = "idle"              -> 0
      [] s = "get"               -> 1
      [] s \in {"sniff", "call"} -> 2
      [] s \in {"head", "put"}   -> 3
      [] s = "delete"            -> 4
      [] s = "verdict"           -> 5
      [] s = "refuse"            -> 6
      [] s = "reply"             -> 7
      [] s \in {"ok", "err"}     -> 8
      [] s = "status"            -> IF t = "abandon" THEN 5 ELSE 1

\* What has been spent on a task, of no more than its retry policy grants.
Effort(t) == 9 * attempt[t] + Rank(t, act[t])

\* How far the workflow function has come.
Stage ==
    CASE wf = "none"                          -> 0
      [] wf = "started"                       -> 1
      [] wf = "select"                        -> 2
      [] wf \in {"validating", "abandoning"}  -> 3
      [] wf = "processing"                    -> 4
      [] wf = "resizing"                      -> 5
      [] wf \in {"failing", "completing"}     -> 6
      [] wf \in Closed                        -> 7

\* Every step of a worker spends effort on its task, every step of the workflow
\* brings it forward, and no step of anyone takes either back.
Spends ==
    /\ \A t \in Tasks : Worker(t) => Effort(t)' > Effort(t)
    /\ Workflow => Stage' > Stage
    /\ \A t \in Tasks : Effort(t)' >= Effort(t)
    /\ Stage' >= Stage

Granted == Stage <= 7 /\ \A t \in Tasks : Effort(t) <= 9 * MaxAttempts + 8

\* The ranks, one by one.
LEMMA Ranks ==
  ASSUME NEW t
  PROVE  /\ Rank(t, "idle") = 0 /\ Rank(t, "get") = 1
         /\ Rank(t, "sniff") = 2 /\ Rank(t, "call") = 2
         /\ Rank(t, "head") = 3 /\ Rank(t, "put") = 3
         /\ Rank(t, "delete") = 4 /\ Rank(t, "verdict") = 5
         /\ Rank(t, "refuse") = 6 /\ Rank(t, "reply") = 7
         /\ Rank(t, "ok") = 8 /\ Rank(t, "err") = 8
         /\ Rank(t, "status") = IF t = "abandon" THEN 5 ELSE 1
  BY DEF Rank

LEMMA RankType ==
  ASSUME NEW t, NEW s \in Steps \cup {"idle", "ok", "err"}
  PROVE  /\ Rank(t, s) \in 0 .. 8
         /\ s \in Steps => Rank(t, s) \in 1 .. 7
  BY Ranks DEF Steps

LEMMA EffortType ==
  ASSUME TypeOK, NEW t \in Tasks
  PROVE  Effort(t) \in Nat /\ attempt[t] \in Nat
  <1>1. Rank(t, act[t]) \in 0 .. 8
    BY RankType DEF TypeOK, ActivitiesTypeOK
  <1>2. attempt[t] \in Nat
    BY BoundsAssumption DEF TypeOK, ActivitiesTypeOK, Attempts
  <1> QED
    BY <1>1, <1>2 DEF Effort

Spent == \A t \in Tasks : Effort(t) \in Nat

\* The same in the next state.
LEMMA EffortTypeNext == TypeOK' => Spent'
  <1>1. TypeOK => Spent
    BY EffortType DEF Spent
  <1> QED
    BY <1>1, PTL

\* What leaves a task alone spends nothing on it.
LEMMA Untouched ==
  ASSUME NEW u \in Tasks, act'[u] = act[u], attempt'[u] = attempt[u]
  PROVE  Effort(u)' = Effort(u)
  BY DEF Effort

\* A call of an attempt, or its result.
LEMMA AdvanceSpends ==
  ASSUME TypeOK, NEW t \in Tasks, NEW x, NEW y, Advance(t, x, y),
         Rank(t, x) \in Nat, Rank(t, y) \in Nat, Rank(t, y) > Rank(t, x)
  PROVE  Effort(t)' > Effort(t)
  <1>1. act'[t] = y /\ act[t] = x /\ attempt'[t] = attempt[t]
    BY DEF Advance, TypeOK, ActivitiesTypeOK
  <1>2. attempt[t] \in Nat
    BY EffortType
  <1> QED
    BY <1>1, <1>2 DEF Effort

\* A call, its result or the next attempt.
LEMMA WorkerSpends ==
  ASSUME TypeOK, NEW t \in Tasks, TaskStep(t)
  PROVE  Effort(t)' > Effort(t)
  <1>1. act[t] \in Steps
    BY TaskMoves
  <1>2. Rank(t, act[t]) \in 1 .. 7
    BY <1>1, RankType
  <1>3. attempt[t] \in Nat
    BY EffortType
  <1>5. CASE t \in Controls /\ ControlStep(t)
    <2>1. CASE SetStatus(t)
      <3>1. CASE t = "validate"
        <4>1. Advance(t, "status", "sniff")
          BY <2>1, <3>1 DEF SetStatus
        <4> QED
          BY <3>1, <4>1, Ranks, AdvanceSpends
      <3>2. CASE t # "validate"
        <4>1. Advance(t, "status", "reply")
          BY <2>1, <3>2 DEF SetStatus
        <4> QED
          BY <3>2, <4>1, Ranks, AdvanceSpends
      <3> QED
        BY <3>1, <3>2
    <2>2. CASE RemoveOriginal(t)
      <3>1. CASE t = "validate"
        <4>1. Advance(t, "delete", "verdict")
          BY <2>2, <3>1 DEF RemoveOriginal
        <4> QED
          BY <4>1, Ranks, AdvanceSpends
      <3>2. CASE t = "abandon"
        <4>1. Advance(t, "delete", "status")
          BY <2>2, <3>2 DEF RemoveOriginal
        <4> QED
          BY <3>2, <4>1, Ranks, AdvanceSpends
      <3> QED
        BY <2>2, <3>1, <3>2 DEF RemoveOriginal
    <2>3. CASE t = "validate" /\ SniffOriginal
      <3>1. Advance(t, "sniff", "delete") \/ Advance(t, "sniff", "head")
        BY <2>3 DEF SniffOriginal
      <3> QED
        BY <3>1, Ranks, AdvanceSpends
    <2>4. CASE t = "validate" /\ MeasureOriginal
      <3>1. Advance(t, "head", "delete") \/ Advance(t, "head", "reply")
        BY <2>4 DEF MeasureOriginal
      <3> QED
        BY <3>1, Ranks, AdvanceSpends
    <2>5. CASE t = "validate" /\ (SetRejected \/ Refuse)
      <3>1. Advance(t, "verdict", "refuse") \/ Advance(t, "refuse", "err")
        BY <2>5 DEF SetRejected, Refuse
      <3> QED
        BY <3>1, Ranks, AdvanceSpends
    <2> QED
      BY <1>5, <2>1, <2>2, <2>3, <2>4, <2>5 DEF ControlStep
  <1>6. CASE t \in Variants /\ ResizeStep(t)
    <2>1. Advance(t, "get", "call") \/ Advance(t, "call", "put") \/ Advance(t, "put", "reply")
      BY <1>6 DEF ResizeStep, GetOriginal, CallResizer, StoreVariant
    <2> QED
      BY <2>1, Ranks, AdvanceSpends
  <1>7. CASE Succeed(t)
    <2>1. Advance(t, "reply", "ok")
      BY <1>7 DEF Succeed
    <2> QED
      BY <2>1, Ranks, AdvanceSpends
  <1>8. CASE AttemptFails(t)
    <2>1. CASE Retry(t)
      <3>1. attempt'[t] = attempt[t] + 1 /\ act'[t] = FirstStep(t)
        BY <2>1 DEF Retry, TypeOK, ActivitiesTypeOK
      <3>2. Rank(t, FirstStep(t)) \in 1 .. 4
        BY Ranks DEF FirstStep
      <3> QED
        BY <1>2, <1>3, <3>1, <3>2 DEF Effort
    <2>2. CASE GiveUp(t)
      <3>1. attempt'[t] = attempt[t] /\ act'[t] = "err"
        BY <2>2 DEF GiveUp, TypeOK, ActivitiesTypeOK
      <3> QED
        BY <1>2, <1>3, <3>1, Ranks DEF Effort
    <2> QED
      BY <1>8, <2>1, <2>2 DEF AttemptFails
  <1> QED
    BY <1>5, <1>6, <1>7, <1>8 DEF TaskStep

\* It leaves the other tasks alone.
LEMMA WorkerMinds ==
  ASSUME TypeOK, NEW t \in Tasks, TaskStep(t), NEW u \in Tasks \ {t}
  PROVE  Effort(u)' = Effort(u)
  <1>1. act'[u] = act[u]
    BY TaskMoves DEF TypeOK, ActivitiesTypeOK
  <1>2. attempt'[u] = attempt[u]
    BY DEF TaskStep, ControlStep, ResizeStep, SetStatus, RemoveOriginal, SniffOriginal,
       MeasureOriginal, SetRejected, Refuse, GetOriginal, CallResizer, StoreVariant, Succeed,
       AttemptFails, Retry, GiveUp, Advance, TypeOK, ActivitiesTypeOK
  <1> QED
    BY <1>1, <1>2, Untouched

\* A decision of the workflow is one that no other precedes, and its activities
\* are new.
LEMMA WorkflowAdvances ==
  ASSUME IInv, Workflow
  PROVE  /\ Stage' > Stage
         /\ \A u \in Tasks : Effort(u)' >= Effort(u)
  <1>1. Stage' > Stage
    BY DEF Workflow, WorkflowTask, BeginSelect, ReceiveSignal, TimerFires, AfterValidate,
       AfterProcessing, AfterResize, AfterFail, AfterComplete, AfterAbandon, Then, Return, Goto,
       Stage, Closed
  <1>2. ASSUME NEW u \in Tasks PROVE Effort(u)' >= Effort(u)
    <2>1. attempt' = attempt /\ (act'[u] = act[u] \/ (act[u] = "idle" /\ act'[u] = FirstStep(u)))
      BY WorkflowSchedules DEF IInv
    <2>2. CASE act'[u] = act[u]
      BY <2>1, <2>2, Untouched, EffortType DEF IInv
    <2>3. CASE act[u] = "idle" /\ act'[u] = FirstStep(u)
      <3>1. Rank(u, act[u]) = 0 /\ Rank(u, FirstStep(u)) \in {1, 4}
        BY <2>3, Ranks DEF FirstStep
      <3> QED
        BY <2>1, <2>3, <3>1, EffortType DEF Effort, IInv
    <2> QED
      BY <2>1, <2>2, <2>3
  <1> QED
    BY <1>1, <1>2

LEMMA StepSpends == IInv /\ IInv' /\ [Next]_vars => Spends
  <1> SUFFICES ASSUME IInv, IInv', [Next]_vars PROVE Spends
    OBVIOUS
  <1>1. /\ \A t \in Tasks : Effort(t) \in Nat
        /\ Stage \in 0 .. 7
    BY EffortType DEF IInv, TypeOK, WorkflowTypeOK, Stage, Open, Waiting, Deciding, Closed
  <1>2. \A t \in Tasks : Worker(t) =>
            /\ Effort(t)' > Effort(t)
            /\ \A u \in Tasks \ {t} : Effort(u)' = Effort(u)
    BY WorkerSpends, WorkerMinds DEF Worker, IInv
  <1>3. Workflow => Stage' > Stage /\ \A u \in Tasks : Effort(u)' >= Effort(u)
    BY WorkflowAdvances
  <1>6. Stage' \in 0 .. 7
    BY DEF IInv, TypeOK, WorkflowTypeOK, Stage, Open, Waiting, Deciding, Closed
  <1>4. CASE UNCHANGED activityVars
    <2>1. \A t \in Tasks : Effort(t)' = Effort(t)
      BY <1>4, Untouched DEF activityVars
    <2>2. Stage' >= Stage
      <3>1. CASE UNCHANGED wf
        <4>1. Stage' = Stage
          BY <3>1 DEF Stage
        <4> QED
          BY <1>1, <4>1
      <3>2. CASE StartWorkflow
        <4>1. wf = "none" /\ wf' \in {"none", "started"}
          BY <3>2 DEF StartWorkflow, Negotiating, IInv, Flow
        <4>2. Stage = 0
          BY <4>1 DEF Stage, Closed
        <4> QED
          BY <1>6, <4>2
      <3>3. CASE Workflow
        BY <1>1, <1>3, <1>6, <3>3
      <3> QED
        BY <3>1, <3>2, <3>3 DEF Next, Step, Negotiate, CreateRecord, PresignURL, Client, BeginPut,
           EndPut, UrlExpires, CompleteUpload, DeliverSignal, Delayed, Worker, workflowVars, vars
    <2> QED
      BY <1>1, <1>2, <1>3, <2>1, <2>2 DEF Spends
  <1>5. CASE Workflow
    <2>1. Stage' >= Stage
      BY <1>1, <1>3, <1>5, <1>6
    <2> QED
      BY <1>2, <1>3, <1>5, <2>1 DEF Spends
  <1>7. CASE \E t \in Tasks : Worker(t)
    <2>1. PICK t \in Tasks : Worker(t)
      BY <1>7
    <2>2. Stage' = Stage
      BY <2>1 DEF Worker, workflowVars, Stage
    <2>3. \A u \in Tasks : Effort(u)' >= Effort(u)
      <3>1. Effort(t)' \in Nat
        BY EffortTypeNext, <2>1 DEF IInv, Spent
      <3> QED
        BY <1>1, <1>2, <2>1, <3>1
    <2> QED
      BY <1>1, <1>2, <1>3, <2>2, <2>3 DEF Spends
  <1> QED
    BY <1>4, <1>5, <1>7 DEF Next, Step, Negotiate, CreateRecord, StartWorkflow, PresignURL, Client,
       BeginPut, EndPut, UrlExpires, CompleteUpload, Delayed, vars

\* There is no endless work: the pipeline's own steps are bounded, whatever fails,
\* by the attempts that the retry policies grant.
THEOREM WorkIsBounded == SafeSpec => []Granted /\ [][Spends]_vars
  <1>1. IInv => Granted
    <2> SUFFICES ASSUME IInv PROVE Granted
      OBVIOUS
    <2>1. Stage \in 0 .. 7
      BY DEF IInv, TypeOK, WorkflowTypeOK, Stage, Open, Waiting, Deciding, Closed
    <2>2. \A t \in Tasks : Rank(t, act[t]) \in 0 .. 8 /\ attempt[t] \in Nat /\ attempt[t] <= MaxAttempts
      BY RankType, EffortType, BoundsAssumption DEF IInv, TypeOK, ActivitiesTypeOK, Attempts
    <2>3. MaxAttempts \in Nat
      BY BoundsAssumption
    <2> QED
      BY <2>1, <2>2, <2>3 DEF Granted, Effort
  <1> QED
    BY <1>1, StepSpends, Invariance, PTL DEF SafeSpec
=============================================================================
