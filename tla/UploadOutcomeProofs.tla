------------------------- MODULE UploadOutcomeProofs -------------------------
(***************************************************************************)
(* What a client gets that behaves, from stores that behave: with one PUT  *)
(* the served objects are made of it, whichever stores lag; and with a     *)
(* table whose statements do not outlive their callers the row follows the *)
(* documented diagram, whatever fails or is retried.                       *)
(***************************************************************************)
EXTENDS UploadRefinementProofs

Decodable(b) == b.kind \in {"image", "toolarge"}

\* As long as the client has not begun a second PUT: its body is under way or is
\* the original, and what is looked at, downloaded or stored is the original.
OneBody ==
    /\ puts = 0 => uploading = {} /\ original = NoObject
    /\ puts <= 1 =>
          /\ uploading # {} => original = NoObject
          /\ \A b, c \in uploading : b = c
          /\ act["validate"] \in {"head", "reply", "ok"} => original.kind # "badtype"
          /\ act["validate"] \in {"reply", "ok"} => original.kind # "toolarge"
          /\ \A v \in Variants :
                /\ act[v] \in {"call", "put"} => data[v] = original
                /\ act[v] = "put" => Decodable(original)
                /\ variant[v] # NoObject => variant[v] = original /\ Decodable(original)
          /\ \A w \in latePut : w.body = original /\ Decodable(original)

\* The row is where the activities have taken it.
RowFollows ==
    /\ lateRow = {}
    /\ act["validate"] = "idle" /\ act["abandon"] = "idle" => row \in {"none", "pending"}
    /\ act["validate"] = "status" => row = "pending"
    /\ act["validate"] \in {"sniff", "head", "delete", "verdict", "reply"} => row = "validating"
    /\ act["validate"] = "ok" /\ act["processing"] = "idle" => row = "validating"
    /\ act["processing"] = "status" => row \in {"validating", "processing"}
    /\ act["processing"] \in {"reply", "ok"} /\ act["complete"] = "idle" /\ act["fail"] = "idle"
       => row = "processing"
    /\ \A t \in {"complete", "fail"} :
          /\ act[t] = "status" => row \in {"processing", StatusOf(t)}
          /\ act[t] \in {"reply", "ok"} => row = StatusOf(t)
    /\ act["abandon"] \in {"delete", "status"} => row \in {"pending", "abandoned"}
    /\ act["abandon"] \in {"reply", "ok"} => row = "abandoned"

-----------------------------------------------------------------------------
(***************************************************************************)
(* One PUT.                                                                *)
(***************************************************************************)
\* Only the end of a PUT replaces the original, and it begins before it ends.
LEMMA OriginalMoves ==
  ASSUME IInv, [Next]_vars
  PROVE  /\ \/ original' = original /\ uploading' = uploading /\ puts' = puts
            \/ original' = NoObject /\ uploading' = uploading /\ puts' = puts
            \/ \E b \in uploading : /\ original' = b /\ uploading' = uploading \ {b} /\ puts' = puts
                                    /\ UNCHANGED <<act, data, variant, latePut>>
            \/ \E b \in Bodies : /\ uploading' = uploading \cup {b} /\ puts' = puts + 1
                                 /\ original' = original /\ UNCHANGED <<act, data, variant, latePut>>
         /\ puts \in Nat
  <1>1. puts \in Nat
    BY BoundsAssumption DEF IInv, TypeOK
  <1>2. CASE Client
    <2>1. CASE BeginPut
      <3>1. PICK k \in Kinds : uploading' = uploading \cup {[put |-> puts + 1, kind |-> k]}
        BY <2>1 DEF BeginPut
      <3>2. [put |-> puts + 1, kind |-> k] \in Bodies
        BY <1>1, <2>1, BoundsAssumption DEF BeginPut, Bodies
      <3> QED
        BY <1>1, <2>1, <3>1, <3>2 DEF BeginPut, storeVars, activityVars
    <2>2. CASE EndPut
      BY <1>1, <2>2 DEF EndPut, activityVars
    <2>3. CASE UrlExpires \/ CompleteUpload
      BY <1>1, <2>3 DEF UrlExpires, CompleteUpload, storeVars
    <2> QED
      BY <1>2, <2>1, <2>2, <2>3 DEF Client
  <1>3. CASE Negotiate
    BY <1>1, <1>3 DEF Negotiate, CreateRecord, StartWorkflow, PresignURL, Negotiating, storeVars,
       objectVars
  <1>4. CASE Workflow
    BY <1>1, <1>4, WorkflowSchedules DEF IInv, storeVars, requestVars
  <1>5. CASE \E t \in Tasks : Worker(t)
    <2>1. PICK t \in Tasks : Worker(t)
      BY <1>5
    <2>2. UNCHANGED <<uploading, puts>>
      BY <2>1 DEF Worker, requestVars
    <2>3. original' \in {original, NoObject}
      <3>1. CASE t \in Controls /\ ControlStep(t)
        BY <3>1 DEF ControlStep, SetStatus, RemoveOriginal, SniffOriginal, MeasureOriginal,
           SetRejected, Refuse, DeleteOriginalErrs, DeleteOriginal, storeVars, objectVars
      <3>2. CASE t \in Variants /\ ResizeStep(t)
        BY <3>2 DEF ResizeStep, GetOriginal, CallResizer, StoreVariant, PutVariant, storeVars
      <3>3. CASE Succeed(t)
        BY <3>3 DEF Succeed, storeVars
      <3>4. CASE AttemptFails(t)
        BY <3>4 DEF AttemptFails, CallInDoubt, DeleteOriginalErrs, DeleteOriginal, PutVariantErrs,
           PutVariant, storeVars, objectVars
      <3> QED
        BY <2>1, <3>1, <3>2, <3>3, <3>4 DEF Worker, TaskStep
    <2> QED
      BY <1>1, <2>2, <2>3
  <1>6. CASE Delayed
    BY <1>1, <1>6 DEF Delayed, StoresLand, LateRowLands, LateDeleteLands, LatePutLands, requestVars,
       objectVars
  <1>7. CASE UNCHANGED vars
    BY <1>1, <1>7 DEF vars, storeVars, requestVars
  <1> QED
    BY <1>2, <1>3, <1>4, <1>5, <1>6, <1>7 DEF Next, Step

\* What Validate has checked and the resizes work on does not change any more.
LEMMA CheckedStays ==
  ASSUME IInv, IInv', OneBody, [Next]_vars, puts' <= 1
  PROVE  /\ puts <= 1
         /\ original # NoObject => original' \in {original, NoObject}
         /\ act["validate"] = "ok" /\ act'["validate"] = "ok" => original' = original
  <1>1. puts <= 1
    BY OriginalMoves
  <1>2. original # NoObject => original' \in {original, NoObject}
    BY <1>1, OriginalMoves DEF OneBody
  <1>3. ASSUME act["validate"] = "ok", act'["validate"] = "ok" PROVE original' = original
    BY <1>2, <1>3 DEF IInv, OriginalKept
  <1> QED
    BY <1>1, <1>2, <1>3

\* The steps of a worker that its single body depends on.
LEMMA WorkerHolds ==
  ASSUME IInv, OneBody, puts <= 1, NEW t \in Tasks, TaskStep(t), original' = original,
         act["validate"] = "ok"
  PROVE  /\ \A v \in Variants :
                /\ act'[v] \in {"call", "put"} => data'[v] = original
                /\ act'[v] = "put" => Decodable(original)
                /\ variant'[v] # NoObject => variant'[v] = original /\ Decodable(original)
         /\ \A w \in latePut' : w.body = original /\ Decodable(original)
  <1> USE TasksAssumption DEF Tasks, Controls, IInv, TypeOK, ActivitiesTypeOK, StoresTypeOK
  <1>1. \A u \in Tasks \ {t} : act'[u] = act[u]
    BY TaskMoves
  <1>2. CASE t \in Controls /\ ControlStep(t)
    <2>1. UNCHANGED <<data, variant, latePut>> /\ t \notin Variants
      BY <1>2 DEF ControlStep, SetStatus, RemoveOriginal, SniffOriginal, MeasureOriginal,
         SetRejected, Refuse, DeleteOriginalErrs, DeleteOriginal, storeVars, objectVars
    <2> QED
      BY <1>1, <2>1 DEF OneBody
  <1>3. CASE t \in Variants /\ GetOriginal(t)
    BY <1>1, <1>3 DEF OneBody, GetOriginal, Advance, storeVars
  <1>4. CASE t \in Variants /\ CallResizer(t)
    BY <1>1, <1>4 DEF OneBody, CallResizer, Advance, storeVars, Decodable
  <1>5. CASE t \in Variants /\ StoreVariant(t)
    BY <1>1, <1>5 DEF OneBody, StoreVariant, Advance, PutVariant
  <1>6. CASE Succeed(t)
    BY <1>1, <1>6 DEF OneBody, Succeed, Advance, storeVars
  <1>7. CASE AttemptFails(t)
    <2>1. Running(t) /\ CallInDoubt(t) /\ act[t] \in StepsOf(t) /\ act'[t] \notin {"call", "put"}
      BY <1>7 DEF AttemptFails, Retry, GiveUp, FirstStep
    <2>2. \A v \in Variants \ {t} : data'[v] = data[v]
      BY <1>7 DEF AttemptFails
    <2>3. CASE UNCHANGED <<variant, latePut>>
      BY <1>1, <2>1, <2>2, <2>3 DEF OneBody
    <2>4. CASE act[t] = "put" /\ t \in Variants
      <3>1. data[t] = original /\ Decodable(original)
        BY <2>4 DEF OneBody
      <3>2. CASE PutVariant(t, data[t])
        <4>1. variant' = [variant EXCEPT ![t] = original] /\ latePut' = latePut
          BY <3>1, <3>2 DEF PutVariant
        <4>2. \A v \in Variants : variant'[v] # NoObject => variant'[v] = original /\ Decodable(original)
          BY <3>1, <4>1 DEF OneBody
        <4>3. \A v \in Variants : /\ act'[v] \in {"call", "put"} => data'[v] = original
                                  /\ act'[v] = "put" => Decodable(original)
          BY <1>1, <2>1, <2>2 DEF OneBody
        <4> QED
          BY <4>1, <4>2, <4>3 DEF OneBody
      <3>3. CASE latePut' = latePut \cup {[variant |-> t, attempt |-> attempt[t], body |-> data[t]]}
                 /\ UNCHANGED variant
        <4>1. \A w \in latePut' : w \in latePut \/ w.body = original
          BY <3>1, <3>3
        <4> QED
          BY <1>1, <2>1, <2>2, <3>1, <3>3, <4>1 DEF OneBody
      <3> QED
        BY <2>1, <2>3, <2>4, <3>2, <3>3 DEF CallInDoubt, PutVariantErrs, objectVars
    <2>5. CASE act[t] # "put"
      BY <2>1, <2>3, <2>5 DEF CallInDoubt, DeleteOriginalErrs, DeleteOriginal, storeVars, objectVars
    <2> QED
      BY <2>1, <2>4, <2>5 DEF StepsOf
  <1> QED
    BY <1>2, <1>3, <1>4, <1>5, <1>6, <1>7 DEF TaskStep, ResizeStep

\* The checks of Validate look at the original that is there.
LEMMA ValidateLooks ==
  ASSUME IInv, OneBody, puts <= 1, NEW t \in Tasks, TaskStep(t)
  PROVE  /\ act'["validate"] \in {"head", "reply", "ok"} => original.kind # "badtype"
         /\ act'["validate"] \in {"reply", "ok"} => original.kind # "toolarge"
  <1> USE TasksAssumption DEF Tasks, Controls, IInv, TypeOK, ActivitiesTypeOK
  <1>1. CASE t # "validate"
    BY <1>1, TaskMoves DEF OneBody
  <1>2. CASE AttemptFails("validate")
    BY <1>2, BoundsAssumption DEF AttemptFails, Retry, GiveUp, MaximumAttempts, Attempts
  <1>3. CASE t = "validate" /\ ~AttemptFails(t)
    BY <1>3 DEF OneBody, TaskStep, ControlStep, SetStatus, RemoveOriginal, SniffOriginal,
       MeasureOriginal, SetRejected, Refuse, Succeed, Advance
  <1> QED
    BY <1>1, <1>2, <1>3

\* Nothing of a resize exists unless Validate is ok.
NoResize ==
    /\ \A v \in Variants : act[v] = "idle" /\ variant[v] = NoObject
    /\ latePut = {}

\* It holds until a resize is scheduled, and before Validate has succeeded.
LEMMA NoResizeBefore ==
  /\ IInv /\ (\A v \in Variants : act[v] = "idle") => NoResize
  /\ IInv /\ act["validate"] # "ok" => NoResize
  <1>1. ASSUME IInv, \A v \in Variants : act[v] = "idle" PROVE NoResize
    <2>1. \A w \in latePut : w.variant \in Variants
      BY <1>1 DEF IInv, TypeOK, StoresTypeOK, VariantPuts
    <2> QED
      BY <1>1, <2>1 DEF NoResize, IInv, VariantOrigin
  <1>2. ASSUME IInv, act["validate"] # "ok" PROVE \A v \in Variants : act[v] = "idle"
    BY <1>2 DEF IInv, Order
  <1> QED
    BY <1>1, <1>2

\* The same in the next state.
LEMMA NoResizeNext ==
  /\ IInv' /\ (\A v \in Variants : act[v] = "idle")' => NoResize'
  /\ IInv' /\ (act["validate"] # "ok")' => NoResize'
  BY NoResizeBefore, PTL

\* One body, one original, in every next state.
LEMMA StepOneBody ==
  ASSUME IInv, IInv', OneBody, [Next]_vars
  PROVE  OneBody'
  <1> USE TasksAssumption DEF Tasks, Controls
  <1>1. puts' = 0 => uploading' = {} /\ original' = NoObject
    BY OriginalMoves DEF OneBody
  <1>2. ASSUME puts' <= 1
        PROVE  /\ uploading' # {} => original' = NoObject
               /\ \A b, c \in uploading' : b = c
    BY <1>2, OriginalMoves DEF OneBody
  <1>3. ASSUME puts' <= 1
        PROVE  /\ act'["validate"] \in {"head", "reply", "ok"} => original'.kind # "badtype"
               /\ act'["validate"] \in {"reply", "ok"} => original'.kind # "toolarge"
    <2>1. puts <= 1 /\ (original # NoObject => original' \in {original, NoObject})
      BY <1>3, CheckedStays
    <2>2. NoObject.kind \notin {"badtype", "toolarge"}
      BY DEF NoObject
    <2>3. CASE UNCHANGED act
      BY <2>1, <2>2, <2>3 DEF OneBody, IInv, OriginalKept
    <2>4. CASE \E t \in Tasks : Worker(t)
      <3>1. PICK t \in Tasks : TaskStep(t) /\ UNCHANGED <<puts, uploading>>
        BY <2>4 DEF Worker, requestVars
      <3>2. original' \in {original, NoObject}
        BY <2>1, <3>1, OriginalMoves DEF OneBody
      <3> QED
        BY <2>1, <2>2, <3>1, <3>2, ValidateLooks
    <2>5. CASE Workflow
      <3>1. UNCHANGED original /\ (act'["validate"] = act["validate"] \/ act'["validate"] = "status")
        BY <2>5, WorkflowSchedules DEF IInv, storeVars, FirstStep
      <3> QED
        BY <2>1, <3>1 DEF OneBody
    <2> QED
      BY <2>3, <2>4, <2>5 DEF Next, Step, Negotiate, CreateRecord, StartWorkflow, PresignURL, Client,
         BeginPut, EndPut, UrlExpires, CompleteUpload, Delayed, vars, activityVars
  <1>4. ASSUME puts' <= 1
        PROVE  /\ \A v \in Variants :
                      /\ act'[v] \in {"call", "put"} => data'[v] = original'
                      /\ act'[v] = "put" => Decodable(original')
                      /\ variant'[v] # NoObject => variant'[v] = original' /\ Decodable(original')
               /\ \A w \in latePut' : w.body = original' /\ Decodable(original')
    <2>1. CASE act'["validate"] # "ok"
      <3>1. NoResize'
        BY <2>1, NoResizeNext
      <3> QED
        BY <3>1 DEF NoResize
    <2>2. CASE act'["validate"] = "ok" /\ act["validate"] # "ok"
      <3>1. NoResize
        BY <2>2, NoResizeBefore
      <3>2. CASE UNCHANGED act
        BY <2>2, <3>2
      <3>3. CASE Workflow
        BY <2>2, <3>3, WorkflowSchedules DEF IInv, FirstStep
      <3>4. CASE \E t \in Tasks : Worker(t)
        <4>1. PICK t \in Tasks : TaskStep(t)
          BY <3>4 DEF Worker
        <4>2. \A v \in Variants : act'[v] = "idle"
          <5>1. act \in [Tasks -> Steps \cup {"idle", "ok", "err"}] /\ TypeOK
            BY DEF IInv, TypeOK, ActivitiesTypeOK
          <5>2. t = "validate" /\ \E x : act' = [act EXCEPT !["validate"] = x]
            BY <2>2, <4>1, <5>1, TaskMoves
          <5> QED
            BY <3>1, <5>1, <5>2 DEF NoResize
        <4> QED
          BY <4>2, NoResizeNext DEF NoResize
      <3> QED
        BY <3>2, <3>3, <3>4
        DEF Next, Step, Negotiate, CreateRecord, StartWorkflow, PresignURL, Client, BeginPut, EndPut,
            UrlExpires, CompleteUpload, Delayed, vars, activityVars
    <2>3. CASE act'["validate"] = "ok" /\ act["validate"] = "ok"
      <3>1. original' = original /\ puts <= 1
        BY <1>4, <2>3, CheckedStays
      <3>2. CASE UNCHANGED <<act, data, variant, latePut>>
        BY <3>1, <3>2 DEF OneBody
      <3>3. CASE Workflow
        <4>1. UNCHANGED <<data, variant, latePut>>
          BY <3>3, WorkflowSchedules DEF IInv, storeVars
        <4>2. \A v \in Variants : act'[v] \in {"call", "put"} => act'[v] = act[v]
          BY <3>3, WorkflowSchedules DEF IInv, FirstStep
        <4> QED
          BY <3>1, <4>1, <4>2 DEF OneBody
      <3>4. CASE \E t \in Tasks : Worker(t)
        BY <2>3, <3>1, <3>4, WorkerHolds DEF Worker
      <3>5. CASE Delayed
        <4>1. UNCHANGED <<act, data>>
          BY <3>5 DEF Delayed, activityVars
        <4>2. CASE LatePutLands
          <5>1. PICK w \in latePut : /\ variant' = [variant EXCEPT ![w.variant] = w.body]
                                     /\ latePut' = latePut \ {w}
            BY <4>2 DEF LatePutLands
          <5>2. w.body = original /\ Decodable(original) /\ variant \in [Variants -> Objects]
            BY <3>1 DEF OneBody, IInv, TypeOK, StoresTypeOK
          <5> QED
            BY <3>1, <4>1, <5>1, <5>2 DEF OneBody
        <4> QED
          BY <3>2, <3>5, <4>1, <4>2
          DEF Delayed, StoresLand, LateRowLands, LateDeleteLands, objectVars
      <3> QED
        BY <3>2, <3>3, <3>4, <3>5 DEF Next, Step, Negotiate, CreateRecord, StartWorkflow, PresignURL,
           Client, BeginPut, EndPut, UrlExpires, CompleteUpload, vars, activityVars, storeVars,
           objectVars
    <2> QED
      BY <2>1, <2>2, <2>3
  <1> QED
    BY <1>1, <1>2, <1>3, <1>4 DEF OneBody

\* SinglePutServed: the resized objects of a complete upload are made of the one body
\* that the client sent, whatever is retried or stored late.
THEOREM SinglePutIsServed == ASSUME Variants # {} PROVE SafeSpec => []SinglePutServed
  <1>1. Init => OneBody
    BY DEF Init, StoresInit, ActivitiesInit, OneBody, Tasks, Controls
  <1>2. ASSUME IInv, OneBody, puts = 1, "complete" \in shown
        PROVE  original.kind = "image" /\ \A v \in Variants : variant[v] = original
    <2>1. act["validate"] = "ok" /\ \A v \in Variants : act[v] = "ok"
      BY <1>2, ShownOrigin, BranchesExclude DEF IInv, Order
    <2>2. original \in Objects /\ original # NoObject /\ original.kind \notin {"badtype", "toolarge"}
      BY <1>2, <2>1 DEF IInv, TypeOK, StoresTypeOK, OriginalKept, OneBody
    <2>3. \A v \in Variants : variant[v] = original /\ Decodable(original)
      BY <1>2, <2>1 DEF IInv, VariantOrigin, OneBody
    <2> QED
      BY <2>2, <2>3 DEF Decodable
  <1>3. IInv /\ OneBody => SinglePutServed
    BY <1>2 DEF SinglePutServed
  <1>4. IInv /\ IInv' /\ OneBody /\ [Next]_vars => OneBody'
    BY StepOneBody
  <1> QED
    BY <1>1, <1>3, <1>4, Invariance, PTL DEF SafeSpec

-----------------------------------------------------------------------------
(***************************************************************************)
(* A table that executes a statement while its caller waits, or never.     *)
(***************************************************************************)
\* What a step of a control activity does to the row.
LEMMA ControlMoves ==
  ASSUME IInv, "row" \notin Lagging, lateRow = {}, row # "none",
         NEW t \in Controls, TaskStep(t)
  PROVE  /\ lateRow' = {}
         /\ \/ /\ act[t] = "status" /\ act'[t] \in {"sniff", "reply"} /\ row' = StatusOf(t)
               /\ act'[t] = "sniff" <=> t = "validate"
            \/ /\ act[t] = "status" /\ act'[t] \in {FirstStep(t), "err"}
               /\ row' \in {row, StatusOf(t)}
            \/ /\ t = "validate" /\ act[t] = "verdict" /\ act'[t] \in {"refuse", "err"}
               /\ row' \in {row, "rejected"}
            \/ /\ t = "validate" /\ row' = row
               /\ \/ act[t] = "sniff" /\ act'[t] \in {"delete", "head"}
                  \/ act[t] = "head" /\ act'[t] \in {"delete", "reply"}
                  \/ act[t] = "delete" /\ act'[t] = "verdict"
            \/ t = "abandon" /\ act[t] = "delete" /\ act'[t] = "status" /\ row' = row
            \/ act[t] = "reply" /\ act'[t] = "ok" /\ row' = row
            \/ act[t] \notin {"status", "verdict"} /\ act'[t] \in {FirstStep(t), "err"} /\ row' = row
         /\ t = "validate" => act'[t] # "status"
  <1> USE TasksAssumption DEF Tasks, Controls, IInv, TypeOK, ActivitiesTypeOK, WriteRow, WriteRowErrs,
          Written, rowVars, storeVars
  <1>1. StatusOf(t) # "pending"
    BY DEF StatusOf
  <1>2. CASE SetStatus(t)
    BY <1>1, <1>2 DEF SetStatus, Advance
  <1>3. CASE RemoveOriginal(t)
    BY <1>3 DEF RemoveOriginal, Advance
  <1>4. CASE t = "validate" /\ (SniffOriginal \/ MeasureOriginal \/ SetRejected \/ Refuse)
    BY <1>4 DEF SniffOriginal, MeasureOriginal, SetRejected, Refuse, Advance, FirstStep
  <1>5. CASE Succeed(t)
    BY <1>5 DEF Succeed, Advance
  <1>6. CASE AttemptFails(t)
    <2>1. Running(t) /\ CallInDoubt(t) /\ act'[t] \in {FirstStep(t), "err"}
      BY <1>6 DEF AttemptFails, Retry, GiveUp
    <2>2. t = "validate" => act'[t] = "err"
      BY <1>6, BoundsAssumption DEF AttemptFails, Retry, GiveUp, MaximumAttempts, Attempts
    <2>3. CASE act[t] = "status"
      BY <1>1, <2>1, <2>2, <2>3 DEF CallInDoubt
    <2>4. CASE act[t] = "verdict"
      BY <2>1, <2>2, <2>4 DEF CallInDoubt, StepsOf
    <2>5. CASE act[t] \notin {"status", "verdict"}
      BY <2>1, <2>2, <2>5 DEF CallInDoubt, DeleteOriginalErrs, PutVariantErrs
    <2> QED
      BY <2>3, <2>4, <2>5
  <1> QED
    BY <1>2, <1>3, <1>4, <1>5, <1>6 DEF TaskStep, ControlStep

\* A resize leaves the row alone.
LEMMA ResizeLeavesRow ==
  ASSUME IInv, NEW t \in Variants, TaskStep(t)
  PROVE  UNCHANGED rowVars
  <1> USE TasksAssumption DEF Tasks, Controls, IInv, TypeOK, ActivitiesTypeOK, rowVars, storeVars
  <1>1. CASE ResizeStep(t) \/ Succeed(t)
    BY <1>1 DEF ResizeStep, GetOriginal, CallResizer, StoreVariant, Succeed
  <1>2. CASE AttemptFails(t)
    BY <1>2 DEF AttemptFails, CallInDoubt, StepsOf
  <1> QED
    BY <1>1, <1>2 DEF TaskStep

\* Each activity writes the row where the one before it has left it.
LEMMA WorkerFollows ==
  ASSUME IInv, IInv', Recorded, RowFollows, "row" \notin Lagging,
         NEW t \in Tasks, TaskStep(t), UNCHANGED <<neg, wf>>
  PROVE  RowFollows'
  <1> USE TasksAssumption DEF Tasks, Controls
  <1>1. act[t] \in Steps /\ act'[t] # "idle" /\ \A u \in Tasks \ {t} : act'[u] = act[u]
    BY TaskMoves DEF Steps, IInv, TypeOK, ActivitiesTypeOK
  <1>2. row # "none"
    BY WorkerRecorded
  <1>3. lateRow = {}
    BY DEF RowFollows
  <1>4. Order /\ Order'
    BY DEF IInv
  <1> act[t] \in StepsOf(t)
    BY <1>1 DEF IInv, TypeOK, ActivitiesTypeOK, Running
  <1>5. CASE t \in Variants
    <2>1. UNCHANGED rowVars
      BY <1>5, ResizeLeavesRow
    <2> QED
      BY <1>1, <1>5, <2>1 DEF RowFollows, rowVars, StatusOf
  <1>6. CASE t = "validate"
    <2>1. act["processing"] = "idle" /\ act["complete"] = "idle" /\ act["fail"] = "idle"
            /\ act["abandon"] = "idle"
      BY <1>1, <1>4, <1>6 DEF Order, Steps
    <2>2. act[t] # "idle" /\ act[t] # "ok" /\ act[t] # "err"
      BY <1>1 DEF Steps
    <2> QED
      BY <1>1, <1>2, <1>3, <1>6, <2>1, <2>2, ControlMoves DEF RowFollows, StatusOf, FirstStep
  <1>7. CASE t = "processing"
    <2>1. act["validate"] = "ok" /\ act["complete"] = "idle" /\ act["fail"] = "idle"
            /\ act["abandon"] = "idle"
      BY <1>1, <1>4, <1>7 DEF Order, Steps
    <2> QED
      BY <1>1, <1>2, <1>3, <1>7, <2>1, ControlMoves DEF RowFollows, StatusOf, FirstStep, StepsOf
  <1>8. CASE t \in {"complete", "fail"}
    <2>1. act["validate"] = "ok" /\ act["processing"] = "ok" /\ act["abandon"] = "idle"
            /\ \A u \in {"complete", "fail"} \ {t} : act[u] = "idle"
      BY <1>1, <1>4, <1>8 DEF Order, Steps
    <2> QED
      BY <1>1, <1>2, <1>3, <1>8, <2>1, ControlMoves DEF RowFollows, StatusOf, FirstStep, StepsOf
  <1>9. CASE t = "abandon"
    <2>1. act["validate"] = "idle" /\ act["processing"] = "idle" /\ act["complete"] = "idle"
            /\ act["fail"] = "idle"
      BY <1>1, <1>4, <1>9 DEF Order, Steps
    <2> QED
      BY <1>1, <1>2, <1>3, <1>9, <2>1, ControlMoves DEF RowFollows, StatusOf, FirstStep, StepsOf
  <1> QED
    BY <1>5, <1>6, <1>7, <1>8, <1>9

\* So does the workflow, which schedules an activity when the one before it is done.
LEMMA WorkflowFollows ==
  ASSUME IInv, IInv', Recorded, RowFollows, Workflow
  PROVE  RowFollows'
  <1> USE TasksAssumption DEF Tasks, Controls
  <1>1. UNCHANGED rowVars
    BY WorkflowSchedules DEF IInv, storeVars, rowVars
  <1>2. \A u \in Tasks : act'[u] = act[u] \/ (act[u] = "idle" /\ act'[u] = FirstStep(u))
    BY WorkflowSchedules DEF IInv
  <1>3. wf # "none" /\ row # "none"
    BY DEF Workflow, WorkflowTask, BeginSelect, ReceiveSignal, TimerFires, AfterValidate, Recorded,
       AfterProcessing, AfterResize, AfterFail, AfterComplete, AfterAbandon, Then, Return, Goto
  <1>4. Order /\ Order'
    BY DEF IInv
  <1>5. FirstStep("validate") = "status" /\ FirstStep("processing") = "status"
          /\ FirstStep("complete") = "status" /\ FirstStep("fail") = "status"
          /\ FirstStep("abandon") = "delete"
    BY DEF FirstStep
  <1>6. act["validate"] = "idle" /\ act'["validate"] = "status"
        => act["abandon"] = "idle" /\ act'["abandon"] = "idle"
    BY <1>2, <1>4, <1>5 DEF Order
  <1> QED
    BY <1>1, <1>2, <1>3, <1>4, <1>5, <1>6 DEF RowFollows, rowVars, Order, StatusOf

\* So does every step, when no UPDATE of the row can run late.
LEMMA StepFollows ==
  ASSUME RInv, RInv', RowFollows, "row" \notin Lagging, [Next]_vars
  PROVE  RowFollows'
  <1>1. CASE UNCHANGED <<act, row, lateRow>>
    BY <1>1 DEF RowFollows
  <1>2. CASE CreateRecord
    <2>1. row = "none" /\ row' \in {"none", "pending"} /\ lateRow' = {} /\ UNCHANGED act
      BY <1>2 DEF CreateRecord, Negotiating, WriteRow, WriteRowErrs, Written, rowVars, RInv, Recorded,
         RowFollows, activityVars
    <2> QED
      BY <2>1 DEF RowFollows, StatusOf
  <1>3. CASE LateRowLands
    BY <1>3 DEF LateRowLands, RowFollows
  <1>4. CASE Workflow
    BY <1>4, WorkflowFollows DEF RInv
  <1>5. CASE \E t \in Tasks : Worker(t)
    BY <1>5, WorkerFollows DEF Worker, workflowVars, requestVars, RInv
  <1> QED
    BY <1>1, <1>2, <1>3, <1>4, <1>5
    DEF Next, Step, Negotiate, StartWorkflow, PresignURL, Client, BeginPut, EndPut, UrlExpires,
        CompleteUpload, Delayed, StoresLand, LateDeleteLands, LatePutLands, vars, storeVars, rowVars,
        activityVars

\* The invariant of a table without late statements.
FInv == RInv /\ RowFollows

\* Where the activities are tells what the row says, in every behaviour.
LEMMA FollowsInvariance == ASSUME "row" \notin Lagging PROVE SafeSpec => []FInv
  <1>1. Init => FInv
    BY InitIInv
    DEF Init, StoresInit, ActivitiesInit, WorkflowInit, FInv, RInv, Recorded, Asked, RowFollows,
        Tasks, Controls
  <1>2. FInv /\ [Next]_vars => FInv'
    BY StepIInv, StepRecorded, StepAsked, StepFollows DEF FInv, RInv
  <1> QED
    BY <1>1, <1>2, PTL DEF SafeSpec

\* ReportMeansStatus: the row agrees with the activity that reported last.
THEOREM ReportsMeanStatus == ASSUME "row" \notin Lagging PROVE SafeSpec => []ReportMeansStatus
  <1>1. FInv => ReportMeansStatus
    BY DEF FInv, RowFollows, ReportMeansStatus, StatusOf
  <1> QED
    BY <1>1, FollowsInvariance, PTL

\* Every UPDATE is an arrow of the diagram.
LEMMA StepIsArrow ==
  ASSUME FInv, "row" \notin Lagging, [Next]_vars, row' # row
  PROVE  <<row, row'>> \in Arrows
  <1> USE TasksAssumption DEF Tasks, Controls
  <1>1. CASE CreateRecord
    BY <1>1 DEF CreateRecord, Negotiating, WriteRow, WriteRowErrs, Written, rowVars, FInv, RInv,
       Recorded, Arrows
  <1>2. CASE \E t \in Tasks : Worker(t)
    <2>1. PICK t \in Tasks : TaskStep(t) /\ UNCHANGED <<neg, wf>>
      BY <1>2 DEF Worker, workflowVars, requestVars
    <2>2. row # "none" /\ Order
      BY <2>1, WorkerRecorded DEF FInv, RInv, IInv
    <2>3. CASE t \in Controls /\ act[t] = "status" /\ row' = StatusOf(t)
      <3>1. CASE t \in {"validate", "abandon"}
        BY <2>2, <2>3, <3>1 DEF FInv, RowFollows, StatusOf, Arrows
      <3>2. CASE t \in {"processing", "complete", "fail"}
        BY <2>2, <2>3, <3>2 DEF FInv, RowFollows, StatusOf, Arrows
      <3> QED
        BY <2>3, <3>1, <3>2
    <2>4. CASE t = "validate" /\ act[t] = "verdict" /\ row' = "rejected"
      BY <2>4 DEF FInv, RowFollows, Arrows
    <2> QED
      BY <2>1, <2>2, <2>3, <2>4, WorkerRow DEF FInv, RInv
  <1>3. CASE LateRowLands
    BY <1>3 DEF LateRowLands, FInv, RowFollows
  <1>4. CASE Workflow
    BY <1>4, WorkflowSchedules DEF FInv, RInv, IInv, storeVars
  <1> QED
    BY <1>1, <1>2, <1>3, <1>4
    DEF Next, Step, Negotiate, StartWorkflow, PresignURL, Client, BeginPut, EndPut, UrlExpires,
        CompleteUpload, Delayed, StoresLand, LateDeleteLands, LatePutLands, vars, storeVars, rowVars

\* StatusDiagram: the row moves along the arrows of the documented diagram only.
THEOREM DiagramIsKept == ASSUME "row" \notin Lagging PROVE SafeSpec => StatusDiagram
  <1>1. FInv /\ [Next]_vars => [row' # row => <<row, row'>> \in Arrows]_row
    BY StepIsArrow
  <1> QED
    BY <1>1, FollowsInvariance, PTL DEF SafeSpec, StatusDiagram
=============================================================================
