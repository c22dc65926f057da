---------------------------- MODULE ImagingServer ----------------------------
(***************************************************************************)
(* The image service's Server (internal/imaging/server.go): Resize RPCs    *)
(* take a slot of the channel sem before they decode, or give up with      *)
(* their context.  A decode never looks at its context: it goes on, slot   *)
(* in hand, after its caller has timed out and perhaps called again.       *)
(*                                                                         *)
(* A Go channel serves blocked senders in the order they came: a receive   *)
(* from the full buffer passes the slot to the first of them.              *)
(***************************************************************************)
EXTENDS Integers, Sequences, FiniteSets

CONSTANTS
    Requests,       \* the RPCs, each retry of a caller being one of its own
    MaxConcurrent   \* the argument of NewServer

ASSUME RequestsAssumption == IsFiniteSet(Requests)
ASSUME ConcurrencyAssumption == MaxConcurrent \in Int

VARIABLES
    st,     \* where each RPC is
    sem,    \* slots taken: the length of the channel's buffer
    queue,  \* RPCs blocked on sending to the channel
    over    \* RPCs whose context is done

vars == <<st, sem, queue, over>>

\* NewServer: maxConcurrent <= 0 is treated as 1.
Capacity == IF MaxConcurrent < 1 THEN 1 ELSE MaxConcurrent

Init ==
    /\ st = [r \in Requests |-> "idle"]
    /\ sem = 0
    /\ queue = <<>>
    /\ over = {}

Without(q, k) == [i \in 1 .. Len(q) - 1 |-> IF i < k THEN q[i] ELSE q[i + 1]]

\* Mutant: a nil channel, as in the zero-value Server of the tests.
BugNoLimit(r) ==
    /\ st[r] = "idle"
    /\ sem' = sem + 1
    /\ st' = [st EXCEPT ![r] = "decoding"]
    /\ UNCHANGED <<queue, over>>

\* The select finds a free slot, and takes it even when the context is done.
Enter(r) ==
    /\ st[r] = "idle"
    /\ sem < Capacity
    /\ sem' = sem + 1
    /\ st' = [st EXCEPT ![r] = "decoding"]
    /\ UNCHANGED <<queue, over>>

\* The select blocks.
Wait(r) ==
    /\ st[r] = "idle"
    /\ sem >= Capacity
    /\ r \notin over
    /\ queue' = Append(queue, r)
    /\ st' = [st EXCEPT ![r] = "waiting"]
    /\ UNCHANGED <<sem, over>>

\* The select finds the context done, at once or after it has blocked.
Refuse(r) ==
    /\ st[r] = "idle"
    /\ r \in over
    /\ st' = [st EXCEPT ![r] = "cancelled"]
    /\ UNCHANGED <<sem, queue, over>>

\* Mutant: the deferred release is set up before the select.
BugCancelReleases(r) ==
    /\ st[r] = "waiting"
    /\ r \in over
    /\ \E k \in 1 .. Len(queue) : queue[k] = r /\ queue' = Without(queue, k)
    /\ st' = [st EXCEPT ![r] = "cancelled"]
    /\ sem' = sem - 1
    /\ UNCHANGED over

Cancel(r) ==
    /\ st[r] = "waiting"
    /\ r \in over
    /\ \E k \in 1 .. Len(queue) : queue[k] = r /\ queue' = Without(queue, k)
    /\ st' = [st EXCEPT ![r] = "cancelled"]
    /\ UNCHANGED <<sem, over>>

\* The deadline of the caller passes, or the caller goes away.
ContextDone(r) ==
    /\ st[r] \in {"idle", "waiting", "decoding"}
    /\ over' = over \cup {r}
    /\ UNCHANGED <<st, sem, queue>>

\* Mutant: the slot is given back, but nobody who waits for it is told.
BugReleaseSilently(r) ==
    /\ st[r] = "decoding"
    /\ sem' = sem - 1
    /\ st' = [st EXCEPT ![r] = "answered"]
    /\ UNCHANGED <<queue, over>>

\* Mutant: the slot of a decode that fails is not given back.
BugErrorKeepsSlot(r) ==
    /\ st[r] = "decoding"
    /\ st' = [st EXCEPT ![r] = "answered"]
    /\ UNCHANGED <<sem, queue, over>>

\* The decode ends, in an image or an error, and the deferred receive frees
\* the slot, for the first in the queue if there is one.
Answer(r) ==
    /\ st[r] = "decoding"
    /\ \/ /\ queue = <<>>
          /\ sem' = sem - 1
          /\ st' = [st EXCEPT ![r] = "answered"]
          /\ UNCHANGED queue
       \/ /\ queue # <<>>
          /\ st' = [st EXCEPT ![r] = "answered", ![Head(queue)] = "decoding"]
          /\ queue' = Tail(queue)
          /\ UNCHANGED sem
    /\ UNCHANGED over

\* The container dies (out of memory, say) and a new server takes its place.
\* RPCs that have not reached a handler yet will reach the new one.
Crash ==
    /\ st' = [r \in Requests |-> IF st[r] \in {"waiting", "decoding"} THEN "lost" ELSE st[r]]
    /\ sem' = 0
    /\ queue' = <<>>
    /\ UNCHANGED over

Handler(r) == Enter(r) \/ Wait(r) \/ Refuse(r) \/ Cancel(r) \/ Answer(r)

Next == (\E r \in Requests : Handler(r) \/ ContextDone(r)) \/ Crash

SafeSpec == Init /\ [][Next]_vars

\* A decode ends, and a goroutine whose context is done gets to run.
Spec == SafeSpec /\ \A r \in Requests : WF_vars(Answer(r)) /\ WF_vars(Cancel(r))

-----------------------------------------------------------------------------
Decoding == {r \in Requests : st[r] = "decoding"}
WaitingRequests == {r \in Requests : st[r] = "waiting"}

TypeOK ==
    /\ st \in [Requests -> {"idle", "waiting", "decoding", "answered", "cancelled", "lost"}]
    /\ sem \in 0 .. Capacity
    /\ queue \in Seq(Requests)
    /\ over \subseteq Requests

\* No more decodes than NewServer allows, those of callers that have gone
\* included, and no slot is held by anything but a decode: none is ever leaked
\* by a cancellation, an error or a restart.
DecodesBounded == Cardinality(Decoding) = sem /\ sem <= Capacity

\* Nobody waits while a slot is free.
NoIdleSlot == WaitingRequests # {} => sem = Capacity

\* The queue is the waiting requests, each once: a cancelled one is never handed
\* a slot that nobody would give back.
QueueIsWaiting ==
    /\ \A i \in 1 .. Len(queue) : st[queue[i]] = "waiting"
    /\ \A i, j \in 1 .. Len(queue) : queue[i] = queue[j] => i = j
    /\ \A r \in WaitingRequests : \E i \in 1 .. Len(queue) : queue[i] = r

\* A blocked call gets its slot, or is told that its context is done.
WaitersLeave == \A r \in Requests : st[r] = "waiting" ~> st[r] # "waiting"
=============================================================================
