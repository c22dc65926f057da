------------------------ MODULE ImagingServerProofs ------------------------
(***************************************************************************)
(* Theorems of ImagingServer, for every finite set of RPCs and every       *)
(* argument of NewServer.                                                  *)
(***************************************************************************)
EXTENDS ImagingServer, FiniteSetTheorems, SequenceTheorems, TLAPS

\* NewServer makes a channel with room for at least one decode.
LEMMA CapacityType == Capacity \in Nat /\ Capacity >= 1
  BY ConcurrencyAssumption DEF Capacity

\* The sequence without its k-th element.
LEMMA WithoutSeq ==
  ASSUME NEW S, NEW q \in Seq(S), NEW k \in 1 .. Len(q)
  PROVE  /\ Without(q, k) \in Seq(S)
         /\ Len(Without(q, k)) = Len(q) - 1
         /\ \A i \in 1 .. Len(q) - 1 :
                Without(q, k)[i] = IF i < k THEN q[i] ELSE q[i + 1]
  <1>1. Len(q) \in Nat /\ Len(q) >= 1 /\ q \in [1 .. Len(q) -> S]
    OBVIOUS
  <1>2. Without(q, k) \in [1 .. Len(q) - 1 -> S]
    BY <1>1 DEF Without
  <1>3. Len(q) - 1 \in Nat
    BY <1>1
  <1> QED
    BY <1>2, <1>3 DEF Without

\* The first of a non-empty queue, and what it leaves behind.
LEMMA HeadTail ==
  ASSUME NEW S, NEW q \in Seq(S), q # <<>>
  PROVE  /\ Len(q) \in Nat /\ Len(q) >= 1
         /\ Head(q) = q[1] /\ q[1] \in S
         /\ Tail(q) \in Seq(S)
         /\ Len(Tail(q)) = Len(q) - 1
         /\ \A i \in 1 .. Len(q) - 1 : Tail(q)[i] = q[i + 1]
  BY HeadTailProperties, EmptySeq, ElementOfSeq, LenProperties

IInv == TypeOK /\ QueueIsWaiting /\ DecodesBounded /\ NoIdleSlot

\* The server starts with no slot taken and an empty queue.
LEMMA InitIInv == Init => IInv
  <1> SUFFICES ASSUME Init PROVE IInv
    OBVIOUS
  <1>1. Decoding = {} /\ WaitingRequests = {}
    BY DEF Init, Decoding, WaitingRequests
  <1>2. Cardinality({}) = 0
    BY FS_EmptySet
  <1> QED
    BY <1>1, <1>2, CapacityType
    DEF Init, IInv, TypeOK, QueueIsWaiting, DecodesBounded, NoIdleSlot

\* Every step keeps the types: no slot is freed that was not taken.
LEMMA StepType ==
  ASSUME IInv, [Next]_vars
  PROVE  TypeOK'
  <1> USE CapacityType DEF IInv, TypeOK
  <1>1. CASE UNCHANGED vars
    BY <1>1 DEF vars
  <1>2. ASSUME NEW r \in Requests, Enter(r) PROVE TypeOK'
    BY <1>2 DEF Enter
  <1>3. ASSUME NEW r \in Requests, Wait(r) PROVE TypeOK'
    BY <1>3 DEF Wait
  <1>4. ASSUME NEW r \in Requests, Refuse(r) \/ ContextDone(r) PROVE TypeOK'
    BY <1>4 DEF Refuse, ContextDone
  <1>5. ASSUME NEW r \in Requests, Cancel(r) PROVE TypeOK'
    <2>1. queue' \in Seq(Requests)
      BY <1>5, WithoutSeq DEF Cancel
    <2> QED
      BY <1>5, <2>1 DEF Cancel
  <1>6. ASSUME NEW r \in Requests, Answer(r) PROVE TypeOK'
    <2>1. CASE queue = <<>>
      <3>1. r \in Decoding /\ IsFiniteSet(Decoding)
        BY <1>6, RequestsAssumption, FS_Subset DEF Answer, Decoding
      <3>2. sem >= 1
        BY <3>1, FS_EmptySet DEF DecodesBounded
      <3> QED
        BY <1>6, <2>1, <3>2 DEF Answer
    <2>2. CASE queue # <<>>
      <3>1. Head(queue) \in Requests /\ Tail(queue) \in Seq(Requests)
        BY <2>2, HeadTail
      <3> QED
        BY <1>6, <2>2, <3>1 DEF Answer
    <2> QED
      BY <2>1, <2>2
  <1>7. CASE Crash
    BY <1>7 DEF Crash
  <1> QED
    BY <1>1, <1>2, <1>3, <1>4, <1>5, <1>6, <1>7 DEF Next, Handler

\* Every step keeps the queue equal to the RPCs that wait.
LEMMA StepQueue ==
  ASSUME IInv, [Next]_vars
  PROVE  QueueIsWaiting'
  <1> USE DEF IInv, TypeOK, QueueIsWaiting, WaitingRequests
  <1>1. CASE UNCHANGED vars
    BY <1>1 DEF vars
  <1>2. ASSUME NEW r \in Requests, Enter(r) PROVE QueueIsWaiting'
    BY <1>2 DEF Enter
  <1>3. ASSUME NEW r \in Requests, Wait(r) PROVE QueueIsWaiting'
    <2>1. /\ Len(queue') = Len(queue) + 1
          /\ queue'[Len(queue) + 1] = r
          /\ \A i \in 1 .. Len(queue) : queue'[i] = queue[i] /\ queue[i] # r
      BY <1>3 DEF Wait
    <2>2. \A x \in Requests \ {r} : st'[x] = st[x]
      BY <1>3 DEF Wait
    <2>3. st'[r] = "waiting"
      BY <1>3 DEF Wait
    <2>4. \A i \in 1 .. Len(queue') : i \in 1 .. Len(queue) \/ i = Len(queue) + 1
      BY <2>1
    <2>5. \A i \in 1 .. Len(queue') : st'[queue'[i]] = "waiting"
      <3>1. \A i \in 1 .. Len(queue) : queue[i] \in Requests
        BY ElementOfSeq
      <3> QED
        BY <2>1, <2>2, <2>3, <2>4, <3>1
    <2>6. \A i, j \in 1 .. Len(queue') : queue'[i] = queue'[j] => i = j
      BY <2>1, <2>4
    <2>7. \A x \in Requests : st'[x] = "waiting" => \E i \in 1 .. Len(queue') : queue'[i] = x
      BY <2>1, <2>2
    <2> QED
      BY <2>5, <2>6, <2>7
  <1>4. ASSUME NEW r \in Requests, Refuse(r) \/ ContextDone(r) PROVE QueueIsWaiting'
    BY <1>4 DEF Refuse, ContextDone
  <1>5. ASSUME NEW r \in Requests, Cancel(r) PROVE QueueIsWaiting'
    <2>1. PICK k \in 1 .. Len(queue) : queue[k] = r /\ queue' = Without(queue, k)
      BY <1>5 DEF Cancel
    <2>2. /\ Len(queue') = Len(queue) - 1
          /\ \A i \in 1 .. Len(queue) - 1 : queue'[i] = IF i < k THEN queue[i] ELSE queue[i + 1]
      BY ONLY queue \in Seq(Requests), <2>1, WithoutSeq
    <2>3. st' = [st EXCEPT ![r] = "cancelled"]
      BY <1>5 DEF Cancel
    <2>4. \A i \in 1 .. Len(queue') : queue'[i] \in Requests /\ queue'[i] # r
      BY <2>1, <2>2
    <2>5. \A i \in 1 .. Len(queue') : st'[queue'[i]] = "waiting"
      BY <2>1, <2>2, <2>3, <2>4
    <2>6. \A i, j \in 1 .. Len(queue') : queue'[i] = queue'[j] => i = j
      BY <2>1, <2>2
    <2>7. ASSUME NEW x \in Requests, st'[x] = "waiting"
          PROVE  \E i \in 1 .. Len(queue') : queue'[i] = x
      <3>1. x # r /\ st[x] = "waiting"
        BY <2>3, <2>7
      <3>2. PICK i \in 1 .. Len(queue) : queue[i] = x
        BY <3>1
      <3>3. CASE i < k
        BY <2>2, <3>2, <3>3
      <3>4. CASE i > k
        <4>1. i - 1 \in 1 .. Len(queue') /\ queue'[i - 1] = x
          BY <2>1, <2>2, <3>2, <3>4
        <4> QED
          BY <4>1
      <3> QED
        BY <2>1, <3>1, <3>2, <3>3, <3>4
    <2> QED
      BY <2>5, <2>6, <2>7
  <1>6. ASSUME NEW r \in Requests, Answer(r) PROVE QueueIsWaiting'
    <2>1. CASE queue = <<>>
      BY <1>6, <2>1 DEF Answer
    <2>2. CASE queue # <<>>
      <3>1. /\ Head(queue) = queue[1] /\ queue[1] \in Requests /\ queue[1] # r
            /\ Len(queue') = Len(queue) - 1
            /\ \A i \in 1 .. Len(queue') : queue'[i] = queue[i + 1]
        <4>1. st[queue[1]] = "waiting"
          BY <2>2, HeadTail
        <4> QED
          BY <1>6, <2>2, <4>1, HeadTail DEF Answer
      <3>2. st' = [st EXCEPT ![r] = "answered", ![queue[1]] = "decoding"]
        BY <1>6, <2>2, <3>1 DEF Answer
      <3>3. ASSUME NEW i \in 1 .. Len(queue')
            PROVE  queue'[i] \in Requests \ {r, queue[1]} /\ st[queue'[i]] = "waiting"
        <4>1. Len(queue) \in Nat /\ i + 1 \in 1 .. Len(queue) /\ i + 1 # 1 /\ 1 \in 1 .. Len(queue)
          BY <3>1
        <4>2. queue[i + 1] \in Requests /\ st[queue[i + 1]] = "waiting" /\ queue[i + 1] # queue[1]
          BY <4>1, ElementOfSeq
        <4> QED
          BY <1>6, <3>1, <4>2 DEF Answer
      <3>4. \A i \in 1 .. Len(queue') : st'[queue'[i]] = "waiting"
        BY <3>2, <3>3
      <3>5. \A i, j \in 1 .. Len(queue') : queue'[i] = queue'[j] => i = j
        BY <3>1
      <3>6. ASSUME NEW x \in Requests, st'[x] = "waiting"
            PROVE  \E i \in 1 .. Len(queue') : queue'[i] = x
        <4>1. x # r /\ x # queue[1] /\ st[x] = "waiting"
          BY <3>1, <3>2, <3>6
        <4>2. PICK i \in 1 .. Len(queue) : queue[i] = x
          BY <4>1
        <4>3. i - 1 \in 1 .. Len(queue') /\ queue'[i - 1] = x
          BY <3>1, <4>1, <4>2
        <4> QED
          BY <4>3
      <3> QED
        BY <3>4, <3>5, <3>6
    <2> QED
      BY <2>1, <2>2
  <1>7. CASE Crash
    BY <1>7 DEF Crash
  <1> QED
    BY <1>1, <1>2, <1>3, <1>4, <1>5, <1>6, <1>7 DEF Next, Handler

\* A request that starts or stops decoding moves the count by one.
LEMMA CountDecoding ==
  ASSUME TypeOK, TypeOK', NEW r \in Requests
  PROVE  /\ IsFiniteSet(Decoding) /\ Cardinality(Decoding) \in Nat
         /\ r \notin Decoding /\ Decoding' = Decoding \cup {r}
                => Cardinality(Decoding') = Cardinality(Decoding) + 1
         /\ r \in Decoding /\ Decoding' = Decoding \ {r}
                => Cardinality(Decoding') = Cardinality(Decoding) - 1
  <1>1. IsFiniteSet(Decoding)
    BY RequestsAssumption, FS_Subset DEF Decoding
  <1> QED
    BY <1>1, FS_AddElement, FS_RemoveElement, FS_CardinalityType

\* Every step keeps the slots taken equal to the decodes under way.
LEMMA StepBounded ==
  ASSUME IInv, [Next]_vars, TypeOK'
  PROVE  DecodesBounded'
  <1> USE DEF IInv, TypeOK, DecodesBounded
  <1>1. CASE UNCHANGED vars
    BY <1>1 DEF vars, Decoding, Capacity
  <1>2. ASSUME NEW r \in Requests, Enter(r) PROVE DecodesBounded'
    <2>1. r \notin Decoding /\ Decoding' = Decoding \cup {r}
      BY <1>2 DEF Enter, Decoding
    <2>2. Cardinality(Decoding') = Cardinality(Decoding) + 1
      BY <2>1, CountDecoding
    <2>3. sem' = sem + 1 /\ sem < Capacity /\ sem \in Nat /\ Capacity' = Capacity
      BY <1>2 DEF Enter, Capacity
    <2> QED
      BY <2>2, <2>3, CapacityType
  <1>3. ASSUME NEW r \in Requests, Wait(r) \/ Refuse(r) \/ Cancel(r) \/ ContextDone(r)
        PROVE  DecodesBounded'
    <2>1. Decoding' = Decoding
      BY <1>3 DEF Wait, Refuse, Cancel, ContextDone, Decoding
    <2> QED
      BY <1>3, <2>1 DEF Wait, Refuse, Cancel, ContextDone, Capacity
  <1>4. ASSUME NEW r \in Requests, Answer(r) PROVE DecodesBounded'
    <2>1. CASE queue = <<>>
      <3>1. r \in Decoding /\ Decoding' = Decoding \ {r}
        BY <1>4, <2>1 DEF Answer, Decoding
      <3>2. Cardinality(Decoding') = Cardinality(Decoding) - 1
        BY <3>1, CountDecoding
      <3>3. sem' = sem - 1 /\ sem \in Nat /\ Capacity' = Capacity
        BY <1>4, <2>1 DEF Answer, Capacity
      <3> QED
        BY <3>2, <3>3, CapacityType
    <2>2. CASE queue # <<>>
      <3> DEFINE h == Head(queue)
      <3>1. h \in Requests /\ st[h] = "waiting"
        BY <2>2, HeadTail DEF QueueIsWaiting
      <3>2. /\ r \in Decoding /\ h \notin Decoding /\ h # r
            /\ Decoding' = (Decoding \ {r}) \cup {h}
        <4>1. st' = [st EXCEPT ![r] = "answered", ![h] = "decoding"]
          BY <1>4, <2>2 DEF Answer
        <4> HIDE DEF h
        <4> QED
          BY <1>4, <3>1, <4>1 DEF Answer, Decoding
      <3>3. IsFiniteSet(Decoding) /\ Cardinality(Decoding) \in Nat
        BY CountDecoding
      <3>4. /\ IsFiniteSet(Decoding \ {r})
            /\ Cardinality(Decoding \ {r}) = Cardinality(Decoding) - 1
        BY <3>2, <3>3, FS_RemoveElement
      <3>5. Cardinality((Decoding \ {r}) \cup {h}) = Cardinality(Decoding \ {r}) + 1
        BY <3>2, <3>4, FS_AddElement
      <3>6. Cardinality(Decoding') = Cardinality(Decoding)
        BY <3>2, <3>3, <3>4, <3>5
      <3> QED
        BY <1>4, <2>2, <3>6 DEF Answer, Capacity
    <2> QED
      BY <2>1, <2>2
  <1>5. CASE Crash
    <2>1. Decoding' = {}
      BY <1>5 DEF Crash, Decoding
    <2> QED
      BY <1>5, <2>1, FS_EmptySet, CapacityType DEF Crash, Capacity
  <1> QED
    BY <1>1, <1>2, <1>3, <1>4, <1>5 DEF Next, Handler

\* No step leaves an RPC waiting beside a free slot.
LEMMA StepIdle ==
  ASSUME IInv, [Next]_vars
  PROVE  NoIdleSlot'
  <1> USE DEF IInv, TypeOK, NoIdleSlot, WaitingRequests
  <1>1. CASE UNCHANGED vars
    BY <1>1 DEF vars, Capacity
  <1>2. ASSUME NEW r \in Requests, Enter(r) PROVE NoIdleSlot'
    BY <1>2 DEF Enter, Capacity
  <1>3. ASSUME NEW r \in Requests, Wait(r) PROVE NoIdleSlot'
    BY <1>3, CapacityType DEF Wait, Capacity
  <1>4. ASSUME NEW r \in Requests, Refuse(r) \/ Cancel(r) \/ ContextDone(r) PROVE NoIdleSlot'
    BY <1>4 DEF Refuse, Cancel, ContextDone, Capacity
  <1>5. ASSUME NEW r \in Requests, Answer(r) PROVE NoIdleSlot'
    <2>1. CASE queue = <<>>
      <3>1. WaitingRequests = {}
        BY <2>1 DEF QueueIsWaiting
      <3>2. WaitingRequests' = {}
        BY <1>5, <2>1, <3>1 DEF Answer
      <3> QED
        BY <3>2
    <2>2. CASE queue # <<>>
      <3>1. WaitingRequests # {}
        BY <2>2, HeadTail DEF QueueIsWaiting
      <3> QED
        BY <1>5, <2>2, <3>1 DEF Answer, Capacity
    <2> QED
      BY <2>1, <2>2
  <1>6. CASE Crash
    BY <1>6 DEF Crash
  <1> QED
    BY <1>1, <1>2, <1>3, <1>4, <1>5, <1>6 DEF Next, Handler

\* The invariant is inductive: the four parts need each other, since what Answer
\* hands over is the head of the queue.
THEOREM Invariance == SafeSpec => []IInv
  <1>1. IInv /\ [Next]_vars => IInv'
    BY StepType, StepQueue, StepBounded, StepIdle DEF IInv
  <1> QED
    BY InitIInv, <1>1, PTL DEF SafeSpec

\* Every variable keeps its type.
THEOREM TypeCorrect == SafeSpec => []TypeOK
  <1>1. IInv => TypeOK
    BY DEF IInv
  <1> QED
    BY Invariance, <1>1, PTL

\* However RPCs are cancelled, fail or die with the server, there are as many
\* slots taken as decodes under way, and never more than NewServer allows.
THEOREM DecodesAreBounded == SafeSpec => []DecodesBounded
  <1>1. IInv => DecodesBounded
    BY DEF IInv
  <1> QED
    BY Invariance, <1>1, PTL

\* No RPC waits for a slot while one is free.
THEOREM NoSlotIsIdle == SafeSpec => []NoIdleSlot
  <1>1. IInv => NoIdleSlot
    BY DEF IInv
  <1> QED
    BY Invariance, <1>1, PTL

\* The queue of the channel is exactly the RPCs that wait, each of them once.
THEOREM QueueHoldsWaiters == SafeSpec => []QueueIsWaiting
  <1>1. IInv => QueueIsWaiting
    BY DEF IInv
  <1> QED
    BY Invariance, <1>1, PTL

\* First come, first served: a decode begins only when nobody waits, or for the
\* first of those who do, and whoever goes on waiting is overtaken by nobody.
InTurn ==
    /\ \A r \in Requests :
           st[r] # "decoding" /\ st'[r] = "decoding" => queue = <<>> \/ r = Head(queue)
    /\ \A i \in 1 .. Len(queue) :
           st'[queue[i]] = "waiting" => \E j \in 1 .. i : j <= Len(queue') /\ queue'[j] = queue[i]

\* What stays in the queue keeps its place or moves up.
LEMMA Stays ==
  ASSUME queue \in Seq(Requests), \A i \in 1 .. Len(queue) : i <= Len(queue') /\ queue'[i] = queue[i]
  PROVE  \A i \in 1 .. Len(queue) : \E j \in 1 .. i : j <= Len(queue') /\ queue'[j] = queue[i]
  OBVIOUS

\* A free slot is taken when nobody waits, a full channel passes it to the first.
LEMMA StepInTurn == IInv /\ [Next]_vars => InTurn
  <1> SUFFICES ASSUME IInv, [Next]_vars PROVE InTurn
    OBVIOUS
  <1> USE CapacityType DEF IInv, TypeOK
  <1>1. CASE UNCHANGED vars
    BY <1>1, Stays DEF vars, InTurn
  <1>2. ASSUME NEW r \in Requests, Enter(r) PROVE InTurn
    <2>1. WaitingRequests = {}
      BY <1>2 DEF Enter, NoIdleSlot
    <2>2. queue = <<>>
      <3>1. ASSUME queue # <<>> PROVE FALSE
        <4>1. 1 \in 1 .. Len(queue) /\ queue[1] \in Requests
          BY <3>1, HeadTail
        <4>2. st[queue[1]] = "waiting"
          BY <4>1 DEF QueueIsWaiting
        <4> QED
          BY <2>1, <4>1, <4>2 DEF WaitingRequests
      <3> QED
        BY <3>1
    <2> QED
      BY <2>2 DEF InTurn
  <1>3. ASSUME NEW r \in Requests, Wait(r) PROVE InTurn
    <2>1. \A i \in 1 .. Len(queue) : i <= Len(queue') /\ queue'[i] = queue[i]
      BY <1>3 DEF Wait
    <2>2. \A x \in Requests : st'[x] = "decoding" => st[x] = "decoding"
      BY <1>3 DEF Wait
    <2> QED
      BY <2>1, <2>2, Stays DEF InTurn
  <1>4. ASSUME NEW r \in Requests, Refuse(r) \/ ContextDone(r) PROVE InTurn
    <2>1. UNCHANGED queue /\ \A x \in Requests : st'[x] = "decoding" => st[x] = "decoding"
      BY <1>4 DEF Refuse, ContextDone
    <2> QED
      BY <2>1, Stays DEF InTurn
  <1>5. ASSUME NEW r \in Requests, Cancel(r) PROVE InTurn
    <2>1. PICK k \in 1 .. Len(queue) : queue[k] = r /\ queue' = Without(queue, k)
      BY <1>5 DEF Cancel
    <2>2. /\ Len(queue') = Len(queue) - 1
          /\ \A i \in 1 .. Len(queue) - 1 : queue'[i] = IF i < k THEN queue[i] ELSE queue[i + 1]
      BY ONLY queue \in Seq(Requests), <2>1, WithoutSeq
    <2>3. st' = [st EXCEPT ![r] = "cancelled"]
      BY <1>5 DEF Cancel
    <2>4. ASSUME NEW i \in 1 .. Len(queue), st'[queue[i]] = "waiting"
          PROVE  \E j \in 1 .. i : j <= Len(queue') /\ queue'[j] = queue[i]
      <3>1. i # k
        BY <2>1, <2>3, <2>4
      <3>2. CASE i < k
        <4>1. i \in 1 .. i /\ i <= Len(queue') /\ queue'[i] = queue[i]
          BY <2>2, <3>2
        <4> QED
          BY <4>1
      <3>3. CASE i > k
        <4>1. i - 1 \in 1 .. i /\ i - 1 <= Len(queue') /\ queue'[i - 1] = queue[i]
          BY <2>2, <3>3
        <4> QED
          BY <4>1
      <3> QED
        BY <3>1, <3>2, <3>3
    <2>5. \A x \in Requests : st'[x] = "decoding" => st[x] = "decoding"
      BY <2>3
    <2> QED
      BY <2>4, <2>5 DEF InTurn
  <1>6. ASSUME NEW r \in Requests, Answer(r) PROVE InTurn
    <2>1. CASE queue = <<>>
      BY <2>1 DEF InTurn
    <2>2. CASE queue # <<>>
      <3>4. /\ queue' = Tail(queue)
            /\ st' = [st EXCEPT ![r] = "answered", ![Head(queue)] = "decoding"]
        BY <1>6, <2>2 DEF Answer
      <3>5. /\ Head(queue) = queue[1] /\ queue[1] \in Requests
            /\ Len(queue') = Len(queue) - 1
            /\ \A i \in 1 .. Len(queue) - 1 : queue'[i] = queue[i + 1]
        BY ONLY queue \in Seq(Requests), <2>2, <3>4, HeadTail
      <3>1. /\ Head(queue) = queue[1] /\ queue[1] \in Requests
            /\ st' = [st EXCEPT ![r] = "answered", ![Head(queue)] = "decoding"]
            /\ Len(queue') = Len(queue) - 1 /\ \A i \in 1 .. Len(queue') : queue'[i] = queue[i + 1]
        BY <3>4, <3>5
      <3>2. \A x \in Requests : st[x] # "decoding" /\ st'[x] = "decoding" => x = Head(queue)
        BY <3>1
      <3>3. ASSUME NEW i \in 1 .. Len(queue), st'[queue[i]] = "waiting"
            PROVE  \E j \in 1 .. i : j <= Len(queue') /\ queue'[j] = queue[i]
        <4>1. i # 1
          BY <3>1, <3>3
        <4>2. i - 1 \in 1 .. i /\ i - 1 <= Len(queue') /\ queue'[i - 1] = queue[i]
          BY <3>1, <4>1
        <4> QED
          BY <4>2
      <3> QED
        BY <3>2, <3>3 DEF InTurn
    <2> QED
      BY <2>1, <2>2
  <1>7. CASE Crash
    <2>1. \A x \in Requests : st'[x] \notin {"waiting", "decoding"}
      BY <1>7 DEF Crash
    <2>2. \A i \in 1 .. Len(queue) : queue[i] \in Requests
      BY ElementOfSeq
    <2> QED
      BY <2>1, <2>2 DEF InTurn
  <1> QED
    BY <1>1, <1>2, <1>3, <1>4, <1>5, <1>6, <1>7 DEF Next, Handler

\* InTurn: nobody is overtaken on the way to a slot.
THEOREM ServedInTurn == SafeSpec => [][InTurn]_vars
  BY StepInTurn, Invariance, PTL DEF SafeSpec
=============================================================================
