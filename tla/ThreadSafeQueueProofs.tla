------------------------ MODULE ThreadSafeQueueProofs ------------------------
(***************************************************************************)
(* Proofs about ThreadSafeQueue, for any finite set of threads, any items  *)
(* and any capacity.                                                       *)
(***************************************************************************)
EXTENDS ThreadSafeQueue, FiniteSetTheorems, SequenceTheorems, TLAPS

\* Steps that only move a thread out of the wait sets, or end or begin its call.
LEMMA NotifyOneShrinks ==
  ASSUME NEW S, NEW S2, NotifyOne(S, S2)
  PROVE  S2 \subseteq S /\ \/ S = {} /\ S2 = S
                           \/ \E w \in S : S2 = S \ {w}
BY DEF NotifyOne

\* TypeOK is inductive: threads wait only in the call they are in, and a
\* thread that leaves a call is out of the wait sets and of timedOut.
THEOREM TypeInvariant == SafeSpec => []TypeOK
<1>1. Init => TypeOK
  BY DEF Init, TypeOK, Ops, Results, Pushers, Poppers
<1>2. TypeOK /\ [Next]_vars => TypeOK'
  <2> SUFFICES ASSUME TypeOK, [Next]_vars PROVE TypeOK'
    OBVIOUS
  <2> USE DEF TypeOK, Pushers, Poppers, Ops, Results
  <2>1. ASSUME NEW t \in Threads, NEW v \in Items, t \notin notEmptyWait, t \notin notFullWait,
               t \notin timedOut, Enqueue(t, v)
        PROVE TypeOK'
    <3>1. notEmptyWait' \subseteq notEmptyWait
      BY <2>1, NotifyOneShrinks DEF Enqueue
    <3>2. queue' \in Seq(Items)
      BY <2>1, AppendProperties DEF Enqueue
    <3> QED BY <2>1, <3>1, <3>2 DEF Enqueue, Return
  <2>2. ASSUME NEW t \in Threads, t \notin notEmptyWait, t \notin notFullWait, Dequeue(t)
        PROVE TypeOK'
    <3>1. notFullWait' \subseteq notFullWait
      BY <2>2, NotifyOneShrinks DEF Dequeue, NotifyNotFull
    <3>2. queue' \in Seq(Items) /\ Head(queue) \in Items
      BY <2>2, HeadTailProperties DEF Dequeue
    <3> QED BY <2>2, <3>1, <3>2 DEF Dequeue, Return
  <2>3. ASSUME NEW t \in Threads, t \notin notEmptyWait, t \notin notFullWait,
               NEW r \in {"throw", "false"}, GiveUp(t, r)
        PROVE TypeOK'
    BY <2>3 DEF GiveUp, Return
  <2>4. ASSUME NEW t \in Threads, NEW op \in {"Pop", "WaitPop"}, t \notin notFullWait,
               t \in timedOut => op = "WaitPop", WaitNotEmpty(t, op)
        PROVE TypeOK'
    BY <2>4 DEF WaitNotEmpty
  <2>5. ASSUME NEW t \in Threads, NEW v \in Items, t \notin notEmptyWait, t \notin timedOut,
               WaitNotFull(t, v)
        PROVE TypeOK'
    BY <2>5 DEF WaitNotFull
  <2>6. ASSUME NEW t \in Threads, NEW v \in Items, t \notin notEmptyWait, t \notin notFullWait,
               t \notin timedOut, PushLocked(t, v)
        PROVE TypeOK'
    BY <2>1, <2>3, <2>5, <2>6 DEF PushLocked
  <2>7. ASSUME NEW t \in Threads, Push(t) \/ ResumePush(t) \/ TryPush(t) PROVE TypeOK'
    BY <2>7, <2>6, <2>1, <2>3 DEF Push, ResumePush, TryPush, Idle
  <2>8. ASSUME NEW t \in Threads, Pop(t) \/ ResumePop(t) \/ TryPop(t) PROVE TypeOK'
    BY <2>8, <2>2, <2>3, <2>4 DEF Pop, ResumePop, TryPop, PopLocked, Idle
  <2>9. ASSUME NEW t \in Threads, WaitPop(t) \/ ResumeWaitPop(t) PROVE TypeOK'
    BY <2>9, <2>2, <2>3, <2>4 DEF WaitPop, ResumeWaitPop, WaitPopLocked, Idle
  <2>10. ASSUME NEW t \in Threads, Timeout(t) \/ SpuriousWake(t) PROVE TypeOK'
    BY <2>10 DEF Timeout, SpuriousWake
  <2>11. CASE Stop
    BY <2>11 DEF Stop
  <2>12. CASE Clear
    BY <2>12, EmptySeq DEF Clear
  <2>13. CASE UNCHANGED vars
    BY <2>13 DEF vars
  <2> QED BY <2>7, <2>8, <2>9, <2>10, <2>11, <2>12, <2>13 DEF Next, Resume
<1> QED BY <1>1, <1>2, PTL DEF SafeSpec
-----------------------------------------------------------------------------
\* The threads that may be the one to enqueue v, to give up with r, or to wait.
Enqueues(t, v) ==
  /\ t \notin Poppers /\ t \notin notFullWait
  /\ t \in Pushers => v = call[t].val
  /\ running /\ ~Full /\ Enqueue(t, v)
Dequeues(t) == t \notin Pushers /\ t \notin notEmptyWait /\ Dequeue(t)
GivesUp(t, r) ==
  /\ t \notin notEmptyWait /\ t \notin notFullWait
  /\ t \in Poppers => queue = <<>> /\ (r = "throw" <=> call[t].op = "Pop")
  /\ t \in Pushers => r = "throw"
  /\ r = "throw" => ~running
  /\ r = "false" => ~running \/ Full \/ queue = <<>>
  /\ GiveUp(t, r)
WaitsNotEmpty(t, op) ==
  /\ t \notin Pushers /\ t \notin notFullWait
  /\ t \in Poppers => op = call[t].op
  /\ WaitNotEmpty(t, op)
WaitsNotFull(t, v) ==
  /\ t \notin Poppers /\ t \notin notEmptyWait
  /\ t \in Pushers => v = call[t].val
  /\ WaitNotFull(t, v)

\* What a step does to the monitor, whichever operation it belongs to.
LEMMA StepCases ==
  ASSUME TypeOK, Next
  PROVE  \/ \E t \in Threads, v \in Items : Enqueues(t, v)
         \/ \E t \in Threads : Dequeues(t)
         \/ \E t \in Threads, r \in {"throw", "false"} : GivesUp(t, r)
         \/ \E t \in Threads, op \in {"Pop", "WaitPop"} : WaitsNotEmpty(t, op)
         \/ \E t \in Threads, v \in Items : WaitsNotFull(t, v)
         \/ \E t \in Threads : Timeout(t) \/ SpuriousWake(t)
         \/ Stop
         \/ Clear
<1> USE DEF TypeOK, Poppers, Pushers, Idle
<1>1. ASSUME NEW t \in Threads, Push(t) \/ TryPush(t) \/ ResumePush(t)
      PROVE  \/ \E v \in Items : Enqueues(t, v)
             \/ \E r \in {"throw", "false"} : GivesUp(t, r)
             \/ \E v \in Items : WaitsNotFull(t, v)
  BY <1>1 DEF Push, TryPush, ResumePush, PushLocked, Enqueues, GivesUp, WaitsNotFull
<1>2. ASSUME NEW t \in Threads,
             Pop(t) \/ TryPop(t) \/ WaitPop(t) \/ ResumePop(t) \/ ResumeWaitPop(t)
      PROVE  \/ Dequeues(t)
             \/ \E r \in {"throw", "false"} : GivesUp(t, r)
             \/ \E op \in {"Pop", "WaitPop"} : WaitsNotEmpty(t, op)
  BY <1>2 DEF Pop, TryPop, WaitPop, ResumePop, ResumeWaitPop, PopLocked, WaitPopLocked,
              Dequeues, GivesUp, WaitsNotEmpty
<1> QED BY <1>1, <1>2 DEF Next, Resume

\* Nobody waits on a stopped queue: a call that saw it running before Stop
\* is not left in a wait set by a later step.
NobodyWaitsOnStopped == ~running => notEmptyWait = {} /\ notFullWait = {}

\* A stopped queue has empty wait sets: Stop empties them under the mutex, and
\* a thread joins one only in a critical section that saw the queue running.
THEOREM NobodyWaitsOnStoppedInvariant == SafeSpec => []NobodyWaitsOnStopped
<1>1. Init => NobodyWaitsOnStopped
  BY DEF Init, NobodyWaitsOnStopped
<1>2. TypeOK /\ NobodyWaitsOnStopped /\ [Next]_vars => NobodyWaitsOnStopped'
  <2> SUFFICES ASSUME TypeOK, NobodyWaitsOnStopped, [Next]_vars PROVE NobodyWaitsOnStopped'
    OBVIOUS
  <2> USE DEF NobodyWaitsOnStopped
  <2>1. ASSUME NEW t \in Threads, NEW v \in Items, running, Enqueue(t, v)
        PROVE NobodyWaitsOnStopped'
    BY <2>1 DEF Enqueue
  <2>2. ASSUME NEW t \in Threads, Dequeue(t) PROVE NobodyWaitsOnStopped'
    BY <2>2, NotifyOneShrinks DEF Dequeue, NotifyNotFull
  <2>3. ASSUME NEW t \in Threads, Timeout(t) \/ SpuriousWake(t) PROVE NobodyWaitsOnStopped'
    BY <2>3 DEF Timeout, SpuriousWake
  <2>4. CASE Stop
    BY <2>4 DEF Stop
  <2>5. CASE Clear
    BY <2>5 DEF Clear
  <2>6. CASE UNCHANGED vars
    BY <2>6 DEF vars
  <2> QED
    BY <2>1, <2>2, <2>3, <2>4, <2>5, <2>6, StepCases
    DEF Enqueues, Dequeues, GivesUp, WaitsNotEmpty, WaitsNotFull,
        GiveUp, WaitNotEmpty, WaitNotFull
<1> QED BY <1>1, <1>2, TypeInvariant, PTL DEF SafeSpec

\* The queue never exceeds its capacity: an item is added only in the critical
\* section that found room, after every wait has re-evaluated its predicate.
THEOREM CapacityInvariant == SafeSpec => []CapacityRespected
<1>1. Init => CapacityRespected
  BY SizeAssumption DEF Init, CapacityRespected
<1>2. TypeOK /\ CapacityRespected /\ [Next]_vars => CapacityRespected'
  <2> SUFFICES ASSUME TypeOK, CapacityRespected, [Next]_vars PROVE CapacityRespected'
    OBVIOUS
  <2> USE SizeAssumption DEF CapacityRespected
  <2>1. ASSUME NEW t \in Threads, NEW v \in Items, ~Full, Enqueue(t, v)
        PROVE CapacityRespected'
    BY <2>1, AppendProperties DEF Enqueue, Full, TypeOK
  <2>2. ASSUME NEW t \in Threads, Dequeue(t) PROVE CapacityRespected'
    BY <2>2, HeadTailProperties, LenProperties DEF Dequeue, TypeOK
  <2>3. CASE Clear
    BY <2>3, EmptySeq DEF Clear
  <2>4. CASE UNCHANGED vars
    BY <2>4 DEF vars
  <2> QED
    BY <2>1, <2>2, <2>3, <2>4, StepCases
    DEF Enqueues, Dequeues, GivesUp, WaitsNotEmpty, WaitsNotFull,
        GiveUp, WaitNotEmpty, WaitNotFull, Timeout, SpuriousWake, Stop
<1> QED BY <1>1, <1>2, TypeInvariant, PTL DEF SafeSpec
-----------------------------------------------------------------------------
\* Counting awake threads: they are finitely many, a larger set has at least
\* as many, one new member adds one, and losing one member costs at most one.
LEMMA AwakeCount ==
  ASSUME NEW A \in SUBSET Threads
  PROVE  /\ Cardinality(A) \in Nat
         /\ \A B \in SUBSET Threads : A \subseteq B => Cardinality(A) <= Cardinality(B)
         /\ \A w \in Threads \ A : Cardinality(A \cup {w}) = Cardinality(A) + 1
         /\ \A B \in SUBSET Threads, t \in Threads :
              A \ {t} \subseteq B => Cardinality(A) - 1 <= Cardinality(B)
<1>1. \A B \in SUBSET Threads : IsFiniteSet(B)
  BY ThreadsAssumption, FS_Subset
<1>2. \A B \in SUBSET Threads : Cardinality(B) \in Nat
  BY <1>1, FS_CardinalityType
<1>3. \A B, C \in SUBSET Threads : B \subseteq C => Cardinality(B) <= Cardinality(C)
  BY <1>1, FS_Subset
<1>4. \A w \in Threads \ A : Cardinality(A \cup {w}) = Cardinality(A) + 1
  BY <1>1, FS_AddElement
<1>5. \A t \in Threads : Cardinality(A) - 1 <= Cardinality(A \ {t})
  BY <1>1, <1>2, FS_RemoveElement
<1>6. ASSUME NEW B \in SUBSET Threads, NEW t \in Threads, A \ {t} \subseteq B
      PROVE Cardinality(A) - 1 <= Cardinality(B)
  <2>1. Cardinality(A \ {t}) <= Cardinality(B)
    BY <1>3, <1>6
  <2> QED BY <2>1, <1>2, <1>5
<1> QED BY <1>2, <1>3, <1>4, <1>6

\* A step after which no fewer consumers are awake and no more items queued
\* keeps the consumers' side safe.
LEMMA ConsumersKept ==
  ASSUME TypeOK, TypeOK', NoLostConsumerWakeup,
         notEmptyWait' # {} => notEmptyWait # {},
         AwakePoppers \subseteq AwakePoppers',
         Len(queue') <= Len(queue)
  PROVE  NoLostConsumerWakeup'
<1>1. AwakePoppers \in SUBSET Threads /\ AwakePoppers' \in SUBSET Threads
  BY DEF AwakePoppers, Poppers
<1>2. Cardinality(AwakePoppers) <= Cardinality(AwakePoppers')
      /\ Cardinality(AwakePoppers) \in Nat /\ Cardinality(AwakePoppers') \in Nat
  BY <1>1, AwakeCount
<1>3. Len(queue) \in Nat /\ Len(queue') \in Nat
  BY LenProperties DEF TypeOK
<1> QED BY <1>2, <1>3 DEF NoLostConsumerWakeup

\* No wake-up of a consumer is lost.  The invariant is inductive with TypeOK:
\* an item added wakes one more consumer, an item taken costs at most one woken
\* consumer, and a consumer goes to sleep only when nothing is queued.
THEOREM NoLostConsumerWakeupInvariant == SafeSpec => []NoLostConsumerWakeup
<1>1. Init => NoLostConsumerWakeup
  BY DEF Init, NoLostConsumerWakeup
<1>2. TypeOK /\ TypeOK' /\ NoLostConsumerWakeup /\ [Next]_vars => NoLostConsumerWakeup'
  <2> SUFFICES ASSUME TypeOK, TypeOK', NoLostConsumerWakeup, [Next]_vars
               PROVE NoLostConsumerWakeup'
    OBVIOUS
  <2>0. /\ AwakePoppers \in SUBSET Threads /\ AwakePoppers' \in SUBSET Threads
        /\ Len(queue) \in Nat /\ Len(queue') \in Nat
        /\ Cardinality(AwakePoppers) \in Nat /\ Cardinality(AwakePoppers') \in Nat
    BY LenProperties, AwakeCount DEF AwakePoppers, Poppers, TypeOK
  <2>1. ASSUME NEW t \in Threads, NEW v \in Items, t \notin Poppers, Enqueue(t, v)
        PROVE NoLostConsumerWakeup'
    <3>1. Poppers' = Poppers
      BY <2>1 DEF Enqueue, Return, Poppers, TypeOK
    <3>2. CASE notEmptyWait = {}
      BY <2>1, <3>2 DEF Enqueue, NotifyOne, NoLostConsumerWakeup
    <3>3. CASE notEmptyWait # {}
      <4>1. PICK w \in notEmptyWait : notEmptyWait' = notEmptyWait \ {w}
        BY <2>1, <3>3 DEF Enqueue, NotifyOne
      <4>2. w \in Threads \ AwakePoppers /\ AwakePoppers' = AwakePoppers \cup {w}
        BY <3>1, <4>1 DEF AwakePoppers, Poppers, TypeOK
      <4>3. Cardinality(AwakePoppers') = Cardinality(AwakePoppers) + 1
        BY <2>0, <4>2, AwakeCount
      <4>4. Len(queue') = Len(queue) + 1
        BY <2>1, AppendProperties DEF Enqueue, TypeOK
      <4> QED BY <2>0, <3>3, <4>3, <4>4 DEF NoLostConsumerWakeup
    <3> QED BY <3>2, <3>3
  <2>2. ASSUME NEW t \in Threads, Dequeue(t) PROVE NoLostConsumerWakeup'
    <3>1. AwakePoppers \ {t} \subseteq AwakePoppers'
      BY <2>2 DEF Dequeue, Return, AwakePoppers, Poppers, TypeOK
    <3>2. Cardinality(AwakePoppers) - 1 <= Cardinality(AwakePoppers')
      BY <2>0, <3>1, AwakeCount
    <3>3. Len(queue') = Len(queue) - 1 /\ notEmptyWait' = notEmptyWait
      BY <2>2, HeadTailProperties DEF Dequeue, TypeOK
    <3> QED BY <2>0, <3>2, <3>3 DEF NoLostConsumerWakeup
  <2>3. ASSUME queue' = <<>> PROVE NoLostConsumerWakeup'
    BY <2>0, <2>3, EmptySeq DEF NoLostConsumerWakeup
  <2>4. ASSUME NEW t \in Threads, NEW r \in {"throw", "false"},
               t \in Poppers => queue = <<>>, GiveUp(t, r)
        PROVE NoLostConsumerWakeup'
    <3>1. CASE t \in Poppers
      BY <2>3, <2>4, <3>1 DEF GiveUp
    <3>2. CASE t \notin Poppers
      BY <2>0, <2>4, <3>2, ConsumersKept
      DEF GiveUp, Return, AwakePoppers, Poppers, TypeOK
    <3> QED BY <3>1, <3>2
  <2>5. ASSUME NEW t \in Threads, NEW op \in {"Pop", "WaitPop"}, WaitNotEmpty(t, op)
        PROVE NoLostConsumerWakeup'
    BY <2>3, <2>5 DEF WaitNotEmpty
  <2>6. ASSUME NEW t \in Threads, NEW v \in Items, t \notin Poppers, WaitNotFull(t, v)
        PROVE NoLostConsumerWakeup'
    BY <2>0, <2>6, ConsumersKept DEF WaitNotFull, AwakePoppers, Poppers, TypeOK
  <2>7. ASSUME NEW t \in Threads, Timeout(t) \/ SpuriousWake(t) PROVE NoLostConsumerWakeup'
    BY <2>0, <2>7, ConsumersKept DEF Timeout, SpuriousWake, AwakePoppers, Poppers
  <2>8. CASE Stop
    BY <2>8 DEF Stop, NoLostConsumerWakeup
  <2>9. CASE Clear
    BY <2>3, <2>9 DEF Clear
  <2>10. CASE UNCHANGED vars
    BY <2>0, <2>10, ConsumersKept DEF vars, AwakePoppers, Poppers
  <2> QED
    BY <2>1, <2>2, <2>4, <2>5, <2>6, <2>7, <2>8, <2>9, <2>10, StepCases
    DEF Enqueues, Dequeues, GivesUp, WaitsNotEmpty, WaitsNotFull
<1> QED BY <1>1, <1>2, TypeInvariant, PTL DEF SafeSpec

LEMMA ProducersKept ==
  ASSUME TypeOK, TypeOK', NoLostProducerWakeup,
         notFullWait' # {} => notFullWait # {},
         AwakePushers \subseteq AwakePushers',
         Len(queue') >= Len(queue)
  PROVE  NoLostProducerWakeup'
<1>1. AwakePushers \in SUBSET Threads /\ AwakePushers' \in SUBSET Threads
  BY DEF AwakePushers, Pushers
<1>2. Cardinality(AwakePushers) <= Cardinality(AwakePushers')
      /\ Cardinality(AwakePushers) \in Nat /\ Cardinality(AwakePushers') \in Nat
  BY <1>1, AwakeCount
<1>3. Len(queue) \in Nat /\ Len(queue') \in Nat
  BY LenProperties DEF TypeOK
<1> QED BY <1>2, <1>3, SizeAssumption DEF NoLostProducerWakeup

\* No wake-up of a producer is lost.  It needs NobodyWaitsOnStopped: a woken
\* producer may leave without using its slot only when the queue is stopped,
\* and then nobody is waiting any more.
THEOREM NoLostProducerWakeupInvariant == SafeSpec => []NoLostProducerWakeup
<1>1. Init => NoLostProducerWakeup
  BY DEF Init, NoLostProducerWakeup
<1>2. TypeOK /\ TypeOK' /\ NobodyWaitsOnStopped /\ NoLostProducerWakeup /\ [Next]_vars
        => NoLostProducerWakeup'
  <2> SUFFICES ASSUME TypeOK, TypeOK', NobodyWaitsOnStopped, NoLostProducerWakeup, [Next]_vars
               PROVE NoLostProducerWakeup'
    OBVIOUS
  <2> USE SizeAssumption
  <2>0. /\ AwakePushers \in SUBSET Threads /\ AwakePushers' \in SUBSET Threads
        /\ Len(queue) \in Nat /\ Len(queue') \in Nat
        /\ Cardinality(AwakePushers) \in Nat /\ Cardinality(AwakePushers') \in Nat
    BY LenProperties, AwakeCount DEF AwakePushers, Pushers, TypeOK
  <2>1. ASSUME NEW t \in Threads, NEW v \in Items, Enqueue(t, v)
        PROVE NoLostProducerWakeup'
    <3>1. AwakePushers \ {t} \subseteq AwakePushers'
      BY <2>1 DEF Enqueue, Return, AwakePushers, Pushers, TypeOK
    <3>2. Cardinality(AwakePushers) - 1 <= Cardinality(AwakePushers')
      BY <2>0, <3>1, AwakeCount
    <3>3. Len(queue') = Len(queue) + 1 /\ notFullWait' = notFullWait
      BY <2>1, AppendProperties DEF Enqueue, TypeOK
    <3> QED BY <2>0, <3>2, <3>3 DEF NoLostProducerWakeup
  <2>2. ASSUME NEW t \in Threads, t \notin Pushers, Dequeue(t) PROVE NoLostProducerWakeup'
    <3>1. Pushers' = Pushers
      BY <2>2 DEF Dequeue, Return, Pushers, TypeOK
    <3>2. CASE MaxSize = 0
      BY <2>0, <3>2 DEF NoLostProducerWakeup
    <3>3. CASE MaxSize > 0 /\ notFullWait = {}
      BY <2>2, <3>3 DEF Dequeue, NotifyNotFull, NotifyOne, NoLostProducerWakeup
    <3>4. CASE MaxSize > 0 /\ notFullWait # {}
      <4>1. PICK w \in notFullWait : notFullWait' = notFullWait \ {w}
        BY <2>2, <3>4 DEF Dequeue, NotifyNotFull, NotifyOne
      <4>2. w \in Threads \ AwakePushers /\ AwakePushers' = AwakePushers \cup {w}
        BY <3>1, <4>1 DEF AwakePushers, Pushers, TypeOK
      <4>3. Cardinality(AwakePushers') = Cardinality(AwakePushers) + 1
        BY <2>0, <4>2, AwakeCount
      <4>4. Len(queue') = Len(queue) - 1
        BY <2>2, HeadTailProperties DEF Dequeue, TypeOK
      <4> QED BY <2>0, <3>4, <4>3, <4>4 DEF NoLostProducerWakeup
    <3> QED BY <3>2, <3>3, <3>4
  <2>3. ASSUME NEW t \in Threads, NEW r \in {"throw", "false"},
               t \in Pushers => ~running, GiveUp(t, r)
        PROVE NoLostProducerWakeup'
    <3>1. CASE ~running
      BY <2>3, <3>1 DEF GiveUp, NobodyWaitsOnStopped, NoLostProducerWakeup
    <3>2. CASE t \notin Pushers
      BY <2>0, <2>3, <3>2, ProducersKept
      DEF GiveUp, Return, AwakePushers, Pushers, TypeOK
    <3> QED BY <2>3, <3>1, <3>2
  <2>4. ASSUME NEW t \in Threads, NEW op \in {"Pop", "WaitPop"}, t \notin Pushers,
               WaitNotEmpty(t, op)
        PROVE NoLostProducerWakeup'
    BY <2>0, <2>4, ProducersKept DEF WaitNotEmpty, AwakePushers, Pushers, TypeOK
  <2>5. ASSUME NEW t \in Threads, NEW v \in Items, WaitNotFull(t, v)
        PROVE NoLostProducerWakeup'
    BY <2>0, <2>5 DEF WaitNotFull, Full, NoLostProducerWakeup
  <2>6. ASSUME NEW t \in Threads, Timeout(t) \/ SpuriousWake(t) PROVE NoLostProducerWakeup'
    BY <2>0, <2>6, ProducersKept DEF Timeout, SpuriousWake, AwakePushers, Pushers
  <2>7. CASE Stop
    BY <2>7 DEF Stop, NoLostProducerWakeup
  <2>8. CASE Clear
    BY <2>0, <2>8, EmptySeq DEF Clear, NoLostProducerWakeup
  <2>9. CASE UNCHANGED vars
    BY <2>0, <2>9, ProducersKept DEF vars, AwakePushers, Pushers
  <2> QED
    BY <2>1, <2>2, <2>3, <2>4, <2>5, <2>6, <2>7, <2>8, <2>9, StepCases
    DEF Enqueues, Dequeues, GivesUp, WaitsNotEmpty, WaitsNotFull
<1> QED BY <1>1, <1>2, TypeInvariant, NobodyWaitsOnStoppedInvariant, PTL DEF SafeSpec
-----------------------------------------------------------------------------
\* Every step of the monitor is a step of the closable FIFO channel or changes
\* nothing its callers see: waiting again after a wake-up that came to nothing
\* leaves the pending call as it was.
THEOREM ImplementsChannelSafely == SafeSpec => Channel!SafeSpec
<1>1. Init => Channel!Init
  BY DEF Init, Channel!Init
<1>2. TypeOK /\ [Next]_vars => [Channel!Next]_(Channel!vars)
  <2> SUFFICES ASSUME TypeOK, Next PROVE Channel!Next \/ UNCHANGED <<queue, running, call>>
    BY DEF vars, Channel!vars
  <2> USE DEF Channel!Ready, Channel!Pending, Channel!Outcome
  <2>0. ASSUME NEW t \in Threads
        PROVE /\ call[t] = [op |-> call[t].op, val |-> call[t].val]
              /\ t \in Pushers => call[t].val \in Items
              /\ t \in Poppers => call[t].val = "none"
              /\ t \notin Poppers /\ t \notin Pushers => call[t].op = "none"
              /\ (Channel!Start(t) \/ Channel!FinishPut(t) \/ Channel!FinishGet(t)
                  \/ Channel!Release(t)) => Channel!Next
    BY DEF TypeOK, Poppers, Pushers, Ops, Channel!Next
  <2>1. ASSUME NEW t \in Threads, NEW v \in Items, Enqueues(t, v) PROVE Channel!Next
    <3>1. Channel!Accept(t, v)
      BY <2>1, SizeAssumption, LenProperties
      DEF Enqueues, Enqueue, Full, Return, TypeOK, Channel!Accept, Channel!HasRoom
    <3>2. Channel!Start(t) \/ Channel!FinishPut(t)
      BY <2>0, <2>1, <3>1 DEF Enqueues, Pushers, Channel!Start, Channel!FinishPut
    <3> QED BY <2>0, <3>2
  <2>2. ASSUME NEW t \in Threads, Dequeues(t) PROVE Channel!Next
    <3>1. Channel!Deliver(t)
      BY <2>2 DEF Dequeues, Dequeue, Return, Channel!Deliver
    <3>2. Channel!Start(t) \/ Channel!FinishGet(t)
      BY <2>0, <2>2, <3>1 DEF Dequeues, Poppers, Channel!Start, Channel!FinishGet
    <3> QED BY <2>0, <3>2
  <2>3. ASSUME NEW t \in Threads, NEW r \in {"throw", "false"}, GivesUp(t, r)
        PROVE Channel!Next
    <3>1. CASE t \in Poppers \cup Pushers
      <4>1. Channel!Release(t)
        BY <2>0, <2>3, <3>1
        DEF GivesUp, GiveUp, Return, Poppers, Pushers, Channel!Release
      <4> QED BY <2>0, <4>1
    <3>2. CASE t \notin Poppers \cup Pushers
      <4>1. Full => ~Channel!HasRoom
        BY SizeAssumption, LenProperties DEF Full, Channel!HasRoom, TypeOK
      <4>2. Channel!Refuse(t)
        BY <2>3, <4>1 DEF GivesUp, GiveUp, Return, Channel!Refuse
      <4>3. Channel!Start(t)
        BY <2>0, <3>2, <4>2 DEF Channel!Start
      <4> QED BY <2>0, <4>3
    <3> QED BY <3>1, <3>2
  <2>4. ASSUME NEW t \in Threads, NEW op \in {"Pop", "WaitPop"}, WaitsNotEmpty(t, op)
        PROVE Channel!Next \/ UNCHANGED <<queue, running, call>>
    <3>1. CASE t \in Poppers
      BY <2>0, <2>4, <3>1 DEF WaitsNotEmpty, WaitNotEmpty, TypeOK
    <3>2. CASE t \notin Poppers
      <4>1. Channel!Start(t)
        BY <2>0, <2>4, <3>2
        DEF WaitsNotEmpty, WaitNotEmpty, Channel!Start, Channel!Suspend
      <4> QED BY <2>0, <4>1
    <3> QED BY <3>1, <3>2
  <2>5. ASSUME NEW t \in Threads, NEW v \in Items, WaitsNotFull(t, v)
        PROVE Channel!Next \/ UNCHANGED <<queue, running, call>>
    <3>1. CASE t \in Pushers
      BY <2>0, <2>5, <3>1 DEF WaitsNotFull, WaitNotFull, Pushers, TypeOK
    <3>2. CASE t \notin Pushers
      <4>1. ~Channel!HasRoom
        BY <2>5, SizeAssumption, LenProperties
        DEF WaitsNotFull, WaitNotFull, Full, Channel!HasRoom, TypeOK
      <4>2. Channel!Start(t)
        BY <2>0, <2>5, <3>2, <4>1
        DEF WaitsNotFull, WaitNotFull, Channel!Start, Channel!Suspend
      <4> QED BY <2>0, <4>2
    <3> QED BY <3>1, <3>2
  <2>6. ASSUME NEW t \in Threads, Timeout(t) \/ SpuriousWake(t)
        PROVE UNCHANGED <<queue, running, call>>
    BY <2>6 DEF Timeout, SpuriousWake
  <2>7. CASE Stop
    BY <2>7 DEF Stop, Channel!Next, Channel!Close
  <2>8. CASE Clear
    BY <2>8 DEF Clear, Channel!Next, Channel!Discard
  <2> QED BY <2>1, <2>2, <2>3, <2>4, <2>5, <2>6, <2>7, <2>8, StepCases
<1> QED BY <1>1, <1>2, TypeInvariant, PTL DEF SafeSpec, Channel!SafeSpec
=============================================================================
