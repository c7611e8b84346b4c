--------------------------- MODULE ThreadSafeQueue ---------------------------
(***************************************************************************)
(* The template class ThreadSafeQueue<T>: a mutex, a std::queue and two    *)
(* condition variables.  Each critical section is one step; a thread that  *)
(* blocks leaves the mutex, joins the wait set of its condition variable   *)
(* and, once notified, timed out or woken for no reason, takes the mutex   *)
(* again and evaluates its predicate in a step of its own, so any other    *)
(* thread can come in between.                                             *)
(***************************************************************************)
EXTENDS Naturals, Sequences, FiniteSets

CONSTANTS Threads,  \* the threads that call the queue
          Items,    \* the values of type T
          MaxSize,  \* max_size_: 0 means unbounded
          MaxLen    \* bound of the model: no call enters with more items queued

ASSUME ThreadsAssumption == IsFiniteSet(Threads)
ASSUME SizeAssumption == MaxSize \in Nat /\ MaxLen \in Nat

VARIABLES queue,         \* queue_
          running,       \* running_
          call,          \* per thread: the blocking call it is in (op, item), or
                         \* "none" and the outcome of its last call
          notEmptyWait,  \* the threads waiting on not_empty_
          notFullWait,   \* the threads waiting on not_full_
          timedOut       \* the threads whose wait_for has timed out

vars == <<queue, running, call, notEmptyWait, notFullWait, timedOut>>

Ops == {"none", "Push", "Pop", "WaitPop"}
Results == Items \cup {"none", "ok", "false", "throw"}

Idle(t) == call[t].op = "none"
Full == MaxSize > 0 /\ Len(queue) >= MaxSize

Init ==
  /\ queue = <<>>
  /\ running = TRUE
  /\ call = [t \in Threads |-> [op |-> "none", val |-> "none"]]
  /\ notEmptyWait = {} /\ notFullWait = {} /\ timedOut = {}

\* notify_one: some waiter, if there is one, leaves the wait set.
NotifyOne(set, next) ==
  IF set = {} THEN next = set ELSE \E w \in set : next = set \ {w}

\* Variant: a removal notifies nobody.
NotifyNobody == UNCHANGED notFullWait

\* Every removal of an item notifies not_full_ only if the queue is bounded.
NotifyNotFull ==
  IF MaxSize > 0 THEN NotifyOne(notFullWait, notFullWait') ELSE UNCHANGED notFullWait

Return(t, r) == call' = [call EXCEPT ![t] = [op |-> "none", val |-> r]]

\* Variant: a consumer is notified only when the queue was empty.
EnqueueNotifyingWhenEmpty(t, v) ==
  /\ queue' = Append(queue, v)
  /\ IF queue = <<>> THEN NotifyOne(notEmptyWait, notEmptyWait') ELSE UNCHANGED notEmptyWait
  /\ Return(t, "ok")
  /\ UNCHANGED <<running, notFullWait, timedOut>>

Enqueue(t, v) ==
  /\ queue' = Append(queue, v)
  /\ NotifyOne(notEmptyWait, notEmptyWait')
  /\ Return(t, "ok")
  /\ UNCHANGED <<running, notFullWait, timedOut>>

Dequeue(t) ==
  /\ queue # <<>>
  /\ queue' = Tail(queue)
  /\ NotifyNotFull
  /\ Return(t, Head(queue))
  /\ timedOut' = timedOut \ {t}
  /\ UNCHANGED <<running, notEmptyWait>>

\* The thread leaves without touching the queue: an exception or false.
GiveUp(t, r) ==
  /\ Return(t, r)
  /\ timedOut' = timedOut \ {t}
  /\ UNCHANGED <<queue, running, notEmptyWait, notFullWait>>

WaitNotEmpty(t, op) ==
  /\ running /\ queue = <<>>
  /\ call' = [call EXCEPT ![t] = [op |-> op, val |-> "none"]]
  /\ notEmptyWait' = notEmptyWait \cup {t}
  /\ UNCHANGED <<queue, running, notFullWait, timedOut>>

WaitNotFull(t, v) ==
  /\ running /\ Full
  /\ call' = [call EXCEPT ![t] = [op |-> "Push", val |-> v]]
  /\ notFullWait' = notFullWait \cup {t}
  /\ UNCHANGED <<queue, running, notEmptyWait, timedOut>>
-----------------------------------------------------------------------------
(* The critical sections, from the mutex to the return or to the wait.     *)

PushLocked(t, v) ==
  \/ WaitNotFull(t, v)
  \/ ~running /\ GiveUp(t, "throw")
  \/ running /\ ~Full /\ Enqueue(t, v)

PopLocked(t) ==
  \/ WaitNotEmpty(t, "Pop")
  \/ ~running /\ queue = <<>> /\ GiveUp(t, "throw")
  \/ Dequeue(t)

WaitPopLocked(t) ==
  \/ t \notin timedOut /\ WaitNotEmpty(t, "WaitPop")
  \/ queue = <<>> /\ (~running \/ t \in timedOut) /\ GiveUp(t, "false")
  \/ Dequeue(t)

\* A thread enters an operation...
Push(t) == Idle(t) /\ Len(queue) <= MaxLen /\ \E v \in Items : PushLocked(t, v)
Pop(t) == Idle(t) /\ PopLocked(t)
WaitPop(t) == Idle(t) /\ WaitPopLocked(t)

TryPush(t) ==
  /\ Idle(t) /\ Len(queue) <= MaxLen
  /\ \/ (~running \/ Full) /\ GiveUp(t, "false")
     \/ running /\ ~Full /\ \E v \in Items : Enqueue(t, v)

TryPop(t) ==
  /\ Idle(t)
  /\ \/ queue = <<>> /\ GiveUp(t, "false")
     \/ Dequeue(t)

\* Variant: a producer that is woken does not evaluate the predicate again.
ResumePushOnWake(t) ==
  /\ call[t].op = "Push" /\ t \notin notFullWait
  /\ IF running THEN Enqueue(t, call[t].val) ELSE GiveUp(t, "throw")

\* ... and one that waited in it resumes once it is out of the wait set.
ResumePush(t) == call[t].op = "Push" /\ t \notin notFullWait /\ PushLocked(t, call[t].val)
ResumePop(t) == call[t].op = "Pop" /\ t \notin notEmptyWait /\ PopLocked(t)
ResumeWaitPop(t) == call[t].op = "WaitPop" /\ t \notin notEmptyWait /\ WaitPopLocked(t)

\* Variant: Stop wakes one thread of each kind.
StopNotifyingOne ==
  /\ running' = FALSE
  /\ NotifyOne(notEmptyWait, notEmptyWait') /\ NotifyOne(notFullWait, notFullWait')
  /\ UNCHANGED <<queue, call, timedOut>>

Stop ==
  /\ running' = FALSE
  /\ notEmptyWait' = {} /\ notFullWait' = {}
  /\ UNCHANGED <<queue, call, timedOut>>

\* Variant: Clear wakes nobody.
ClearSilently ==
  /\ queue' = <<>>
  /\ UNCHANGED <<running, call, notEmptyWait, notFullWait, timedOut>>

Clear ==
  /\ queue' = <<>>
  /\ notFullWait' = IF MaxSize > 0 THEN {} ELSE notFullWait
  /\ UNCHANGED <<running, call, notEmptyWait, timedOut>>

\* The deadline of a wait_for passes.  It is one point in time, which waking
\* up for nothing does not move, so it also passes for a thread that is awake.
Timeout(t) ==
  /\ call[t].op = "WaitPop" /\ t \notin timedOut
  /\ notEmptyWait' = notEmptyWait \ {t}
  /\ timedOut' = timedOut \cup {t}
  /\ UNCHANGED <<queue, running, call, notFullWait>>

\* A condition variable may let a waiter go without a notification.
SpuriousWake(t) ==
  /\ t \in notEmptyWait \cup notFullWait
  /\ notEmptyWait' = notEmptyWait \ {t}
  /\ notFullWait' = notFullWait \ {t}
  /\ UNCHANGED <<queue, running, call, timedOut>>

Resume(t) == ResumePush(t) \/ ResumePop(t) \/ ResumeWaitPop(t)

Next ==
  \/ \E t \in Threads :
       \/ Push(t) \/ TryPush(t) \/ Pop(t) \/ TryPop(t) \/ WaitPop(t)
       \/ Resume(t)
       \/ Timeout(t) \/ SpuriousWake(t)
  \/ Stop
  \/ Clear

\* A thread that has left a wait set gets the mutex in the end, and a
\* deadline passes.  Nothing obliges a thread to call or to call Stop.
Fairness == \A t \in Threads : WF_vars(Resume(t)) /\ WF_vars(Timeout(t))

SafeSpec == Init /\ [][Next]_vars
Spec == SafeSpec /\ Fairness
-----------------------------------------------------------------------------
Poppers == {t \in Threads : call[t].op \in {"Pop", "WaitPop"}}
Pushers == {t \in Threads : call[t].op = "Push"}
AwakePoppers == Poppers \ notEmptyWait
AwakePushers == Pushers \ notFullWait

\* Every variable has its type, and a thread waits on the condition variable
\* of the call it is in.
TypeOK ==
  /\ queue \in Seq(Items)
  /\ running \in BOOLEAN
  /\ call \in [Threads -> [op : Ops, val : Results]]
  /\ \A t \in Pushers : call[t].val \in Items
  /\ \A t \in Poppers : call[t].val = "none"
  /\ notEmptyWait \subseteq Poppers
  /\ notFullWait \subseteq Pushers
  /\ timedOut \subseteq {t \in Threads : call[t].op = "WaitPop"}

\* The queue holds at most max_size_ items, though a caller of Push or TryPush can
\* take the slot that a removal freed before the producer it woke gets the mutex,
\* and though one removal's wake-up and a spurious one can wake two producers.
CapacityRespected == MaxSize > 0 => Len(queue) <= MaxSize

\* No consumer sleeps on an item nobody comes for: while a thread waits on
\* not_empty_, each queued item has a thread of its own already woken for it,
\* though items are taken by callers that never waited and woken threads may
\* have timed out.
NoLostConsumerWakeup ==
  notEmptyWait # {} => Len(queue) <= Cardinality(AwakePoppers)

\* The same for producers: while a thread waits on not_full_, each free slot
\* has a woken producer of its own, Clear and TryPop included.
NoLostProducerWakeup ==
  notFullWait # {} => MaxSize - Len(queue) <= Cardinality(AwakePushers)

\* Calls return: all of them once Stop was called, whoever it finds waiting, and
\* WaitPop in any case, with an item or with false, whatever others take.
CallersReturn ==
  \A t \in Threads : /\ ~running ~> Idle(t)
                     /\ call[t].op = "WaitPop" ~> Idle(t)

Channel == INSTANCE BlockingChannel
\* Mutex, wait sets and wake-ups together behave as the closable FIFO channel,
\* its progress included: some pending consumer completes when items stay, some
\* pending producer when room stays.
ImplementsChannel == Channel!Spec
=============================================================================
