--------------------------- MODULE TrtContextPool ---------------------------
(***************************************************************************)
(* TrtContextPool: the execution contexts of one TensorRT engine, each     *)
(* with GPU buffers of its own, lent to one inference thread at a time.    *)
(* Acquire waits for a context up to a deadline, Release gives it back,    *)
(* Shutdown frees the pooled contexts and turns later Releases into frees. *)
(* A client is a thread that runs Detect or RunInference.                  *)
(***************************************************************************)
EXTENDS Naturals, Sequences, FiniteSets, SequencesExt

CONSTANTS Clients,      \* the threads that acquire contexts
          NumContexts   \* config_.num_execution_contexts

ASSUME ClientsAssumption == IsFiniteSet(Clients)
ASSUME NumContextsAssumption == NumContexts \in Nat \ {0}

VARIABLES phase,     \* Init of the pool: "init" (holds mutex_), "ready", or
                     \* "selflocked": waits in Shutdown for the mutex_ it holds
          pool,      \* pool_
          shutdown,  \* shutdown_
          created,   \* contexts whose buffers were allocated
          freed,     \* contexts whose buffers were freed again
          pc,        \* per client: "idle", "acquire", "hold" or "release"
          held,      \* per client: the context it holds, as a set
          waiting,   \* the clients that wait on cv_
          timedOut   \* the clients whose wait_for has timed out

vars == <<phase, pool, shutdown, created, freed, pc, held, waiting, timedOut>>
clientVars == <<pc, held, waiting, timedOut>>

Contexts == 0..(NumContexts - 1)

Init ==
  /\ phase = "init"
  /\ pool = <<>> /\ shutdown = FALSE
  /\ created = {} /\ freed = {}
  /\ pc = [c \in Clients |-> "idle"]
  /\ held = [c \in Clients |-> {}]
  /\ waiting = {} /\ timedOut = {}
-----------------------------------------------------------------------------
(* Init.  It holds mutex_ from its first line to its return.               *)

InitContext ==
  /\ phase = "init" /\ Len(pool) < NumContexts
  /\ created' = created \cup {Len(pool)}
  /\ pool' = Append(pool, Len(pool))
  /\ UNCHANGED <<phase, shutdown, freed, clientVars>>

InitDone ==
  /\ phase = "init" /\ Len(pool) = NumContexts
  /\ phase' = "ready"
  /\ shutdown' = FALSE
  /\ UNCHANGED <<pool, created, freed, clientVars>>

\* The context cannot be created or its buffers cannot be allocated.  Init
\* calls Shutdown, whose lock_guard takes the std::mutex that Init holds.
InitContextFails ==
  /\ phase = "init" /\ Len(pool) < NumContexts
  /\ phase' = "selflocked"
  /\ UNCHANGED <<pool, shutdown, created, freed, clientVars>>

InitStep == InitContext \/ InitDone \/ InitContextFails
-----------------------------------------------------------------------------
(* The critical sections.  mutex_ is free whenever phase is "ready".       *)

Leave(c) == pc' = [pc EXCEPT ![c] = "idle"] /\ timedOut' = timedOut \ {c}

\* Variant: the context is read from the front of the pool but not popped.
AcquireLockedWithoutPop(c) ==
  \/ /\ ~shutdown /\ pool = <<>> /\ c \notin timedOut
     /\ pc' = [pc EXCEPT ![c] = "acquire"]
     /\ waiting' = waiting \cup {c}
     /\ UNCHANGED <<pool, held, timedOut>>
  \/ /\ shutdown \/ (pool = <<>> /\ c \in timedOut)
     /\ Leave(c)
     /\ UNCHANGED <<pool, held, waiting>>
  \/ /\ ~shutdown /\ pool # <<>>
     /\ held' = [held EXCEPT ![c] = {Head(pool)}]
     /\ pc' = [pc EXCEPT ![c] = "hold"]
     /\ timedOut' = timedOut \ {c}
     /\ UNCHANGED <<pool, waiting>>

\* Variant: an expired wait is started again until there is a context.
AcquireLockedForEver(c) ==
  \/ /\ ~shutdown /\ pool = <<>>
     /\ pc' = [pc EXCEPT ![c] = "acquire"]
     /\ waiting' = waiting \cup {c}
     /\ UNCHANGED <<pool, held, timedOut>>
  \/ /\ shutdown
     /\ Leave(c)
     /\ UNCHANGED <<pool, held, waiting>>
  \/ /\ ~shutdown /\ pool # <<>>
     /\ pool' = Tail(pool)
     /\ held' = [held EXCEPT ![c] = {Head(pool)}]
     /\ pc' = [pc EXCEPT ![c] = "hold"]
     /\ timedOut' = timedOut \ {c}
     /\ UNCHANGED waiting

\* From the lock, or from the end of a wait, to the next wait or the return.
AcquireLocked(c) ==
  \/ \* the predicate is false and the deadline has not passed: wait
     /\ ~shutdown /\ pool = <<>> /\ c \notin timedOut
     /\ pc' = [pc EXCEPT ![c] = "acquire"]
     /\ waiting' = waiting \cup {c}
     /\ UNCHANGED <<pool, held, timedOut>>
  \/ \* shut down, or timed out with no context: nullptr
     /\ shutdown \/ (pool = <<>> /\ c \in timedOut)
     /\ Leave(c)
     /\ UNCHANGED <<pool, held, waiting>>
  \/ \* the first context of the pool
     /\ ~shutdown /\ pool # <<>>
     /\ pool' = Tail(pool)
     /\ held' = [held EXCEPT ![c] = {Head(pool)}]
     /\ pc' = [pc EXCEPT ![c] = "hold"]
     /\ timedOut' = timedOut \ {c}
     /\ UNCHANGED waiting

Acquire(c) ==
  /\ phase = "ready" /\ pc[c] = "idle"
  /\ AcquireLocked(c)
  /\ UNCHANGED <<phase, shutdown, created, freed>>

ResumeAcquire(c) ==
  /\ phase = "ready" /\ pc[c] = "acquire" /\ c \notin waiting
  /\ AcquireLocked(c)
  /\ UNCHANGED <<phase, shutdown, created, freed>>

\* Release clears in_use before it takes the mutex...
Release(c) ==
  /\ pc[c] = "hold"
  /\ pc' = [pc EXCEPT ![c] = "release"]
  /\ UNCHANGED <<phase, pool, shutdown, created, freed, held, waiting, timedOut>>

\* Variant: Release does not notify.
NotifyNobody == UNCHANGED waiting

NotifyOne == IF waiting = {} THEN UNCHANGED waiting ELSE \E w \in waiting : waiting' = waiting \ {w}

\* Variant: a context that comes back after Shutdown is dropped without a free.
ReleaseLockedForgetting(c) ==
  /\ phase = "ready" /\ pc[c] = "release"
  /\ IF shutdown
     THEN UNCHANGED <<pool, waiting>>
     ELSE /\ \E x \in held[c] : pool' = Append(pool, x)
          /\ NotifyOne
  /\ held' = [held EXCEPT ![c] = {}]
  /\ pc' = [pc EXCEPT ![c] = "idle"]
  /\ UNCHANGED <<phase, shutdown, created, freed, timedOut>>

\* Variant: Release does not look at shutdown_.
ReleaseLockedAlwaysPooling(c) ==
  /\ phase = "ready" /\ pc[c] = "release"
  /\ \E x \in held[c] : pool' = Append(pool, x)
  /\ NotifyOne
  /\ held' = [held EXCEPT ![c] = {}]
  /\ pc' = [pc EXCEPT ![c] = "idle"]
  /\ UNCHANGED <<phase, shutdown, created, freed, timedOut>>

\* ... and only then finds out whether the pool still wants the context.
ReleaseLocked(c) ==
  /\ phase = "ready" /\ pc[c] = "release"
  /\ IF shutdown
     THEN freed' = freed \cup held[c] /\ UNCHANGED <<pool, waiting>>
     ELSE /\ \E x \in held[c] : pool' = Append(pool, x)
          /\ NotifyOne
          /\ UNCHANGED freed
  /\ held' = [held EXCEPT ![c] = {}]
  /\ pc' = [pc EXCEPT ![c] = "idle"]
  /\ UNCHANGED <<phase, shutdown, created, timedOut>>

Shutdown ==
  /\ phase = "ready" /\ ~shutdown
  /\ shutdown' = TRUE
  /\ freed' = freed \cup ToSet(pool)
  /\ pool' = <<>>
  /\ waiting' = {}
  /\ UNCHANGED <<phase, created, pc, held, timedOut>>

Timeout(c) ==
  /\ pc[c] = "acquire" /\ c \notin timedOut
  /\ waiting' = waiting \ {c}
  /\ timedOut' = timedOut \cup {c}
  /\ UNCHANGED <<phase, pool, shutdown, created, freed, pc, held>>

SpuriousWake(c) ==
  /\ c \in waiting
  /\ waiting' = waiting \ {c}
  /\ UNCHANGED <<phase, pool, shutdown, created, freed, pc, held, timedOut>>

Next ==
  \/ InitStep
  \/ \E c \in Clients : \/ Acquire(c) \/ ResumeAcquire(c)
                        \/ Release(c) \/ ReleaseLocked(c)
                        \/ Timeout(c) \/ SpuriousWake(c)
  \/ Shutdown

\* Threads run and deadlines pass.  A holder gives its context back: every path
\* of Detect and RunInference ends in Release.
Fairness ==
  /\ WF_vars(InitStep)
  /\ \A c \in Clients : /\ WF_vars(ResumeAcquire(c)) /\ WF_vars(Timeout(c))
                        /\ WF_vars(Release(c)) /\ WF_vars(ReleaseLocked(c))

SafeSpec == Init /\ [][Next]_vars
Spec == SafeSpec /\ Fairness
-----------------------------------------------------------------------------
Lent == UNION {held[c] : c \in Clients}
Awake == {c \in Clients : pc[c] = "acquire"} \ waiting

\* Every variable has its type; who waits or has timed out is in Acquire.
TypeOK ==
  /\ phase \in {"init", "selflocked", "ready"}
  /\ pool \in Seq(Contexts)
  /\ shutdown \in BOOLEAN
  /\ created \subseteq Contexts /\ freed \subseteq Contexts
  /\ pc \in [Clients -> {"idle", "acquire", "hold", "release"}]
  /\ held \in [Clients -> SUBSET Contexts]
  /\ waiting \subseteq {c \in Clients : pc[c] = "acquire"}
  /\ timedOut \subseteq {c \in Clients : pc[c] = "acquire"}

\* The comment at DeserializeEngine says what goes wrong when two threads share a
\* context's buffers.  No context is lent twice, or lent and pooled, or pooled twice.
ExclusiveUse ==
  /\ \A c, d \in Clients : c # d => held[c] \cap held[d] = {}
  /\ ToSet(pool) \cap Lent = {}
  /\ IsInjective(pool)

\* What was allocated and not freed is pooled or lent, and no other context is: no
\* buffer is forgotten, and none is freed under the thread that holds it, even when
\* the pool is shut down meanwhile.
NoContextLost == created \ freed = ToSet(pool) \cup Lent

\* No wake-up is lost: while a thread waits, each pooled context has a woken thread.
NoLostWakeup == waiting # {} => Len(pool) <= Cardinality(Awake)

\* Acquire returns, with or without a context, whatever the other threads do.
AcquireReturns == \A c \in Clients : pc[c] = "acquire" ~> pc[c] # "acquire"

\* After Shutdown every buffer is freed, those on loan when their user is done.
ShutdownFreesAll == shutdown ~> freed = created

\* Where the contexts are is what a lease manager without threads would do with
\* them, whatever the deadlines, wake-ups and the two halves of Release: a context
\* is lent only while it is pooled, to a client without one, never after Shutdown,
\* and what comes back then is freed.  Pooled contexts are a set to the manager.
Leases == INSTANCE ContextLeases WITH open <- ~shutdown, pooled <- ToSet(pool), lent <- held
ImplementsLeases == Leases!SafeSpec

\* DeserializeEngine logs "Failed to initialize context pool" and returns false
\* when a context cannot be created (trt_engine.cpp 496-499): Init returns.
InitReturns == phase = "init" ~> phase = "ready" \/ phase = "failed"
=============================================================================
