------------------------ MODULE TrtContextPoolProofs ------------------------
(***************************************************************************)
(* Proofs about TrtContextPool, for any finite set of clients and any      *)
(* number of contexts.                                                     *)
(***************************************************************************)
EXTENDS TrtContextPool, FiniteSetTheorems, SequenceTheorems, TLAPS

\* Acquire pops the front: it leaves the pool and nothing else does.
LEMMA TailOfPool ==
  ASSUME NEW S, NEW s \in Seq(S), s # <<>>, IsInjective(s)
  PROVE  /\ Head(s) \in S /\ Tail(s) \in Seq(S)
         /\ Head(s) \in ToSet(s)
         /\ ToSet(Tail(s)) = ToSet(s) \ {Head(s)}
         /\ IsInjective(Tail(s))
<1>1. /\ Len(s) \in Nat /\ Len(s) >= 1 /\ DOMAIN s = 1..Len(s)
      /\ Tail(s) \in Seq(S) /\ Head(s) = s[1] /\ Head(s) \in S
      /\ Len(Tail(s)) = Len(s) - 1 /\ DOMAIN Tail(s) = 1..(Len(s) - 1)
      /\ \A i \in 1..(Len(s) - 1) : Tail(s)[i] = s[i + 1]
  BY HeadTailProperties, EmptySeq, LenProperties
<1>2. IsInjective(Tail(s))
  BY <1>1 DEF IsInjective
<1>3. ASSUME NEW i \in DOMAIN Tail(s) PROVE Tail(s)[i] \in ToSet(s) \ {Head(s)}
  BY <1>1, <1>3 DEF ToSet, IsInjective
<1>4. ASSUME NEW j \in DOMAIN s, s[j] # Head(s) PROVE s[j] \in ToSet(Tail(s))
  <2>1. j \in 1..Len(s) /\ j # 1
    BY <1>1, <1>4
  <2>2. j - 1 \in 1..(Len(s) - 1) /\ (j - 1) + 1 = j
    BY <1>1, <2>1
  <2>3. Tail(s)[j - 1] = s[j]
    BY <1>1, <2>2
  <2> QED BY <1>1, <2>2, <2>3 DEF ToSet
<1>5. ToSet(Tail(s)) = ToSet(s) \ {Head(s)}
  BY <1>3, <1>4 DEF ToSet
<1>6. Head(s) \in ToSet(s)
  <2>1. 1 \in DOMAIN s /\ s[1] = Head(s)
    BY <1>1
  <2> QED BY <2>1 DEF ToSet
<1> QED BY <1>1, <1>2, <1>5, <1>6

\* Release and Init append a context that is not in the pool.
LEMMA AppendToPool ==
  ASSUME NEW S, NEW s \in Seq(S), NEW x \in S, IsInjective(s), x \notin ToSet(s)
  PROVE  /\ Append(s, x) \in Seq(S)
         /\ ToSet(Append(s, x)) = ToSet(s) \cup {x}
         /\ IsInjective(Append(s, x))
<1>1. /\ Len(s) \in Nat /\ DOMAIN s = 1..Len(s)
      /\ Append(s, x) \in Seq(S) /\ DOMAIN Append(s, x) = 1..(Len(s) + 1)
      /\ \A i \in 1..Len(s) : Append(s, x)[i] = s[i]
      /\ Append(s, x)[Len(s) + 1] = x
  BY AppendProperties, LenProperties
<1>2. IsInjective(Append(s, x))
  <2> SUFFICES ASSUME NEW i \in 1..(Len(s) + 1), NEW j \in 1..(Len(s) + 1),
                      Append(s, x)[i] = Append(s, x)[j]
               PROVE  i = j
    BY <1>1 DEF IsInjective
  <2>1. \A k \in 1..Len(s) : s[k] # x
    BY <1>1 DEF ToSet
  <2> QED BY <1>1, <2>1 DEF IsInjective
<1>3. ToSet(Append(s, x)) \subseteq ToSet(s) \cup {x}
  BY <1>1 DEF ToSet
<1>4. ASSUME NEW i \in DOMAIN s PROVE s[i] \in ToSet(Append(s, x))
  BY <1>1, <1>4 DEF ToSet
<1>5. x \in ToSet(Append(s, x))
  BY <1>1 DEF ToSet
<1> QED BY <1>1, <1>2, <1>3, <1>4, <1>5 DEF ToSet

\* Every step keeps the types.
LEMMA TypeStep == TypeOK /\ [Next]_vars => TypeOK'
<1> SUFFICES ASSUME TypeOK, [Next]_vars PROVE TypeOK'
  OBVIOUS
<1>1. CASE InitContext
  <2>1. Len(pool) \in Contexts
    BY <1>1, NumContextsAssumption, LenProperties DEF InitContext, TypeOK, Contexts
  <2>2. pool' \in Seq(Contexts)
    BY <1>1, <2>1, AppendProperties DEF InitContext, TypeOK
  <2> QED BY <1>1, <2>1, <2>2 DEF InitContext, TypeOK, clientVars
<1>2. CASE InitDone \/ InitContextFails
  BY <1>2 DEF InitDone, InitContextFails, TypeOK, clientVars
<1>3. ASSUME NEW c \in Clients, c \notin waiting, AcquireLocked(c),
             pc[c] = "acquire" \/ c \notin timedOut,
             UNCHANGED <<phase, shutdown, created, freed>>
      PROVE TypeOK'
  <2>1. CASE pool = <<>> \/ shutdown
    BY <1>3, <2>1 DEF AcquireLocked, Leave, TypeOK
  <2>2. CASE pool # <<>> /\ ~shutdown
    <3>1. Head(pool) \in Contexts /\ Tail(pool) \in Seq(Contexts)
      BY <2>2, HeadTailProperties DEF TypeOK
    <3> QED BY <1>3, <2>2, <3>1 DEF AcquireLocked, TypeOK
  <2> QED BY <2>1, <2>2
<1>4. ASSUME NEW c \in Clients, Acquire(c) \/ ResumeAcquire(c) PROVE TypeOK'
  BY <1>3, <1>4 DEF Acquire, ResumeAcquire, TypeOK
<1>5. ASSUME NEW c \in Clients, Release(c) PROVE TypeOK'
  BY <1>5 DEF Release, TypeOK
<1>6. ASSUME NEW c \in Clients, ReleaseLocked(c) PROVE TypeOK'
  <2>1. waiting' \subseteq waiting
    BY <1>6 DEF ReleaseLocked, NotifyOne
  <2>2. pool' = pool \/ \E x \in held[c] : pool' = Append(pool, x)
    BY <1>6 DEF ReleaseLocked
  <2>3. held[c] \subseteq Contexts /\ pool \in Seq(Contexts)
    BY DEF TypeOK
  <2>4. pool' \in Seq(Contexts)
    BY <2>2, <2>3, AppendProperties
  <2> QED BY <1>6, <2>1, <2>4 DEF ReleaseLocked, TypeOK
<1>7. CASE Shutdown
  BY <1>7 DEF Shutdown, TypeOK, ToSet
<1>8. ASSUME NEW c \in Clients, Timeout(c) \/ SpuriousWake(c) PROVE TypeOK'
  BY <1>8 DEF Timeout, SpuriousWake, TypeOK
<1>9. CASE UNCHANGED vars
  BY <1>9 DEF vars, TypeOK
<1> QED BY <1>1, <1>2, <1>4, <1>5, <1>6, <1>7, <1>8, <1>9 DEF Next, InitStep

\* Who waits or has timed out is in Acquire, and the rest of TypeOK.
THEOREM PoolTypeInvariant == SafeSpec => []TypeOK
<1>1. Init => TypeOK
  BY EmptySeq DEF Init, TypeOK, Contexts
<1>2. TypeOK /\ [Next]_vars => TypeOK'
  BY TypeStep
<1> QED BY <1>1, <1>2, PTL DEF SafeSpec
-----------------------------------------------------------------------------
Holding(c) == pc[c] \in {"hold", "release"}

\* A client holds one context while it is between Acquire and the end of Release,
\* and none otherwise.
HoldsOne == \A c \in Clients : IF Holding(c) THEN \E x \in Contexts : held[c] = {x}
                                             ELSE held[c] = {}

\* Until Init returns nobody has a context, and the pool holds those created.
InitOwnsAll ==
  phase # "ready" =>
    /\ ~shutdown
    /\ \A c \in Clients : ~Holding(c)
    /\ created = ToSet(pool) /\ freed = {}
    /\ \A i \in DOMAIN pool : pool[i] < Len(pool)

\* The buffers of a context last as long as somebody holds it, even when the pool
\* is shut down meanwhile, and a freed context is not handed out again.
HeldContextsLive == freed \cap (Lent \cup ToSet(pool)) = {}

\* The inductive invariant: every context created and not freed is in exactly one
\* place, the pool or one client's hands.
IInv == TypeOK /\ HoldsOne /\ InitOwnsAll /\ ExclusiveUse /\ HeldContextsLive /\ NoContextLost

\* Init holds the mutex and creates the context whose number is the pool's length.
LEMMA CreatedFresh ==
  ASSUME IInv, InitContext
  PROVE  IInv'
<1>1. /\ phase = "init" /\ phase' = "init" /\ UNCHANGED <<shutdown, freed, pc, held>> /\ ~shutdown
      /\ pool \in Seq(Contexts) /\ Len(pool) \in Contexts
      /\ created = ToSet(pool) /\ freed = {} /\ IsInjective(pool)
      /\ pool' = Append(pool, Len(pool)) /\ created' = created \cup {Len(pool)}
  BY NumContextsAssumption, LenProperties
  DEF InitContext, IInv, TypeOK, InitOwnsAll, ExclusiveUse, clientVars, Contexts
<1>2. Len(pool) \notin ToSet(pool)
  BY <1>1, LenProperties DEF IInv, InitOwnsAll, ToSet, Contexts
<1>3. ToSet(pool') = ToSet(pool) \cup {Len(pool)} /\ IsInjective(pool') /\ pool' \in Seq(Contexts)
  BY <1>1, <1>2, AppendToPool
<1>4. \A c \in Clients : held[c] = {} /\ ~Holding(c)
  BY <1>1 DEF IInv, InitOwnsAll, HoldsOne
<1>5. Lent = {} /\ Lent' = {}
  BY <1>1, <1>4 DEF Lent
<1>6. TypeOK'
  BY <1>1, <1>3 DEF IInv, TypeOK, InitContext, clientVars
<1>7. HoldsOne'
  BY <1>1 DEF IInv, HoldsOne, Holding
<1>8. InitOwnsAll'
  <2>1. Len(pool') = Len(pool) + 1 /\ DOMAIN pool' = 1..(Len(pool) + 1)
        /\ pool'[Len(pool) + 1] = Len(pool) /\ \A i \in 1..Len(pool) : pool'[i] = pool[i]
        /\ Len(pool) \in Nat /\ DOMAIN pool = 1..Len(pool)
    BY <1>1, AppendProperties, LenProperties
  <2>2. \A i \in DOMAIN pool : pool[i] < Len(pool) /\ pool[i] \in Nat
    <3>1. \A i \in DOMAIN pool : pool[i] < Len(pool)
      BY <1>1 DEF IInv, InitOwnsAll
    <3>2. \A i \in 1..Len(pool) : pool[i] \in Contexts
      BY <1>1, ElementOfSeq
    <3>3. \A x \in Contexts : x \in Nat
      BY NumContextsAssumption DEF Contexts
    <3>4. \A i \in DOMAIN pool : pool[i] \in Contexts
      BY <2>1, <3>2
    <3> QED BY ONLY <3>1, <3>3, <3>4
  <2>3. \A i \in DOMAIN pool' : pool'[i] < Len(pool')
    BY <2>1, <2>2
  <2> QED BY <1>1, <1>3, <1>4, <2>3 DEF InitOwnsAll, Holding
<1>9. ExclusiveUse'
  BY <1>1, <1>3, <1>4, <1>5 DEF ExclusiveUse
<1>10. HeldContextsLive' /\ NoContextLost'
  BY <1>1, <1>3, <1>5 DEF HeldContextsLive, NoContextLost
<1> QED BY <1>6, <1>7, <1>8, <1>9, <1>10 DEF IInv

\* A client takes the front of the pool.
LEMMA TakenOnce ==
  ASSUME IInv, NEW c \in Clients, ~Holding(c), phase = "ready", pool # <<>>,
         pool' = Tail(pool), held' = [held EXCEPT ![c] = {Head(pool)}],
         pc' = [pc EXCEPT ![c] = "hold"], UNCHANGED <<phase, shutdown, created, freed>>
  PROVE  HoldsOne' /\ InitOwnsAll' /\ ExclusiveUse' /\ HeldContextsLive' /\ NoContextLost'
<1>1. /\ Head(pool) \in Contexts /\ Head(pool) \in ToSet(pool)
      /\ ToSet(pool') = ToSet(pool) \ {Head(pool)} /\ IsInjective(pool')
  BY TailOfPool DEF IInv, TypeOK, ExclusiveUse
<1>2. held \in [Clients -> SUBSET Contexts] /\ pc \in [Clients -> {"idle", "acquire", "hold", "release"}]
  BY DEF IInv, TypeOK
<1>3. held[c] = {}
  BY DEF IInv, HoldsOne
<1>4. Lent' = Lent \cup {Head(pool)}
  BY <1>2, <1>3 DEF Lent
<1>5. Head(pool) \notin Lent
  BY <1>1 DEF IInv, ExclusiveUse
<1>6. HoldsOne'
  BY <1>1, <1>2 DEF IInv, HoldsOne, Holding
<1>7. ExclusiveUse'
  <2>1. \A d \in Clients : Head(pool) \notin held[d]
    BY <1>5 DEF Lent
  <2>2. \A d \in Clients, e \in Clients : d # e => held'[d] \cap held'[e] = {}
    BY <1>2, <2>1 DEF IInv, ExclusiveUse
  <2>3. ToSet(pool') \cap Lent' = {}
    BY <1>1, <1>4 DEF IInv, ExclusiveUse
  <2> QED BY <1>1, <2>2, <2>3 DEF ExclusiveUse
<1>8. HeldContextsLive' /\ NoContextLost'
  BY <1>1, <1>4 DEF IInv, HeldContextsLive, NoContextLost
<1> QED BY <1>6, <1>7, <1>8 DEF InitOwnsAll

\* A client gives its context up: to the pool, or to be freed.
LEMMA GivenBack ==
  ASSUME IInv, NEW c \in Clients, ReleaseLocked(c)
  PROVE  HoldsOne' /\ InitOwnsAll' /\ ExclusiveUse' /\ HeldContextsLive' /\ NoContextLost'
<1>1. /\ phase = "ready" /\ phase' = "ready" /\ created' = created
      /\ held' = [held EXCEPT ![c] = {}] /\ pc' = [pc EXCEPT ![c] = "idle"] /\ Holding(c)
  BY DEF ReleaseLocked, Holding
<1>2. held \in [Clients -> SUBSET Contexts] /\ pc \in [Clients -> {"idle", "acquire", "hold", "release"}]
      /\ pool \in Seq(Contexts)
  BY DEF IInv, TypeOK
<1>3. PICK x \in Contexts : held[c] = {x}
  BY <1>1 DEF IInv, HoldsOne
<1>4. x \in Lent /\ x \notin freed /\ x \notin ToSet(pool)
      /\ \A d \in Clients : d # c => x \notin held[d]
  <2>1. x \in Lent
    BY <1>3 DEF Lent
  <2> QED BY <1>3, <2>1 DEF IInv, HeldContextsLive, ExclusiveUse
<1>5. Lent' = Lent \ {x}
  BY <1>1, <1>2, <1>3, <1>4 DEF Lent
<1>6. HoldsOne' /\ InitOwnsAll'
  BY <1>1, <1>2 DEF IInv, HoldsOne, Holding, InitOwnsAll
<1>7. \A d \in Clients, e \in Clients : d # e => held'[d] \cap held'[e] = {}
  BY <1>1, <1>2 DEF IInv, ExclusiveUse
<1>8. CASE shutdown
  <2>1. pool' = pool /\ freed' = freed \cup {x}
    BY <1>3, <1>8 DEF ReleaseLocked
  <2> QED BY <1>1, <1>4, <1>5, <1>6, <1>7, <2>1
          DEF IInv, ExclusiveUse, HeldContextsLive, NoContextLost
<1>9. CASE ~shutdown
  <2>1. pool' = Append(pool, x) /\ freed' = freed
    BY <1>3, <1>9 DEF ReleaseLocked
  <2>2. ToSet(pool') = ToSet(pool) \cup {x} /\ IsInjective(pool')
    BY <1>2, <1>4, <2>1, AppendToPool DEF IInv, ExclusiveUse
  <2> QED BY <1>1, <1>4, <1>5, <1>6, <1>7, <2>1, <2>2
          DEF IInv, ExclusiveUse, HeldContextsLive, NoContextLost
<1> QED BY <1>8, <1>9

\* The pool is emptied into the freed contexts; what is lent stays out of them.
LEMMA PoolFreed ==
  ASSUME IInv, Shutdown
  PROVE  HoldsOne' /\ InitOwnsAll' /\ ExclusiveUse' /\ HeldContextsLive' /\ NoContextLost'
<1>1. /\ phase = "ready" /\ pool' = <<>> /\ freed' = freed \cup ToSet(pool)
      /\ UNCHANGED <<phase, created, pc, held>>
  BY DEF Shutdown
<1>2. ToSet(pool') = {} /\ IsInjective(pool') /\ Lent' = Lent
  BY <1>1 DEF ToSet, IsInjective, Lent
<1> QED BY <1>1, <1>2
        DEF IInv, HoldsOne, Holding, InitOwnsAll, ExclusiveUse, HeldContextsLive, NoContextLost

\* The other steps leave the contexts where they are.
LEMMA ContextsStay ==
  ASSUME IInv, UNCHANGED <<pool, created, freed, held>>,
         \A c \in Clients : Holding(c)' <=> Holding(c), phase' # "ready" => UNCHANGED shutdown,
         phase = "ready" => phase' = "ready"
  PROVE  HoldsOne' /\ InitOwnsAll' /\ ExclusiveUse' /\ HeldContextsLive' /\ NoContextLost'
<1>1. Lent' = Lent /\ ToSet(pool') = ToSet(pool)
  BY DEF Lent
<1>2. HoldsOne' /\ InitOwnsAll'
  BY DEF IInv, HoldsOne, InitOwnsAll
<1> QED BY <1>1, <1>2 DEF IInv, ExclusiveUse, HeldContextsLive, NoContextLost

\* Every step keeps each context in one place.
LEMMA ContextsStep == IInv /\ TypeOK' /\ [Next]_vars => IInv'
<1> SUFFICES ASSUME IInv, TypeOK', [Next]_vars PROVE IInv'
  OBVIOUS
<1>1. CASE InitContext
  BY <1>1, CreatedFresh
<1>2. CASE InitDone \/ InitContextFails
  <2>1. /\ UNCHANGED <<pool, created, freed, held, pc>> /\ phase = "init"
    BY <1>2 DEF InitDone, InitContextFails, clientVars
  <2>2. phase' # "ready" => UNCHANGED shutdown
    BY <1>2 DEF InitDone, InitContextFails
  <2> QED BY <2>1, <2>2, ContextsStay DEF IInv, Holding
<1>3. ASSUME NEW c \in Clients, Acquire(c) \/ ResumeAcquire(c) PROVE IInv'
  <2>1. /\ phase = "ready" /\ ~Holding(c) /\ AcquireLocked(c)
        /\ UNCHANGED <<phase, shutdown, created, freed>>
    BY <1>3 DEF Acquire, ResumeAcquire, Holding
  <2>2. CASE pool # <<>> /\ ~shutdown
    BY <2>1, <2>2, TakenOnce DEF AcquireLocked, IInv
  <2>3. CASE pool = <<>> \/ shutdown
    <3>1. /\ UNCHANGED <<pool, held>> /\ \E p \in {"acquire", "idle"} : pc' = [pc EXCEPT ![c] = p]
      BY <2>1, <2>3 DEF AcquireLocked, Leave
    <3>2. \A d \in Clients : Holding(d)' <=> Holding(d)
      BY <2>1, <3>1 DEF Holding, IInv, TypeOK
    <3> QED BY <2>1, <3>1, <3>2, ContextsStay DEF IInv
  <2> QED BY <2>2, <2>3
<1>4. ASSUME NEW c \in Clients, Release(c) PROVE IInv'
  <2>1. /\ UNCHANGED <<phase, pool, created, freed, held>> /\ Holding(c)
        /\ pc' = [pc EXCEPT ![c] = "release"]
    BY <1>4 DEF Release, Holding
  <2>2. phase = "ready"
    BY <2>1 DEF IInv, InitOwnsAll
  <2>3. \A d \in Clients : Holding(d)' <=> Holding(d)
    BY <2>1 DEF Holding, IInv, TypeOK
  <2> QED BY <2>1, <2>2, <2>3, ContextsStay DEF IInv
<1>5. ASSUME NEW c \in Clients, ReleaseLocked(c) PROVE IInv'
  BY <1>5, GivenBack DEF IInv
<1>6. CASE Shutdown
  BY <1>6, PoolFreed DEF IInv
<1>7. ASSUME NEW c \in Clients, Timeout(c) \/ SpuriousWake(c) PROVE IInv'
  <2>1. UNCHANGED <<phase, shutdown, pool, created, freed, held, pc>>
    BY <1>7 DEF Timeout, SpuriousWake
  <2> QED BY <2>1, ContextsStay DEF IInv, Holding
<1>8. CASE UNCHANGED vars
  <2>1. UNCHANGED <<phase, shutdown, pool, created, freed, held, pc>>
    BY <1>8 DEF vars
  <2> QED BY <2>1, ContextsStay DEF IInv, Holding
<1> QED BY <1>1, <1>2, <1>3, <1>4, <1>5, <1>6, <1>7, <1>8 DEF Next, InitStep

\* Every context created and not freed is in exactly one place.
LEMMA ContextsInvariant == SafeSpec => []IInv
<1>1. Init => IInv
  <2> SUFFICES ASSUME Init PROVE IInv
    OBVIOUS
  <2>1. TypeOK
    BY EmptySeq DEF Init, TypeOK, Contexts
  <2>2. ToSet(pool) = {} /\ IsInjective(pool) /\ Lent = {}
    BY DEF Init, ToSet, IsInjective, Lent
  <2>3. \A c \in Clients : ~Holding(c) /\ held[c] = {}
    BY DEF Init, Holding
  <2> QED BY <2>1, <2>2, <2>3
          DEF Init, IInv, HoldsOne, InitOwnsAll, ExclusiveUse, HeldContextsLive, NoContextLost
<1>2. IInv /\ TypeOK' /\ [Next]_vars => IInv'
  BY ContextsStep
<1> QED BY <1>1, <1>2, PoolTypeInvariant, PTL DEF SafeSpec

\* No context, and so no GPU buffer, is used by two threads at a time.
THEOREM ExclusiveUseInvariant == SafeSpec => []ExclusiveUse
<1>1. IInv => ExclusiveUse
  BY DEF IInv
<1> QED BY <1>1, ContextsInvariant, PTL

\* A context on loan, or still to be lent, has its buffers, Shutdown or not.
THEOREM HeldContextsLiveInvariant == SafeSpec => []HeldContextsLive
<1>1. IInv => HeldContextsLive
  BY DEF IInv
<1> QED BY <1>1, ContextsInvariant, PTL

\* No buffer is forgotten, whoever held it when the pool was shut down.
THEOREM NoContextLostInvariant == SafeSpec => []NoContextLost
<1>1. IInv => NoContextLost
  BY DEF IInv
<1> QED BY <1>1, ContextsInvariant, PTL
-----------------------------------------------------------------------------
\* Nobody waits for a pool that is not ready yet or shut down already.
Waking ==
  waiting # {} => phase = "ready" /\ ~shutdown /\ Len(pool) <= Cardinality(Awake)

\* The woken threads, one more or one fewer.
LEMMA AwakeCounted ==
  ASSUME NEW A \in SUBSET Clients, NEW B \in SUBSET Clients, NEW c
  PROVE  /\ Cardinality(A) \in Nat /\ Cardinality(B) \in Nat
         /\ A \subseteq B => Cardinality(A) <= Cardinality(B)
         /\ A \subseteq B \cup {c} => Cardinality(A) <= Cardinality(B) + 1
         /\ A \cup {c} = B /\ c \notin A => Cardinality(B) = Cardinality(A) + 1
<1>1. IsFiniteSet(A) /\ IsFiniteSet(B)
  BY ClientsAssumption, FS_Subset
<1>2. Cardinality(A) \in Nat /\ Cardinality(B) \in Nat
  BY <1>1, FS_CardinalityType
<1>3. A \subseteq B => Cardinality(A) <= Cardinality(B)
  BY <1>1, FS_Subset
<1>4. ASSUME A \subseteq B \cup {c} PROVE Cardinality(A) <= Cardinality(B) + 1
  <2>1. IsFiniteSet(B \cup {c})
        /\ (Cardinality(B \cup {c}) = Cardinality(B) \/ Cardinality(B \cup {c}) = Cardinality(B) + 1)
    BY <1>1, FS_AddElement
  <2>2. Cardinality(A) <= Cardinality(B \cup {c})
    BY <1>4, <2>1, FS_Subset
  <2> QED BY <1>2, <2>1, <2>2
<1>5. ASSUME A \cup {c} = B, c \notin A PROVE Cardinality(B) = Cardinality(A) + 1
  BY <1>1, <1>5, FS_AddElement
<1> QED BY <1>2, <1>3, <1>4, <1>5

\* The next wait, the return without a context, or the first context of the pool.
LEMMA AcquireWakes ==
  ASSUME TypeOK, Waking, NEW c \in Clients, phase = "ready", c \notin waiting, AcquireLocked(c),
         UNCHANGED <<phase, shutdown>>
  PROVE  Waking'
<1>1. /\ pool \in Seq(Contexts) /\ Len(pool) \in Nat
      /\ pc \in [Clients -> {"idle", "acquire", "hold", "release"}]
  BY LenProperties DEF TypeOK
<1>2. Awake \in SUBSET Clients /\ Awake' \in SUBSET Clients
  BY DEF Awake
<1>3. CASE ~shutdown /\ pool = <<>> /\ UNCHANGED pool
  BY <1>2, <1>3, AwakeCounted, EmptySeq DEF Waking
<1>4. CASE shutdown /\ UNCHANGED waiting
  BY <1>4 DEF Waking
<1>5. CASE /\ ~shutdown /\ pool # <<>> /\ pool' = Tail(pool) /\ UNCHANGED waiting
           /\ pc' = [pc EXCEPT ![c] = "hold"]
  <2>1. Len(pool') = Len(pool) - 1
    BY <1>1, <1>5, HeadTailProperties
  <2>2. Awake \subseteq Awake' \cup {c}
    BY <1>1, <1>5 DEF Awake
  <2>3. Cardinality(Awake) <= Cardinality(Awake') + 1 /\ Cardinality(Awake) \in Nat /\ Cardinality(Awake') \in Nat
    BY <1>2, <2>2, AwakeCounted
  <2> QED BY <1>1, <1>5, <2>1, <2>3 DEF Waking
<1> QED BY <1>3, <1>4, <1>5 DEF AcquireLocked

\* The context that comes back wakes one of the waiting threads.
LEMMA ReleaseWakes ==
  ASSUME TypeOK, HoldsOne, Waking, NEW c \in Clients, ReleaseLocked(c)
  PROVE  Waking'
<1>1. /\ phase = "ready" /\ pc[c] = "release" /\ pc' = [pc EXCEPT ![c] = "idle"]
      /\ UNCHANGED <<phase, shutdown>>
  BY DEF ReleaseLocked
<1>2. pool \in Seq(Contexts) /\ pc \in [Clients -> {"idle", "acquire", "hold", "release"}]
      /\ waiting \subseteq {d \in Clients : pc[d] = "acquire"}
  BY DEF TypeOK
<1>3. CASE waiting = {}
  BY <1>3 DEF ReleaseLocked, NotifyOne, Waking
<1>4. CASE waiting # {}
  <2>1. ~shutdown
    BY <1>4 DEF Waking
  <2>2. PICK w \in waiting : waiting' = waiting \ {w}
    BY <1>4, <2>1 DEF ReleaseLocked, NotifyOne
  <2>3. PICK x \in Contexts : held[c] = {x}
    BY <1>1 DEF HoldsOne, Holding
  <2>4. Len(pool') = Len(pool) + 1
    <3>1. pool' = Append(pool, x)
      BY <2>1, <2>3 DEF ReleaseLocked
    <3> QED BY <1>2, <3>1, AppendProperties
  <2>5. Awake \cup {w} = Awake' /\ w \notin Awake
    BY <1>1, <1>2, <2>2 DEF Awake
  <2>6. Awake \in SUBSET Clients /\ Awake' \in SUBSET Clients
    BY DEF Awake
  <2>7. Cardinality(Awake') = Cardinality(Awake) + 1 /\ Cardinality(Awake) \in Nat
    BY <2>5, <2>6, AwakeCounted
  <2>8. Len(pool) <= Cardinality(Awake) /\ Len(pool) \in Nat
    BY <1>2, <1>4, LenProperties DEF Waking
  <2> QED BY <1>1, <2>1, <2>4, <2>7, <2>8 DEF Waking
<1> QED BY <1>3, <1>4

\* A step that takes nothing from the threads that are awake and leaves the pool.
LEMMA StillWaking ==
  ASSUME TypeOK, Waking, UNCHANGED <<phase, shutdown, pool>>, waiting' \subseteq waiting,
         Awake \subseteq Awake'
  PROVE  Waking'
<1>1. Awake \in SUBSET Clients /\ Awake' \in SUBSET Clients
  BY DEF Awake
<1>2. /\ Cardinality(Awake) <= Cardinality(Awake')
      /\ Cardinality(Awake) \in Nat /\ Cardinality(Awake') \in Nat
  BY <1>1, AwakeCounted
<1>3. Len(pool) \in Nat
  BY LenProperties DEF TypeOK
<1> QED BY <1>2, <1>3 DEF Waking

\* While threads wait, each pooled context has a woken thread of its own, for any
\* number of threads and contexts, whoever times out or is woken for nothing.
THEOREM NoLostWakeupInvariant == SafeSpec => []NoLostWakeup
<1>1. Init => Waking
  BY DEF Init, Waking
<1>2. TypeOK /\ HoldsOne /\ Waking /\ [Next]_vars => Waking'
  <2> SUFFICES ASSUME TypeOK, HoldsOne, Waking, [Next]_vars PROVE Waking'
    OBVIOUS
  <2>0. pc \in [Clients -> {"idle", "acquire", "hold", "release"}]
    BY DEF TypeOK
  <2>1. CASE InitStep
    BY <2>1 DEF InitStep, InitContext, InitDone, InitContextFails, clientVars, Waking
  <2>2. ASSUME NEW c \in Clients, Acquire(c) \/ ResumeAcquire(c) PROVE Waking'
    <3>1. c \notin waiting /\ phase = "ready" /\ AcquireLocked(c) /\ UNCHANGED <<phase, shutdown>>
      BY <2>2 DEF Acquire, ResumeAcquire, TypeOK
    <3> QED BY <3>1, AcquireWakes
  <2>3. ASSUME NEW c \in Clients, Release(c) PROVE Waking'
    <3>1. Awake \subseteq Awake'
      BY <2>0, <2>3 DEF Release, Awake
    <3> QED BY <2>3, <3>1, StillWaking DEF Release
  <2>4. ASSUME NEW c \in Clients, ReleaseLocked(c) PROVE Waking'
    BY <2>4, ReleaseWakes
  <2>5. ASSUME NEW c \in Clients, Timeout(c) \/ SpuriousWake(c) PROVE Waking'
    <3>1. /\ UNCHANGED <<phase, shutdown, pool, pc>> /\ waiting' \subseteq waiting
      BY <2>5 DEF Timeout, SpuriousWake
    <3>2. Awake \subseteq Awake'
      BY <3>1 DEF Awake
    <3> QED BY <3>1, <3>2, StillWaking
  <2>6. CASE Shutdown
    BY <2>6 DEF Shutdown, Waking
  <2>7. CASE UNCHANGED vars
    <3>1. UNCHANGED <<phase, shutdown, pool, pc, waiting>>
      BY <2>7 DEF vars
    <3> QED BY <3>1 DEF Waking, Awake
  <2> QED BY <2>1, <2>2, <2>3, <2>4, <2>5, <2>6, <2>7 DEF Next
<1>3. Waking => NoLostWakeup
  BY DEF Waking, NoLostWakeup
<1>4. IInv => TypeOK /\ HoldsOne
  BY DEF IInv
<1> QED BY <1>1, <1>2, <1>3, <1>4, ContextsInvariant, PTL DEF SafeSpec
-----------------------------------------------------------------------------
\* Init puts a new context into the pool.
LEMMA InitCreates ==
  ASSUME IInv, InitContext
  PROVE  Leases!Create
<1>1. /\ phase = "init" /\ UNCHANGED <<shutdown, freed, held>> /\ pool' = Append(pool, Len(pool))
      /\ pool \in Seq(Contexts) /\ Len(pool) \in Contexts
      /\ freed = {} /\ IsInjective(pool) /\ \A i \in DOMAIN pool : pool[i] < Len(pool)
  BY NumContextsAssumption, LenProperties
  DEF InitContext, IInv, TypeOK, InitOwnsAll, ExclusiveUse, clientVars, Contexts
<1>2. Len(pool) \notin ToSet(pool)
  BY <1>1, LenProperties DEF ToSet, Contexts
<1>3. ToSet(pool)' = ToSet(pool) \cup {Len(pool)}
  BY <1>1, <1>2, AppendToPool
<1>4. Leases!Leased = {}
  BY <1>1 DEF IInv, InitOwnsAll, HoldsOne, Leases!Leased
<1> QED BY <1>1, <1>2, <1>3, <1>4 DEF Leases!Create

\* A call that returns a context leases it.
LEMMA AcquireLeases ==
  ASSUME IInv, NEW c \in Clients, ~Holding(c), ~shutdown, pool # <<>>, UNCHANGED <<shutdown, freed>>,
         pool' = Tail(pool), held' = [held EXCEPT ![c] = {Head(pool)}]
  PROVE  Leases!Lease(c)
<1>1. Head(pool) \in ToSet(pool) /\ ToSet(pool)' = ToSet(pool) \ {Head(pool)}
  BY TailOfPool DEF IInv, TypeOK, ExclusiveUse
<1>2. held[c] = {}
  BY DEF IInv, HoldsOne
<1> QED BY <1>1, <1>2 DEF Leases!Lease

\* The second half of Release returns the lease, and the pool looks at shutdown_
\* in the same critical section.
LEMMA ReleaseReturns ==
  ASSUME IInv, NEW c \in Clients, ReleaseLocked(c)
  PROVE  Leases!Return(c)
<1>1. /\ held' = [held EXCEPT ![c] = {}] /\ UNCHANGED shutdown
      /\ Holding(c) /\ pool \in Seq(Contexts) /\ IsInjective(pool)
  BY DEF ReleaseLocked, Holding, IInv, TypeOK, ExclusiveUse
<1>2. PICK x \in Contexts : held[c] = {x}
  BY <1>1 DEF IInv, HoldsOne
<1>3. x \notin ToSet(pool)
  BY <1>2 DEF IInv, ExclusiveUse, Lent
<1>4. CASE shutdown
  BY <1>1, <1>2, <1>4 DEF ReleaseLocked, Leases!Return
<1>5. CASE ~shutdown
  <2>1. pool' = Append(pool, x) /\ UNCHANGED freed
    BY <1>2, <1>5 DEF ReleaseLocked
  <2>2. ToSet(pool)' = ToSet(pool) \cup {x}
    BY <1>1, <1>3, <2>1, AppendToPool
  <2> QED BY <1>1, <1>2, <1>5, <2>1, <2>2 DEF Leases!Return
<1> QED BY <1>4, <1>5

\* Every step is one of the lease manager's or leaves the contexts where they are.
LEMMA LeaseStep == IInv /\ [Next]_vars => [Leases!Next]_(Leases!vars)
<1> SUFFICES ASSUME IInv, [Next]_vars PROVE Leases!Next \/ UNCHANGED Leases!vars
  OBVIOUS
<1>1. CASE InitContext
  BY <1>1, InitCreates DEF Leases!Next
<1>2. CASE InitDone \/ InitContextFails
  <2>1. shutdown' = shutdown
    BY <1>2 DEF InitDone, InitContextFails, IInv, InitOwnsAll, TypeOK
  <2> QED BY <1>2, <2>1 DEF InitDone, InitContextFails, clientVars, Leases!vars
<1>3. ASSUME NEW c \in Clients, Acquire(c) \/ ResumeAcquire(c) PROVE Leases!Next \/ UNCHANGED Leases!vars
  <2>1. ~Holding(c) /\ AcquireLocked(c) /\ UNCHANGED <<shutdown, freed>>
    BY <1>3 DEF Acquire, ResumeAcquire, Holding
  <2>2. CASE pool # <<>> /\ ~shutdown
    <3>1. Leases!Lease(c)
      BY <2>1, <2>2, AcquireLeases DEF AcquireLocked
    <3> QED BY <3>1 DEF Leases!Next
  <2>3. CASE pool = <<>> \/ shutdown
    BY <2>1, <2>3 DEF AcquireLocked, Leases!vars
  <2> QED BY <2>2, <2>3
<1>4. ASSUME NEW c \in Clients, ReleaseLocked(c) PROVE Leases!Next
  BY <1>4, ReleaseReturns DEF Leases!Next
<1>5. CASE Shutdown
  <2>1. Leases!Close
    BY <1>5 DEF Shutdown, Leases!Close, ToSet
  <2> QED BY <2>1 DEF Leases!Next
<1>6. ASSUME NEW c \in Clients, Release(c) \/ Timeout(c) \/ SpuriousWake(c) PROVE UNCHANGED Leases!vars
  BY <1>6 DEF Release, Timeout, SpuriousWake, Leases!vars
<1>7. CASE UNCHANGED vars
  BY <1>7 DEF vars, Leases!vars
<1> QED BY <1>1, <1>2, <1>3, <1>4, <1>5, <1>6, <1>7 DEF Next, InitStep

\* The pool implements the lease manager, for any number of clients and contexts.
THEOREM PoolImplementsLeases == SafeSpec => ImplementsLeases
<1>1. Init => Leases!Init
  BY DEF Init, Leases!Init, ToSet
<1>2. IInv /\ [Next]_vars => [Leases!Next]_(Leases!vars)
  BY LeaseStep
<1> QED BY <1>1, <1>2, ContextsInvariant, PTL DEF SafeSpec, ImplementsLeases, Leases!SafeSpec
=============================================================================
