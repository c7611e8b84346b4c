---------------------- MODULE CornerSlotDetectorProofs ----------------------
(***************************************************************************)
(* Proofs about CornerSlotDetector, for any number of workers, any queue   *)
(* sizes and any number of frames.  The pool's own proofs are taken over:  *)
(* the detector's workers are clients that do pool steps only.             *)
(***************************************************************************)
EXTENDS CornerSlotDetector, FiniteSetTheorems, SequenceTheorems, TLAPS

PoolProofs == INSTANCE TrtContextPoolProofs WITH Clients <- Workers, NumContexts <- NumWorkers,
                                                 pc <- acquirePc

LEMMA WorkersFinite == IsFiniteSet(Workers) /\ Cardinality(Workers) = NumWorkers
<1>1. 0 \in Int /\ NumWorkers - 1 \in Int /\ NumWorkers \in Nat /\ NumWorkers >= 1
  BY DetectorAssumption
<1>2. /\ IsFiniteSet(0..(NumWorkers - 1))
      /\ Cardinality(0..(NumWorkers - 1)) = IF 0 > NumWorkers - 1 THEN 0 ELSE (NumWorkers - 1) - 0 + 1
  BY <1>1, FS_Interval
<1> QED BY <1>1, <1>2 DEF Workers

\* What TrtContextPool assumes of its clients and contexts holds here.
LEMMA PoolAssumptions == PoolProofs!IsFiniteSet(Workers) /\ NumWorkers \in Nat \ {0}
BY WorkersFinite, DetectorAssumption DEF IsFiniteSet, PoolProofs!IsFiniteSet

\* The pool that the detector uses is the one that the proofs are about.
LEMMA SamePool == [Pool!Next]_(Pool!vars) => [PoolProofs!Next]_(PoolProofs!vars)
BY Zenon DEF Pool!vars, PoolProofs!vars, Pool!clientVars, PoolProofs!clientVars,
   Pool!Next, PoolProofs!Next, Pool!InitStep, PoolProofs!InitStep,
   Pool!InitContext, PoolProofs!InitContext, Pool!InitDone, PoolProofs!InitDone,
   Pool!InitContextFails, PoolProofs!InitContextFails, Pool!Acquire, PoolProofs!Acquire,
   Pool!ResumeAcquire, PoolProofs!ResumeAcquire, Pool!AcquireLocked, PoolProofs!AcquireLocked,
   Pool!Leave, PoolProofs!Leave, Pool!Release, PoolProofs!Release,
   Pool!ReleaseLocked, PoolProofs!ReleaseLocked, Pool!NotifyOne, PoolProofs!NotifyOne,
   Pool!Shutdown, PoolProofs!Shutdown, Pool!Timeout, PoolProofs!Timeout,
   Pool!SpuriousWake, PoolProofs!SpuriousWake, Pool!ToSet, PoolProofs!ToSet

\* No step of the detector does anything to the pool but a step of the pool.
LEMMA PoolStep == [Next]_vars => [Pool!Next]_(Pool!vars)
<1> SUFFICES ASSUME [Next]_vars PROVE [Pool!Next]_(Pool!vars)
  OBVIOUS
<1>1. UNCHANGED poolVars => UNCHANGED Pool!vars
  BY DEF poolVars, Pool!vars
<1>2. CASE Feed \/ TakeResult \/ StopQueues \/ StopFlag \/ StopJoin
  BY <1>1, <1>2 DEF Feed, TakeResult, StopQueues, StopFlag, StopJoin
<1>3. ASSUME NEW w \in Workers, WorkerStep(w) PROVE [Pool!Next]_(Pool!vars)
  <2>1. CASE LoopHead(w) \/ PopFrame(w) \/ Upload(w) \/ Letterbox(w) \/ Infer(w) \/ PushResult(w)
    BY <1>1, <2>1 DEF LoopHead, PopFrame, Upload, Letterbox, Infer, PushResult
  <2>2. CASE AcquireContext(w)
    BY <2>2, Zenon DEF AcquireContext, Pool!Next
  <2>3. CASE ReleaseContext(w)
    BY <2>3, Zenon DEF ReleaseContext, Pool!Next
  <2> QED BY <1>3, <2>1, <2>2, <2>3 DEF WorkerStep
<1>4. CASE StopRelease
  BY <1>4 DEF StopRelease, Pool!Next
<1>5. CASE UNCHANGED vars
  BY <1>1, <1>5 DEF vars
<1> QED BY <1>2, <1>3, <1>4, <1>5 DEF Next
-----------------------------------------------------------------------------
Idle == {"loop", "pop", "ended"}
Using == {"upload", "letterbox", "infer", "release"}
Places == Idle \cup Using \cup {"acquire", "push"}

Typed ==
  /\ wpc \in [Workers -> Places]
  /\ stopPc \in {"running", "flag", "join", "release", "stopped"}
  /\ popped \in Nat /\ failed \in Nat /\ pushed \in Nat /\ dropped \in Nat

\* Where a worker is in Detect says whether it has a context; none waits for one.
Linked ==
  \A w \in Workers :
    /\ acquirePc[w] \in {"hold", "release"} <=> wpc[w] \in Using
    /\ acquirePc[w] = "release" => wpc[w] = "release"
    /\ acquirePc[w] # "acquire"

\* The engine is up until the end of Stop, and then its pool is empty.
EngineUp ==
  /\ phase = "ready" /\ created = Workers
  /\ IF stopPc = "stopped" THEN pool = <<>> ELSE ~shutdown /\ freed = {}

\* Past the join every worker has ended.
Joined == stopPc \in {"release", "stopped"} => \A w \in Workers : wpc[w] = "ended"

\* The inductive invariant, but for the count of frames.
DetInv == Typed /\ Linked /\ EngineUp /\ Joined /\ PoolProofs!IInv

\* The facts of the pool's invariant that the detector's proofs use.
LEMMA PoolFacts ==
  ASSUME PoolProofs!IInv
  PROVE  /\ acquirePc \in [Workers -> {"idle", "acquire", "hold", "release"}]
         /\ held \in [Workers -> SUBSET Workers] /\ freed \subseteq Workers
         /\ \A w \in Workers : acquirePc[w] \notin {"hold", "release"} => held[w] = {}
         /\ \A w \in Workers : \A x, y \in held[w] : x = y
         /\ pool = <<>> => created \ freed = UNION {held[w] : w \in Workers}
<1>1. PoolProofs!Contexts = Workers
  BY DEF PoolProofs!Contexts, Workers
<1>2. /\ acquirePc \in [Workers -> {"idle", "acquire", "hold", "release"}]
      /\ held \in [Workers -> SUBSET Workers] /\ freed \subseteq Workers
  BY <1>1 DEF PoolProofs!IInv, PoolProofs!TypeOK
<1>3. \A w \in Workers : acquirePc[w] \notin {"hold", "release"} => held[w] = {}
  BY DEF PoolProofs!IInv, PoolProofs!HoldsOne, PoolProofs!Holding
<1>4. \A w \in Workers : held[w] = {} \/ \E x \in Workers : held[w] = {x}
  BY <1>1 DEF PoolProofs!IInv, PoolProofs!HoldsOne
<1>5. \A w \in Workers : \A x, y \in held[w] : x = y
  BY <1>4
<1>6. ASSUME pool = <<>> PROVE created \ freed = UNION {held[w] : w \in Workers}
  <2>1. PoolProofs!ToSet(pool) = {}
    BY <1>6, EmptySeq, LenProperties DEF PoolProofs!ToSet
  <2> QED BY <2>1 DEF PoolProofs!IInv, PoolProofs!NoContextLost, PoolProofs!Lent
<1> QED BY <1>2, <1>3, <1>5, <1>6

\* As many contexts as workers: when one worker holds none, one context is not lent.
LEMMA OneIsLeft ==
  ASSUME DetInv, NEW w \in Workers, wpc[w] = "acquire"
  PROVE  pool # <<>> /\ ~shutdown
<1>1. stopPc # "stopped" /\ ~shutdown /\ freed = {} /\ created = Workers
  BY DEF DetInv, Joined, EngineUp
<1>2. held[w] = {}
  BY PoolFacts DEF DetInv, Linked, Using
<1>3. ASSUME pool = <<>> PROVE FALSE
  <2>1. Workers = UNION {held[v] : v \in Workers}
    BY <1>1, <1>3, PoolFacts DEF DetInv
  <2> DEFINE owner == [x \in Workers |-> CHOOSE v \in Workers : x \in held[v]]
  <2>2. ASSUME NEW x \in Workers PROVE owner[x] \in Workers \ {w} /\ x \in held[owner[x]]
    <3>1. \E v \in Workers : x \in held[v]
      BY <2>1
    <3>2. owner[x] \in Workers /\ x \in held[owner[x]]
      BY <3>1
    <3> QED BY <1>2, <3>2
  <2> HIDE DEF owner
  <2>3. /\ IsFiniteSet(Workers \ {w})
        /\ Cardinality(Workers \ {w}) = NumWorkers - 1
    BY WorkersFinite, FS_RemoveElement
  <2>4. Cardinality(Workers \ {w}) < Cardinality(Workers)
    BY <2>3, WorkersFinite, DetectorAssumption
  <2>5. owner \in [Workers -> Workers \ {w}]
    BY <2>2 DEF owner
  <2>6. PICK x, y \in Workers : x # y /\ owner[x] = owner[y]
    BY <2>3, <2>4, <2>5, WorkersFinite, FS_PigeonHole
  <2>7. x \in held[owner[x]] /\ y \in held[owner[x]] /\ owner[x] \in Workers
    BY <2>2, <2>6
  <2> QED BY <2>6, <2>7, PoolFacts DEF DetInv
<1> QED BY <1>1, <1>3

\* So Acquire returns a context at once.
LEMMA AcquireTakes ==
  ASSUME DetInv, NEW w \in Workers, AcquireContext(w)
  PROVE  /\ acquirePc' = [acquirePc EXCEPT ![w] = "hold"]
         /\ wpc[w] = "acquire" /\ Goto(w, "upload") /\ UNCHANGED dropped
         /\ UNCHANGED <<phase, shutdown, created, freed>>
<1>1. wpc[w] = "acquire" /\ acquirePc[w] # "acquire"
      /\ acquirePc \in [Workers -> {"idle", "acquire", "hold", "release"}]
  BY PoolFacts DEF AcquireContext, DetInv, Linked
<1>2. Pool!Acquire(w)
  BY <1>1 DEF AcquireContext, Pool!ResumeAcquire
<1>3. pool # <<>> /\ ~shutdown
  BY <1>1, OneIsLeft
<1>4. /\ acquirePc' = [acquirePc EXCEPT ![w] = "hold"]
      /\ UNCHANGED <<phase, shutdown, created, freed>>
  BY <1>2, <1>3 DEF Pool!Acquire, Pool!AcquireLocked
<1>5. acquirePc'[w] = "hold"
  BY <1>1, <1>4
<1> QED BY <1>1, <1>4, <1>5 DEF AcquireContext

\* Detect gives the context back in two steps, while the engine is up.
LEMMA ReleaseGives ==
  ASSUME DetInv, NEW w \in Workers, ReleaseContext(w)
  PROVE  /\ wpc[w] = "release" /\ UNCHANGED <<phase, shutdown, created, freed>>
         /\ \/ /\ acquirePc' = [acquirePc EXCEPT ![w] = "release"]
               /\ UNCHANGED <<wpc, failed>>
            \/ /\ acquirePc' = [acquirePc EXCEPT ![w] = "idle"]
               /\ \/ Goto(w, "push") /\ UNCHANGED failed
                  \/ Goto(w, "loop") /\ failed' = failed + 1
<1>1. wpc[w] = "release"
  BY DEF ReleaseContext
<1>2. ~shutdown
  BY <1>1 DEF DetInv, Joined, EngineUp
<1>3. CASE Pool!Release(w) /\ UNCHANGED <<wpc, failed>>
  BY <1>1, <1>3 DEF Pool!Release
<1>4. CASE /\ Pool!ReleaseLocked(w)
           /\ Goto(w, IF ok[w] THEN "push" ELSE "loop")
           /\ failed' = IF ok[w] THEN failed ELSE failed + 1
  <2>1. /\ acquirePc' = [acquirePc EXCEPT ![w] = "idle"]
        /\ UNCHANGED <<phase, shutdown, created, freed>>
    BY <1>2, <1>4 DEF Pool!ReleaseLocked
  <2> QED BY <1>1, <1>4, <2>1
<1> QED BY <1>3, <1>4 DEF ReleaseContext

\* The workers' steps by what they do to the worker, the pool and the counters.
Moves(w, from, to) == wpc[w] \in from /\ \E p \in to : Goto(w, p)
Counted == <<dropped, popped, failed, pushed>>

LEMMA WorkerEffect ==
  ASSUME DetInv, NEW w \in Workers, WorkerStep(w)
  PROVE  /\ UNCHANGED <<stopPc, phase, shutdown, created, freed>>
         /\ \/ /\ Moves(w, {"loop"}, {"pop", "ended"}) \/ Moves(w, {"pop"}, {"loop"})
               /\ UNCHANGED <<acquirePc, Counted>>
            \/ /\ Moves(w, {"pop"}, {"acquire"})
               /\ popped' = popped + 1 /\ UNCHANGED <<acquirePc, dropped, failed, pushed>>
            \/ /\ Moves(w, {"acquire"}, {"upload"})
               /\ acquirePc' = [acquirePc EXCEPT ![w] = "hold"] /\ UNCHANGED Counted
            \/ /\ \/ Moves(w, {"upload"}, {"release", "letterbox"})
                  \/ Moves(w, {"letterbox"}, {"infer"})
                  \/ Moves(w, {"infer"}, {"release"})
               /\ UNCHANGED <<acquirePc, Counted>>
            \/ /\ wpc[w] = "release" /\ acquirePc' = [acquirePc EXCEPT ![w] = "release"]
               /\ UNCHANGED <<wpc, Counted>>
            \/ /\ Moves(w, {"release"}, {"push"})
               /\ acquirePc' = [acquirePc EXCEPT ![w] = "idle"] /\ UNCHANGED Counted
            \/ /\ Moves(w, {"release"}, {"loop"})
               /\ acquirePc' = [acquirePc EXCEPT ![w] = "idle"]
               /\ failed' = failed + 1 /\ UNCHANGED <<dropped, popped, pushed>>
            \/ /\ Moves(w, {"push"}, {"loop"}) /\ UNCHANGED <<acquirePc, popped, failed>>
               /\ \/ pushed' = pushed + 1 /\ UNCHANGED dropped
                  \/ dropped' = dropped + 1 /\ UNCHANGED pushed
<1> USE DEF Moves, Counted
<1>1. CASE LoopHead(w)
  BY <1>1 DEF LoopHead, countVars, poolVars
<1>2. CASE PopFrame(w)
  BY <1>2 DEF PopFrame, poolVars
<1>3. CASE AcquireContext(w)
  <2>1. UNCHANGED <<stopPc, popped, failed, pushed>>
    BY <1>3 DEF AcquireContext
  <2> QED BY <1>3, <2>1, AcquireTakes
<1>4. CASE Upload(w)
  BY <1>4 DEF Upload, countVars, poolVars
<1>5. CASE Letterbox(w)
  BY <1>5 DEF Letterbox, countVars, poolVars
<1>6. CASE Infer(w)
  BY <1>6 DEF Infer, countVars, poolVars
<1>7. CASE ReleaseContext(w)
  <2>1. UNCHANGED <<stopPc, dropped, popped, pushed>>
    BY <1>7 DEF ReleaseContext
  <2> QED BY <1>7, <2>1, ReleaseGives
<1>8. CASE PushResult(w)
  BY <1>8 DEF PushResult, poolVars
<1> QED BY <1>1, <1>2, <1>3, <1>4, <1>5, <1>6, <1>7, <1>8 DEF WorkerStep

LEMMA WorkerKeeps ==
  ASSUME DetInv, NEW w \in Workers, WorkerStep(w)
  PROVE  Typed' /\ Linked' /\ EngineUp' /\ Joined'
<1>1. /\ wpc \in [Workers -> Places]
      /\ acquirePc \in [Workers -> {"idle", "acquire", "hold", "release"}]
  BY PoolFacts DEF DetInv, Typed
<1>2. wpc[w] # "ended"
  BY WorkerEffect DEF Moves
<1>3. stopPc \notin {"release", "stopped"} /\ stopPc' = stopPc
  BY <1>2, WorkerEffect DEF DetInv, Joined
<1>4. Typed'
  BY <1>1, WorkerEffect DEF DetInv, Typed, Moves, Goto, Places, Idle, Using, Counted
<1>5. Linked'
  BY <1>1, WorkerEffect DEF DetInv, Linked, Moves, Goto, Using
<1>6. EngineUp' /\ Joined'
  BY <1>3, WorkerEffect DEF DetInv, EngineUp, Joined
<1> QED BY <1>4, <1>5, <1>6

\* The steps of the other threads; the last one frees the pool and all that is in it.
LEMMA OthersKeep ==
  ASSUME DetInv, Feed \/ TakeResult \/ StopQueues \/ StopFlag \/ StopJoin \/ StopRelease
  PROVE  Typed' /\ Linked' /\ EngineUp' /\ Joined' /\ UNCHANGED <<wpc, Counted>>
<1> USE DEF Counted
<1>1. CASE Feed \/ TakeResult
  BY <1>1 DEF Feed, TakeResult, workVars, countVars, poolVars, DetInv, Typed, Linked, EngineUp, Joined
<1>2. CASE StopQueues
  BY <1>2 DEF StopQueues, workVars, countVars, poolVars, DetInv, Typed, Linked, EngineUp, Joined
<1>3. CASE StopFlag
  BY <1>3 DEF StopFlag, workVars, countVars, poolVars, DetInv, Typed, Linked, EngineUp, Joined
<1>4. CASE StopJoin
  BY <1>4 DEF StopJoin, workVars, countVars, poolVars, DetInv, Typed, Linked, EngineUp, Joined
<1>5. CASE StopRelease
  BY <1>5 DEF StopRelease, Pool!Shutdown, workVars, countVars, DetInv, Typed, Linked, EngineUp,
              Joined
<1> QED BY <1>1, <1>2, <1>3, <1>4, <1>5

LEMMA InitHolds == Init => DetInv /\ FramesAccounted
<1> SUFFICES ASSUME Init PROVE DetInv /\ FramesAccounted
  OBVIOUS
<1>1. Typed /\ Linked /\ EngineUp /\ Joined
  BY DEF Init, Typed, Linked, EngineUp, Joined, Places, Idle, Using, Workers
<1>2. NumWorkers \in Nat /\ Len(pool) = NumWorkers /\ DOMAIN pool = 1..NumWorkers
      /\ pool \in Seq(PoolProofs!Contexts)
  <2>1. NumWorkers \in Nat /\ NumWorkers > 0
    BY DetectorAssumption
  <2>2. pool \in [1..NumWorkers -> PoolProofs!Contexts]
    BY <2>1 DEF Init, PoolProofs!Contexts
  <2> QED BY <2>1, <2>2, SeqDef, LenProperties
<1>3. PoolProofs!TypeOK
  BY <1>2 DEF Init, PoolProofs!TypeOK, PoolProofs!Contexts
<1>4. PoolProofs!Lent = {} /\ \A w \in Workers : ~PoolProofs!Holding(w)
  BY DEF Init, PoolProofs!Lent, PoolProofs!Holding
<1>5. PoolProofs!ToSet(pool) = Workers
  <2>1. \A x \in Workers : x + 1 \in 1..NumWorkers /\ pool[x + 1] = x
    BY <1>2 DEF Init, Workers
  <2>2. \A i \in 1..NumWorkers : pool[i] \in Workers
    BY <1>2 DEF Init, Workers
  <2> QED BY <1>2, <2>1, <2>2 DEF PoolProofs!ToSet
<1>6. PoolProofs!IsInjective(pool)
  BY <1>2 DEF Init, PoolProofs!IsInjective
<1>7. PoolProofs!IInv
  BY <1>1, <1>3, <1>4, <1>5, <1>6
     DEF Init, EngineUp, PoolProofs!IInv, PoolProofs!HoldsOne, PoolProofs!InitOwnsAll,
         PoolProofs!ExclusiveUse, PoolProofs!HeldContextsLive, PoolProofs!NoContextLost
<1>8. FramesAccounted
  <2>1. Busy = {}
    BY DEF Init, Busy
  <2> QED BY <2>1, FS_EmptySet DEF Init, FramesAccounted
<1> QED BY <1>1, <1>7, <1>8 DEF DetInv

LEMMA DetectorStep == DetInv /\ [Next]_vars => DetInv'
<1> SUFFICES ASSUME DetInv, [Next]_vars PROVE DetInv'
  OBVIOUS
<1>1. PoolProofs!TypeOK /\ PoolProofs!IInv
  BY DEF DetInv, PoolProofs!IInv
<1>2. [PoolProofs!Next]_(PoolProofs!vars)
  BY PoolStep, SamePool
<1>3. PoolProofs!TypeOK'
  BY <1>1, <1>2, PoolAssumptions, PoolProofs!TypeStep
<1>4. PoolProofs!IInv'
  BY <1>1, <1>2, <1>3, PoolAssumptions, PoolProofs!ContextsStep
<1>5. Typed' /\ Linked' /\ EngineUp' /\ Joined'
  <2>1. ASSUME NEW w \in Workers, WorkerStep(w) PROVE Typed' /\ Linked' /\ EngineUp' /\ Joined'
    BY <2>1, WorkerKeeps
  <2>2. CASE UNCHANGED vars
    BY <2>2 DEF vars, workVars, countVars, poolVars, DetInv, Typed, Linked, EngineUp, Joined
  <2> QED BY <2>1, <2>2, OthersKeep DEF Next
<1> QED BY <1>4, <1>5 DEF DetInv

LEMMA DetectorInvariant == SafeSpec => []DetInv
BY InitHolds, DetectorStep, PTL DEF SafeSpec
-----------------------------------------------------------------------------
\* There are as many workers as contexts, so Acquire finds one whatever fails in
\* Detect: its wait and its 5000 ms are never a worker's.
THEOREM NoWorkerStarvesInvariant == SafeSpec => []NoWorkerStarves
<1>1. DetInv => NoWorkerStarves
  BY DEF DetInv, Linked, NoWorkerStarves
<1> QED BY <1>1, DetectorInvariant, PTL

\* What Stop leaves behind, wherever in Detect the workers were when it began.
THEOREM StoppedDetectorHoldsNothingInvariant == SafeSpec => []StoppedDetectorHoldsNothing
<1>1. DetInv => StoppedDetectorHoldsNothing
  <2> SUFFICES ASSUME DetInv, stopPc = "stopped"
               PROVE  freed = created /\ Busy = {} /\ Pool!Lent = {}
    BY DEF StoppedDetectorHoldsNothing
  <2>1. \A w \in Workers : wpc[w] = "ended" /\ held[w] = {}
    BY PoolFacts DEF DetInv, Joined, Linked, Using
  <2>2. Busy = {} /\ Pool!Lent = {} /\ UNION {held[w] : w \in Workers} = {}
    BY <2>1 DEF Busy, Pool!Lent
  <2>3. created \ freed = {} /\ freed \subseteq created
    BY <2>2, PoolFacts DEF DetInv, EngineUp
  <2> QED BY <2>2, <2>3
<1> QED BY <1>1, DetectorInvariant, PTL

\* A worker that starts or ends with a frame is one more or one fewer.
LEMMA BusyCounted ==
  ASSUME Typed, NEW w \in Workers, NEW p \in Places, Goto(w, p)
  PROVE  /\ Cardinality(Busy) \in Nat
         /\ (wpc[w] \in Idle <=> p \in Idle) => Busy' = Busy
         /\ wpc[w] \in Idle /\ p \notin Idle => Cardinality(Busy') = Cardinality(Busy) + 1
         /\ wpc[w] \notin Idle /\ p \in Idle => Cardinality(Busy') = Cardinality(Busy) - 1
<1>1. IsFiniteSet(Busy) /\ Cardinality(Busy) \in Nat
  BY WorkersFinite, FS_Subset, FS_CardinalityType DEF Busy
<1>2. \A v \in Workers : wpc'[v] = IF v = w THEN p ELSE wpc[v]
  BY DEF Typed, Goto
<1>3. Busy' = IF p \in Idle THEN Busy \ {w} ELSE Busy \cup {w}
  BY <1>2 DEF Busy, Idle
<1>4. w \in Busy <=> wpc[w] \notin Idle
  BY DEF Busy, Idle
<1>5. ASSUME wpc[w] \in Idle <=> p \in Idle PROVE Busy' = Busy
  BY <1>3, <1>4, <1>5
<1>6. ASSUME wpc[w] \in Idle, p \notin Idle PROVE Cardinality(Busy') = Cardinality(Busy) + 1
  BY <1>1, <1>3, <1>4, <1>6, FS_AddElement
<1>7. ASSUME wpc[w] \notin Idle, p \in Idle PROVE Cardinality(Busy') = Cardinality(Busy) - 1
  BY <1>1, <1>3, <1>4, <1>7, FS_RemoveElement
<1> QED BY <1>1, <1>5, <1>6, <1>7

\* A frame is taken, moves on, or leaves a worker with one count.
LEMMA WorkerCounts ==
  ASSUME DetInv, NEW w \in Workers, WorkerStep(w)
  PROVE  \/ Cardinality(Busy') = Cardinality(Busy) /\ UNCHANGED Counted
         \/ /\ Cardinality(Busy') = Cardinality(Busy) + 1
            /\ popped' = popped + 1 /\ UNCHANGED <<dropped, failed, pushed>>
         \/ /\ Cardinality(Busy') = Cardinality(Busy) - 1 /\ UNCHANGED popped
            /\ \/ failed' = failed + 1 /\ UNCHANGED <<dropped, pushed>>
               \/ pushed' = pushed + 1 /\ UNCHANGED <<dropped, failed>>
               \/ dropped' = dropped + 1 /\ UNCHANGED <<failed, pushed>>
<1> USE DEF Moves
<1>1. Typed
  BY DEF DetInv
<1>2. CASE UNCHANGED <<wpc, Counted>>
  BY <1>2 DEF Busy
<1>3. ASSUME \/ Moves(w, {"loop"}, {"pop", "ended"}) \/ Moves(w, {"pop"}, {"loop"})
             \/ Moves(w, {"acquire"}, {"upload"}) \/ Moves(w, {"upload"}, {"release", "letterbox"})
             \/ Moves(w, {"letterbox"}, {"infer"}) \/ Moves(w, {"infer"}, {"release"})
             \/ Moves(w, {"release"}, {"push"})
      PROVE  Busy' = Busy
  <2>1. PICK p \in Places : Goto(w, p) /\ (wpc[w] \in Idle <=> p \in Idle)
    BY <1>3 DEF Places, Idle, Using
  <2> QED BY <1>1, <2>1, BusyCounted
<1>4. ASSUME Moves(w, {"pop"}, {"acquire"}) PROVE Cardinality(Busy') = Cardinality(Busy) + 1
  <2>1. PICK p \in Places : Goto(w, p) /\ wpc[w] \in Idle /\ p \notin Idle
    BY <1>4 DEF Places, Idle, Using
  <2> QED BY <1>1, <2>1, BusyCounted
<1>5. ASSUME Moves(w, {"release"}, {"loop"}) \/ Moves(w, {"push"}, {"loop"})
      PROVE  Cardinality(Busy') = Cardinality(Busy) - 1
  <2>1. PICK p \in Places : Goto(w, p) /\ wpc[w] \notin Idle /\ p \in Idle
    BY <1>5 DEF Places, Idle, Using
  <2> QED BY <1>1, <2>1, BusyCounted
<1> HIDE DEF Moves
<1> QED BY <1>2, <1>3, <1>4, <1>5, WorkerEffect DEF Counted

\* Whatever is refused, fails, finds a full queue or is cut short by Stop, no frame
\* that a worker took goes uncounted or is counted twice.
THEOREM FramesAccountedInvariant == SafeSpec => []FramesAccounted
<1>1. DetInv /\ FramesAccounted /\ [Next]_vars => FramesAccounted'
  <2> SUFFICES ASSUME DetInv, FramesAccounted, [Next]_vars PROVE FramesAccounted'
    OBVIOUS
  <2>1. /\ Typed /\ Cardinality(Busy) \in Nat
        /\ popped \in Nat /\ pushed \in Nat /\ failed \in Nat /\ dropped \in Nat
        /\ popped = pushed + failed + dropped + Cardinality(Busy)
    <3>1. Cardinality(Busy) \in Nat
      BY WorkersFinite, FS_Subset, FS_CardinalityType DEF Busy
    <3> QED BY <3>1 DEF DetInv, Typed, FramesAccounted
  <2>2. CASE UNCHANGED <<wpc, Counted>>
    BY <2>2 DEF FramesAccounted, Busy, Counted
  <2>3. ASSUME NEW w \in Workers, WorkerStep(w) PROVE FramesAccounted'
    <3>1. \/ Cardinality(Busy') = Cardinality(Busy) /\ UNCHANGED Counted
          \/ /\ Cardinality(Busy') = Cardinality(Busy) + 1
             /\ popped' = popped + 1 /\ UNCHANGED <<dropped, failed, pushed>>
          \/ /\ Cardinality(Busy') = Cardinality(Busy) - 1 /\ UNCHANGED popped
             /\ \/ failed' = failed + 1 /\ UNCHANGED <<dropped, pushed>>
                \/ pushed' = pushed + 1 /\ UNCHANGED <<dropped, failed>>
                \/ dropped' = dropped + 1 /\ UNCHANGED <<failed, pushed>>
      BY <2>3, WorkerCounts
    <3> QED BY <2>1, <3>1 DEF FramesAccounted, Counted
  <2>4. CASE UNCHANGED vars
    BY <2>2, <2>4 DEF vars, workVars, countVars, Counted
  <2> QED BY <2>2, <2>3, <2>4, OthersKeep DEF Next
<1> QED BY <1>1, InitHolds, DetectorInvariant, PTL DEF SafeSpec

\* The detector is one of the pool's environments: it only does pool steps, and what
\* TrtContextPool promises of contexts holds in it, from the full pool that the
\* engine's Init leaves to the empty one after Stop.
THEOREM DetectorUsesPool ==
  SafeSpec => [][Pool!Next]_(Pool!vars) /\ [](Pool!ExclusiveUse /\ Pool!NoContextLost)
<1>1. PoolProofs!IInv => Pool!ExclusiveUse
  BY DEF PoolProofs!IInv, PoolProofs!ExclusiveUse, Pool!ExclusiveUse, PoolProofs!ToSet,
         Pool!ToSet, PoolProofs!Lent, Pool!Lent, PoolProofs!IsInjective, Pool!IsInjective
<1>2. PoolProofs!IInv => Pool!NoContextLost
  BY DEF PoolProofs!IInv, PoolProofs!NoContextLost, Pool!NoContextLost, PoolProofs!ToSet,
         Pool!ToSet, PoolProofs!Lent, Pool!Lent
<1>3. DetInv => Pool!ExclusiveUse /\ Pool!NoContextLost
  BY <1>1, <1>2 DEF DetInv
<1> QED BY <1>3, PoolStep, DetectorInvariant, PTL DEF SafeSpec
=============================================================================
