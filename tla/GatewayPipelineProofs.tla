------------------------ MODULE GatewayPipelineProofs ------------------------
(***************************************************************************)
(* Proofs about GatewayPipeline, for any set of enabled parts and any      *)
(* number of reconnection attempts: types, what is started between two     *)
(* calls, the release of the tracks, the queues, and the users of the      *)
(* stream.                                                                 *)
(***************************************************************************)
EXTENDS GatewayPipeline, TLAPS

Quiet == \A th \in Own : threads[th] = "none"
Alive == \A th \in Own : threads[th] # "none"
AtRest == ctl = "idle" /\ ~running

\* The reader on its own: its flag is down while Stop is under way, its thread is
\* in its loop exactly while the flag is up or Stop waits for it, and a joined
\* reader is at rest.
ReaderInv ==
  /\ ctl \in {"stop queue", "join", "close"} => ~running
  /\ ctl \in {"stop queue", "join"} => Joinable
  /\ ctl = "close" => ~Joinable
  /\ StoppedReaderHoldsNothing
  /\ failure = "none" =>
       IF running THEN pc \notin {"none", "ended"}
       ELSE ctl \in {"idle", "start thread", "destroyed"} => pc \in {"none", "ended"}

StartPlaces ==
  {"visible", "visible thread", "infrared", "infrared failed", "synchronizer",
   "detector", "detector failed", "undo others", "own threads"}
StopPlaces == {"clear flag", "queues", "join own", "workers", "visible reader", "rest", "release"}

\* The places of the calls, and where the reader's own places fall among them.
ControlInv ==
  /\ op = "none" <=> at = "none"
  /\ op = "Start" <=> at \in StartPlaces
  /\ at = "make" => op = "Init"
  /\ at = "members" => op = "Destroy"
  /\ op = "Stop" => at \in StopPlaces
  /\ ctl = "start thread" <=> at = "visible thread"
  /\ ctl \in {"stop queue", "join", "close"} =>
       at \in {"infrared failed", "detector failed", "visible reader"}
  /\ ctl = "destroyed" => at = "none" /\ ~up
  /\ at # "none" => (up <=> at = "clear flag")

\* What is started at each place; between two calls, what an up pipeline has.
StartedInv ==
  LET running_at(places) == at \in places \/ (at = "none" /\ up) IN
  /\ "infrared" \in on <=>
       /\ "infrared" \in Optional
       /\ running_at({"synchronizer", "detector", "detector failed", "undo others", "own threads",
                     "clear flag", "queues", "join own", "workers", "visible reader", "rest"})
  /\ "synchronizer" \in on <=>
       /\ "synchronizer" \in Optional
       /\ running_at({"detector", "detector failed", "undo others", "own threads", "clear flag",
                     "queues", "join own", "workers"})
  /\ "detector" \in on <=>
       running_at({"own threads", "clear flag", "queues", "join own", "workers"})
  /\ "plc" \in on <=>
       /\ "plc" \in Optional
       /\ running_at({"clear flag", "queues", "join own", "workers", "visible reader", "rest"})

\* Which threads exist at each place.
ThreadsInv ==
  /\ IF at \in {"clear flag", "queues", "join own"} \/ (at = "none" /\ up) THEN Alive ELSE Quiet
  /\ at \in {"infrared", "synchronizer", "detector", "own threads", "clear flag"} => Joinable
  /\ at \in {"visible", "undo others", "rest", "release", "make", "members"} => AtRest
  /\ at = "none" => IF up THEN Joinable ELSE ~running

\* The detector of a pipeline whose tracks were released is stopped for good.
ReleasedInv ==
  /\ released => ~ready
  /\ up \/ at \in {"own threads", "queues", "join own", "workers"} => ready
  /\ at \in {"visible reader", "rest", "release"} => ~ready

\* The queues are open from an Init to the end of the next Start, unless it fails.
QueuesInv ==
  /\ op \in {"Start", "Stop"} \/ (up /\ op # "Init") => starts # 0
  /\ starts = 0 /\ op = "none" /\ inited => queueOpen
  /\ starts = 1 /\ at \in StartPlaces \ {"infrared failed", "detector failed", "undo others"}
       => queueOpen
  /\ OpenOnFirstStart

PInv == /\ PipelineTypeOK /\ ReaderInv /\ ControlInv /\ StartedInv /\ ThreadsInv
        /\ ReleasedInv /\ QueuesInv
-----------------------------------------------------------------------------
USE DEF Joinable, StoppedReaderHoldsNothing, Quiet, Alive, AtRest, OpenOnFirstStart

\* What a step of the pipeline is to its visible reader.
ReaderMove ==
  \/ Start \/ StartThread \/ Stop \/ StopStep \/ Destroy \/ ReadStep \/ UNCHANGED vars
  \/ NewReader /\ queueOpen' \in BOOLEAN
  \/ /\ UNCHANGED <<running, stream, decoder, attempts, pc, ctl>>
     /\ queueOpen' \in BOOLEAN /\ failure' \in {failure, "unjoined thread"}

LEMMA ReaderMoves == TypeOK /\ PipelineNext => ReaderMove
<1> SUFFICES ASSUME TypeOK, PipelineNext PROVE ReaderMove
  OBVIOUS
<1> USE DEF ReaderMove
<1>1. CASE CallInit \/ CallStart \/ CallStop \/ CallDestroy
  BY <1>1 DEF CallInit, CallStart, CallStop, CallDestroy, Call
<1>2. CASE MakeParts \/ StopQueues \/ StartOwnThreads
  BY <1>2 DEF MakeParts, StopQueues, StartOwnThreads, TypeOK
<1>3. CASE StartReader \/ StartReaderThread \/ DestroyMembers \/ ReaderStopStep \/ PipelineReadStep
  BY <1>3 DEF StartReader, StartReaderThread, DestroyMembers, ReaderStopStep, PipelineReadStep
<1>4. CASE UndoVisible \/ UndoReader \/ StopReader
  BY <1>4 DEF UndoVisible, UndoReader, StopReader, StopVisible
<1>5. CASE \/ StartInfrared \/ StartSynchronizer \/ StartDetector \/ UndoOthers \/ ClearFlag
           \/ JoinOwnThreads \/ StopWorkers \/ StopRest \/ ReleaseTracks
  BY <1>5 DEF StartInfrared, StartSynchronizer, StartDetector, UndoOthers, ClearFlag,
              JoinOwnThreads, StopWorkers, StopRest, ReleaseTracks
<1>6. CASE \E th \in Own : ThreadStep(th)
  BY <1>6 DEF ThreadStep, LoopTest, Work
<1> QED BY <1>1, <1>2, <1>3, <1>4, <1>5, <1>6 DEF PipelineNext, CallStep, StartSteps, StopSteps

LEMMA ZeroInRange == 0 \in 0..MaxDecoded /\ 0 \in 0..MaxReconnect
  BY ReaderAssumption

\* A reconnection counts its attempt within the limit, and a frame that is given
\* out is one of those the decoder has.
LEMMA CountsInRange ==
  ASSUME attempts \in 0..MaxReconnect, decoder \in 0..MaxDecoded
  PROVE  /\ Reconnect => attempts' \in 0..MaxReconnect
         /\ ReceiveFrame => decoder' \in 0..MaxDecoded
<1>1. Reconnect => attempts' \in 0..MaxReconnect
  BY ReaderAssumption DEF Reconnect
<1>2. ReceiveFrame => decoder' \in 0..MaxDecoded
  BY ReaderAssumption DEF ReceiveFrame
<1> QED BY <1>1, <1>2

\* The reader keeps its types and its invariant whatever the pipeline does.
LEMMA ReaderTyped == ASSUME TypeOK, ReaderMove PROVE TypeOK'
<1> USE DEF TypeOK
<1>1. CASE Start
  BY <1>1, ZeroInRange DEF Start, OpenStream
<1>2. CASE StartThread
  BY <1>2 DEF StartThread
<1>3. CASE Stop \/ StopStep
  BY <1>3, ZeroInRange DEF Stop, StopStep, StopQueue, StopJoin, StopClose, CloseStream
<1>4. CASE Destroy
  BY <1>4, ZeroInRange DEF Destroy, CloseStream
<1>5. CASE Allocate \/ LoopHead
  BY <1>5 DEF Allocate, LoopHead
<1>6. CASE ReadPacket
  BY <1>6 DEF ReadPacket
<1>7. CASE ReceiveFrame
  BY <1>7, CountsInRange DEF ReceiveFrame
<1>8. CASE Reconnect
  BY <1>8, ZeroInRange, CountsInRange DEF Reconnect, CloseStream
<1>9. CASE Reopen
  BY <1>9, ZeroInRange DEF Reopen, OpenStream
<1>10. CASE NewReader /\ queueOpen' \in BOOLEAN
  BY <1>10, ZeroInRange DEF NewReader
<1>11. CASE UNCHANGED vars
  BY <1>11 DEF vars
<1>12. CASE /\ UNCHANGED <<running, stream, decoder, attempts, pc, ctl>>
            /\ queueOpen' \in BOOLEAN /\ failure' \in {failure, "unjoined thread"}
  BY <1>12
<1> QED BY <1>1, <1>2, <1>3, <1>4, <1>5, <1>6, <1>7, <1>8, <1>9, <1>10, <1>11, <1>12
        DEF ReaderMove, ReadStep

LEMMA ReaderKept ==
  ASSUME ReaderInv, failure = "none", running \in BOOLEAN, ReaderMove
  PROVE  ReaderInv'
<1> USE DEF ReaderInv
<1>1. CASE Start
  BY <1>1 DEF Start, OpenStream
<1>2. CASE StartThread
  BY <1>2 DEF StartThread
<1>3. CASE Stop
  BY <1>3 DEF Stop
<1>4. CASE StopStep
  <2>1. CASE StopQueue
    BY <2>1 DEF StopQueue
  <2>2. CASE StopJoin
    BY <2>2 DEF StopJoin
  <2>3. CASE StopClose
    BY <2>3 DEF StopClose, CloseStream
  <2> QED BY <1>4, <2>1, <2>2, <2>3 DEF StopStep
<1>5. CASE Destroy
  BY <1>5 DEF Destroy, CloseStream
<1>6. CASE Allocate
  <2>1. CASE pc' = "loop" /\ UNCHANGED running
    BY <1>6, <2>1 DEF Allocate
  <2>2. CASE pc' = "ended" /\ running' = FALSE
    BY <1>6, <2>2 DEF Allocate
  <2> QED BY <1>6, <2>1, <2>2 DEF Allocate
<1>7. CASE LoopHead \/ ReadPacket
  <2>1. CASE LoopHead /\ running
    BY <2>1 DEF LoopHead
  <2>2. CASE LoopHead /\ ~running
    BY <2>2 DEF LoopHead
  <2>3. CASE ReadPacket
    BY <2>3 DEF ReadPacket
  <2> QED BY <1>7, <2>1, <2>2, <2>3
<1>8. CASE ReceiveFrame
  BY <1>8 DEF ReceiveFrame
<1>9. CASE Reconnect
  BY <1>9 DEF Reconnect, CloseStream
<1>10. CASE Reopen
  BY <1>10 DEF Reopen, OpenStream
<1>11. CASE NewReader
  BY <1>11 DEF NewReader
<1>12. CASE UNCHANGED vars
  BY <1>12 DEF vars
<1>13. CASE /\ UNCHANGED <<running, stream, decoder, attempts, pc, ctl>>
            /\ failure' \in {failure, "unjoined thread"}
  BY <1>13
<1> QED BY <1>1, <1>2, <1>3, <1>4, <1>5, <1>6, <1>7, <1>8, <1>9, <1>10, <1>11, <1>12, <1>13
        DEF ReaderMove, ReadStep

\* A turn of the read loop leaves the thread in it or ended, and may only take the
\* flag down.
LEMMA ReadStepMoves ==
  ReadStep => /\ pc # "none" /\ pc' # "none" /\ (running' => running)
              /\ UNCHANGED <<queueOpen, ctl>>
<1>1. Allocate \/ LoopHead =>
        /\ pc # "none" /\ pc' # "none" /\ (running' => running) /\ UNCHANGED <<queueOpen, ctl>>
  BY DEF Allocate, LoopHead
<1>2. ReadPacket =>
        /\ pc # "none" /\ pc' # "none" /\ (running' => running) /\ UNCHANGED <<queueOpen, ctl>>
  <2>1. ReadPacket =>
          /\ pc = "read" /\ pc' \in {"read", "reconnect", "loop", "receive"}
          /\ UNCHANGED <<running, queueOpen, ctl>>
    BY DEF ReadPacket
  <2> QED BY <2>1
<1>3. ReceiveFrame =>
        /\ pc # "none" /\ pc' # "none" /\ (running' => running) /\ UNCHANGED <<queueOpen, ctl>>
  BY DEF ReceiveFrame
<1>4. Reconnect \/ Reopen =>
        /\ pc # "none" /\ pc' # "none" /\ (running' => running) /\ UNCHANGED <<queueOpen, ctl>>
  BY DEF Reconnect, Reopen
<1> QED BY <1>1, <1>2, <1>3, <1>4 DEF ReadStep

LEMMA PipelineInvariantStarts == PipelineInit => PInv
<1> SUFFICES ASSUME PipelineInit PROVE PInv
  OBVIOUS
<1> USE DEF PipelineInit, Init
<1>1. PipelineTypeOK
  BY ZeroInRange DEF PipelineTypeOK, TypeOK, Places
<1>2. ReaderInv /\ ControlInv
  BY DEF ReaderInv, ControlInv, StartPlaces
<1>3. StartedInv /\ ThreadsInv /\ ReleasedInv /\ QueuesInv
  BY DEF StartedInv, ThreadsInv, ReleasedInv, QueuesInv, StartPlaces
<1> QED BY <1>1, <1>2, <1>3 DEF PInv

\* Each action by its effect on what the invariant reads.
LEMMA PipelineInvariantKept == PInv /\ PipelineNext => PInv'
<1> SUFFICES ASSUME PInv, PipelineNext PROVE PInv'
  OBVIOUS
<1>1. TypeOK' /\ ReaderInv'
  BY ReaderMoves, ReaderTyped, ReaderKept DEF PInv, PipelineTypeOK, TypeOK, PipelineNext
<1>2. op = "none" /\ ctl # "destroyed" => ctl = "idle"
  BY DEF PInv, PipelineTypeOK, TypeOK, ControlInv
<1> USE DEF PInv, PipelineTypeOK, ControlInv, StartedInv, ThreadsInv, ReleasedInv, QueuesInv,
            StartPlaces, StopPlaces, Parts, Places, Own
<1>3. CASE ctl # "destroyed" /\ CallInit
  <2>1. CASE up
    <3>1. /\ op = "none" /\ ctl = "idle" /\ up
          /\ op' = "Init" /\ at' = "clear flag" /\ starts' = 0
          /\ UNCHANGED <<running, pc, ctl, queueOpen, up, inited, on, ready, threads, released>>
      BY <1>3, <2>1, <1>2 DEF CallInit, Call, partVars, vars
    <3> QED BY <3>1, <1>1
  <2>2. CASE ~up
    <3>1. /\ op = "none" /\ ctl = "idle" /\ ~up /\ op' = "Init" /\ at' = "make" /\ starts' = 0
          /\ UNCHANGED <<running, pc, ctl, queueOpen, up, inited, on, ready, threads, released>>
      BY <1>3, <2>2, <1>2 DEF CallInit, Call, partVars, vars
    <3> QED BY <3>1, <1>1
  <2> QED BY <1>3, <2>1, <2>2
<1>4. CASE ctl # "destroyed" /\ CallStart
  <2>1. CASE starts = 0
    <3>1. /\ op = "none" /\ ctl = "idle" /\ inited /\ ~up /\ starts = 0
          /\ op' = "Start" /\ at' = "visible"
          /\ starts' = 1
          /\ UNCHANGED <<running, pc, ctl, queueOpen, up, inited, on, ready, threads, released>>
      BY <1>4, <2>1, <1>2 DEF CallStart, Call, partVars, vars
    <3> QED BY <3>1, <1>1
  <2>2. CASE starts # 0
    <3>1. /\ op = "none" /\ ctl = "idle" /\ inited /\ ~up
          /\ op' = "Start" /\ at' = "visible" /\ starts' = 2
          /\ UNCHANGED <<running, pc, ctl, queueOpen, up, inited, on, ready, threads, released>>
      BY <1>4, <2>2, <1>2 DEF CallStart, Call, partVars, vars
    <3> QED BY <3>1, <1>1
  <2> QED BY <1>4, <2>1, <2>2
<1>5. CASE ctl # "destroyed" /\ CallStop
  <2>1. /\ op = "none" /\ ctl = "idle" /\ up /\ op' = "Stop" /\ at' = "clear flag"
        /\ UNCHANGED <<running, pc, ctl, queueOpen, up, inited,
                       starts, on, ready, threads, released>>
    BY <1>5, <1>2 DEF CallStop, Call, partVars, vars
  <2> QED BY <2>1, <1>1
<1>6. CASE ctl # "destroyed" /\ CallDestroy
  <2>1. CASE up
    <3>1. /\ op = "none" /\ ctl = "idle" /\ up /\ op' = "Destroy" /\ at' = "clear flag"
          /\ UNCHANGED <<running, pc, ctl, queueOpen, up, inited,
                         starts, on, ready, threads, released>>
      BY <1>6, <2>1, <1>2 DEF CallDestroy, Call, partVars, vars
    <3> QED BY <3>1, <1>1
  <2>2. CASE ~up
    <3>1. /\ op = "none" /\ ctl = "idle" /\ ~up /\ op' = "Destroy" /\ at' = "members"
          /\ UNCHANGED <<running, pc, ctl, queueOpen, up, inited,
                         starts, on, ready, threads, released>>
      BY <1>6, <2>2, <1>2 DEF CallDestroy, Call, partVars, vars
    <3> QED BY <3>1, <1>1
  <2> QED BY <1>6, <2>1, <2>2
<1>7. CASE MakeParts
  <2>1. /\ op = "Init" /\ at = "make" /\ op' = "none" /\ at' = "none" /\ running' = FALSE
        /\ queueOpen' = TRUE /\ ready' \in BOOLEAN /\ inited' = ready' /\ released' \in BOOLEAN
        /\ (released' => ~ready') /\ UNCHANGED <<pc, ctl, up, starts, on, threads>>
    BY <1>7 DEF MakeParts, NewReader
  <2> QED BY <2>1, <1>1
<1>8. CASE StartReader
  <2>1. CASE stream' = "open"
    <3>1. /\ at = "visible" /\ ctl = "idle" /\ ctl' = "start thread" /\ at' = "visible thread"
          /\ UNCHANGED <<running, pc, queueOpen, up, op, inited,
                         starts, on, ready, threads, released>>
      BY <1>8, <2>1 DEF StartReader, Start, Goto, Return, partVars
    <3> QED BY <3>1, <1>1
  <2>2. CASE stream' # "open"
    <3>1. /\ at = "visible" /\ ctl' = "idle" /\ op' = "none" /\ at' = "none"
          /\ UNCHANGED <<running, pc, queueOpen, up, inited,
                         starts, on, ready, threads, released>>
      BY <1>8, <2>2 DEF StartReader, Start, Goto, Return, partVars
    <3> QED BY <3>1, <1>1
  <2> QED BY <1>8, <2>1, <2>2
<1>9. CASE StartReaderThread
  <2>1. /\ at = "visible thread" /\ ctl' = "idle" /\ at' = "infrared" /\ pc' # "none"
        /\ UNCHANGED <<queueOpen, up, op, inited, starts, on, ready, threads, released>>
    BY <1>9 DEF StartReaderThread, StartThread, Goto, partVars
  <2> QED BY <2>1, <1>1
<1>10. CASE StartInfrared
  <2>1. CASE at' = "synchronizer"
    <3>1. /\ at = "infrared" /\ on' = on \cup (Optional \cap {"infrared"}) /\ at' = "synchronizer"
          /\ UNCHANGED <<running, pc, ctl, queueOpen, up, op, inited,
                         starts, ready, threads, released>>
      BY <1>10, <2>1 DEF StartInfrared, Goto, vars
    <3> QED BY <3>1, <1>1
  <2>2. CASE at' # "synchronizer"
    <3>1. /\ at = "infrared" /\ at' = "infrared failed"
          /\ UNCHANGED <<running, pc, ctl, queueOpen, up, op, inited,
                         starts, on, ready, threads, released>>
      BY <1>10, <2>2 DEF StartInfrared, Goto, vars
    <3> QED BY <3>1, <1>1
  <2> QED BY <1>10, <2>1, <2>2
<1>11. CASE UndoVisible
  <2>1. CASE running
    <3>1. /\ at = "infrared failed" /\ ctl = "idle" /\ running' = FALSE /\ ctl' = "stop queue"
          /\ UNCHANGED <<pc, queueOpen, up, op, at, inited,
                         starts, on, ready, threads, released>>
      BY <1>11, <2>1 DEF UndoVisible, StopVisible, Stop, Return, callVars, partVars, vars
    <3> QED BY <3>1, <1>1
  <2>2. CASE ~running
    <3>1. /\ at = "infrared failed" /\ ctl = "idle" /\ ~running /\ op' = "none" /\ at' = "none"
          /\ UNCHANGED <<running, pc, ctl, queueOpen, up, inited,
                         starts, on, ready, threads, released>>
      BY <1>11, <2>2 DEF UndoVisible, StopVisible, Stop, Return, callVars, partVars, vars
    <3> QED BY <3>1, <1>1
  <2> QED BY <1>11, <2>1, <2>2
<1>12. CASE StartSynchronizer
  <2>1. /\ at = "synchronizer" /\ on' = on \cup (Optional \cap {"synchronizer"})
        /\ at' = "detector"
        /\ UNCHANGED <<running, pc, ctl, queueOpen, up, op, inited,
                       starts, ready, threads, released>>
    BY <1>12 DEF StartSynchronizer, Goto, vars
  <2> QED BY <2>1, <1>1
<1>13. CASE StartDetector
  <2>1. CASE at' = "own threads"
    <3>1. /\ at = "detector" /\ ("detector" \in on \/ ready) /\ on' = on \cup {"detector"}
          /\ at' = "own threads"
          /\ UNCHANGED <<running, pc, ctl, queueOpen, up, op, inited,
                         starts, ready, threads, released>>
      BY <1>13, <2>1 DEF StartDetector, Goto, vars
    <3> QED BY <3>1, <1>1
  <2>2. CASE at' # "own threads"
    <3>1. /\ at = "detector" /\ at' = "detector failed"
          /\ UNCHANGED <<running, pc, ctl, queueOpen, up, op, inited,
                         starts, on, ready, threads, released>>
      BY <1>13, <2>2 DEF StartDetector, Goto, vars
    <3> QED BY <3>1, <1>1
  <2> QED BY <1>13, <2>1, <2>2
<1>14. CASE UndoReader
  <2>1. CASE running
    <3>1. /\ at = "detector failed" /\ ctl = "idle" /\ running' = FALSE /\ ctl' = "stop queue"
          /\ UNCHANGED <<pc, queueOpen, up, op, at, inited,
                         starts, on, ready, threads, released>>
      BY <1>14, <2>1 DEF UndoReader, StopVisible, Stop, Goto, callVars, partVars, vars
    <3> QED BY <3>1, <1>1
  <2>2. CASE ~running
    <3>1. /\ at = "detector failed" /\ ctl = "idle" /\ ~running /\ at' = "undo others"
          /\ UNCHANGED <<running, pc, ctl, queueOpen, up, op, inited,
                         starts, on, ready, threads, released>>
      BY <1>14, <2>2 DEF UndoReader, StopVisible, Stop, Goto, callVars, partVars, vars
    <3> QED BY <3>1, <1>1
  <2> QED BY <1>14, <2>1, <2>2
<1>15. CASE UndoOthers
  <2>1. /\ at = "undo others" /\ on' = on \ {"infrared", "synchronizer"} /\ op' = "none"
        /\ at' = "none"
        /\ UNCHANGED <<running, pc, ctl, queueOpen, up, inited,
                       starts, ready, threads, released>>
    BY <1>15 DEF UndoOthers, Return, vars
  <2> QED BY <2>1, <1>1
<1>16. CASE StartOwnThreads
  <2>1. /\ at = "own threads" /\ op' = "none" /\ at' = "none" /\ up' = TRUE
        /\ on' = on \cup (Optional \cap {"plc"}) /\ threads' = [th \in Own |-> "loop"]
        /\ UNCHANGED <<running, pc, ctl, queueOpen, inited, starts, ready, released>>
    BY <1>16 DEF StartOwnThreads
  <2> QED BY <2>1, <1>1
<1>17. CASE ClearFlag
  <2>1. /\ at = "clear flag" /\ up' = FALSE /\ at' = "queues"
        /\ UNCHANGED <<running, pc, ctl, queueOpen, op, inited,
                       starts, on, ready, threads, released>>
    BY <1>17 DEF ClearFlag, partVars, vars
  <2> QED BY <2>1, <1>1
<1>18. CASE StopQueues
  <2>1. /\ at = "queues" /\ queueOpen' = FALSE /\ at' = "join own"
        /\ UNCHANGED <<running, pc, ctl, up, op, inited, starts, on, ready, threads, released>>
    BY <1>18 DEF StopQueues, Goto, partVars
  <2> QED BY <2>1, <1>1
<1>19. CASE JoinOwnThreads
  <2>1. /\ at = "join own" /\ threads' = [th \in Own |-> "none"] /\ at' = "workers"
        /\ UNCHANGED <<running, pc, ctl, queueOpen, up, op, inited,
                       starts, on, ready, released>>
    BY <1>19 DEF JoinOwnThreads, Goto, vars
  <2> QED BY <2>1, <1>1
<1>20. CASE StopWorkers
  <2>1. /\ at = "workers" /\ on' = on \ {"detector", "synchronizer"} /\ ready' = FALSE
        /\ at' = "visible reader"
        /\ UNCHANGED <<running, pc, ctl, queueOpen, up, op, inited, starts, threads, released>>
    BY <1>20 DEF StopWorkers, Goto, vars
  <2>2. PipelineTypeOK' /\ ControlInv'
    BY <2>1, <1>1
  <2>3. StartedInv' /\ ThreadsInv'
    BY <2>1
  <2>4. ReleasedInv' /\ QueuesInv'
    BY <2>1
  <2> QED BY <1>1, <2>2, <2>3, <2>4
<1>21. CASE StopReader
  <2>1. CASE running
    <3>1. /\ at = "visible reader" /\ ctl = "idle" /\ running' = FALSE /\ ctl' = "stop queue"
          /\ UNCHANGED <<pc, queueOpen, up, op, at, inited,
                         starts, on, ready, threads, released>>
      BY <1>21, <2>1 DEF StopReader, StopVisible, Stop, Goto, callVars, partVars, vars
    <3> QED BY <3>1, <1>1
  <2>2. CASE ~running
    <3>1. /\ at = "visible reader" /\ ctl = "idle" /\ ~running /\ at' = "rest"
          /\ UNCHANGED <<running, pc, ctl, queueOpen, up, op, inited,
                         starts, on, ready, threads, released>>
      BY <1>21, <2>2 DEF StopReader, StopVisible, Stop, Goto, callVars, partVars, vars
    <3> QED BY <3>1, <1>1
  <2> QED BY <1>21, <2>1, <2>2
<1>22. CASE StopRest
  <2>1. /\ at = "rest" /\ on' = on \ {"infrared", "plc"} /\ at' = "release"
        /\ UNCHANGED <<running, pc, ctl, queueOpen, up, op, inited,
                       starts, ready, threads, released>>
    BY <1>22 DEF StopRest, Goto, vars
  <2> QED BY <2>1, <1>1
<1>23. CASE ReleaseTracks
  <2>1. CASE op = "Stop"
    <3>1. /\ at = "release" /\ op = "Stop" /\ op' = "none" /\ at' = "none" /\ released' = TRUE
          /\ UNCHANGED <<running, pc, ctl, queueOpen, up, inited, starts, on, ready, threads>>
      BY <1>23, <2>1 DEF ReleaseTracks, Return, Goto, vars
    <3> QED BY <3>1, <1>1
  <2>2. CASE op = "Init"
    <3>1. /\ at = "release" /\ op = "Init" /\ at' = "make" /\ released' = TRUE
          /\ UNCHANGED <<running, pc, ctl, queueOpen, up, op, inited,
                         starts, on, ready, threads>>
      BY <1>23, <2>2 DEF ReleaseTracks, Return, Goto, vars
    <3> QED BY <3>1, <1>1
  <2>3. CASE op \notin {"Stop", "Init"}
    <3>1. /\ at = "release" /\ op \notin {"Stop", "Init"} /\ at' = "members" /\ released' = TRUE
          /\ UNCHANGED <<running, pc, ctl, queueOpen, up, op, inited,
                         starts, on, ready, threads>>
      BY <1>23, <2>3 DEF ReleaseTracks, Return, Goto, vars
    <3> QED BY <3>1, <1>1
  <2> QED BY <1>23, <2>1, <2>2, <2>3
<1>24. CASE DestroyMembers
  <2>1. /\ at = "members" /\ ctl = "idle" /\ ctl' = "destroyed" /\ op' = "none" /\ at' = "none"
        /\ inited' = FALSE
        /\ UNCHANGED <<running, pc, queueOpen, up, starts, on, ready, threads, released>>
    BY <1>24 DEF DestroyMembers, Destroy, partVars
  <2> QED BY <2>1, <1>1
<1>25. CASE ReaderStopStep
  <2>1. CASE StopQueue
    <3>1. /\ ctl = "stop queue" /\ queueOpen' = FALSE /\ ctl' = "join"
          /\ UNCHANGED <<running, pc, up, op, at, inited, starts, on, ready, threads, released>>
      BY <1>25, <2>1 DEF ReaderStopStep, callVars, partVars, StopQueue
    <3>2. PipelineTypeOK' /\ ControlInv'
      BY <3>1, <1>1
    <3>3. StartedInv' /\ ThreadsInv'
      BY <3>1
    <3>4. ReleasedInv' /\ QueuesInv'
      BY <3>1
    <3> QED BY <1>1, <3>2, <3>3, <3>4
  <2>2. CASE StopJoin
    <3>1. /\ ctl = "join" /\ pc' = "none" /\ ctl' = "close"
          /\ UNCHANGED <<running, queueOpen, up, op, at, inited,
                         starts, on, ready, threads, released>>
      BY <1>25, <2>2 DEF ReaderStopStep, callVars, partVars, StopJoin
    <3>2. PipelineTypeOK' /\ ControlInv'
      BY <3>1, <1>1
    <3>3. StartedInv' /\ ThreadsInv'
      BY <3>1
    <3>4. ReleasedInv' /\ QueuesInv'
      BY <3>1
    <3> QED BY <1>1, <3>2, <3>3, <3>4
  <2>3. CASE StopClose
    <3>1. /\ ctl = "close" /\ ctl' = "idle"
          /\ UNCHANGED <<running, pc, queueOpen, up, op, at, inited,
                         starts, on, ready, threads, released>>
      BY <1>25, <2>3 DEF ReaderStopStep, callVars, partVars, StopClose
    <3>2. PipelineTypeOK' /\ ControlInv'
      BY <3>1, <1>1
    <3>3. StartedInv' /\ ThreadsInv'
      BY <3>1
    <3>4. ReleasedInv' /\ QueuesInv'
      BY <3>1
    <3> QED BY <1>1, <3>2, <3>3, <3>4
  <2> QED BY <1>25, <2>1, <2>2, <2>3 DEF ReaderStopStep, StopStep
<1>26. CASE PipelineReadStep
  <2>1. /\ pc # "none" /\ pc' # "none" /\ (running' => running)
        /\ UNCHANGED <<ctl, queueOpen, up, op, at, inited,
                       starts, on, ready, threads, released>>
    BY <1>26, ReadStepMoves DEF PipelineReadStep, callVars, partVars
  <2>2. PipelineTypeOK' /\ ControlInv'
    BY <2>1, <1>1
  <2>3. StartedInv' /\ ThreadsInv'
    BY <2>1
  <2>4. ReleasedInv' /\ QueuesInv'
    BY <2>1
  <2> QED BY <1>1, <2>2, <2>3, <2>4
<1>27. ASSUME NEW th \in Own, LoopTest(th) PROVE PInv'
  <2>1. /\ threads[th] = "loop" /\ threads' \in [Own -> {"none", "loop", "work", "ended"}]
        /\ \A t \in Own : threads'[t] = "none" <=> threads[t] = "none"
        /\ UNCHANGED <<running, pc, ctl, queueOpen, up, op, at, inited,
                       starts, on, ready, released>>
    BY <1>27 DEF LoopTest, callVars, vars
  <2>2. PipelineTypeOK' /\ ControlInv'
    BY <2>1, <1>1
  <2>3. StartedInv' /\ ThreadsInv'
    BY <2>1
  <2>4. ReleasedInv' /\ QueuesInv'
    BY <2>1
  <2> QED BY <1>1, <2>2, <2>3, <2>4
<1>28. ASSUME NEW th \in Own, Work(th) PROVE PInv'
  <2>1. /\ threads[th] = "work" /\ threads' \in [Own -> {"none", "loop", "work", "ended"}]
        /\ \A t \in Own : threads'[t] = "none" <=> threads[t] = "none"
        /\ UNCHANGED <<running, pc, ctl, queueOpen, up, op, at, inited,
                       starts, on, ready, released>>
    BY <1>28 DEF Work, callVars, vars
  <2>2. PipelineTypeOK' /\ ControlInv'
    BY <2>1, <1>1
  <2>3. StartedInv' /\ ThreadsInv'
    BY <2>1
  <2>4. ReleasedInv' /\ QueuesInv'
    BY <2>1
  <2> QED BY <1>1, <2>2, <2>3, <2>4
<1> QED BY <1>3, <1>4, <1>5, <1>6, <1>7, <1>8, <1>9, <1>10, <1>11, <1>12, <1>13, <1>14, <1>15,
           <1>16, <1>17, <1>18, <1>19, <1>20, <1>21, <1>22, <1>23, <1>24, <1>25, <1>26, <1>27,
           <1>28
        DEF PipelineNext, CallStep, StartSteps, StopSteps, ThreadStep

\* The invariant of every reachable state.
LEMMA PipelineInvariant == PipelineSafeSpec => []PInv
<1>1. PInv /\ UNCHANGED pipelineVars => PInv'
  <2> SUFFICES ASSUME PInv, UNCHANGED pipelineVars PROVE PInv'
    OBVIOUS
  <2> USE DEF pipelineVars, vars, callVars, partVars
  <2>1. TypeOK'
    BY ReaderTyped DEF PInv, PipelineTypeOK, ReaderMove
  <2>2. ReaderInv'
    BY DEF PInv, ReaderInv
  <2>3. ControlInv' /\ StartedInv' /\ ThreadsInv'
    BY DEF PInv, ControlInv, StartedInv, ThreadsInv
  <2>4. ReleasedInv' /\ QueuesInv'
    BY DEF PInv, ReleasedInv, QueuesInv
  <2>5. PipelineTypeOK'
    BY <2>1 DEF PInv, PipelineTypeOK
  <2> QED BY <2>2, <2>3, <2>4, <2>5 DEF PInv
<1> QED BY <1>1, PipelineInvariantStarts, PipelineInvariantKept, PTL DEF PipelineSafeSpec
-----------------------------------------------------------------------------
\* Every variable of the pipeline and of its reader has its type, and
\* reconnect_count_ stays within its limit: every step of GatewayPipeline::Init,
\* Start and Stop and of the threads.
THEOREM PipelineTypeInvariant == PipelineSafeSpec => []PipelineTypeOK
  BY PipelineInvariant, PTL DEF PInv

\* Between two calls everything Start starts is running or nothing is, whichever
\* part made it fail: the undoing in Start, and Stop.
THEOREM AllOrNothingInvariant == PipelineSafeSpec => []AllOrNothing
<1>1. PInv => AllOrNothing
  <2> SUFFICES ASSUME PInv, op = "none"
               PROVE  IF up THEN on = Parts /\ Joinable /\ Alive
                            ELSE on = {} /\ ~running /\ StoppedReaderHoldsNothing /\ Quiet
    BY DEF AllOrNothing
  <2>1. at = "none"
    BY DEF PInv, ControlInv
  <2>2. CASE up
    <3>1. Joinable /\ Alive
      BY <2>1, <2>2 DEF PInv, ThreadsInv
    <3>2. on = Parts
      BY <2>1, <2>2, PipelineAssumption DEF PInv, StartedInv, Parts, PipelineTypeOK
    <3> QED BY <2>2, <3>1, <3>2
  <2>3. CASE ~up
    <3>1. ~running /\ Quiet
      BY <2>1, <2>3 DEF PInv, ThreadsInv
    <3>2. on = {}
      BY <2>1, <2>3, PipelineAssumption DEF PInv, StartedInv, Parts, PipelineTypeOK
    <3>3. StoppedReaderHoldsNothing
      BY DEF PInv, ReaderInv
    <3> QED BY <2>3, <3>1, <3>2, <3>3
  <2> QED BY <2>2, <2>3
<1> QED BY <1>1, PipelineInvariant, PTL

\* No thread is between its test of running_ and its use of the tracks when Stop
\* clears them, nor starts to before an Init has made new ones: the threads are
\* joined first, and Start fails at the detector that Stop has emptied.
THEOREM NoUseAfterReleaseInvariant == PipelineSafeSpec => []NoUseAfterRelease
<1>1. PInv => NoUseAfterRelease
  <2> SUFFICES ASSUME PInv, released, NEW th \in Own PROVE threads[th] # "work"
    BY DEF NoUseAfterRelease
  <2>1. Quiet
    BY DEF PInv, ReleasedInv, ThreadsInv, ControlInv, PipelineTypeOK
  <2> QED BY <2>1
<1> QED BY <1>1, PipelineInvariant, PTL

\* The first Start after an Init runs on open queues: Init makes new ones, and
\* only Stop and a failed Start close them.
THEOREM OpenOnFirstStartInvariant == PipelineSafeSpec => []OpenOnFirstStart
  BY PipelineInvariant, PTL DEF PInv, QueuesInv

\* No call opens or closes the reader's stream while its thread is in the loop: in
\* Start no thread is there, and Stop closes what it has joined.
THEOREM StreamUsers == PipelineSafeSpec => StreamHasOneUser
<1>1. PInv /\ PipelineNext /\ ctl' # ctl /\ (stream' # stream \/ decoder' # decoder)
        => pc \in {"none", "ended"}
  <2> SUFFICES ASSUME PInv, PipelineNext, ctl' # ctl, stream' # stream \/ decoder' # decoder
               PROVE  pc \in {"none", "ended"}
    OBVIOUS
  <2>1. ReaderMove /\ ReaderInv /\ failure = "none" /\ TypeOK
    BY ReaderMoves DEF PInv, PipelineTypeOK, PipelineNext
  <2>2. ~(StartThread \/ Stop \/ ReadStep \/ UNCHANGED vars \/ NewReader)
    BY DEF StartThread, Stop, ReadStep, Allocate, LoopHead, ReadPacket, ReceiveFrame, Reconnect,
           Reopen, vars, NewReader
  <2>3. Start \/ Destroy \/ StopStep
    BY <2>1, <2>2 DEF ReaderMove
  <2>4. CASE Start \/ Destroy
    BY <2>1, <2>4 DEF Start, Destroy, ReaderInv
  <2>5. CASE StopStep
    BY <2>1, <2>5 DEF StopStep, StopQueue, StopJoin, StopClose, ReaderInv
  <2> QED BY <2>3, <2>4, <2>5
<1>2. PInv /\ [PipelineNext]_pipelineVars
        => [ctl' # ctl /\ (stream' # stream \/ decoder' # decoder) => pc \in {"none", "ended"}]_vars
  BY <1>1 DEF pipelineVars, vars
<1> QED BY <1>2, PipelineInvariant, PTL DEF PipelineSafeSpec, StreamHasOneUser
=============================================================================
