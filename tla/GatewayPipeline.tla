--------------------------- MODULE GatewayPipeline ---------------------------
(***************************************************************************)
(* GatewayPipeline: Init makes the parts, Start starts them one after the  *)
(* other and stops again those that are started when one of them fails,    *)
(* and Stop ends its own three threads and then the parts.  One            *)
(* controlling thread calls Init, Start, Stop and the destructor.  The     *)
(* visible camera's reader is RtspReader step by step; the other parts are *)
(* started or not, and their Stop joins the threads they have.             *)
(***************************************************************************)
EXTENDS RtspReader

CONSTANT Optional \* the parts that config_ enables besides the detector

ASSUME PipelineAssumption == Optional \subseteq {"infrared", "synchronizer", "plc"}

VARIABLES up,       \* running_
          op,       \* the call the controlling thread is in, or "none"
          at,       \* its place in this call
          inited,   \* the last Init succeeded
          on,       \* the parts that are started, the visible reader apart
          ready,    \* detector_ has its engine and its preprocessors
          threads,  \* result_thread_, stats_thread_, safety_thread_
          released, \* tracker_ and energy_analyzer_ were released
          starts    \* Start calls since the last Init, of which two are many

callVars == <<up, op, at, inited, starts>>
partVars == <<on, ready, threads, released>>
pipelineVars == <<vars, callVars, partVars>>

Own == {"result", "stats", "safety"}
Parts == Optional \cup {"detector"}

PipelineInit ==
  /\ Init
  /\ up = FALSE /\ op = "none" /\ at = "none" /\ inited = FALSE
  /\ on = {} /\ ready = FALSE /\ released = FALSE /\ starts = 0
  /\ threads = [th \in Own |-> "none"]

Goto(place) == at' = place /\ UNCHANGED <<up, op, inited, starts>>
Return == op' = "none" /\ at' = "none" /\ UNCHANGED <<up, inited, starts>>

Call(name, place) ==
  /\ op = "none" /\ op' = name /\ at' = place
  /\ UNCHANGED <<vars, partVars, up, inited>>

\* RtspReader::Stop, whose steps are in RtspReader, and what comes after it.
StopVisible(done) ==
  /\ ctl = "idle"
  /\ \/ running /\ Stop /\ UNCHANGED callVars
     \/ ~running /\ done /\ UNCHANGED vars

ReaderStopStep == StopStep /\ UNCHANGED <<callVars, partVars>>
-----------------------------------------------------------------------------
(* Init.                                                                   *)

CallInit == Call("Init", IF up THEN "clear flag" ELSE "make") /\ starts' = 0

\* ~RtspReader of the reader made by the last Init: a thread that ended by itself
\* was never joined, which ends the process.
NewReader ==
  /\ running' = FALSE /\ stream' = "closed" /\ decoder' = 0 /\ attempts' = 0
  /\ failure' = IF pc = "none" THEN failure ELSE "unjoined thread"
  /\ UNCHANGED <<pc, ctl>>

\* Variant: the queues of the last run are kept.
MakePartsOnOldQueues ==
  /\ op = "Init" /\ at = "make"
  /\ NewReader /\ UNCHANGED queueOpen
  /\ inited' \in BOOLEAN /\ ready' = inited'
  /\ released' = (released /\ ~inited')
  /\ op' = "none" /\ at' = "none"
  /\ UNCHANGED <<up, starts, on, threads>>

\* New queues and parts.  The engine, a preprocessor or a stream of the detector
\* may fail, and then the tracker and all that comes after it stay as they were.
MakeParts ==
  /\ op = "Init" /\ at = "make"
  /\ NewReader /\ queueOpen' = TRUE
  /\ inited' \in BOOLEAN /\ ready' = inited'
  /\ released' = (released /\ ~inited')
  /\ op' = "none" /\ at' = "none"
  /\ UNCHANGED <<up, starts, on, threads>>
-----------------------------------------------------------------------------
(* Start.                                                                  *)

\* main calls it only after an Init that succeeded.  A pipeline that is up returns
\* at once, and Stop of one that is not up does too.
CallStart ==
  /\ inited /\ ~up
  /\ Call("Start", "visible")
  /\ starts' = IF starts = 0 THEN 1 ELSE 2

\* RtspReader::Start up to its thread; the reader never runs already.
StartReader ==
  /\ at = "visible"
  /\ Start
  /\ IF stream' = "open" THEN Goto("visible thread") ELSE Return
  /\ UNCHANGED partVars

StartReaderThread ==
  /\ at = "visible thread"
  /\ StartThread
  /\ Goto("infrared") /\ UNCHANGED partVars

\* Variant: a start that fails here leaves the visible reader running.
StartInfraredAlone ==
  /\ at = "infrared"
  /\ \/ on' = on \cup (Optional \cap {"infrared"}) /\ Goto("synchronizer")
     \/ "infrared" \in Optional \ on /\ UNCHANGED on /\ Return
  /\ UNCHANGED <<vars, ready, threads, released>>

StartInfrared ==
  /\ at = "infrared"
  /\ \/ on' = on \cup (Optional \cap {"infrared"}) /\ Goto("synchronizer")
     \/ "infrared" \in Optional \ on /\ UNCHANGED on /\ Goto("infrared failed")
  /\ UNCHANGED <<vars, ready, threads, released>>

UndoVisible == at = "infrared failed" /\ StopVisible(Return) /\ UNCHANGED partVars

\* It never fails.
StartSynchronizer ==
  /\ at = "synchronizer"
  /\ on' = on \cup (Optional \cap {"synchronizer"})
  /\ Goto("detector")
  /\ UNCHANGED <<vars, ready, threads, released>>

\* It fails once the detector was stopped: its preprocessors are gone.
StartDetector ==
  /\ at = "detector"
  /\ IF "detector" \in on \/ ready
       THEN on' = on \cup {"detector"} /\ Goto("own threads")
       ELSE UNCHANGED on /\ Goto("detector failed")
  /\ UNCHANGED <<vars, ready, threads, released>>

UndoReader == at = "detector failed" /\ StopVisible(Goto("undo others")) /\ UNCHANGED partVars

UndoOthers ==
  /\ at = "undo others"
  /\ on' = on \ {"infrared", "synchronizer"}
  /\ Return
  /\ UNCHANGED <<vars, ready, threads, released>>

\* The PLC manager, running_, and the three threads.
StartOwnThreads ==
  /\ at = "own threads"
  /\ on' = on \cup (Optional \cap {"plc"})
  /\ up' = TRUE
  /\ threads' = [th \in Own |-> "loop"]
  /\ op' = "none" /\ at' = "none"
  /\ failure' = IF \A th \in Own : threads[th] = "none" THEN failure ELSE "unjoined thread"
  /\ UNCHANGED <<inited, starts, ready, released>>
  /\ UNCHANGED <<running, stream, decoder, queueOpen, attempts, pc, ctl>>
-----------------------------------------------------------------------------
(* Stop and the destructor, and Init of a pipeline that runs.              *)

CallStop == up /\ Call("Stop", "clear flag") /\ UNCHANGED starts
CallDestroy == Call("Destroy", IF up THEN "clear flag" ELSE "members") /\ UNCHANGED starts

ClearFlag ==
  /\ at = "clear flag"
  /\ up' = FALSE
  /\ at' = "queues"
  /\ UNCHANGED <<vars, partVars, op, inited, starts>>

\* All five queues, of which the visible reader's is modelled.
StopQueues ==
  /\ at = "queues"
  /\ queueOpen' = FALSE
  /\ Goto("join own")
  /\ UNCHANGED <<running, stream, decoder, attempts, pc, ctl, failure, partVars>>

\* Variant: the threads are not waited for.
JoinOwnThreadsLater ==
  /\ at = "join own"
  /\ Goto("workers")
  /\ UNCHANGED <<vars, partVars>>

JoinOwnThreads ==
  /\ at = "join own" /\ \A th \in Own : threads[th] = "ended"
  /\ threads' = [th \in Own |-> "none"]
  /\ Goto("workers")
  /\ UNCHANGED <<vars, on, ready, released>>

StopWorkers ==
  /\ at = "workers"
  /\ on' = on \ {"detector", "synchronizer"} /\ ready' = FALSE
  /\ Goto("visible reader")
  /\ UNCHANGED <<vars, threads, released>>

StopReader == at = "visible reader" /\ StopVisible(Goto("rest")) /\ UNCHANGED partVars

StopRest ==
  /\ at = "rest"
  /\ on' = on \ {"infrared", "plc"}
  /\ Goto("release")
  /\ UNCHANGED <<vars, ready, threads, released>>

\* The tracks and their swings are cleared with no lock.
ReleaseTracks ==
  /\ at = "release"
  /\ released' = TRUE
  /\ IF op = "Stop" THEN Return
     ELSE IF op = "Init" THEN Goto("make")
     ELSE Goto("members")
  /\ UNCHANGED <<vars, on, ready, threads>>

DestroyMembers ==
  /\ at = "members"
  /\ Destroy
  /\ at' = "none" /\ op' = "none" /\ inited' = FALSE
  /\ UNCHANGED <<up, starts, partVars>>
-----------------------------------------------------------------------------
(* ResultThread, StatsThread and SafetyThread.                             *)

LoopTest(th) ==
  /\ threads[th] = "loop"
  /\ threads' = [threads EXCEPT ![th] = IF up THEN "work" ELSE "ended"]
  /\ UNCHANGED <<vars, callVars, on, ready, released>>

\* One turn: it waits, at most for a second, and then uses the tracker, the
\* analyser and the PLC manager.
Work(th) ==
  /\ threads[th] = "work"
  /\ threads' = [threads EXCEPT ![th] = "loop"]
  /\ UNCHANGED <<vars, callVars, on, ready, released>>

ThreadStep(th) == LoopTest(th) \/ Work(th)
PipelineReadStep == ReadStep /\ UNCHANGED <<callVars, partVars>>

StartSteps ==
  \/ StartReader \/ StartReaderThread \/ StartInfrared \/ UndoVisible
  \/ StartSynchronizer \/ StartDetector \/ UndoReader \/ UndoOthers
  \/ StartOwnThreads

StopSteps ==
  \/ ClearFlag \/ StopQueues \/ JoinOwnThreads \/ StopWorkers \/ StopReader
  \/ StopRest \/ ReleaseTracks \/ DestroyMembers

CallStep == MakeParts \/ StartSteps \/ StopSteps \/ ReaderStopStep

PipelineNext ==
  /\ failure = "none"
  /\ \/ ctl # "destroyed" /\ (CallInit \/ CallStart \/ CallStop \/ CallDestroy)
     \/ CallStep
     \/ \E th \in Own : ThreadStep(th)
     \/ PipelineReadStep

\* Every thread runs: waits and sleeps end, FFmpeg's calls return.
PipelineFairness ==
  /\ WF_pipelineVars(failure = "none" /\ CallStep)
  /\ WF_pipelineVars(failure = "none" /\ PipelineReadStep)
  /\ \A th \in Own : WF_pipelineVars(failure = "none" /\ ThreadStep(th))

PipelineSafeSpec == PipelineInit /\ [][PipelineNext]_pipelineVars
PipelineSpec == PipelineSafeSpec /\ PipelineFairness
-----------------------------------------------------------------------------
(* Properties.                                                             *)

Places ==
  {"none", "make", "visible", "visible thread", "infrared", "infrared failed",
   "synchronizer", "detector", "detector failed", "undo others", "own threads", "clear flag",
   "queues", "join own", "workers", "visible reader", "rest", "release", "members"}

\* The visible reader keeps the type it has on its own, reconnect_count_ within
\* its limit included, and the pipeline's variables have theirs.
PipelineTypeOK ==
  /\ TypeOK
  /\ up \in BOOLEAN /\ inited \in BOOLEAN /\ ready \in BOOLEAN /\ released \in BOOLEAN
  /\ op \in {"none", "Init", "Start", "Stop", "Destroy"} /\ at \in Places
  /\ on \subseteq Parts /\ starts \in {0, 1, 2}
  /\ threads \in [Own -> {"none", "loop", "work", "ended"}]

\* Between two calls the pipeline is up with every part started, or it is not
\* and none is, whichever part made Start fail.  A reader whose thread ended by
\* itself counts as stopped, but keeps its stream.
AllOrNothing ==
  op = "none" =>
    IF up THEN on = Parts /\ Joinable /\ \A th \in Own : threads[th] # "none"
          ELSE on = {} /\ ~running /\ StoppedReaderHoldsNothing
                 /\ \A th \in Own : threads[th] = "none"

\* Stop clears the tracks and their swings when no thread is left that uses them,
\* and none does before an Init has made new ones: they have no lock.
NoUseAfterRelease == released => \A th \in Own : threads[th] # "work"

\* The first Start after an Init runs on queues that no earlier Stop has closed:
\* a pipeline can be used again by way of Init, and only so.
OpenOnFirstStart == up /\ starts = 1 /\ op = "none" => queueOpen

\* Init, Start, Stop and the destructor return, wherever the read thread and the
\* three threads are, or end the process.
CallsReturn == op # "none" ~> op = "none" \/ failure # "none"
=============================================================================
