------------------------- MODULE CornerSlotDetector -------------------------
(***************************************************************************)
(* CornerSlotDetector: worker threads take frames from the input queue,    *)
(* borrow an execution context from the engine's pool (an instance of      *)
(* TrtContextPool), preprocess the frame into the context's input buffer,  *)
(* run the network, give the context back and offer the result to the      *)
(* output queue.  Around it: the result thread of the pipeline, which      *)
(* feeds frames and takes results, and the thread that calls Stop.         *)
(* There are as many workers as contexts.                                  *)
(***************************************************************************)
EXTENDS Naturals, Sequences, FiniteSets

CONSTANTS NumWorkers, \* config_.trt_config.num_execution_contexts
          InputSize,  \* capacity of the input queue
          OutputSize, \* capacity of the output queue
          MaxFrames   \* bound of the model: frames fed

ASSUME DetectorAssumption ==
  /\ NumWorkers \in Nat \ {0}
  /\ InputSize \in Nat \ {0} /\ OutputSize \in Nat \ {0} /\ MaxFrames \in Nat

VARIABLES running,  \* running_
          open,     \* the input and output queues are running
          input,    \* input_queue_
          output,   \* output_queue_
          wpc,      \* per worker, its place in WorkerThread and Detect
          frame,    \* per worker, the frame it works on
          resize,   \* resize_buffer_ of preprocessors_[0]: whose pixels it holds
          tensor,   \* per worker, whose pixels the input of its context holds
          ok,       \* per worker, what Detect is going to return
          stopPc,   \* where the thread that calls Stop is
          dropped,  \* dropped_frames_
          fed,      \* history: frames fed; a frame's number is its identity
          popped, failed, pushed, \* history: frames taken, not detected, results offered
          phase, pool, shutdown, created, freed, acquirePc, held, waiting, timedOut

poolVars == <<phase, pool, shutdown, created, freed, acquirePc, held, waiting, timedOut>>
workVars == <<wpc, frame, resize, tensor, ok>>
queueVars == <<open, input, output>>
countVars == <<dropped, popped, failed, pushed>>
vars == <<running, stopPc, fed, queueVars, workVars, countVars, poolVars>>

\* Variant: a worker more than there are contexts.
WorkersOneMore == 0..NumWorkers

Workers == 0..(NumWorkers - 1)

Pool == INSTANCE TrtContextPool WITH Clients <- Workers, NumContexts <- NumWorkers,
                                     pc <- acquirePc

\* What preprocessors can convert, and what they refuse (the readers' format).
Formats == {"NV12", "YUV420P"}
NoFrame == [id |-> 0, format |-> "NV12"]

\* The engine was initialised by Init: every context is in the pool.
Init ==
  /\ running = TRUE /\ open = TRUE
  /\ input = <<>> /\ output = <<>>
  /\ wpc = [w \in Workers |-> "loop"]
  /\ frame = [w \in Workers |-> NoFrame]
  /\ resize = 0
  /\ tensor = [w \in Workers |-> 0]
  /\ ok = [w \in Workers |-> FALSE]
  /\ stopPc = "running"
  /\ dropped = 0 /\ fed = 0 /\ popped = 0 /\ failed = 0 /\ pushed = 0
  /\ phase = "ready"
  /\ pool = [i \in 1..NumWorkers |-> i - 1]
  /\ shutdown = FALSE
  /\ created = 0..(NumWorkers - 1) /\ freed = {}
  /\ acquirePc = [w \in Workers |-> "idle"]
  /\ held = [w \in Workers |-> {}]
  /\ waiting = {} /\ timedOut = {}

Goto(w, place) == wpc' = [wpc EXCEPT ![w] = place]
-----------------------------------------------------------------------------
(* The result thread of the pipeline.                                      *)

\* TryPush; the pipeline does not look at its answer.
Feed ==
  /\ fed < MaxFrames
  /\ fed' = fed + 1
  /\ \E f \in Formats :
       input' = IF open /\ Len(input) < InputSize
                THEN Append(input, [id |-> fed', format |-> f]) ELSE input
  /\ UNCHANGED <<running, stopPc, open, output, workVars, countVars, poolVars>>

TakeResult ==
  /\ output # <<>>
  /\ output' = Tail(output)
  /\ UNCHANGED <<running, stopPc, fed, open, input, workVars, countVars, poolVars>>
-----------------------------------------------------------------------------
(* WorkerThread and Detect.                                                *)

\* Variant: the loop does not look at running_.
LoopHeadForEver(w) ==
  /\ wpc[w] = "loop"
  /\ Goto(w, "pop")
  /\ UNCHANGED <<running, stopPc, fed, queueVars, frame, resize, tensor, ok, countVars, poolVars>>

LoopHead(w) ==
  /\ wpc[w] = "loop"
  /\ Goto(w, IF running THEN "pop" ELSE "ended")
  /\ UNCHANGED <<running, stopPc, fed, queueVars, frame, resize, tensor, ok, countVars, poolVars>>

\* WaitPop gives up after 100 ms, or at once on a stopped queue that is empty.
PopFrame(w) ==
  /\ wpc[w] = "pop"
  /\ \/ /\ input # <<>>
        /\ frame' = [frame EXCEPT ![w] = Head(input)]
        /\ input' = Tail(input)
        /\ popped' = popped + 1
        /\ Goto(w, "acquire")
     \/ /\ input = <<>>
        /\ Goto(w, "loop")
        /\ UNCHANGED <<frame, input, popped>>
  /\ UNCHANGED <<running, stopPc, fed, open, output, resize, tensor, ok, dropped, failed,
                 pushed, poolVars>>

\* engine_->AcquireContext(5000): the context, nullptr, or a wait.  How a wait ends
\* is left to TrtContextPool: NoWorkerStarves says that there is none.
AcquireContext(w) ==
  /\ wpc[w] = "acquire"
  /\ Pool!Acquire(w) \/ Pool!ResumeAcquire(w)
  /\ \/ acquirePc'[w] = "hold" /\ Goto(w, "upload") /\ UNCHANGED dropped
     \/ acquirePc'[w] = "acquire" /\ UNCHANGED <<wpc, dropped>>
     \/ acquirePc'[w] = "idle" /\ Goto(w, "loop") /\ dropped' = dropped + 1
  /\ UNCHANGED <<running, stopPc, fed, queueVars, frame, resize, tensor, ok, popped, failed,
                 pushed>>

\* Process refuses the format, or starts its kernels on the worker's stream: the
\* frame goes to resize_buffer_.  Every worker passes its stream, so stream_idx
\* stays -1 and worker_id is 0: they all use preprocessors_[0].
Upload(w) ==
  /\ wpc[w] = "upload"
  /\ \/ /\ frame[w].format = "YUV420P"
        /\ ok' = [ok EXCEPT ![w] = FALSE]
        /\ Goto(w, "release")
        /\ UNCHANGED resize
     \/ /\ frame[w].format = "NV12"
        /\ resize' = frame[w].id
        /\ Goto(w, "letterbox")
        /\ UNCHANGED ok
  /\ UNCHANGED <<running, stopPc, fed, queueVars, frame, tensor, countVars, poolVars>>

\* The later kernels read resize_buffer_ into the context's input.
Letterbox(w) ==
  /\ wpc[w] = "letterbox"
  /\ tensor' = [tensor EXCEPT ![w] = resize]
  /\ Goto(w, "infer")
  /\ UNCHANGED <<running, stopPc, fed, queueVars, frame, resize, ok, countVars, poolVars>>

\* RunInferenceWithContext returns once the stream is synchronised, or nullptr
\* when enqueueV2 fails.
Infer(w) ==
  /\ wpc[w] = "infer"
  /\ \E b \in BOOLEAN : ok' = [ok EXCEPT ![w] = b]
  /\ Goto(w, "release")
  /\ UNCHANGED <<running, stopPc, fed, queueVars, frame, resize, tensor, countVars, poolVars>>

\* Every path of Detect that holds a context comes here; then Detect returns.
ReleaseContext(w) ==
  /\ wpc[w] = "release"
  /\ \/ Pool!Release(w) /\ UNCHANGED <<wpc, failed>>
     \/ /\ Pool!ReleaseLocked(w)
        /\ Goto(w, IF ok[w] THEN "push" ELSE "loop")
        /\ failed' = IF ok[w] THEN failed ELSE failed + 1
  /\ UNCHANGED <<running, stopPc, fed, queueVars, frame, resize, tensor, ok, dropped, popped,
                 pushed>>

\* Variant: a result that the output queue refuses is not counted.
PushResultUncounted(w) ==
  /\ wpc[w] = "push"
  /\ IF open /\ Len(output) < OutputSize
     THEN /\ output' = Append(output, [frame |-> frame[w].id, pixels |-> tensor[w]])
          /\ pushed' = pushed + 1
     ELSE UNCHANGED <<output, pushed>>
  /\ Goto(w, "loop")
  /\ UNCHANGED <<running, stopPc, fed, open, input, frame, resize, tensor, ok, dropped, popped,
                 failed, poolVars>>

\* A full or stopped output queue loses the result.
PushResult(w) ==
  /\ wpc[w] = "push"
  /\ IF open /\ Len(output) < OutputSize
     THEN /\ output' = Append(output, [frame |-> frame[w].id, pixels |-> tensor[w]])
          /\ pushed' = pushed + 1
          /\ UNCHANGED dropped
     ELSE dropped' = dropped + 1 /\ UNCHANGED <<output, pushed>>
  /\ Goto(w, "loop")
  /\ UNCHANGED <<running, stopPc, fed, open, input, frame, resize, tensor, ok, popped, failed,
                 poolVars>>

WorkerStep(w) ==
  \/ LoopHead(w) \/ PopFrame(w) \/ AcquireContext(w) \/ Upload(w) \/ Letterbox(w)
  \/ Infer(w) \/ ReleaseContext(w) \/ PushResult(w)
-----------------------------------------------------------------------------
(* Stop.  The pipeline stops the queues before it calls the detector.      *)

StopQueues ==
  /\ open
  /\ open' = FALSE
  /\ stopPc' = IF stopPc = "flag" THEN "join" ELSE stopPc
  /\ UNCHANGED <<running, fed, input, output, workVars, countVars, poolVars>>

StopFlag ==
  /\ stopPc = "running"
  /\ running' = FALSE
  /\ stopPc' = IF open THEN "flag" ELSE "join"
  /\ UNCHANGED <<fed, queueVars, workVars, countVars, poolVars>>

\* Variant: the workers are detached in place of joined.
StopDetach ==
  /\ stopPc = "join"
  /\ stopPc' = "release"
  /\ UNCHANGED <<running, fed, queueVars, workVars, countVars, poolVars>>

StopJoin ==
  /\ stopPc = "join"
  /\ \A w \in Workers : wpc[w] = "ended"
  /\ stopPc' = "release"
  /\ UNCHANGED <<running, fed, queueVars, workVars, countVars, poolVars>>

\* engine_->Release shuts the pool down.
StopRelease ==
  /\ stopPc = "release"
  /\ Pool!Shutdown
  /\ stopPc' = "stopped"
  /\ UNCHANGED <<running, fed, queueVars, workVars, countVars>>

StopStep == (stopPc = "flag" /\ StopQueues) \/ StopJoin \/ StopRelease

Next ==
  \/ Feed \/ TakeResult
  \/ \E w \in Workers : WorkerStep(w)
  \/ StopQueues \/ StopFlag \/ StopJoin \/ StopRelease

\* Every worker and the stopping thread run.
Fairness == /\ \A w \in Workers : WF_vars(WorkerStep(w))
            /\ WF_vars(StopStep)

SafeSpec == Init /\ [][Next]_vars
Spec == SafeSpec /\ Fairness
-----------------------------------------------------------------------------
Busy == {w \in Workers : wpc[w] \notin {"loop", "pop", "ended"}}

\* The worker count of Init is the context count: no worker ever waits in Acquire,
\* whatever fails in Detect, so "Context pool exhausted" is never a worker's fate.
NoWorkerStarves == \A w \in Workers : acquirePc[w] # "acquire"

\* Every frame a worker took ends as one offered result, one failure or one
\* counted drop, through refused formats, failed inferences, full queues and Stop.
FramesAccounted == popped = pushed + failed + dropped + Cardinality(Busy)

\* When Stop returns every GPU buffer is freed, none is left with a worker, and no
\* worker touches the engine any more.
StoppedDetectorHoldsNothing ==
  stopPc = "stopped" => freed = created /\ Busy = {} /\ Pool!Lent = {}

\* Stop joins the workers, wherever in Detect they are.
StopTerminates == stopPc = "join" ~> stopPc = "stopped"

\* The comment at DeserializeEngine (trt_engine.cpp 457-458) says that buffers shared
\* by threads were the fault and that every context now has its own: a result is
\* computed from the pixels of its own frame.
ResultFromOwnFrame == \A i \in DOMAIN output : output[i].pixels = output[i].frame
=============================================================================
