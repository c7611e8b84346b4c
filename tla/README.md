# Verification of the port AI gateway

TLA+ specifications of the concurrent core of `50-port-ai-gateway`, the TLC
configurations that check them on small instances, and TLAPS proofs of their
most important invariants. Paths below are relative to the repository.

The code was read as published, comments and README included. In a few places
it does not compile as it stands (for example
`TrtContextPool::AvailableCount() const` locks a mutex that is not `mutable`,
and `SafetyThread` compares an enumerator of an enum class with an `int`); there
the evident meaning was modelled. Nothing below depends on those lines.

## The system

Two RTSP cameras are decoded, the frames paired in time, sent through a neural
network on the GPU that finds corner slots, the slots tracked in 3D, the swing
energy of the load computed from the tracks, and safety commands issued to the
crane's PLC. One process; every arrow below is a thread handing something to
another through a `ThreadSafeQueue`, except the two marked "call".

    RtspReader (visible) --visible_queue_--\
                                            FrameSynchronizer --sync_queue_--> result thread
    RtspReader (infrared) -infrared_queue_-/                                        |
                                                                   detect_input_queue_ (TryPush)
                                                                                    v
       result thread <--result_queue_-- CornerSlotDetector: one worker per TrtContextPool context
            |
            | (call) CornerSlotTracker -> SwingEnergyAnalyzer -> PlcCommandManager.SubmitCommand
            | (call) user callbacks
       statistics thread (1 s) and safety thread (100 ms) read the same objects
       main thread: Init, Start, Stop of GatewayPipeline, which owns everything

### Inventory

| component | state | operations | what makes it correct |
|---|---|---|---|
| `ThreadSafeQueue` (`include/common/thread_safe_queue.h`) | `queue_`, `running_`, wait sets of `not_empty_`, `not_full_` | `Push` `TryPush` `Pop` `TryPop` `WaitPop` `Stop` `Clear` | FIFO; capacity; no lost wake-up; `Stop` releases every caller |
| `PlcCommandManager` (`src/safety/plc_command_manager.cpp`) | priority queue, history, last issue times, counters, `emergency_active_` | `SubmitCommand` `GetHighestPriorityCommand` `AckCommand` `ClearEmergency` `Start` `Stop` `Init` `Release` | throttle kept; commands conserved; order within a priority; backlog bounded; level never too low; the emergency stop gets out |
| `TrtContextPool`, `TrtEngine` (`src/inference/trt_engine.cpp`) | `pool_`, `shutdown_`, GPU buffers of each context | `Init` `Acquire` `Release` `Shutdown` | one user per context; no use after free; no leak; no lost wake-up; `Acquire` and `Init` return |
| `FrameSynchronizer` (`src/streaming/frame_synchronizer.cpp`) | two deques, `running_`, counters | `SyncLoop`, `TrySync`, `PushVisibleFrame`, `PushInfraredFrame`, `Start`, `Stop` | pairs in order and used once; frames accounted for; nothing pairable dropped as too old; a match is found; `Stop` returns; pairs aligned |
| `RtspReader` (`src/streaming/rtsp_reader.cpp`) | FFmpeg contexts, `running_`, `reconnect_count_`, the thread | `Start` `Stop` destructor `ReadLoop` `Reconnect` | one user of the stream; `Stop` returns and leaves nothing open; retries |
| `CornerSlotDetector` (`src/inference/corner_slot_detector.cpp`) | workers, queues, preprocessors, `dropped_frames_` | `WorkerThread` `Detect` `Start` `Stop` | contexts returned on every path; frames accounted for; nothing used after `Stop`; a result belongs to its frame |
| `CudaPreprocessor` | `resize_buffer_` | `Process` | one user of the buffer at a time |
| `CornerSlotTracker` (`src/tracking/corner_slot_tracker.cpp`) | `tracks_` with state, hit streak and results since the last hit, `next_track_id_`, `stats_` | `Update` with `GreedyMatch` and `InitiateTrack`, `Init` `Reset` `Release` `GetConfirmedTracks` | stable matching, one detection per track; reported tracks are recent; unseen ones are forgotten; `max_tracks`, `max_age` |
| `KalmanFilter3D` | state and covariance of a track | `Predict` `Update` | numeric |
| `SwingEnergyAnalyzer` (`src/safety/swing_energy_analyzer.cpp`) | per track histories, centre, last crossing, running cycle, recorded cycles, level | `UpdateTrack` `RemoveTrack` `Init` `Reset` `Release` `ShouldTriggerDamping` | histories bounded; cycles long enough and disjoint; a track's swing is its own |
| `GatewayPipeline` (`src/app/gateway_pipeline.cpp`) | all of the above, `running_`, three threads, `stats_` | `Init` `Start` `Stop` destructor, `ResultThread` with `ProcessDetectionResult`, `StatsThread` `SafetyThread` | all parts run or none; no thread uses what `Stop` released; calls return; commands only of tracks seen lately |
| `Logger`, `TimeUtil`, `GpuMemoryManager`, `GpuHealthMonitor`, `main.cpp` | little | | a line at FATAL aborts the process; the rest is input/output |

Hard behaviours: condition variables with several kinds of waiter, timed waits
racing notifications, `Stop` against threads at any place of their loops, two
threads using the FFmpeg contexts with no lock between them, failing paths that
must give a GPU context back, two readings of a clock where one was meant, and
an abort in the middle of a submission. `PROJECT.json` lists each at its line
under `hazards`.

## Modules

| module | models | composes |
|---|---|---|
| `BlockingChannel` | nothing in the code: what a closable bounded FIFO channel promises its callers, with no mutex and no wake-ups | |
| `ContextLeases` | nothing in the code: what the context pool promises, a lease manager with no threads | |
| `FrameMatcher` | nothing in the code: what the synchroniser promises, a matcher of two lines of frames with no waits and no capacities | |
| `ThreadSafeQueue` | the queue as a monitor | implements `BlockingChannel` |
| `PlcCommandManager` | the manager, its caller, the PLC's driver, the operator, the statistics thread, the clock, the logger's abort | |
| `TrtContextPool` | the pool and its clients | implements `ContextLeases` |
| `FrameSynchronizer` | the synchroniser, the two readers' pushes, the result thread, the pipeline's and its own `Stop` | implements `FrameMatcher` |
| `RtspReader` | one reader: its thread, the controlling thread, FFmpeg's outcomes | |
| `CornerSlotDetector` | the workers, their queues, the shared preprocessor, `Stop` | instance of `TrtContextPool` |
| `CornerSlotTracker` | the tracker and the results the result thread hands it | |
| `SwingEnergyAnalyzer` | the analyser, one update of a track as the code's sequence of steps | |
| `ResultProcessing` | `ProcessDetectionResult`: a result through tracker, analyser and commands; `Init` and `Stop` of both | extends `CornerSlotTracker` and `SwingEnergyAnalyzer` |
| `GatewayPipeline` | `Init`, `Start` with each failing path, `Stop`, the destructor, the pipeline's threads | extends `RtspReader`: the visible camera's reader, step by step |
| `ThreadSafeQueueProofs`, `PlcCommandManagerProofs`, `TrtContextPoolProofs`, `CornerSlotDetectorProofs`, `CornerSlotTrackerProofs`, `ResultProcessingProofs`, `GatewayPipelineProofs`, `FrameSynchronizerProofs` | theorems; those about `SwingEnergyAnalyzer` are in `ResultProcessingProofs` | extend their component; `CornerSlotDetectorProofs` instantiates `TrtContextPoolProofs` with the workers as clients |

`map` in `PROJECT.json` names the lines each definition stands for. The
conventions are the same everywhere:

- a critical section under one mutex is one action; a function is cut where it
  takes or leaves a mutex, waits, reads the clock or stores an atomic flag that
  another thread reads, so other threads run in between;
- a place inside a function is a value of `pc` (`call` in the queue, `wpc` in the
  detector); a wait is membership in a wait set, left by a notification, a
  timeout or a spurious wake-up, after which the predicate is tested again;
- frames, items and commands are identities with the few fields that decisions
  read; pixels, gains, texts and log lines are left out;
- FFmpeg, CUDA, TensorRT and `operator new` are choices among their outcomes;
- variables marked "history" are read by properties only;
- a definition preceded by "Variant:" is not part of the specification: it is the
  faulty version of the definition that follows, and each property is known
  to fail when its variant takes that definition's place.

### ThreadSafeQueue

`queue`, `running` are `queue_`, `running_`; `notEmptyWait` and `notFullWait` are the
wait sets; `call[t]` is the call thread `t` is in. `Push(t)` ... are the entries;
`Resume...(t)` is a return from a wait with the mutex held again. `notify_one` picks any
waiter. `Push` on a stopped queue, and a `Pop` that finds it stopped and
empty, end in the code's exception or `false`: the call ends. `MaxSize = 0` means
unbounded, as in the code. The README of the repository calls the queue
lock-free ("无锁设计"); it is a mutex and two condition variables, and that is what
is modelled.

`BlockingChannel` has no wait sets: a blocking call is pending until it can
complete. `ImplementsChannel` is the refinement, with the identity on `queue`,
`running` and `call`; its progress half says that a pending consumer completes
when items stay and a pending producer when room stays.

### PlcCommandManager

`SubmitCommand` is `SubmitCommand` (switches and throttle) - `Stamp` (id and second reading
of the clock) - `PushLocked` (under `queue_mutex_`) - `Record` (history, last issue
time, level) - `Notify` (callback), with `LogFatal` in the place of `Notify` for an
emergency stop. Requests are those `ShouldTriggerDamping` builds, one per safety
level. `priorityQueue` is a set ordered by `Outranks` (`operator<`): the heap leaves
equal elements in any order. `GetHighestPriorityCommand` and `AckCommand` are the
driver of the PLC, which the repository does not contain: they are the public
interface of the manager. `Reinitialise` is `Release` and `Init` of a next use, at a
moment when nobody else uses the manager. The clock does not go back.

### TrtContextPool

`phase` tells whether `Init` still holds `mutex_`; `selflocked` is its failing path
waiting for the mutex it holds. `held[c]` is the context of client `c`, a set of at
most one. `Release` is two steps because it clears `in_use` before it locks.
`freed` is what `TrtExecutionContext::Release` was called for.

`ImplementsLeases` is the refinement of `ContextLeases`: the pooled contexts as a set, `held` and `freed`
as they are, open until `shutdown_`. Waiting, timing out and the first half of `Release` are
stutters; each context is created, leased, returned or freed in the one critical section that does it. Which
context a caller gets, and that the pool is a queue, is not promised.

### FrameSynchronizer

`Drain` is one turn of the two `while (TryPop)` loops, `TrySync` the search and what
follows it under `queue_mutex_`, `Output` the `TryPush`, `CheckWait`/`Block`/`Timeout` the
`wait_for` with the gap through which `Stop`'s unlocked notification is lost. A frame
carries its `pts` and the `stamp` its reader gave it; `MaxDelay` is how much
later than the capture that may be. A turn of `Drain` takes a frame and pushes it to its deque in one step; the code has a
critical section for each, and between the two the frame is in a local variable of the sync thread, which no other thread reads.

`ImplementsMatcher` is the refinement of `FrameMatcher`: the line of a camera is its deque with its input
queue behind it, so `Drain` is a stutter unless a full deque gives up its front. The matcher
may lose a frame as it is offered, give up the front of a line and lose a pair as it is handed out, and
nothing else: a pair is within the tolerance, and no two frames in front of its own are closer.
That the pair leaves from anywhere in the line with all that is in front of it is a step of the matcher;
when it may give up a front frame is not restricted there (`StaleFramesUnmatchable` does that).

### RtspReader

One action per place where the read thread can be overtaken: allocation, loop
head, read, one turn of the decoder loop, `Reconnect` before and after its sleep.
`failure` records what ends the process: a null FFmpeg context dereferenced, or
a `std::thread` destroyed or assigned while joinable.

### CornerSlotDetector

Every worker runs `LoopHead`, `PopFrame`, `AcquireContext`, `Upload`, `Letterbox`, `Infer`,
`ReleaseContext`, `PushResult`; acquiring and releasing are actions of the pool's
instance. `resize` is `resize_buffer_` of `preprocessors_[0]`, the one every worker uses.
`Upload` and `Letterbox` are two steps because the kernels of different workers' streams
interleave. Frames come as NV12 or as YUV420P: `Process` accepts the first and refuses
the second. In the published pipeline readers produce YUV420P only
(`rtsp_reader.cpp` 338, as line 316 never holds: `output_frame` was set to `sw_frame`),
so every frame ends in "Preprocessing FAILED" there; the detector is checked for both
because `PushFrame` and the input queue are public. `Infer` ends with the kernels of its stream done. In the code that holds when
`enqueueV2` succeeds, because the stream is synchronised after it; when it fails the function returns at once, and kernels of
the preprocessing may still write to the input buffer of a context that is given back. Only `ResultFromOwnFrame`, which is violated anyway, could depend on that.

### CornerSlotTracker

`tracks` is a function from ids to `state`, `hits` (`hit_streak_`, saturated at the three that
confirm) and `since` (`time_since_update_`). `Update` is the whole handler: `Predict` on every track,
`GreedyMatch`, `Hit` or `MarkMissed`, `Started` new tracks (`InitiateTrack`, whose test of `max_tracks`
still counts the tracks about to be dropped), `Keep`, and the counts. A result is the number of
detections that pass the confidence filter and a distance for every pair of a track and a detection,
in a few steps of which one is too far; any assignment of distances is allowed, also those
no points in space have. `Sorted` is `std::sort` by distance alone: pairs of one distance
come in any order. The configuration's `n_init` and `max_trajectory_points` are read nowhere in the code and
are not constants here. A lost track that is hit again stays lost, as in `CornerSlotTrack::Update`: it takes the
detection and is never reported again, until it is unseen for more than `max_age` results.

### SwingEnergyAnalyzer

`swings` is `tracks_`, a function from the ids the analyser knows. Histories are lengths, cycles are
pairs of times. What an update computes from positions and velocities is an input, `Sight`: where
the spreader is seen, whether its kinetic energy counts, and the level its energy, speed and
amplitude amount to. The order of the steps is the code's: `PushHistory`,
`UpdateSwingCenter` (which pushes the position a second time and cuts by another limit),
`IntegrateKineticEnergy`, `DetectZeroCrossing` with `CompleteCycle` and `RecordCycle`, `EvaluateSafetyLevel`. Because
positions are pushed twice, positions and velocities of one index are of different updates; the crossing
test of the code pairs the current position with an earlier velocity, which is why a turn is
a free choice here and not computed. Time stamps are the frames': `MaxLate` bounds by how much a
result may be older than one before it.

### ResultProcessing

One action is one call of `ProcessDetectionResult`: `Update` of the tracker, `UpdateTrack` for each confirmed
track, and `commands`, the submissions that `ShouldTriggerDamping` asks for. `InitComponents` is
what `GatewayPipeline::Init` does to both parts, `ReleaseComponents` the end of `Stop`, after which ids go on. What
`SubmitCommand` makes of a command is `PlcCommandManager`. Tracks do not share any of their
swing, so the run follows the swing of the ids in `Followed`. The pipeline never calls `RemoveTrack`; it is an
action of `AnalyzerSpec`, which the theorems are about.

### GatewayPipeline

`op` and `at` are the call the controlling thread is in and its place there; `up` is `running_`, `on` the
started parts, `ready` whether `detector_` has its engine and preprocessors, `threads` the three threads. The
visible reader's `Start`, `Stop` and destructor are those of `RtspReader`, a step each, so its read thread runs in
between; the infrared reader, the synchroniser, the detector and the PLC manager are started
or not, and their `Stop` ends the threads they have, as their own modules show. `Optional` is what the
configuration enables; every `Start` of an optional part may fail where the code's can.
`NewReader` is the reader `Init` makes in the place of the last one. `starts` counts the `Start` calls since the last `Init`, of which two are
many. `main.cpp` calls `Start` only after an `Init` that succeeded, and so does the model.

Things the model shows and no document speaks of: a `Start` after a `Start` that failed once the
readers ran returns `true` on a stopped queue; a `Start` after a `Stop` always fails at the detector, whose
preprocessors are gone; `GetLatestResult` takes results from the queue of the result thread; the
`highest_safety_level` of the statistics is never set.

## Runs

| run | instance | shows |
|---|---|---|
| `queue` | 3 threads, 2 items, capacity 2 | capacity, no lost wake-up of either kind, `Stop` releases all, `WaitPop` returns, refinement of `BlockingChannel`; deadlock checked |
| `plc` | limit 1, history 3, interval 2, window 3, clock to 5, 4 requests | types with the limit on waiting commands that are not urgent, throttle, conservation, order, level |
| `pool` | 4 clients, 2 contexts | refinement of `ContextLeases`, exclusive use, no leak, no lost wake-up, `Acquire` returns, `Shutdown` frees all |
| `sync` | tolerance 1, deques 2, queues 1, clock to 3 | refinement of `FrameMatcher`, order, conservation, no pairable frame dropped as too old, matches found, `Stop` returns |
| `reader` | the pipeline with every optional part; its reader with 2 attempts, up to 2 frames a packet | every part started or none between two calls, no use of released tracks, open queues on the first `Start`, one user of the stream, every call returns |
| `detect` | 2 workers and contexts, queues of 1, 3 frames | no worker starves, frames accounted for, nothing left after `Stop` |
| `track` | 2 tracks, 2 detections, distances 0 to 2, lost after 1, forgotten after more than 2, 3 ids, of which the swing of the third is followed: 4 positions, 3 for the centre, 2 cycles, time to 3, late by 1 | limits, stable matching, reported tracks recent, unseen ones forgotten, tentative ones settled, histories bounded, cycles disjoint, swings and commands of the right tracks |
| `plc_estop`, `pool_init`, `sync_pts`, `reader_retry`, `detect_buffer` | smaller | the disagreements below |

Why the bounds are enough. Lost wake-ups need a waiter, a woken thread that
loses the race and a third that takes the item: three threads. The pool has more
clients than contexts plus one, so that two wait while two hold. Deques of
two and clocks of three already give a full deque, a dropped front, a pair not
at the front and a spin on unpairable frames; the worker protocol is symmetric, and
two workers with one slot per queue give refusal on both sides. The PLC instance
exceeds its limit, cuts its history, throttles and expires the level window.
Two tracks and two detections at three distances already compete for each other in every
order of the sort, and ids start again after `InitComponents`, which is how a swing could be inherited. There is one id more than there may be live
tracks, so that a third track at a time, which would break the limit, is within the bound (the mutant of `TypeOK` starts it), and that a track follows
one that was forgotten. Four positions fill the
history by two updates and cut it by either limit; two cycles fill the cycle history and can be compared (that a third drops the first
is beyond `MaxTime` and rests on `HistoriesBoundedInvariant`), and
a result late by one falls on, before and after a crossing. In `reader` everything is as large as in the code
but the number of attempts and of frames a packet; the second of each is the case after the first.
`MaxClock`, `MaxAsked`, `MaxLen`, `MaxFrames`, `MaxDecoded`, `MaxDetections`, `MaxId`, `MaxTime`, `Levels` and `Followed` bound the models and nothing in the
code; they are conjuncts of the guards.

`CHECK_DEADLOCK FALSE` is set where the system really stops: after an abort, a
finished `Stop`, a destroyed reader, or at the bound of the clock. The queue does not
stop, and its run checks deadlock.

### Fairness

Weak fairness only, of steps a thread takes alone once it runs: a thread woken
from a wait gets the mutex (`Resume`), a deadline passes (`Timeout`), worker, sync and read
threads run, the stopping thread runs, and a holder of a context gives it back,
because every path of `Detect` and `RunInference` ends in `ReleaseContext`. FFmpeg's calls
return because of the `stimeout` option. For the tracker it is that results keep coming. `PipelineFairness` has the controlling thread go on inside
a call, the read thread and the three threads of the pipeline run: every wait of theirs has a timeout of a second or less. Nobody is obliged to call `Stop`, to
push, to take a result or to submit. No strong fairness is assumed: which waiter a
`notify_one` wakes, and which of several threads gets the mutex, is not fair, so
`Push` and `Pop` of one given thread are not claimed to return while the queue
runs, only that some pending call completes.

### Where code and documents disagree

Each is a run that TLC ends with a counterexample.

- `plc_estop`: the emergency stop is logged with `LOG_FATAL`, which aborts the process
  before the command's callback (`plc_command_manager.cpp` 125, `logger.cpp` 37); `main.cpp`
  203-207 registers a callback to report it, which is never called with an emergency stop.
- `pool_init`: when a context cannot be created `Init` calls `Shutdown` with `mutex_` held and
  waits for itself (`trt_engine.cpp` 275-281, 294); its caller expects `false`.
- `sync_pts`: frames are paired by arrival, not by PTS as README line 11 says.
- `reader_retry`: after a failed reconnection `av_read_frame` gets a null context
  (`rtsp_reader.cpp` 253, 388-396), so there is never a second attempt.
- `detect_buffer`: all workers use the first preprocessor and its one buffer
  (`corner_slot_detector.cpp` 148-157), against the comment at `trt_engine.cpp` 457.

## Proofs

For every value of the constants that satisfies the named assumptions (finite
threads and clients, natural bounds, and what a theorem below adds), from the specification
without fairness:

- `ThreadSafeQueueProofs`: `TypeInvariant`; `NobodyWaitsOnStoppedInvariant`;
  `CapacityInvariant`; `NoLostConsumerWakeupInvariant` and `NoLostProducerWakeupInvariant`. These two
  are inductive together with the type invariant and the emptiness of the
  wait sets of a stopped queue: a step that adds an item also wakes a waiter or finds none,
  and a woken thread that leaves empty-handed leaves with the queue empty. `StepCases`
  sorts the steps of `Next` by what they do to the queue, so the argument is made once
  per kind of step. `ImplementsChannelSafely` is the safety half of the refinement.
- `PlcCommandManagerProofs`: `PlcTypeInvariant`, which bounds the waiting commands that are not
  urgent (`BacklogBounded`: a push adds one only below the limit; `TakeBounded`: taking adds none);
  `CommandsConservedInvariant`, which needs that ids
  in the queue are below the next one (`IdsFreshInvariant`), or a push might not
  enlarge the set; `ThrottleSpacingInvariant`, whose inductive form says that the stored
  last issue time is at least every stamp of that type in the history and
  that the command under way was checked against it. `HistoryUpdated` describes the cut of the history.
  `LevelNotUnderstatedInvariant` rests on a fact of the code that is easy to miss (`NothingAfterStop`): a recorded emergency stop
  is the last thing the result thread does, so the level is never the one that `ClearEmergency` resets.
  `TakenInIssueOrderInvariant` assumes `MinInterval > 0`: the heap compares time stamps, which rise with the ids of one priority
  (`QueueOrder`) because each priority has one type and the throttle keeps its stamps apart.
- `TrtContextPoolProofs`: `PoolTypeInvariant`; `ExclusiveUseInvariant`,
  `HeldContextsLiveInvariant` and `NoContextLostInvariant` from one inductive invariant `IInv`:
  a client holds exactly one context between `Acquire` and the end of `Release` and none otherwise,
  and until `Init` returns nobody holds any and the pool's contexts are numbered below
  its length. `TailOfPool` and `AppendToPool` say what popping and pushing do to
  the set of pooled contexts. `NoLostWakeupInvariant` adds that nobody waits for a pool that is not ready or
  shut down: a context that comes back wakes a waiter, and a woken thread that leaves empty-handed leaves an empty pool.
  `PoolImplementsLeases` is the refinement, one lemma per step that moves a context (`InitCreates`, `AcquireLeases`,
  `ReleaseReturns`); the rest stutters. The steps of the invariants are lemmas of their own (`TypeStep`, `ContextsStep`), which the detector's proofs cite.
- `CornerSlotDetectorProofs`, for any number of workers and frames: `NoWorkerStarvesInvariant`, `FramesAccountedInvariant`,
  `StoppedDetectorHoldsNothingInvariant` and `DetectorUsesPool` from one inductive invariant, `DetInv`: the types, that a worker's place
  in `Detect` tells whether it has a context and that none waits for one (`Linked`), that the pool is up until the end of `Stop`, which the workers' ends precede
  (`EngineUp`, `Joined`), and the pool's own `IInv`. The last is taken over and not proved again: every step of the detector is a step of the pool's
  instance or leaves its variables alone (`PoolStep`), so the pool's step lemmas apply, once the pool's assumptions are shown of the workers (`PoolAssumptions`).
  No worker starves by a pigeonhole argument: there are as many contexts as workers, each worker holds at most one, and
  one that is about to acquire holds none, so the pool is not empty (`OneIsLeft`, with `PoolFacts`).
  `DetectorUsesPool` says that the detector does nothing to the pool but the pool's own steps, and that exclusive use and
  the account of contexts hold in it.
- `CornerSlotTrackerProofs`: `TrackerTypeInvariant`, with the limit on tracks (`StartedFits`, `MovedTracks`: a
  result never starts more than there is room for before anything is dropped), that no live track has the next
  id, and the ages; `ReportedTracksFreshInvariant`. Both hold whatever pairs are matched.
  `MatchStableInvariant` is about what `GreedyMatch` returns, for any number of tracks and detections and any distances and order of ties: the fold over the sorted pairs
  is a walk with one `Take` per pair (`GreedyWalk`: the recursion equation of the fold has a solution), the walk
  keeps that each pair passed over met a taken one at least as close (`GreedyStable`). Both are inductions on the length of
  the walk; the library's induction theorem takes an operator, so `NatSetInduction` proves induction over a set
  of naturals from the well-foundedness of `<`.
- `ResultProcessingProofs`, first about `AnalyzerSpec`, with any set of tracks in a result and `RemoveTrack`:
  `HistoriesBoundedInvariant` and `CyclesInOrderInvariant`. The inductive invariant (`Timed`) says of each track that its
  recorded cycles end no later than the running one starts, and that the last crossing lies before that start by
  no more than a result can be late. It needs `LatenessAssumption`, that a result is late by at most the shortest gap
  between two crossings: a clock set back, or workers that overtake each other by more, could make
  recorded cycles overlap.
  Then about `ResultProcessing`: `ComponentsImplemented`, that a run of `ResultProcessing` is one of the tracker and of the
  analyser, with which their theorems carry over; `SwingsOfOwnTracksInvariant`;
  `CommandsOfFreshTracksInvariant`.
- `GatewayPipelineProofs`, for any enabled parts, attempts and frames: `PipelineTypeInvariant`, `AllOrNothingInvariant`,
  `NoUseAfterReleaseInvariant`, `OpenOnFirstStartInvariant` and `StreamUsers` from one inductive invariant, `PInv`. It says
  at which places a call can be (`ControlInv`), what is started at each place (`StartedInv`), which threads
  exist there (`ThreadsInv`), that a detector whose tracks were released is empty (`ReleasedInv`, the reason why no
  thread is started on released tracks), when the queues are open (`QueuesInv`), and of the reader that
  its thread is in the loop exactly while the flag is up or `Stop` waits for it (`ReaderInv`). The reader's
  part is proved once for anything the pipeline may do to it (`ReaderMoves`, `ReaderTyped`, `ReaderKept`), the rest
  one action at a time, from the action's effect.
- `FrameSynchronizerProofs`, for any tolerance, capacities and delay: `SyncTypeInvariant`, `FramesConservedInvariant`,
  `PairsInOrderInvariant` and `StaleFramesInvariant` from one inductive invariant, `SyncInv`. For each camera it puts the
  stamps of the last pair, the deque, the input queue and the last frame in one rising line (`CameraInv`; `Between` says
  that a run of frames lies in an interval of it), and keeps the last pair and the output queue in step (`OutputInv`). `BestProperties` says that the
  closest pair exists and is closest, by the least element of a set of naturals; from it `DropFrontKeeps` concludes that the
  front frame that is dropped was out of tolerance of the other front, and so of everything later (`StaleInv`).
  `SyncImplementsMatcher` is the refinement. It needs what concatenation does to a line (`LineGrows`, `LineDrained`,
  `LineShortened`), `BestProperties` for the pair, and that the clock keeps its bound (`ClockInvariant`). `PairsCloseInvariant`, that each pair the result thread
  gets is within the tolerance by the stamps of arrival (`sync_pts` shows that by PTS it need not be), is proved of the matcher's steps
  alone (`MatcherKeepsClose`) and holds of the synchroniser by the refinement.

Every safety property of a passing run has its theorem; three more (`TypeInvariant` of the queue, `PoolTypeInvariant`, `SyncTypeInvariant`) hold the types of modules whose runs
check the capacity or a refinement instead. Only model-checked: all liveness (`CallersReturn`, `AcquireReturns`, `ShutdownFreesAll`, `StopTerminates`,
`MatchesLeaveDeques`, `CallsReturn`, `TracksSettle`) and the progress half of `ImplementsChannel`, because TLAPS does not reason
about `ENABLED`; and the counterexamples of the five runs that find one.

## Not modelled

- the arithmetic: Kalman filter, energies and levels from positions, the geometry of a zero crossing,
  CUDA kernels, the decoding of the network's output, non-maximum suppression, 3D conversion;
- loading and deserialising an engine, GPU memory wrappers and health
  monitor, the main program's command line and configuration, build files: input/output with no protocol;
- data races of the statistics fields and of the analyser's vectors between the result
  and safety threads: listed as hazards;
- the system clock going back (`NowMicros` reads `system_clock`), except for results that are late;
- in `GatewayPipeline`, the steps inside the parts other than the visible reader: their modules have them.

## Plan

Done in this order: queue and its abstract channel, PLC commands, context pool,
synchroniser, reader, detector over the pool, tracker; analyser, result processing, pipeline over the reader;
proofs of every safety property; abstract specifications of the pool and of the synchroniser with proved refinements.

Next:

1. Action properties of the tracker and the PLC manager that say what an identity may become: an id is not given
   out twice between two `Init`, a command leaves the queue only by being taken.
2. The queues inside the detector and the pipeline as instances of `BlockingChannel`, so that their steps are shown to be the channel's.
