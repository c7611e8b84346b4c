-------------------------- MODULE FrameSynchronizer --------------------------
(***************************************************************************)
(* FrameSynchronizer: its thread drains the visible and the infrared input *)
(* queue into two deques, pairs the two frames whose time stamps are       *)
(* closest, and hands the pair to an output queue.  Around it: the two     *)
(* readers that stamp and push frames, the result thread that takes pairs, *)
(* and the thread that calls Stop.  Time is a counter; one tick is the     *)
(* resolution of the tolerance.                                            *)
(***************************************************************************)
EXTENDS Integers, Sequences, FiniteSets

CONSTANTS MaxDiff,    \* config_.max_timestamp_diff_us, in ticks
          MaxQueue,   \* config_.max_queue_size
          InputSize,  \* capacity of visible_queue_ and infrared_queue_ of the pipeline
          OutputSize, \* capacity of the output queue
          MaxDelay,   \* ticks from the capture of a frame (its PTS) to its stamp
          MaxClock    \* bound of the model: no frame is stamped later

ASSUME SyncAssumption ==
  /\ MaxDiff \in Nat /\ MaxQueue \in Nat \ {0}
  /\ InputSize \in Nat \ {0} /\ OutputSize \in Nat \ {0}
  /\ MaxDelay \in Nat /\ MaxClock \in Nat

Cameras == {"visible", "infrared"}
Other(cam) == IF cam = "visible" THEN "infrared" ELSE "visible"

VARIABLES clock,     \* TimeUtil::NowMicros()
          last,      \* per camera, the last frame its reader stamped
          input,     \* per camera, its input queue
          deque,     \* per camera, visible_queue_ or infrared_queue_
          output,    \* the output queue
          open,      \* the input and output queues are running
          running,   \* running_
          pc,        \* where the sync thread is in SyncLoop
          synced,    \* the pair TrySync returned, as a set
          stopPc,    \* where the thread that calls Stop is
          syncCount, \* sync_count_
          dropCount, \* drop_count_
          drained,   \* history: frames moved from the inputs to the deques
          lastPair,  \* history: per camera, the frame of the last pair
          stale      \* history: per camera, the frames dropped as too old

stopVars == <<running, open, stopPc>>
countVars == <<syncCount, dropCount, drained, lastPair, stale>>
vars == <<clock, last, input, deque, output, pc, synced, stopVars, countVars>>

NoFrame == [pts |-> -1, stamp |-> -1]

Init ==
  /\ clock = 0
  /\ last = [c \in Cameras |-> NoFrame]
  /\ input = [c \in Cameras |-> <<>>]
  /\ deque = [c \in Cameras |-> <<>>]
  /\ output = <<>> /\ open = TRUE
  /\ running = TRUE /\ stopPc = "running"
  /\ pc = "drain visible" /\ synced = {}
  /\ syncCount = 0 /\ dropCount = 0 /\ drained = 0
  /\ lastPair = [c \in Cameras |-> NoFrame]
  /\ stale = [c \in Cameras |-> {}]
-----------------------------------------------------------------------------
(* The readers and the consumer.                                           *)

Tick ==
  /\ clock < MaxClock
  /\ clock' = clock + 1
  /\ UNCHANGED <<last, input, deque, output, pc, synced, stopVars, countVars>>

\* A reader decodes a frame, stamps it with the current time and calls TryPush
\* on the input queue; a full or stopped queue loses the frame.
PushInput(cam) ==
  /\ last[cam].stamp < clock
  /\ \E pts \in (clock - MaxDelay)..clock :
       /\ pts > last[cam].pts
       /\ LET f == [pts |-> pts, stamp |-> clock] IN
            /\ last' = [last EXCEPT ![cam] = f]
            /\ input' = IF open /\ Len(input[cam]) < InputSize
                        THEN [input EXCEPT ![cam] = Append(@, f)] ELSE input
  /\ UNCHANGED <<clock, deque, output, pc, synced, stopVars, countVars>>

\* The result thread takes the next pair.
TakePair ==
  /\ output # <<>>
  /\ output' = Tail(output)
  /\ UNCHANGED <<clock, last, input, deque, pc, synced, stopVars, countVars>>
-----------------------------------------------------------------------------
(* SyncLoop.                                                               *)

\* Variant: the frame that makes room is not counted.
PushFrameUncounted(cam, f) ==
  /\ deque' = [deque EXCEPT ![cam] = Append(IF Len(@) >= MaxQueue THEN Tail(@) ELSE @, f)]
  /\ UNCHANGED dropCount

\* PushVisibleFrame and PushInfraredFrame: the oldest frame makes room.
PushFrame(cam, f) ==
  LET full == Len(deque[cam]) >= MaxQueue IN
  /\ deque' = [deque EXCEPT ![cam] = Append(IF full THEN Tail(@) ELSE @, f)]
  /\ dropCount' = IF full THEN dropCount + 1 ELSE dropCount

\* One turn of while (TryPop) Push...: TryPop works on a stopped queue too.
Drain(cam) ==
  /\ pc = IF cam = "visible" THEN "drain visible" ELSE "drain infrared"
  /\ IF input[cam] # <<>>
     THEN /\ PushFrame(cam, Head(input[cam]))
          /\ input' = [input EXCEPT ![cam] = Tail(@)]
          /\ drained' = drained + 1
          /\ UNCHANGED pc
     ELSE /\ pc' = IF cam = "visible" THEN "drain infrared" ELSE "try sync"
          /\ UNCHANGED <<deque, dropCount, input, drained>>
  /\ UNCHANGED <<clock, last, output, synced, stopVars, syncCount, lastPair, stale>>

Distance(f, g) == IF f.stamp >= g.stamp THEN f.stamp - g.stamp ELSE g.stamp - f.stamp

Positions == (DOMAIN deque["visible"]) \X (DOMAIN deque["infrared"])
DistanceAt(p) == Distance(deque["visible"][p[1]], deque["infrared"][p[2]])

\* Variant: only the newest frames of the two cameras are compared.
BestNewest == <<Len(deque["visible"]), Len(deque["infrared"])>>

\* Variant: the scan forgets the smallest difference; the last pair in tolerance wins.
BestLast ==
  LET close == {p \in Positions : DistanceAt(p) <= MaxDiff}
      from == IF close = {} THEN Positions ELSE close IN
  CHOOSE p \in from : \A q \in from : q[1] < p[1] \/ (q[1] = p[1] /\ q[2] <= p[2])

\* The closest pair; the scan keeps the first of equals, infrared innermost.
Best == CHOOSE p \in Positions : \A q \in Positions :
          \/ DistanceAt(p) < DistanceAt(q)
          \/ /\ DistanceAt(p) = DistanceAt(q)
             /\ p[1] < q[1] \/ (p[1] = q[1] /\ p[2] <= q[2])

\* Variant: the front of a deque more than half full is dropped whichever is older.
TooOldWhenHalfFull(cam) == Len(deque[cam]) > MaxQueue \div 2

\* A front frame older than the other front, in a deque more than half full.
TooOld(cam) ==
  /\ Len(deque[cam]) > MaxQueue \div 2
  /\ Head(deque[cam]).stamp < Head(deque[Other(cam)]).stamp

DropFront(cam) ==
  /\ deque' = [deque EXCEPT ![cam] = Tail(@)]
  /\ dropCount' = dropCount + 1
  /\ stale' = [stale EXCEPT ![cam] = @ \cup {Head(deque[cam])}]

\* Variant: the two frames leave their deques, those in front of them stay.
PairKeepingOlder(p) ==
  LET at == [c \in Cameras |-> IF c = "visible" THEN p[1] ELSE p[2]] IN
  /\ deque' = [c \in Cameras |-> SubSeq(deque[c], 1, at[c] - 1)
                                   \o SubSeq(deque[c], at[c] + 1, Len(deque[c]))]
  /\ syncCount' = syncCount + 1
  /\ lastPair' = [c \in Cameras |-> deque[c][at[c]]]
  /\ synced' = {lastPair'}
  /\ UNCHANGED dropCount

\* The pair leaves the deques with everything in front of it.
Pair(p) ==
  LET at == [c \in Cameras |-> IF c = "visible" THEN p[1] ELSE p[2]] IN
  /\ deque' = [c \in Cameras |-> SubSeq(deque[c], at[c] + 1, Len(deque[c]))]
  /\ dropCount' = dropCount + (p[1] - 1) + (p[2] - 1)
  /\ syncCount' = syncCount + 1
  /\ lastPair' = [c \in Cameras |-> deque[c][at[c]]]
  /\ synced' = {lastPair'}

NoPair == UNCHANGED <<synced, syncCount, lastPair>>

TrySync ==
  /\ pc = "try sync"
  /\ \/ /\ Positions = {}
        /\ pc' = "check" /\ NoPair
        /\ UNCHANGED <<deque, dropCount, stale>>
     \/ /\ Positions # {} /\ DistanceAt(Best) > MaxDiff
        /\ pc' = "check" /\ NoPair
        /\ \/ \E cam \in Cameras : TooOld(cam) /\ DropFront(cam)
           \/ /\ ~\E cam \in Cameras : TooOld(cam)
              /\ UNCHANGED <<deque, dropCount, stale>>
     \/ /\ Positions # {} /\ DistanceAt(Best) <= MaxDiff
        /\ pc' = "output" /\ Pair(Best)
        /\ UNCHANGED stale
  /\ UNCHANGED <<clock, last, input, output, stopVars, drained>>

LoopHead == IF running THEN "drain visible" ELSE "done"

\* TryPush on the output queue; a full or stopped queue loses the pair.
Output ==
  /\ pc = "output"
  /\ \E pair \in synced :
       output' = IF open /\ Len(output) < OutputSize THEN Append(output, pair) ELSE output
  /\ synced' = {}
  /\ pc' = LoopHead
  /\ UNCHANGED <<clock, last, input, deque, stopVars, countVars>>

\* wait_for evaluates its predicate with queue_mutex_ held...
CheckWait ==
  /\ pc = "check"
  /\ pc' = IF ~running \/ Positions # {} THEN LoopHead ELSE "block"
  /\ UNCHANGED <<clock, last, input, deque, output, synced, stopVars, countVars>>

\* ... and then blocks.  Stop does not take queue_mutex_, so its store and its
\* notification may fall in between.
Block ==
  /\ pc = "block"
  /\ pc' = "wait"
  /\ UNCHANGED <<clock, last, input, deque, output, synced, stopVars, countVars>>

\* Variant: wait() in place of wait_for(): there is no timeout.
TimeoutNever == pc = "wait" /\ UNCHANGED vars

\* sync_timeout_ms: the loop goes on whatever the predicate says.
Timeout ==
  /\ pc = "wait"
  /\ pc' = LoopHead
  /\ UNCHANGED <<clock, last, input, deque, output, synced, stopVars, countVars>>

SyncStep == \/ \E cam \in Cameras : Drain(cam)
            \/ TrySync \/ Output \/ CheckWait \/ Block
-----------------------------------------------------------------------------
(* GatewayPipeline::Stop stops the queues first; then FrameSynchronizer's. *)

StopQueues ==
  /\ stopPc = "running"
  /\ open' = FALSE
  /\ stopPc' = "queues"
  /\ UNCHANGED <<clock, last, input, deque, output, running, pc, synced, countVars>>

StopFlag ==
  /\ stopPc = "queues"
  /\ running' = FALSE
  /\ stopPc' = "flag"
  /\ UNCHANGED <<clock, last, input, deque, output, open, pc, synced, countVars>>

StopNotify ==
  /\ stopPc = "flag"
  /\ pc' = IF pc = "wait" THEN "check" ELSE pc
  /\ stopPc' = "join"
  /\ UNCHANGED <<clock, last, input, deque, output, running, open, synced, countVars>>

StopJoin ==
  /\ stopPc = "join" /\ pc = "done"
  /\ stopPc' = "stopped"
  /\ UNCHANGED <<clock, last, input, deque, output, running, open, pc, synced, countVars>>

StopStep == StopFlag \/ StopNotify \/ StopJoin

Next ==
  \/ Tick
  \/ \E cam \in Cameras : PushInput(cam)
  \/ TakePair
  \/ SyncStep \/ Timeout
  \/ StopQueues \/ StopStep

\* The sync thread and the stopping thread run, and the timeout passes.
Fairness == WF_vars(SyncStep) /\ WF_vars(Timeout) /\ WF_vars(StopStep)

SafeSpec == Init /\ [][Next]_vars
Spec == SafeSpec /\ Fairness
-----------------------------------------------------------------------------
Frames == [pts : Int, stamp : Int]
Pairs == [Cameras -> Frames]

\* Every variable has its type, and no deque or queue is over its limit.
TypeOK ==
  /\ clock \in Nat /\ last \in [Cameras -> Frames]
  /\ input \in [Cameras -> Seq(Frames)] /\ deque \in [Cameras -> Seq(Frames)]
  /\ \A c \in Cameras : Len(input[c]) <= InputSize /\ Len(deque[c]) <= MaxQueue
  /\ output \in Seq(Pairs) /\ Len(output) <= OutputSize
  /\ open \in BOOLEAN /\ running \in BOOLEAN
  /\ pc \in {"drain visible", "drain infrared", "try sync", "output", "check", "block",
             "wait", "done"}
  /\ synced \subseteq Pairs
  /\ stopPc \in {"running", "queues", "flag", "join", "stopped"}
  /\ syncCount \in Nat /\ dropCount \in Nat /\ drained \in Nat
  /\ lastPair \in Pairs
  /\ stale \in [Cameras -> SUBSET Frames]

Increasing(s) == \A i, j \in DOMAIN s : i < j => s[i].stamp < s[j].stamp

\* Pairs come out in time order on both cameras and no frame is used twice: the
\* frames still held are newer than those of the last pair and in order, through
\* full queues, dropped fronts and frames skipped for a closer match.
PairsInOrder ==
  /\ \A c \in Cameras : /\ Increasing(deque[c] \o input[c])
                        /\ \A i \in DOMAIN deque[c] : deque[c][i].stamp > lastPair[c].stamp
  /\ \A c \in Cameras : Increasing([i \in DOMAIN output |-> output[i][c]])
  /\ \A i \in DOMAIN output : \A p \in synced, c \in Cameras :
       output[i][c].stamp < p[c].stamp

\* Every frame drained is held, counted as dropped or in one counted pair.
FramesConserved ==
  drained = Len(deque["visible"]) + Len(deque["infrared"]) + dropCount + 2 * syncCount

\* A frame dropped as too old could never have been paired: every frame of the
\* other camera that is held or still to come is out of its tolerance.
StaleFramesUnmatchable ==
  \A c \in Cameras : \A f \in stale[c] :
    \A s \in {deque[Other(c)], input[Other(c)]} : \A i \in DOMAIN s :
      Distance(f, s[i]) > MaxDiff

\* A deque with its input queue behind it is one line of frames, out of which the
\* thread makes pairs as a matcher without capacities or waits may: a pair is within
\* the tolerance, what it passes over is no closer, and a frame leaves the line only
\* from its front, through full deques, dropped fronts, lost pairs and Stop.
Matcher == INSTANCE FrameMatcher WITH
             Frames <- [pts : (-MaxDelay)..MaxClock, stamp : 0..MaxClock],
             newest <- last, held <- [c \in Cameras |-> deque[c] \o input[c]],
             made <- synced, ready <- output
ImplementsMatcher == Matcher!SafeSpec

\* Stop joins the sync thread, wherever it is when the flag is cleared: the
\* notification may be lost, the timeout is not.
StopTerminates == stopPc = "flag" ~> stopPc = "stopped"

MatchHeld == \E p \in Positions : DistanceAt(p) <= MaxDiff
\* Two frames within the tolerance do not stay in the deques side by side while the
\* thread runs, wherever in the deques they are and whatever waits or is dropped.
MatchesLeaveDeques == MatchHeld ~> ~MatchHeld \/ pc = "done"

\* README line 11 promises strict alignment of the frames' PTS in microseconds:
\* the frames of a pair were captured within the tolerance.
PairsAlignedByPts ==
  \A p \in synced : LET a == p["visible"].pts  b == p["infrared"].pts IN
    a - b <= MaxDiff /\ b - a <= MaxDiff
=============================================================================
