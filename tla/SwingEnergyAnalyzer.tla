------------------------- MODULE SwingEnergyAnalyzer -------------------------
(***************************************************************************)
(* SwingEnergyAnalyzer: what is known of the swing of each track.  Every   *)
(* result of the detector updates the tracks it reports: the histories of  *)
(* positions and velocities, the centre of the swing, the energy of the    *)
(* running cycle, the zero crossing that ends it, and the safety level.    *)
(* Vectors and energies are left out: an update says where the spreader    *)
(* is seen and which level its energy, speed and amplitude amount to.      *)
(***************************************************************************)
EXTENDS Integers, Sequences

CONSTANTS MaxHist,   \* the 200 of UpdateTrack
          MaxCalib,  \* the 60 of UpdateSwingCenter
          CalibAt,   \* its 30: positions that make a centre
          MinGap,    \* 0.8 min_cycle_period_s: a shorter gap is noise
          MaxGap,    \* 2 max_cycle_period_s: a longer one ends no cycle
          MinPeriod, \* 0.5 min_cycle_period_s
          MaxCycles, \* config_.max_history_cycles
          Levels,    \* the levels that occur, SAFE and some of the others
          MaxLate,   \* by how much a result may be older than one before it
          MaxTime    \* bound of the model: time stamps

ASSUME AnalyzerAssumption ==
  /\ MaxHist \in Nat /\ MaxCalib \in 0..MaxHist /\ CalibAt \in Nat
  /\ MinGap \in Nat /\ MaxGap \in Nat /\ MinPeriod \in Nat \ {0}
  /\ MaxCycles \in Nat /\ MaxTime \in Nat
  /\ "SAFE" \in Levels /\ Levels \subseteq {"SAFE", "WARNING", "DANGER", "CRITICAL"}

\* Workers overtake each other by no more than the shortest gap between crossings.
ASSUME LatenessAssumption == MaxLate \in 0..MinGap

VARIABLES swings, \* tracks_: a function from the ids of the tracks it knows
          newest  \* the newest time stamp that a result had

analyzerVars == <<swings, newest>>

Swing == [positions  : Nat,     \* length of position_history
          velocities : Nat,     \* of velocity_history and timestamp_history
          calibrated : BOOLEAN, \* center_calibrated
          lastCross  : Nat,     \* last_zero_cross_time_us, 0 before the first
          start      : Nat,     \* cycle_start_us
          charged    : BOOLEAN, \* cycle_integral_j is at least the code's 1e-6
          cycles     : Seq(Nat \X Nat), \* cycle_history: start and end of each
          counter    : Nat,     \* cycle_counter
          level      : Levels]  \* safety_level

NewSwing == [positions |-> 0, velocities |-> 0, calibrated |-> FALSE,
             lastCross |-> 0, start |-> 0, charged |-> FALSE,
             cycles |-> <<>>, counter |-> 0, level |-> "SAFE"]

\* What one update sees: the spreader at the centre of its swing, away from it,
\* or away and moving outwards after it moved inwards; whether its energy counts
\* in the integral; the level its energy, speed and amplitude amount to.
Sight == [place : {"centre", "away", "turned"}, energetic : BOOLEAN, level : Levels]

AnalyzerInit == swings = <<>> /\ newest = 1
-----------------------------------------------------------------------------
(* One update of one track, in the order of UpdateTrack.                   *)

\* The position and the velocity are kept; beyond the limit the oldest go.
PushHistory(t) ==
  IF t.positions < MaxHist
    THEN [t EXCEPT !.positions = @ + 1, !.velocities = @ + 1]
    ELSE t

\* Variant: the position is kept a second time and none goes.
UpdateSwingCenterUncut(t) ==
  [t EXCEPT !.positions = @ + 1, !.calibrated = @ \/ t.positions + 1 >= CalibAt]

\* The position is kept a second time; beyond a lower limit the oldest goes.
UpdateSwingCenter(t) ==
  LET kept == IF t.positions < MaxCalib THEN t.positions + 1 ELSE t.positions
  IN  [t EXCEPT !.positions = kept, !.calibrated = @ \/ kept >= CalibAt]

IntegrateKineticEnergy(t, sight) == [t EXCEPT !.charged = @ \/ sight.energetic]

RecordCycle(t, ts) ==
  LET all == Append(t.cycles, <<t.start, ts>>)
  IN  [t EXCEPT !.cycles  = IF Len(all) > MaxCycles THEN Tail(all) ELSE all,
                !.counter = @ + 1, !.start = ts, !.charged = FALSE]

\* A cycle without energy starts anew; one that is too short goes on.
CompleteCycle(t, ts) ==
  IF t.start = 0 \/ ~t.charged THEN [t EXCEPT !.start = ts, !.charged = FALSE]
  ELSE IF ts - t.start < MinPeriod THEN t
  ELSE RecordCycle(t, ts)

\* Variant: a noise crossing completes the cycle as well.
DetectZeroCrossingInNoise(t, sight, ts) ==
  IF ~t.calibrated \/ sight.place = "centre" THEN t
  ELSE IF t.lastCross = 0 THEN [t EXCEPT !.lastCross = ts, !.start = ts, !.charged = FALSE]
  ELSE IF sight.place = "turned" /\ t.velocities >= 2
    THEN [CompleteCycle(t, ts) EXCEPT !.lastCross = ts]
  ELSE t

\* The first update away from a known centre starts a cycle.  After that each
\* turn is a crossing: it may complete the cycle, and whether or not it does,
\* the gap to the next one is measured from here.
DetectZeroCrossing(t, sight, ts) ==
  IF ~t.calibrated \/ sight.place = "centre" THEN t
  ELSE IF t.lastCross = 0 THEN [t EXCEPT !.lastCross = ts, !.start = ts, !.charged = FALSE]
  ELSE IF sight.place = "turned" /\ t.velocities >= 2
    THEN LET done == IF ts - t.lastCross \in MinGap..MaxGap THEN CompleteCycle(t, ts) ELSE t
         IN  [done EXCEPT !.lastCross = ts]
  ELSE t

\* Energy, speed and amplitude of this update; the level that CompleteCycle
\* gives the track is overwritten here.
EvaluateSafetyLevel(t, sight) == [t EXCEPT !.level = sight.level]

Updated(t, sight, ts) ==
  LET seen == IntegrateKineticEnergy(UpdateSwingCenter(PushHistory(t)), sight)
  IN  EvaluateSafetyLevel(DetectZeroCrossing(seen, sight, ts), sight)
-----------------------------------------------------------------------------
(* The operations.                                                         *)

GetOrCreateTrack(id) == IF id \in DOMAIN swings THEN swings[id] ELSE NewSwing

\* Frames are stamped by the readers, and two workers may finish them in either
\* order, so a result may be older than the one before it.
Stamps == {ts \in 1..MaxTime : ts >= newest - MaxLate}

\* UpdateTrack for each reported track of one result.
UpdateTracks(ids, ts) ==
  /\ \E sights \in [ids -> Sight] :
       swings' = [id \in DOMAIN swings \cup ids |->
                    IF id \in ids THEN Updated(GetOrCreateTrack(id), sights[id], ts)
                                  ELSE swings[id]]
  /\ newest' = IF ts > newest THEN ts ELSE newest

RemoveTrack(id) ==
  /\ swings' = [x \in DOMAIN swings \ {id} |-> swings[x]]
  /\ UNCHANGED newest

\* Init, Release and Reset.
ReleaseSwings == swings' = <<>> /\ UNCHANGED newest

\* ShouldTriggerDamping: SAFE asks for nothing.
ShouldTriggerDamping(id) == id \in DOMAIN swings /\ swings[id].level # "SAFE"

AnalyzerNext ==
  \/ \E ids \in SUBSET Nat, ts \in Stamps : UpdateTracks(ids, ts)
  \/ \E id \in DOMAIN swings : RemoveTrack(id)
  \/ ReleaseSwings

AnalyzerSpec == AnalyzerInit /\ [][AnalyzerNext]_analyzerVars
-----------------------------------------------------------------------------
(* Properties.                                                             *)

\* The histories are cut in two places and by two limits, one of which looks at
\* the positions only (UpdateTrack, UpdateSwingCenter): all of them stay within
\* the larger limit, and there are never more velocities than positions.
HistoriesBounded ==
  \A id \in DOMAIN swings :
    /\ swings[id].velocities <= swings[id].positions
    /\ swings[id].positions <= MaxHist
    /\ Len(swings[id].cycles) <= MaxCycles

\* The recorded cycles last at least MinPeriod and do not overlap, though late
\* results and noise set the time of the last crossing back (DetectZeroCrossing).
CyclesInOrder ==
  \A id \in DOMAIN swings :
    LET cycles == swings[id].cycles
    IN  /\ \A i \in 1..Len(cycles) : cycles[i][2] - cycles[i][1] >= MinPeriod
        /\ \A i, j \in 1..Len(cycles) : i < j => cycles[i][2] <= cycles[j][1]
=============================================================================
