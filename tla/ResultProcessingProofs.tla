----------------------- MODULE ResultProcessingProofs -----------------------
(***************************************************************************)
(* Proofs about the energy analyser, for any limits and periods and for    *)
(* results that are late by no more than the shortest gap, and about       *)
(* ResultProcessing: each component keeps its specification when the       *)
(* result thread drives it, so what is proved of the tracker and of the    *)
(* analyser holds here, and what relates the two is proved.                *)
(***************************************************************************)
EXTENDS ResultProcessing, CornerSlotTrackerProofs

(* SwingEnergyAnalyzer.                                                    *)

Cycle == Nat \X Nat

\* Cycles that are long enough, one after the other, and over by start.
Ordered(cycles, start) ==
  /\ \A i \in 1..Len(cycles) : cycles[i][2] - cycles[i][1] >= MinPeriod /\ cycles[i][2] <= start
  /\ \A i, j \in 1..Len(cycles) : i < j => cycles[i][2] <= cycles[j][1]

\* The cycle that runs is newer than the recorded ones, and the last crossing is
\* older than its start by no more than a result can be late.
Timed(t, now) ==
  /\ t \in Swing
  /\ t.velocities <= t.positions /\ t.positions <= MaxHist
  /\ Len(t.cycles) <= MaxCycles /\ Ordered(t.cycles, t.start)
  /\ t.start <= now /\ t.lastCross <= now
  /\ t.lastCross >= t.start - MaxLate
  /\ t.lastCross = 0 => t.start = 0

AnalyzerInv ==
  /\ newest \in Nat \ {0}
  /\ \A id \in DOMAIN swings : Timed(swings[id], newest)

\* Another cycle, and the oldest one forgotten.
LEMMA AppendedOrdered ==
  ASSUME NEW c \in Seq(Cycle), NEW start \in Nat, NEW ts \in Nat,
         Ordered(c, start), ts - start >= MinPeriod
  PROVE  /\ Append(c, <<start, ts>>) \in Seq(Cycle)
         /\ Len(Append(c, <<start, ts>>)) = Len(c) + 1
         /\ Ordered(Append(c, <<start, ts>>), ts)
<1> DEFINE new == <<start, ts>>
           all == Append(c, new)
<1>1. new \in Cycle /\ new[1] = start /\ new[2] = ts
  BY DEF Cycle
<1>2. /\ all \in Seq(Cycle) /\ Len(all) = Len(c) + 1 /\ Len(c) \in Nat
      /\ \A i \in 1..Len(c) : all[i] = c[i]
      /\ all[Len(c) + 1] = new
  BY <1>1, AppendProperties, LenProperties
<1>3. \A i \in 1..Len(c) : c[i] \in Cycle /\ c[i][1] \in Nat /\ c[i][2] \in Nat
  BY ElementOfSeq DEF Cycle
<1>4. MinPeriod \in Nat /\ start <= ts
  BY AnalyzerAssumption
<1> HIDE DEF all, new
<1>5. ASSUME NEW i \in 1..Len(all)
      PROVE  all[i][2] - all[i][1] >= MinPeriod /\ all[i][2] <= ts
  <2>1. CASE i = Len(c) + 1
    BY <2>1, <1>1, <1>2
  <2>2. CASE i \in 1..Len(c)
    <3>1. c[i][2] - c[i][1] >= MinPeriod /\ c[i][2] <= start
      BY <2>2 DEF Ordered
    <3> QED BY <2>2, <3>1, <1>2, <1>3, <1>4
  <2> QED BY <2>1, <2>2, <1>2
<1>6. ASSUME NEW i \in 1..Len(all), NEW j \in 1..Len(all), i < j
      PROVE  all[i][2] <= all[j][1]
  <2>1. i \in 1..Len(c) /\ all[i] = c[i]
    BY <1>2, <1>6
  <2>2. CASE j = Len(c) + 1
    <3>1. c[i][2] <= start
      BY <2>1 DEF Ordered
    <3> QED BY <2>1, <2>2, <3>1, <1>1, <1>2
  <2>3. CASE j \in 1..Len(c)
    BY <2>1, <2>3, <1>2, <1>6 DEF Ordered
  <2> QED BY <2>2, <2>3, <1>2
<1>7. Ordered(all, ts)
  BY <1>5, <1>6 DEF Ordered
<1> QED BY <1>2, <1>7 DEF all, new

LEMMA TailOrdered ==
  ASSUME NEW c \in Seq(Cycle), NEW ts, Ordered(c, ts), c # <<>>
  PROVE  /\ Tail(c) \in Seq(Cycle) /\ Len(Tail(c)) = Len(c) - 1
         /\ Ordered(Tail(c), ts)
<1> DEFINE rest == Tail(c)
<1>1. /\ rest \in Seq(Cycle) /\ Len(rest) = Len(c) - 1 /\ Len(c) \in Nat
      /\ \A i \in 1..Len(rest) : rest[i] = c[i + 1]
  BY HeadTailProperties, LenProperties
<1> HIDE DEF rest
<1>2. \A i \in 1..Len(rest) : i + 1 \in 1..Len(c)
  BY <1>1
<1>3. \A i \in 1..Len(rest) : rest[i][2] - rest[i][1] >= MinPeriod /\ rest[i][2] <= ts
  BY <1>1, <1>2 DEF Ordered
<1>4. ASSUME NEW i \in 1..Len(rest), NEW j \in 1..Len(rest), i < j
      PROVE  rest[i][2] <= rest[j][1]
  <2>1. i + 1 < j + 1
    BY <1>1, <1>4
  <2> QED BY <1>1, <1>2, <2>1 DEF Ordered
<1>5. Ordered(rest, ts)
  BY <1>3, <1>4 DEF Ordered
<1> QED BY <1>1, <1>5 DEF rest
-----------------------------------------------------------------------------
\* The histories, the energy and the level leave the cycles alone.
LEMMA SeenTimed ==
  ASSUME NEW t, NEW now \in Nat, Timed(t, now), NEW sight \in Sight
  PROVE  /\ Timed(PushHistory(t), now) /\ Timed(UpdateSwingCenter(t), now)
         /\ Timed(IntegrateKineticEnergy(t, sight), now)
         /\ Timed(EvaluateSafetyLevel(t, sight), now)
<1>1. MaxHist \in Nat /\ MaxCalib \in 0..MaxHist /\ CalibAt \in Nat
  BY AnalyzerAssumption
<1>2. Timed(PushHistory(t), now)
  <2>1. CASE t.positions < MaxHist
    <3> DEFINE p == t.positions + 1
               v == t.velocities + 1
               u == [t EXCEPT !.positions = p, !.velocities = v]
    <3>1. t \in Swing /\ p \in Nat /\ v \in Nat /\ p <= MaxHist /\ v <= p
      BY <1>1, <2>1 DEF Timed, Swing
    <3> HIDE DEF p, v
    <3>2. u \in Swing
      BY <3>1 DEF Swing
    <3>3. /\ u.positions = p /\ u.velocities = v
          /\ u.cycles = t.cycles /\ u.start = t.start /\ u.lastCross = t.lastCross
      BY <3>1 DEF Swing
    <3> HIDE DEF u
    <3>4. Timed(u, now)
      BY <3>1, <3>2, <3>3 DEF Timed
    <3> QED BY <2>1, <3>4 DEF PushHistory, u, p, v
  <2>2. CASE ~(t.positions < MaxHist)
    BY <2>2 DEF PushHistory
  <2> QED BY <2>1, <2>2
<1>3. Timed(UpdateSwingCenter(t), now)
  <2> DEFINE kept == IF t.positions < MaxCalib THEN t.positions + 1 ELSE t.positions
             u    == [t EXCEPT !.positions = kept, !.calibrated = @ \/ kept >= CalibAt]
  <2>1. t.positions \in Nat /\ t.velocities \in Nat
    BY DEF Timed, Swing
  <2>2. kept \in Nat /\ kept >= t.positions /\ kept <= MaxHist
    BY <1>1, <2>1 DEF Timed
  <2> HIDE DEF kept
  <2>3. /\ u \in Swing /\ u.positions = kept /\ u.velocities = t.velocities
        /\ u.cycles = t.cycles /\ u.start = t.start /\ u.lastCross = t.lastCross
    BY <2>2 DEF Timed, Swing
  <2> HIDE DEF u
  <2>4. Timed(u, now)
    BY <2>1, <2>2, <2>3 DEF Timed
  <2> QED BY <2>4 DEF UpdateSwingCenter, u, kept
<1>4. Timed(IntegrateKineticEnergy(t, sight), now)
  BY DEF Timed, Swing, Sight, IntegrateKineticEnergy
<1>5. Timed(EvaluateSafetyLevel(t, sight), now)
  BY DEF Timed, Swing, Sight, EvaluateSafetyLevel
<1> QED BY <1>2, <1>3, <1>4, <1>5

\* A cycle that ends at ts, which a gap of at least MaxLate after the last
\* crossing puts behind its start.
LEMMA CompletedTimed ==
  ASSUME NEW t, NEW now \in Nat, Timed(t, now), NEW ts \in Nat \ {0}, ts >= t.start
  PROVE  /\ CompleteCycle(t, ts) \in Swing
         /\ CompleteCycle(t, ts).velocities = t.velocities
         /\ CompleteCycle(t, ts).positions = t.positions
         /\ Len(CompleteCycle(t, ts).cycles) <= MaxCycles
         /\ CompleteCycle(t, ts).start <= ts
         /\ Ordered(CompleteCycle(t, ts).cycles, CompleteCycle(t, ts).start)
<1>1. /\ t \in Swing /\ t.start \in Nat /\ t.cycles \in Seq(Cycle)
      /\ Ordered(t.cycles, t.start) /\ Len(t.cycles) <= MaxCycles
  BY DEF Timed, Swing, Cycle
<1>2. MinPeriod \in Nat \ {0} /\ MaxCycles \in Nat
  BY AnalyzerAssumption
<1>3. CASE t.start = 0 \/ ~t.charged
  <2>1. CompleteCycle(t, ts) = [t EXCEPT !.start = ts, !.charged = FALSE]
    BY <1>3 DEF CompleteCycle
  <2>2. Ordered(t.cycles, ts)
    <3>1. \A i \in 1..Len(t.cycles) : t.cycles[i][2] \in Nat
      BY <1>1, ElementOfSeq DEF Cycle
    <3> QED BY <1>1, <3>1 DEF Ordered
  <2>3. /\ [t EXCEPT !.start = ts, !.charged = FALSE] \in Swing
        /\ [t EXCEPT !.start = ts, !.charged = FALSE].start = ts
    BY <1>1 DEF Swing
  <2> QED BY <1>1, <2>1, <2>2, <2>3 DEF Swing
<1>4. CASE ~(t.start = 0 \/ ~t.charged) /\ ts - t.start < MinPeriod
  <2>1. CompleteCycle(t, ts) = t
    BY <1>4 DEF CompleteCycle
  <2> QED BY <1>1, <2>1 DEF Timed
<1>5. CASE ~(t.start = 0 \/ ~t.charged) /\ ~(ts - t.start < MinPeriod)
  <2> DEFINE all == Append(t.cycles, <<t.start, ts>>)
             kept == IF Len(all) > MaxCycles THEN Tail(all) ELSE all
  <2>1. CompleteCycle(t, ts) = [t EXCEPT !.cycles = kept, !.counter = @ + 1,
                                         !.start = ts, !.charged = FALSE]
    BY <1>5 DEF CompleteCycle, RecordCycle
  <2>2. ts - t.start >= MinPeriod
    BY <1>1, <1>2, <1>5
  <2>3. all \in Seq(Cycle) /\ Len(all) = Len(t.cycles) + 1 /\ Ordered(all, ts)
    BY <1>1, <2>2, AppendedOrdered
  <2>4. Len(t.cycles) \in Nat /\ all # <<>>
    BY <1>1, <2>3, LenProperties, EmptySeq
  <2> HIDE DEF all
  <2>5. Tail(all) \in Seq(Cycle) /\ Len(Tail(all)) = Len(all) - 1 /\ Ordered(Tail(all), ts)
    BY <2>3, <2>4, TailOrdered
  <2>6. kept \in Seq(Cycle) /\ Ordered(kept, ts) /\ Len(kept) <= MaxCycles
    BY <1>1, <1>2, <2>3, <2>4, <2>5
  <2> HIDE DEF kept
  <2> DEFINE count == t.counter + 1
             u == [t EXCEPT !.cycles = kept, !.counter = count, !.start = ts, !.charged = FALSE]
  <2> count \in Nat
    BY <1>1 DEF Swing
  <2> HIDE DEF count
  <2>7. /\ u \in Swing /\ u.cycles = kept /\ u.start = ts
        /\ u.velocities = t.velocities /\ u.positions = t.positions
    BY <1>1, <2>6 DEF Swing, Cycle
  <2> HIDE DEF u
  <2>8. CompleteCycle(t, ts) = u
    BY <2>1 DEF u, count
  <2> QED BY <2>6, <2>7, <2>8
<1> QED BY <1>3, <1>4, <1>5

\* A crossing, whether it completes a cycle or not.
LEMMA CrossingTimed ==
  ASSUME NEW t, NEW now \in Nat, Timed(t, now), NEW sight,
         NEW ts \in Nat \ {0}, ts >= now - MaxLate,
         NEW later \in Nat, later >= now, later >= ts
  PROVE  Timed(DetectZeroCrossing(t, sight, ts), later)
<1>1. /\ MinGap \in Nat /\ MaxGap \in Nat /\ MaxLate \in 0..MinGap
      /\ t \in Swing /\ t.start \in Nat /\ t.lastCross \in Nat
      /\ t.start <= now /\ t.lastCross >= t.start - MaxLate
  BY AnalyzerAssumption, LatenessAssumption DEF Timed, Swing
<1>2. Timed(t, later)
  BY <1>1 DEF Timed
<1>3. CASE DetectZeroCrossing(t, sight, ts) = t
  BY <1>2, <1>3
<1>4. CASE /\ t.lastCross = 0
           /\ DetectZeroCrossing(t, sight, ts)
                = [t EXCEPT !.lastCross = ts, !.start = ts, !.charged = FALSE]
  <2>1. Ordered(t.cycles, ts)
    <3>1. \A i \in 1..Len(t.cycles) : t.cycles[i][2] \in Nat
      BY <1>1, ElementOfSeq DEF Swing
    <3> QED BY <1>1, <1>4, <3>1 DEF Timed, Ordered
  <2> DEFINE u == [t EXCEPT !.lastCross = ts, !.start = ts, !.charged = FALSE]
  <2>2. /\ u \in Swing /\ u.lastCross = ts /\ u.start = ts /\ u.cycles = t.cycles
        /\ u.velocities = t.velocities /\ u.positions = t.positions
    BY <1>1 DEF Swing
  <2> HIDE DEF u
  <2>3. Timed(u, later)
    BY <1>1, <2>1, <2>2 DEF Timed
  <2> QED BY <1>4, <2>3 DEF u
<1>5. CASE DetectZeroCrossing(t, sight, ts) = [t EXCEPT !.lastCross = ts]
  <2> DEFINE u == [t EXCEPT !.lastCross = ts]
  <2>1. /\ u \in Swing /\ u.lastCross = ts /\ u.start = t.start /\ u.cycles = t.cycles
        /\ u.velocities = t.velocities /\ u.positions = t.positions
    BY <1>1 DEF Swing
  <2> HIDE DEF u
  <2>2. Timed(u, later)
    BY <1>1, <1>2, <2>1 DEF Timed
  <2> QED BY <1>5, <2>2 DEF u
<1>6. CASE /\ ts - t.lastCross \in MinGap..MaxGap
           /\ DetectZeroCrossing(t, sight, ts) = [CompleteCycle(t, ts) EXCEPT !.lastCross = ts]
  <2> DEFINE done == CompleteCycle(t, ts)
  <2>1. ts >= t.start
    BY <1>1, <1>6
  <2>2. /\ done \in Swing /\ done.velocities = t.velocities /\ done.positions = t.positions
        /\ Len(done.cycles) <= MaxCycles /\ done.start <= ts
        /\ Ordered(done.cycles, done.start)
    BY <2>1, CompletedTimed
  <2> HIDE DEF done
  <2> DEFINE u == [done EXCEPT !.lastCross = ts]
  <2>3. /\ u \in Swing /\ u.lastCross = ts /\ u.start = done.start /\ u.cycles = done.cycles
        /\ u.velocities = done.velocities /\ u.positions = done.positions /\ done.start \in Nat
    BY <2>2 DEF Swing
  <2> HIDE DEF u
  <2>4. Timed(u, later)
    BY <1>1, <1>2, <2>2, <2>3 DEF Timed
  <2> QED BY <1>6, <2>4 DEF done, u
<1> QED BY <1>3, <1>4, <1>5, <1>6 DEF DetectZeroCrossing

LEMMA UpdatedTimed ==
  ASSUME NEW t, NEW now \in Nat, Timed(t, now), NEW sight \in Sight,
         NEW ts \in Nat \ {0}, ts >= now - MaxLate,
         NEW later \in Nat, later >= now, later >= ts
  PROVE  Timed(Updated(t, sight, ts), later)
<1> DEFINE seen == IntegrateKineticEnergy(UpdateSwingCenter(PushHistory(t)), sight)
<1>1. Timed(seen, now)
  <2>1. Timed(PushHistory(t), now)
    BY SeenTimed
  <2>2. Timed(UpdateSwingCenter(PushHistory(t)), now)
    BY <2>1, SeenTimed
  <2> QED BY <2>2, SeenTimed
<1> HIDE DEF seen
<1>2. Timed(DetectZeroCrossing(seen, sight, ts), later)
  BY <1>1, CrossingTimed
<1>3. Timed(EvaluateSafetyLevel(DetectZeroCrossing(seen, sight, ts), sight), later)
  BY <1>2, SeenTimed
<1> QED BY <1>3 DEF Updated, seen

LEMMA NewSwingTimed ==
  ASSUME NEW now \in Nat
  PROVE  Timed(NewSwing, now)
<1>1. <<>> \in Seq(Nat \X Nat) /\ Len(<<>>) = 0
  BY EmptySeq, LenProperties
<1>2. NewSwing \in Swing
  BY <1>1, AnalyzerAssumption DEF NewSwing, Swing
<1> QED BY <1>1, <1>2, AnalyzerAssumption, LatenessAssumption DEF Timed, NewSwing, Ordered
-----------------------------------------------------------------------------
LEMMA AnalyzerInitInv == AnalyzerInit => AnalyzerInv
<1>1. DOMAIN <<>> = {}
  BY EmptySeq, LenProperties
<1> QED BY <1>1 DEF AnalyzerInit, AnalyzerInv

\* Every update of the analyser, with a result that is not too late.
LEMMA AnalyzerStepInv == AnalyzerInv /\ [AnalyzerNext]_analyzerVars => AnalyzerInv'
<1> SUFFICES ASSUME AnalyzerInv, [AnalyzerNext]_analyzerVars PROVE AnalyzerInv'
  OBVIOUS
<1>1. ASSUME NEW ids \in SUBSET Nat, NEW ts \in Stamps, UpdateTracks(ids, ts) PROVE AnalyzerInv'
  <2>1. PICK sights \in [ids -> Sight] :
          swings' = [id \in DOMAIN swings \cup ids |->
                       IF id \in ids THEN Updated(GetOrCreateTrack(id), sights[id], ts)
                                     ELSE swings[id]]
    BY <1>1 DEF UpdateTracks
  <2>2. /\ newest \in Nat \ {0} /\ ts \in Nat \ {0} /\ ts >= newest - MaxLate
        /\ newest' = IF ts > newest THEN ts ELSE newest
    BY <1>1, AnalyzerAssumption DEF AnalyzerInv, Stamps, UpdateTracks
  <2>3. newest' \in Nat \ {0} /\ newest' >= newest /\ newest' >= ts
    BY <2>2
  <2>4. ASSUME NEW id \in DOMAIN swings' PROVE Timed(swings'[id], newest')
    <3>1. CASE id \in ids
      <4>1. Timed(GetOrCreateTrack(id), newest)
        BY <2>2, NewSwingTimed DEF AnalyzerInv, GetOrCreateTrack
      <4>2. sights[id] \in Sight
        BY <3>1
      <4>3. Timed(Updated(GetOrCreateTrack(id), sights[id], ts), newest')
        BY <2>2, <2>3, <4>1, <4>2, UpdatedTimed
      <4> QED BY <2>1, <3>1, <4>3
    <3>2. CASE id \notin ids
      <4>1. id \in DOMAIN swings /\ swings'[id] = swings[id]
        BY <2>1, <3>2
      <4>2. Timed(swings[id], newest)
        BY <4>1 DEF AnalyzerInv
      <4> QED BY <2>2, <2>3, <4>1, <4>2 DEF Timed, Swing
    <3> QED BY <3>1, <3>2
  <2> QED BY <2>3, <2>4 DEF AnalyzerInv
<1>2. ASSUME NEW id \in DOMAIN swings, RemoveTrack(id) PROVE AnalyzerInv'
  BY <1>2 DEF RemoveTrack, AnalyzerInv
<1>3. CASE ReleaseSwings
  <2>1. DOMAIN <<>> = {}
    BY EmptySeq, LenProperties
  <2> QED BY <1>3, <2>1 DEF ReleaseSwings, AnalyzerInv
<1>4. CASE UNCHANGED analyzerVars
  BY <1>4 DEF analyzerVars, AnalyzerInv
<1> QED BY <1>1, <1>2, <1>3, <1>4 DEF AnalyzerNext

LEMMA AnalyzerInvariant == AnalyzerSpec => []AnalyzerInv
<1> QED BY AnalyzerInitInv, AnalyzerStepInv, PTL DEF AnalyzerSpec

\* The two cuts of the histories keep all of them within the larger limit.
THEOREM HistoriesBoundedInvariant == AnalyzerSpec => []HistoriesBounded
<1>1. AnalyzerInv => HistoriesBounded
  BY DEF AnalyzerInv, Timed, HistoriesBounded
<1> QED BY <1>1, AnalyzerInvariant, PTL

\* A cycle never ends before it starts nor before an earlier one ends: a gap of
\* at least MinGap after the last crossing makes up for what a result is late.
THEOREM CyclesInOrderInvariant == AnalyzerSpec => []CyclesInOrder
<1>1. AnalyzerInv => CyclesInOrder
  BY DEF AnalyzerInv, Timed, Ordered, CyclesInOrder
<1> QED BY <1>1, AnalyzerInvariant, PTL
-----------------------------------------------------------------------------
(* ResultProcessing.                                                       *)

LEMMA ProcTypeInvariant == ProcSpec => []TypeOK
<1>1. ProcInit => Init
  BY DEF ProcInit
<1>2. [ProcNext]_procVars => [Next]_vars
  BY DEF ProcNext, procVars, ProcessDetectionResult, InitComponents, ReleaseComponents, Next, vars
<1>3. ProcSpec => SafeSpec
  BY <1>1, <1>2, PTL DEF ProcSpec, SafeSpec
<1> QED BY <1>3, TrackerTypeInvariant, PTL

\* More ids given out are ids of more tracks.
LEMMA IdsGrow ==
  ASSUME NEW a \in Nat, NEW b \in Nat, a <= b
  PROVE  1..(a - 1) \subseteq 1..(b - 1)
<1>1. a - 1 <= b - 1
  OBVIOUS
<1> QED BY <1>1

\* Driven by the result thread, both components do what they do on their own.
THEOREM ComponentsImplemented == ProcSpec => SafeSpec /\ AnalyzerSpec
<1>1. ProcInit => Init /\ AnalyzerInit
  BY DEF ProcInit
<1>2. [ProcNext]_procVars => [Next]_vars
  BY DEF ProcNext, procVars, ProcessDetectionResult, InitComponents, ReleaseComponents, Next, vars
<1>3. TypeOK' /\ [ProcNext]_procVars => [AnalyzerNext]_analyzerVars
  <2> SUFFICES ASSUME TypeOK', [ProcNext]_procVars PROVE [AnalyzerNext]_analyzerVars
    OBVIOUS
  <2>1. CASE ProcessDetectionResult
    <3>1. Reported' \subseteq Nat
      BY DEF Reported, InState, TypeOK
    <3>2. PICK ts \in Stamps : UpdateTracks((Reported \cap Followed)', ts)
      BY <2>1 DEF ProcessDetectionResult
    <3>3. (Reported \cap Followed)' \in SUBSET Nat
      BY <3>1
    <3> QED BY <3>2, <3>3 DEF AnalyzerNext
  <2>2. CASE InitComponents \/ ReleaseComponents
    BY <2>2 DEF InitComponents, ReleaseComponents, AnalyzerNext
  <2>3. CASE UNCHANGED procVars
    BY <2>3 DEF procVars, analyzerVars
  <2> QED BY <2>1, <2>2, <2>3 DEF ProcNext
<1> QED BY <1>1, <1>2, <1>3, ProcTypeInvariant, PTL DEF ProcSpec, SafeSpec, AnalyzerSpec

\* Ids are given out once between two Inits, and the analyser is made anew with
\* the tracker: what it knows of an id is of the track that has it now.
THEOREM SwingsOfOwnTracksInvariant == ProcSpec => []SwingsOfOwnTracks
<1>1. ASSUME tracks = <<>>, swings = <<>>, nextId \in Nat PROVE SwingsOfOwnTracks
  <2>1. Reported = {}
    BY <1>1, NoTracks DEF Reported, InState
  <2> QED BY <1>1, <2>1, NoTracks DEF SwingsOfOwnTracks
<1>2. ProcInit => SwingsOfOwnTracks
  BY <1>1 DEF ProcInit, Init, AnalyzerInit
<1>3. TypeOK /\ TypeOK' /\ SwingsOfOwnTracks /\ [ProcNext]_procVars => SwingsOfOwnTracks'
  <2> SUFFICES ASSUME TypeOK, TypeOK', SwingsOfOwnTracks, [ProcNext]_procVars
               PROVE  SwingsOfOwnTracks'
    OBVIOUS
  <2>1. CASE ProcessDetectionResult
    <3>1. DOMAIN swings' = DOMAIN swings \cup (Reported \cap Followed)'
      BY <2>1 DEF ProcessDetectionResult, UpdateTracks
    <3>2. nextId \in Nat /\ nextId' \in Nat /\ nextId <= nextId'
      <4>1. PICK m \in Matchings : UpdateWith(m[2], m[3])
        BY <2>1 DEF ProcessDetectionResult, Update
      <4>2. Started(m[3]) \in Nat
        BY <4>1, LeftIsCounted, StartedFits
      <4> QED BY <4>1, <4>2 DEF UpdateWith, TypeOK
    <3>3. Reported' \subseteq 1..(nextId' - 1)
      BY DEF Reported, InState, TypeOK
    <3>4. 1..(nextId - 1) \subseteq 1..(nextId' - 1)
      BY <3>2, IdsGrow
    <3>5. Reported' \cap Followed \subseteq DOMAIN swings'
      BY <3>1
    <3>6. DOMAIN swings' \subseteq 1..(nextId' - 1)
      BY <3>1, <3>3, <3>4 DEF SwingsOfOwnTracks
    <3> QED BY <3>5, <3>6 DEF SwingsOfOwnTracks
  <2>2. CASE InitComponents \/ ReleaseComponents
    <3>1. tracks' = <<>> /\ swings' = <<>> /\ nextId' \in Nat
      BY <2>2 DEF InitComponents, ReleaseComponents, Reset, Release, ReleaseSwings, TypeOK
    <3>2. Reported' = {}
      BY <3>1, NoTracks DEF Reported, InState
    <3> QED BY <3>1, <3>2, NoTracks DEF SwingsOfOwnTracks
  <2>3. CASE UNCHANGED procVars
    BY <2>3 DEF procVars, SwingsOfOwnTracks, Reported, InState
  <2> QED BY <2>1, <2>2, <2>3 DEF ProcNext
<1> QED BY <1>2, <1>3, ProcTypeInvariant, PTL DEF ProcSpec

\* A result's commands are of the tracks it reports, all of them seen lately.
THEOREM CommandsOfFreshTracksInvariant == ProcSpec => []CommandsOfFreshTracks
<1>1. ProcSpec => []ReportedTracksFresh
  BY ComponentsImplemented, ReportedTracksFreshInvariant, PTL
<1>2. ProcInit => CommandsOfFreshTracks
  BY DEF ProcInit, CommandsOfFreshTracks
<1>3. /\ TypeOK' /\ ReportedTracksFresh' /\ CommandsOfFreshTracks /\ [ProcNext]_procVars
      => CommandsOfFreshTracks'
  <2> SUFFICES ASSUME TypeOK', ReportedTracksFresh', CommandsOfFreshTracks, [ProcNext]_procVars
               PROVE  CommandsOfFreshTracks'
    OBVIOUS
  <2>1. CASE ProcessDetectionResult
    <3>1. commands' = {<<id, swings'[id].level>> :
                         id \in {x \in (Reported \cap Followed)' : ShouldTriggerDamping(x)'}}
      BY <2>1 DEF ProcessDetectionResult, CommandsOf
    <3>2. Reported' \subseteq DOMAIN tracks'
      BY DEF Reported, InState, TypeOK
    <3>3. \A id \in Reported' : tracks'[id].since <= LostAfter
      BY DEF ReportedTracksFresh
    <3>4. ASSUME NEW c \in commands'
          PROVE  c[1] \in Reported' /\ c[2] = swings'[c[1]].level
      BY <3>1, <3>4
    <3> QED BY <3>2, <3>3, <3>4 DEF CommandsOfFreshTracks
  <2>2. CASE InitComponents \/ ReleaseComponents
    BY <2>2 DEF InitComponents, ReleaseComponents, CommandsOfFreshTracks
  <2>3. CASE UNCHANGED procVars
    BY <2>3 DEF procVars, CommandsOfFreshTracks
  <2> QED BY <2>1, <2>2, <2>3 DEF ProcNext
<1> QED BY <1>1, <1>2, <1>3, ProcTypeInvariant, PTL DEF ProcSpec
=============================================================================
