-------------------------- MODULE CornerSlotTracker --------------------------
(***************************************************************************)
(* CornerSlotTracker: the tracks of corner slots seen by the detector.     *)
(* Every result of the detector ages the tracks, matches them greedily     *)
(* with the detections, and starts, confirms, loses or forgets tracks.     *)
(* The result thread is its only caller.  Positions are left out: a result *)
(* is a number of detections and their distances to the predicted tracks.  *)
(***************************************************************************)
EXTENDS Integers, FiniteSets, SequencesExt

CONSTANTS MaxTracks,     \* config_.max_tracks
          MaxAge,        \* config_.max_age
          LostAfter,     \* the 30 of CornerSlotTrack::MarkMissed
          MaxDistance,   \* config_.max_matching_distance, in steps of distance
          MaxDetections, \* bound of the model: detections of one result
          MaxId          \* bound of the model: tracks started

ASSUME TrackerAssumption ==
  /\ MaxTracks \in Nat /\ MaxAge \in Nat /\ LostAfter \in Nat
  /\ MaxDistance \in Nat /\ MaxDetections \in Nat /\ MaxId \in Nat

VARIABLES tracks, \* tracks_: a function from the ids of the live tracks
          nextId, \* next_track_id_
          stats   \* stats_

vars == <<tracks, nextId, stats>>

\* n_init of the configuration is not read: the code confirms at three hits.
Confirming == 3

Track == [state : {"TENTATIVE", "CONFIRMED", "LOST", "DELETED"},
          hits  : 0..Confirming, \* hit_streak_, of which more than three say no more
          since : Nat]           \* time_since_update_

NoStats == [total |-> 0, active |-> 0, tentative |-> 0, lost |-> 0]

Init == tracks = <<>> /\ nextId = 1 /\ stats = NoStats
-----------------------------------------------------------------------------
(* One track.                                                              *)

NewTrack == [state |-> "TENTATIVE", hits |-> 1, since |-> 0]

\* Variant: only a confirmed track grows older.
PredictConfirmed(t) ==
  IF t.state = "CONFIRMED" THEN [t EXCEPT !.since = @ + 1] ELSE t

Predict(t) == [t EXCEPT !.since = @ + 1]

\* A track is confirmed at its third hit in a row; a lost one stays lost.
Hit(t) ==
  LET hits == IF t.hits < Confirming THEN t.hits + 1 ELSE Confirming
  IN  [state |-> IF t.state = "TENTATIVE" /\ hits = Confirming THEN "CONFIRMED" ELSE t.state,
       hits  |-> hits,
       since |-> 0]

\* Variant: the track is lost one result later.
MarkMissedLate(t) ==
  [state |-> IF t.state = "TENTATIVE" THEN "DELETED"
             ELSE IF t.since > LostAfter + 1 THEN "LOST" ELSE t.state,
   hits  |-> 0,
   since |-> t.since]

MarkMissed(t) ==
  [state |-> IF t.state = "TENTATIVE" THEN "DELETED"
             ELSE IF t.since > LostAfter THEN "LOST" ELSE t.state,
   hits  |-> 0,
   since |-> t.since]
-----------------------------------------------------------------------------
(* Matching.  A pair is <<track, detection>>.                              *)

\* ComputeDistance of every pair; one step above the maximum stands for any
\* distance that is too large.
Distances(ids, n) == [ids \X (1..n) -> 0..(MaxDistance + 1)]

Eligible(dist) == {p \in DOMAIN dist : dist[p] <= MaxDistance}

\* std::sort by distance leaves pairs of one distance in any order.
Sorted(dist) ==
  {order \in SetToSeqs(Eligible(dist)) :
     \A i, j \in DOMAIN order : i < j => dist[order[i]] <= dist[order[j]]}

\* Variant: only the track is looked at, not the detection.
TakeDetectionTwice(match, p) ==
  IF \E q \in match : q[1] = p[1] THEN match ELSE match \cup {p}

\* The pair is taken when its track and its detection are both unused.
Take(match, p) ==
  IF \E q \in match : q[1] = p[1] \/ q[2] = p[2] THEN match ELSE match \cup {p}

GreedyMatch(order) == FoldLeft(Take, {}, order)

\* The ids that tracks may have at the same time.
LiveIds == {ids \in SUBSET (1..MaxId) : Cardinality(ids) <= MaxTracks}

Matched(match) == {p[1] : p \in match}

\* The detections among 1..n that no track took.
Unmatched(match, n) == {d \in 1..n : \A p \in match : p[2] # d}

\* What GreedyMatch may leave of n detections and the tracks with these ids: the
\* matched tracks, and how many detections are unmatched.
Matchings ==
  UNION {{<<ids, Matched(match), Cardinality(Unmatched(match, n))>> :
            match \in {GreedyMatch(order) : order \in UNION {Sorted(dist) : dist \in Distances(ids, n)}}} :
           ids \in LiveIds, n \in 0..MaxDetections}
-----------------------------------------------------------------------------
(* The tracker.                                                            *)

\* Tracks that may still be started: those about to be deleted count.
Room == MaxTracks - Cardinality(DOMAIN tracks)

\* Variant: the limit is looked at once for all detections of a result.
StartedAllAtOnce(left) == IF Room > 0 THEN left ELSE 0

\* InitiateTrack for each detection left, the limit looked at for each.
Started(left) == IF left < Room THEN left ELSE Room

\* Every track aged, and then hit or missed, with the new ones.
Moved(matched, left) ==
  [id \in DOMAIN tracks \cup nextId..(nextId + Started(left) - 1) |->
     IF id \notin DOMAIN tracks THEN NewTrack
     ELSE IF id \in matched THEN Hit(Predict(tracks[id]))
     ELSE MarkMissed(Predict(tracks[id]))]

Keep(moved) ==
  {id \in DOMAIN moved : moved[id].state # "DELETED" /\ moved[id].since <= MaxAge}

InState(s) == {id \in DOMAIN tracks : tracks[id].state = s}

CountTracks ==
  stats' = [total     |-> Cardinality(DOMAIN tracks'),
            active    |-> Cardinality(InState("CONFIRMED")'),
            tentative |-> Cardinality(InState("TENTATIVE")'),
            lost      |-> Cardinality(InState("LOST")')]

UpdateWith(matched, left) ==
  /\ nextId + Started(left) <= MaxId + 1
  /\ LET moved == Moved(matched, left)
     IN  tracks' = [id \in Keep(moved) |-> moved[id]]
  /\ nextId' = nextId + Started(left)
  /\ CountTracks

\* Any number of detections is above min_detection_confidence.
Update ==
  \E m \in Matchings : m[1] = DOMAIN tracks /\ UpdateWith(m[2], m[3])

\* Init and Reset: ids start again.
Reset == tracks' = <<>> /\ nextId' = 1 /\ stats' = NoStats

Release == tracks' = <<>> /\ stats' = NoStats /\ UNCHANGED nextId
-----------------------------------------------------------------------------
Next == Update \/ Reset \/ Release

\* Results keep coming: the detector's workers and the result thread run.
Fairness == WF_vars(Update)

SafeSpec == Init /\ [][Next]_vars
Spec == SafeSpec /\ Fairness
-----------------------------------------------------------------------------
(* Properties.                                                             *)

Counts == 0..MaxTracks

\* The live tracks are at most max_tracks, however many detections of one result
\* start tracks and however many old ones this result keeps (InitiateTrack,
\* Update); none of them is deleted, older than max_age or has the next id.
TypeOK ==
  /\ tracks \in [DOMAIN tracks -> Track]
  /\ DOMAIN tracks \subseteq 1..(nextId - 1)
  /\ Cardinality(DOMAIN tracks) <= MaxTracks
  /\ nextId \in Nat \ {0}
  /\ stats \in [total : Counts, active : Counts, tentative : Counts, lost : Counts]
  /\ \A id \in DOMAIN tracks : tracks[id].state # "DELETED" /\ tracks[id].since <= MaxAge

\* GetConfirmedTracks, what the energy analyser gets.
Reported == InState("CONFIRMED")

\* A reported track was seen within the last LostAfter results, a tentative
\* one in the last result (Update, MarkMissed), and active_tracks of the
\* statistics is the number of reported tracks.
ReportedTracksFresh ==
  /\ \A id \in Reported : tracks[id].since <= LostAfter
  /\ \A id \in InState("TENTATIVE") : tracks[id].since = 0
  /\ stats.active = Cardinality(Reported)

\* What greedy matching computes, said without an order: pairs within the
\* distance, each track and each detection once, and a pair is passed over
\* only when its track or its detection has a partner at least as close.
Stable(match, dist) ==
  /\ match \subseteq Eligible(dist)
  /\ \A p, q \in match : (p[1] = q[1] \/ p[2] = q[2]) => p = q
  /\ \A p \in Eligible(dist) :
       \E q \in match : (q[1] = p[1] \/ q[2] = p[2]) /\ dist[q] <= dist[p]

\* For each set of live tracks, whether GreedyMatch gives a stable matching
\* whatever their distances to a result, and in whatever order the sort leaves
\* equal pairs.
StableVerdicts ==
  {<<ids, \A dist \in Distances(ids, MaxDetections) :
            \A order \in Sorted(dist) : Stable(GreedyMatch(order), dist)>> : ids \in LiveIds}

\* Whatever tracks are live, GreedyMatch matches them stably with any result.
MatchStable == <<DOMAIN tracks, TRUE>> \in StableVerdicts

\* The tracks that the last result missed, or that are not yet confirmed.
Unsettled == {id \in DOMAIN tracks : tracks[id].since > 0 \/ tracks[id].state = "TENTATIVE"}

\* A track that is not seen is seen again or forgotten, lost ones too, and a
\* tentative track is confirmed or forgotten (Update, max_age).
TracksSettle ==
  \A id \in 1..MaxId : id \in Unsettled ~> id \notin Unsettled
=============================================================================
