----------------------- MODULE CornerSlotTrackerProofs -----------------------
(***************************************************************************)
(* Proofs about CornerSlotTracker, for any limits, ages and distances.     *)
(***************************************************************************)
EXTENDS CornerSlotTracker, SequenceTheorems, FiniteSetTheorems, WellFoundedInduction, TLAPS

\* What has at most MaxTracks elements has a count, and so have its parts.
LEMMA PartsAreCounted ==
  ASSUME NEW S, IsFiniteSet(S), Cardinality(S) <= MaxTracks, NEW T \in SUBSET S
  PROVE  Cardinality(T) \in Counts
<1>1. Cardinality(T) \in Nat /\ Cardinality(T) <= Cardinality(S)
  BY FS_Subset, FS_CardinalityType
<1>2. Cardinality(S) \in Nat /\ MaxTracks \in Nat
  BY FS_CardinalityType, TrackerAssumption
<1> QED BY <1>1, <1>2 DEF Counts

\* The tracker after Init, Reset and Release.
LEMMA NoTracks == /\ DOMAIN <<>> = {} /\ <<>> \in [{} -> Track]
                  /\ IsFiniteSet({}) /\ Cardinality({}) = 0
<1>1. <<>> \in Seq(Track) /\ Len(<<>>) = 0 /\ DOMAIN <<>> = 1..Len(<<>>)
  BY EmptySeq, LenProperties
<1>2. DOMAIN <<>> = {}
  BY <1>1
<1>3. <<>> = [i \in DOMAIN <<>> |-> <<>>[i]]
  BY <1>1
<1> QED BY <1>2, <1>3, FS_EmptySet

\* How many tracks a result starts: never more than there is room for.
LEMMA StartedFits ==
  ASSUME TypeOK, NEW left \in Nat
  PROVE  /\ IsFiniteSet(DOMAIN tracks) /\ Room \in Nat
         /\ Started(left) \in Nat /\ Started(left) <= Room
<1>1. 1 \in Int /\ nextId - 1 \in Int
  BY DEF TypeOK
<1> IsFiniteSet(1..(nextId - 1))
  BY <1>1, FS_Interval
<1>2. IsFiniteSet(DOMAIN tracks) /\ Cardinality(DOMAIN tracks) \in Nat
  BY FS_Subset, FS_CardinalityType DEF TypeOK
<1>3. Room \in Nat
  BY <1>2, TrackerAssumption DEF TypeOK, Room
<1> QED BY <1>2, <1>3 DEF Started

\* What is left of the detections is counted.
LEMMA LeftIsCounted ==
  ASSUME NEW m \in Matchings
  PROVE  m[3] \in Nat
<1> DEFINE Results(ids, n) ==
             {<<ids, Matched(match), Cardinality(Unmatched(match, n))>> :
                match \in {GreedyMatch(order) : order \in UNION {Sorted(dist) : dist \in Distances(ids, n)}}}
<1>1. PICK ids \in LiveIds, n \in 0..MaxDetections : m \in Results(ids, n)
  <2>1. Matchings = UNION {Results(ids, n) : ids \in LiveIds, n \in 0..MaxDetections}
    BY DEF Matchings
  <2> HIDE DEF Results
  <2> QED BY <2>1
<1>2. PICK match : m = <<ids, Matched(match), Cardinality(Unmatched(match, n))>>
  BY <1>1, Zenon
<1>3. n \in Int /\ IsFiniteSet(1..n)
  BY TrackerAssumption, FS_Interval
<1>4. Unmatched(match, n) \subseteq 1..n
  BY DEF Unmatched
<1>5. IsFiniteSet(Unmatched(match, n))
  BY <1>3, <1>4, FS_Subset
<1>6. Cardinality(Unmatched(match, n)) \in Nat
  BY <1>5, FS_CardinalityType
<1> QED BY <1>2, <1>6

\* One track stays a track, whatever a result does to it.
LEMMA TrackSteps ==
  ASSUME NEW t \in Track
  PROVE  Predict(t) \in Track /\ Hit(t) \in Track /\ MarkMissed(t) \in Track
<1>1. /\ t.state \in {"TENTATIVE", "CONFIRMED", "LOST", "DELETED"}
      /\ t.hits \in 0..3 /\ t.since \in Nat
  BY DEF Track, Confirming
<1>2. Predict(t) \in Track
  BY DEF Predict, Track
<1>3. Hit(t) \in Track
  BY <1>1 DEF Hit, Track, Confirming
<1>4. MarkMissed(t) \in Track
  BY <1>1 DEF MarkMissed, Track, Confirming
<1> QED BY <1>2, <1>3, <1>4

\* The tracks before those of age and state are dropped.
LEMMA MovedTracks ==
  ASSUME TypeOK, NEW matched, NEW left \in Nat
  PROVE  /\ Moved(matched, left) \in [DOMAIN Moved(matched, left) -> Track]
         /\ DOMAIN Moved(matched, left) \subseteq 1..(nextId + Started(left) - 1)
         /\ IsFiniteSet(DOMAIN Moved(matched, left))
         /\ Cardinality(DOMAIN Moved(matched, left)) <= MaxTracks
<1> DEFINE k == Started(left)
           Ids == nextId..(nextId + k - 1)
           moved == Moved(matched, left)
<1>1. /\ IsFiniteSet(DOMAIN tracks) /\ Room \in Nat /\ k \in Nat /\ k <= Room
      /\ nextId \in Nat \ {0} /\ DOMAIN tracks \subseteq 1..(nextId - 1)
  BY StartedFits DEF TypeOK
<1>2. DOMAIN moved = DOMAIN tracks \cup Ids
  BY DEF Moved
<1>3. DOMAIN moved \subseteq 1..(nextId + k - 1)
  BY <1>1, <1>2
<1>4. IsFiniteSet(Ids) /\ Cardinality(Ids) = k
  <2>1. nextId \in Int /\ nextId + k - 1 \in Int
    BY <1>1
  <2>2. /\ IsFiniteSet(Ids)
        /\ Cardinality(Ids) = IF nextId > nextId + k - 1 THEN 0
                              ELSE (nextId + k - 1) - nextId + 1
    BY <2>1, FS_Interval
  <2> QED BY <1>1, <2>2
<1>5. IsFiniteSet(DOMAIN moved) /\ Cardinality(DOMAIN moved) <= MaxTracks
  <2>1. /\ IsFiniteSet(DOMAIN tracks \cup Ids)
        /\ Cardinality(DOMAIN tracks \cup Ids)
             = Cardinality(DOMAIN tracks) + Cardinality(Ids)
               - Cardinality(DOMAIN tracks \cap Ids)
    BY <1>1, <1>4, FS_Union
  <2>2. IsFiniteSet(DOMAIN tracks \cap Ids)
    BY <1>4, FS_Subset
  <2>3. Cardinality(DOMAIN tracks) \in Nat /\ Cardinality(DOMAIN tracks \cap Ids) \in Nat
    BY <1>1, <2>2, FS_CardinalityType
  <2> QED BY <1>1, <1>2, <1>4, <2>1, <2>3, TrackerAssumption DEF Room
<1>6. ASSUME NEW id \in DOMAIN moved PROVE moved[id] \in Track
  <2>1. CASE id \in DOMAIN tracks
    <3>1. tracks[id] \in Track
      BY <2>1 DEF TypeOK
    <3>2. Predict(tracks[id]) \in Track
      BY <3>1, TrackSteps
    <3>3. Hit(Predict(tracks[id])) \in Track /\ MarkMissed(Predict(tracks[id])) \in Track
      BY <3>2, TrackSteps
    <3> QED BY <1>2, <2>1, <3>3 DEF Moved
  <2>2. CASE id \notin DOMAIN tracks
    <3>1. NewTrack \in Track
      BY DEF NewTrack, Track, Confirming
    <3> QED BY <1>2, <2>2, <3>1 DEF Moved
  <2> QED BY <2>1, <2>2
<1>7. moved = [id \in DOMAIN moved |-> moved[id]]
  BY <1>2 DEF Moved
<1> QED BY <1>3, <1>5, <1>6, <1>7

\* Every step keeps the type, and the counts with it.
THEOREM TrackerTypeInvariant == SafeSpec => []TypeOK
<1>1. ASSUME tracks = <<>>, nextId \in Nat \ {0}, stats = NoStats PROVE TypeOK
  <2>1. 0 \in Counts /\ 0 <= MaxTracks
    BY TrackerAssumption DEF Counts
  <2> QED BY <1>1, <2>1, NoTracks DEF TypeOK, NoStats
<1>2. Init => TypeOK
  BY <1>1 DEF Init
<1>3. TypeOK /\ [Next]_vars => TypeOK'
  <2> SUFFICES ASSUME TypeOK, [Next]_vars PROVE TypeOK'
    OBVIOUS
  <2>1. CASE Update
    <3>1. PICK m \in Matchings : UpdateWith(m[2], m[3])
      BY <2>1 DEF Update
    <3> DEFINE matched == m[2]
               left == m[3]
    <3> DEFINE moved == Moved(matched, left)
    <3>2. left \in Nat
      BY <3>1, LeftIsCounted
    <3>3. /\ moved \in [DOMAIN moved -> Track] /\ IsFiniteSet(DOMAIN moved)
          /\ DOMAIN moved \subseteq 1..(nextId + Started(left) - 1)
          /\ Cardinality(DOMAIN moved) <= MaxTracks
      BY <3>2, MovedTracks
    <3>4. /\ tracks' = [id \in Keep(moved) |-> moved[id]]
          /\ nextId' = nextId + Started(left) /\ CountTracks
      BY <3>1 DEF UpdateWith
    <3>5. /\ DOMAIN tracks' = Keep(moved) /\ Keep(moved) \in SUBSET DOMAIN moved
          /\ \A id \in DOMAIN tracks' : /\ tracks'[id] = moved[id]
                                       /\ moved[id].state # "DELETED"
                                       /\ moved[id].since <= MaxAge
      BY <3>4 DEF Keep
    <3>6. tracks' \in [DOMAIN tracks' -> Track]
      BY <3>3, <3>4, <3>5
    <3>7. nextId' \in Nat \ {0} /\ DOMAIN tracks' \subseteq 1..(nextId' - 1)
      BY <3>2, <3>3, <3>4, <3>5, StartedFits DEF TypeOK
    <3>8. IsFiniteSet(DOMAIN tracks') /\ Cardinality(DOMAIN tracks') <= MaxTracks
      <4>1. /\ IsFiniteSet(DOMAIN tracks')
            /\ Cardinality(DOMAIN tracks') <= Cardinality(DOMAIN moved)
        BY <3>3, <3>5, FS_Subset
      <4>2. Cardinality(DOMAIN tracks') \in Nat /\ Cardinality(DOMAIN moved) \in Nat
        BY <4>1, <3>3, FS_CardinalityType
      <4> QED BY <3>3, <4>1, <4>2, TrackerAssumption
    <3>9. stats' \in [total : Counts, active : Counts, tentative : Counts, lost : Counts]
      <4>1. /\ InState("CONFIRMED")' \in SUBSET DOMAIN tracks'
            /\ InState("TENTATIVE")' \in SUBSET DOMAIN tracks'
            /\ InState("LOST")' \in SUBSET DOMAIN tracks'
        BY DEF InState
      <4>2. /\ Cardinality(DOMAIN tracks') \in Counts
            /\ Cardinality(InState("CONFIRMED")') \in Counts
            /\ Cardinality(InState("TENTATIVE")') \in Counts
            /\ Cardinality(InState("LOST")') \in Counts
        BY <3>8, <4>1, PartsAreCounted
      <4> QED BY <3>4, <4>2 DEF CountTracks
    <3> QED BY <3>5, <3>6, <3>7, <3>8, <3>9 DEF TypeOK, Counts
  <2>2. CASE Reset \/ Release
    <3>1. tracks' = <<>> /\ nextId' \in Nat \ {0} /\ stats' = NoStats
      BY <2>2 DEF Reset, Release, TypeOK
    <3>2. 0 \in Counts /\ 0 <= MaxTracks
      BY TrackerAssumption DEF Counts
    <3> QED BY <3>1, <3>2, NoTracks DEF TypeOK, NoStats, Counts
  <2>3. CASE UNCHANGED vars
    BY <2>3 DEF TypeOK, vars, Counts
  <2> QED BY <2>1, <2>2, <2>3 DEF Next
<1> QED BY <1>2, <1>3, PTL DEF SafeSpec

\* A track that is missed too long leaves CONFIRMED in the same step that
\* ages it, so no result is reported between the two.
THEOREM ReportedTracksFreshInvariant == SafeSpec => []ReportedTracksFresh
<1>1. ASSUME tracks = <<>>, stats = NoStats PROVE ReportedTracksFresh
  <2>1. InState("CONFIRMED") = {} /\ InState("TENTATIVE") = {}
    BY <1>1, NoTracks DEF InState
  <2> QED BY <1>1, <2>1, NoTracks DEF ReportedTracksFresh, Reported, NoStats
<1>2. Init => ReportedTracksFresh
  BY <1>1 DEF Init
<1>3. TypeOK /\ ReportedTracksFresh /\ [Next]_vars => ReportedTracksFresh'
  <2> SUFFICES ASSUME TypeOK, ReportedTracksFresh, [Next]_vars
               PROVE  ReportedTracksFresh'
    OBVIOUS
  <2>1. CASE Update
    <3>1. PICK m \in Matchings : UpdateWith(m[2], m[3])
      BY <2>1 DEF Update
    <3> DEFINE matched == m[2]
               left == m[3]
    <3> DEFINE moved == Moved(matched, left)
    <3>2. tracks' = [id \in Keep(moved) |-> moved[id]] /\ CountTracks
      BY <3>1 DEF UpdateWith
    <3>3. ASSUME NEW id \in DOMAIN tracks'
          PROVE  /\ id \in DOMAIN tracks \cup nextId..(nextId + Started(left) - 1)
                 /\ tracks'[id] = moved[id] /\ moved[id].state # "DELETED"
      BY <3>2, <3>3 DEF Keep, Moved
    <3>4. ASSUME NEW id \in DOMAIN tracks'
          PROVE  /\ tracks'[id].state = "CONFIRMED" => tracks'[id].since <= LostAfter
                 /\ tracks'[id].state = "TENTATIVE" => tracks'[id].since = 0
      <4>1. CASE id \notin DOMAIN tracks
        <5>1. tracks'[id] = NewTrack
          BY <3>3, <3>4, <4>1 DEF Moved
        <5> QED BY <5>1 DEF NewTrack
      <4>2. CASE id \in DOMAIN tracks /\ id \in matched
        <5>1. tracks'[id] = Hit(Predict(tracks[id]))
          BY <3>3, <3>4, <4>2 DEF Moved
        <5> QED BY <5>1, TrackerAssumption DEF Hit
      <4>3. CASE id \in DOMAIN tracks /\ id \notin matched
        <5> DEFINE t == Predict(tracks[id])
        <5>1. tracks'[id] = MarkMissed(t) /\ MarkMissed(t).state # "DELETED"
          BY <3>3, <3>4, <4>3 DEF Moved
        <5>2. t \in Track
          BY <4>3, TrackSteps DEF TypeOK
        <5>3. /\ MarkMissed(t).since = t.since
              /\ MarkMissed(t).state =
                   IF t.state = "TENTATIVE" THEN "DELETED"
                   ELSE IF t.since > LostAfter THEN "LOST" ELSE t.state
          BY <5>2 DEF MarkMissed, Track
        <5>4. t.since \in Nat /\ LostAfter \in Nat
          BY <5>2, TrackerAssumption DEF Track
        <5> QED BY <5>1, <5>3, <5>4
      <4> QED BY <4>1, <4>2, <4>3
    <3>5. stats'.active = Cardinality(InState("CONFIRMED")')
      BY <3>2 DEF CountTracks
    <3> QED BY <3>4, <3>5 DEF ReportedTracksFresh, Reported, InState
  <2>2. CASE Reset \/ Release
    <3>1. tracks' = <<>> /\ stats' = NoStats
      BY <2>2 DEF Reset, Release
    <3>2. InState("CONFIRMED")' = {} /\ InState("TENTATIVE")' = {}
      BY <3>1, NoTracks DEF InState
    <3> QED BY <3>1, <3>2, NoTracks DEF ReportedTracksFresh, Reported, NoStats
  <2>3. CASE UNCHANGED vars
    BY <2>3 DEF ReportedTracksFresh, Reported, InState, vars
  <2> QED BY <2>1, <2>2, <2>3 DEF Next
<1> QED BY <1>2, <1>3, TrackerTypeInvariant, PTL DEF SafeSpec
-----------------------------------------------------------------------------
(* Matching.  GreedyMatch is a fold: its recursion equation is proved to have *)
(* a solution, and then the walk by induction over the sorted pairs.          *)

\* The induction that the proofs use: a set that holds 0 and every successor of its
\* elements holds every number.
LEMMA NatSetInduction ==
  ASSUME NEW T, 0 \in T, \A n \in Nat : n \in T => n + 1 \in T
  PROVE  Nat \subseteq T
<1> SUFFICES ASSUME Nat \ T # {} PROVE FALSE
  OBVIOUS
<1>1. PICK m \in Nat \ T : \A y \in Nat \ T : <<y, m>> \notin OpToRel(<, Nat)
  BY NatLessThanWellFounded, WFMin, Zenon
<1>2. m \in Nat /\ m # 0 /\ m - 1 \in Nat /\ m - 1 < m /\ (m - 1) + 1 = m
  OBVIOUS
<1>3. <<m - 1, m>> \in OpToRel(<, Nat)
  BY <1>2 DEF OpToRel
<1> QED BY <1>1, <1>2, <1>3

\* The greatest of a set of numbers bounded by k + 1: without it the rest is bounded by k.
LEMMA MaxOfPart ==
  ASSUME NEW k \in Nat, NEW s \in SUBSET (1..(k + 1)), s # {}
  PROVE  Max(s) \in s /\ s \ {Max(s)} \in SUBSET (1..k)
<1>1. \E x \in s : \A y \in s : x >= y
  <2> DEFINE T == {n \in Nat : \A S \in SUBSET (1..n) : S # {} => \E x \in S : \A y \in S : x >= y}
  <2>1. 0 \in T
    <3>1. 1..0 = {}
      OBVIOUS
    <3> QED BY <3>1
  <2>2. ASSUME NEW n \in Nat, n \in T PROVE n + 1 \in T
    <3> SUFFICES ASSUME NEW S \in SUBSET (1..(n + 1)), S # {}
                 PROVE  \E x \in S : \A y \in S : x >= y
      OBVIOUS
    <3>1. CASE n + 1 \in S
      BY <3>1
    <3>2. CASE n + 1 \notin S
      <4>1. S \in SUBSET (1..n)
        BY <3>2
      <4> QED BY <2>2, <4>1
    <3> QED BY <3>1, <3>2
  <2> HIDE DEF T
  <2>3. Nat \subseteq T
    BY <2>1, <2>2, NatSetInduction
  <2>4. k + 1 \in T
    BY <2>3
  <2> QED BY <2>4 DEF T
<1>2. Max(s) \in s /\ \A y \in s : Max(s) >= y
  BY <1>1 DEF Max
<1>3. ASSUME NEW y \in s, y # Max(s) PROVE y \in 1..k
  <2>1. y \in 1..(k + 1) /\ Max(s) \in 1..(k + 1) /\ Max(s) >= y
    BY <1>2
  <2> QED BY <1>3, <2>1
<1> QED BY <1>2, <1>3

LEMMA MaxOfInterval ==
  ASSUME NEW k \in Nat
  PROVE  Max(1..(k + 1)) = k + 1 /\ 1..(k + 1) \ {k + 1} = 1..k
<1>1. 1..(k + 1) \in SUBSET (1..(k + 1)) /\ k + 1 \in 1..(k + 1)
  OBVIOUS
<1>2. Max(1..(k + 1)) \in 1..(k + 1) /\ 1..(k + 1) \ {Max(1..(k + 1))} \in SUBSET (1..k)
  BY <1>1, MaxOfPart
<1>3. k + 1 \notin 1..k
  OBVIOUS
<1> QED BY <1>1, <1>2, <1>3

\* GreedyMatch walks the sequence: from no pair, one Take per element.
LEMMA GreedyWalk ==
  ASSUME NEW order, NEW n \in Nat, DOMAIN order = 1..n
  PROVE  \E taken : /\ taken[0] = {} /\ taken[n] = GreedyMatch(order)
                    /\ \A k \in 0..(n - 1) : taken[k + 1] = Take(taken[k], order[k + 1])
<1> DEFINE Body(f, s) == IF s = {} THEN {} ELSE Take(f[s \ {Max(s)}], order[Max(s)])
           Walks(f, k) == f = [s \in SUBSET (1..k) |-> Body(f, s)]
           T == {k \in Nat : \E f : Walks(f, k)}
<1>1. 0 \in T
  <2> DEFINE f == [s \in SUBSET (1..0) |-> {}]
  <2>1. SUBSET (1..0) = {{}}
    OBVIOUS
  <2>2. Walks(f, 0)
    BY <2>1
  <2> QED BY <2>2
<1>2. ASSUME NEW k \in Nat, k \in T PROVE k + 1 \in T
  <2>1. PICK f : Walks(f, k)
    BY <1>2
  <2> DEFINE g == [s \in SUBSET (1..(k + 1)) |-> Body(f, s)]
  <2>2. ASSUME NEW s \in SUBSET (1..(k + 1)) PROVE Body(g, s) = Body(f, s)
    <3>1. CASE s = {}
      BY <3>1
    <3>2. CASE s # {}
      <4>1. s \ {Max(s)} \in SUBSET (1..k)
        BY <3>2, MaxOfPart
      <4>2. SUBSET (1..k) \subseteq SUBSET (1..(k + 1))
        OBVIOUS
      <4>3. g[s \ {Max(s)}] = Body(f, s \ {Max(s)})
        BY <4>1, <4>2
      <4>4. f[s \ {Max(s)}] = Body(f, s \ {Max(s)})
        <5> HIDE DEF Body
        <5> QED BY <2>1, <4>1
      <4> HIDE DEF g
      <4> QED BY <3>2, <4>3, <4>4
    <3> QED BY <3>1, <3>2
  <2>3. Walks(g, k + 1)
    <3> HIDE DEF Body
    <3> QED BY <2>2
  <2>4. \E h : Walks(h, k + 1)
    <3> HIDE DEF Walks, g
    <3> QED BY <2>3
  <2> HIDE DEF Walks
  <2> QED BY <2>4
<1>3. n \in T
  <2> HIDE DEF T
  <2> QED BY <1>1, <1>2, NatSetInduction
<1> DEFINE iter == CHOOSE f : Walks(f, n)
<1>4. Walks(iter, n)
  BY <1>3
<1>5. GreedyMatch(order) = iter[1..n]
  BY DEF GreedyMatch, FoldLeft, MapThenFoldSet
<1> HIDE DEF iter
<1> DEFINE taken == [k \in 0..n |-> iter[1..k]]
<1>6. \A s \in SUBSET (1..n) : iter[s] = Body(iter, s)
  <2> HIDE DEF Body
  <2> QED BY <1>4
<1>7. taken[0] = {}
  <2>1. 1..0 = {} /\ {} \in SUBSET (1..n) /\ 0 \in 0..n
    OBVIOUS
  <2>2. iter[{}] = {}
    BY <1>6, <2>1
  <2> QED BY <2>1, <2>2
<1>8. taken[n] = GreedyMatch(order)
  BY <1>5
<1>9. ASSUME NEW k \in 0..(n - 1) PROVE taken[k + 1] = Take(taken[k], order[k + 1])
  <2>1. k \in Nat /\ k \in 0..n /\ k + 1 \in 0..n /\ k + 1 \in 1..(k + 1)
    BY <1>9
  <2>2. 1..(k + 1) \in SUBSET (1..n) /\ 1..(k + 1) # {}
    BY <1>9, <2>1
  <2>3. Max(1..(k + 1)) = k + 1 /\ 1..(k + 1) \ {k + 1} = 1..k
    BY <2>1, MaxOfInterval
  <2>4. iter[1..(k + 1)] = Take(iter[1..k], order[k + 1])
    <3>1. iter[1..(k + 1)] = Body(iter, 1..(k + 1))
      BY <1>6, <2>2
    <3> QED BY <2>2, <2>3, <3>1
  <2> QED BY <2>1, <2>4
<1> HIDE DEF taken
<1> QED BY <1>7, <1>8, <1>9

\* A sorting of the eligible pairs lists each of them.
LEMMA SortedListsAll ==
  ASSUME NEW ids, IsFiniteSet(ids), NEW m \in Nat, NEW dist \in Distances(ids, m),
         NEW order \in Sorted(dist)
  PROVE  \E n \in Nat : /\ DOMAIN order = 1..n
                        /\ Eligible(dist) = {order[i] : i \in 1..n}
<1> DEFINE E == Eligible(dist)
           n == Cardinality(E)
<1>1. IsFiniteSet(E) /\ n \in Nat
  <2>1. IsFiniteSet(1..m)
    BY FS_Interval
  <2>2. IsFiniteSet(ids \X (1..m))
    BY <2>1, FS_Product
  <2>3. E \in SUBSET (ids \X (1..m))
    BY DEF Eligible, Distances
  <2> QED BY <2>2, <2>3, FS_Subset, FS_CardinalityType
<1>2. order \in [1..n -> E] /\ \A i, j \in 1..n : i # j => order[i] # order[j]
  BY DEF Sorted, SetToSeqs
<1> HIDE DEF E
<1>3. order \in Injection(1..n, E)
  BY <1>2 DEF Injection, IsInjective
<1>4. IsFiniteSet(1..n) /\ Cardinality(1..n) = n
  BY <1>1, FS_Interval
<1>5. order \in Surjection(1..n, E)
  BY <1>1, <1>3, <1>4, FS_Injection
<1>6. E = {order[i] : i \in 1..n}
  BY <1>2, <1>5 DEF Surjection
<1> QED BY <1>1, <1>2, <1>6 DEF E

\* The loop over the sorted pairs: what it took so far is a matching, and every pair it
\* passed over met the track or the detection in a pair at least as close.
LEMMA GreedyStable ==
  ASSUME NEW ids, IsFiniteSet(ids), NEW m \in Nat, NEW dist \in Distances(ids, m),
         NEW order \in Sorted(dist)
  PROVE  Stable(GreedyMatch(order), dist)
<1>1. PICK n \in Nat : DOMAIN order = 1..n /\ Eligible(dist) = {order[i] : i \in 1..n}
  BY SortedListsAll
<1>2. PICK taken : /\ taken[0] = {} /\ taken[n] = GreedyMatch(order)
                   /\ \A k \in 0..(n - 1) : taken[k + 1] = Take(taken[k], order[k + 1])
  BY <1>1, GreedyWalk
<1>3. ASSUME NEW i \in 1..n, NEW j \in 1..n, i <= j
      PROVE  dist[order[i]] <= dist[order[j]]
  <2>1. i < j => dist[order[i]] <= dist[order[j]]
    BY <1>1, <1>3 DEF Sorted
  <2>2. dist[order[j]] \in Int
    <3>1. order[j] \in DOMAIN dist
      BY <1>1 DEF Eligible
    <3> QED BY <3>1, TrackerAssumption DEF Distances
  <2> QED BY <1>3, <2>1, <2>2
<1> DEFINE Meet(p, q) == q[1] = p[1] \/ q[2] = p[2]
           Among(k) == taken[k] \subseteq {order[i] : i \in 1..k}
           Apart(k) == \A p, q \in taken[k] : Meet(p, q) => p = q
           Met(k) == \A i \in 1..k : \E q \in taken[k] : Meet(order[i], q) /\ dist[q] <= dist[order[i]]
           T == {k \in Nat : k <= n => Among(k) /\ Apart(k) /\ Met(k)}
<1>4. 0 \in T
  <2>1. 1..0 = {}
    OBVIOUS
  <2> QED BY <1>2, <2>1
<1>5. ASSUME NEW k \in Nat, k \in T PROVE k + 1 \in T
  <2> SUFFICES ASSUME k + 1 <= n PROVE Among(k + 1) /\ Apart(k + 1) /\ Met(k + 1)
    OBVIOUS
  <2>1. /\ k \in 0..(n - 1) /\ k + 1 \in 1..n /\ 1..k \subseteq 1..n
        /\ 1..(k + 1) = 1..k \cup {k + 1}
    OBVIOUS
  <2>2. Among(k) /\ Apart(k) /\ Met(k)
    BY <1>5
  <2> DEFINE p == order[k + 1]
  <2>3. taken[k + 1] = Take(taken[k], p)
    BY <1>2, <2>1
  <2>4. CASE \E q \in taken[k] : Meet(p, q)
    <3>1. taken[k + 1] = taken[k]
      BY <2>3, <2>4 DEF Take
    <3>2. PICK q \in taken[k] : Meet(p, q)
      BY <2>4
    <3>3. PICK j \in 1..k : q = order[j]
      BY <2>2
    <3>4. j \in 1..n /\ j <= k + 1
      BY <2>1
    <3>5. dist[q] <= dist[p]
      BY <1>3, <2>1, <3>3, <3>4
    <3>6. Met(k + 1)
      <4> SUFFICES ASSUME NEW i \in 1..(k + 1)
                   PROVE \E r \in taken[k + 1] : Meet(order[i], r) /\ dist[r] <= dist[order[i]]
        OBVIOUS
      <4>1. CASE i \in 1..k
        BY <2>2, <3>1, <4>1
      <4>2. CASE i = k + 1
        BY <3>1, <3>2, <3>5, <4>2
      <4> QED BY <2>1, <4>1, <4>2
    <3>7. Among(k + 1) /\ Apart(k + 1)
      BY <2>1, <2>2, <3>1
    <3> QED BY <3>6, <3>7
  <2>5. CASE ~ \E q \in taken[k] : Meet(p, q)
    <3>1. taken[k + 1] = taken[k] \cup {p}
      BY <2>3, <2>5 DEF Take
    <3>2. Among(k + 1)
      BY <2>1, <2>2, <3>1
    <3>3. Apart(k + 1)
      BY <2>2, <2>5, <3>1
    <3>4. dist[p] <= dist[p]
      BY <1>3, <2>1
    <3>5. Met(k + 1)
      <4> SUFFICES ASSUME NEW i \in 1..(k + 1)
                   PROVE \E r \in taken[k + 1] : Meet(order[i], r) /\ dist[r] <= dist[order[i]]
        OBVIOUS
      <4>1. CASE i \in 1..k
        BY <2>2, <3>1, <4>1
      <4>2. CASE i = k + 1
        BY <3>1, <3>4, <4>2
      <4> QED BY <2>1, <4>1, <4>2
    <3> QED BY <3>2, <3>3, <3>5
  <2> QED BY <2>4, <2>5
<1>6. n \in T
  <2> HIDE DEF T
  <2> QED BY <1>4, <1>5, NatSetInduction
<1>7. Among(n) /\ Apart(n) /\ Met(n)
  BY <1>6
<1> DEFINE match == GreedyMatch(order)
<1>8. match \subseteq Eligible(dist)
  BY <1>1, <1>2, <1>7
<1>9. \A p, q \in match : (p[1] = q[1] \/ p[2] = q[2]) => p = q
  BY <1>2, <1>7
<1>10. ASSUME NEW p \in Eligible(dist)
       PROVE  \E q \in match : (q[1] = p[1] \/ q[2] = p[2]) /\ dist[q] <= dist[p]
  <2>1. PICK i \in 1..n : p = order[i]
    BY <1>1
  <2> QED BY <1>2, <1>7, <2>1
<1> HIDE DEF match
<1>11. Stable(match, dist)
  BY <1>8, <1>9, <1>10 DEF Stable
<1> QED BY <1>11 DEF match

\* No id is given out beyond those of the model.
IdsBounded == nextId \in 1..(MaxId + 1)

LEMMA IdsBoundedInvariant == SafeSpec => []IdsBounded
<1>1. Init => IdsBounded
  BY TrackerAssumption DEF Init, IdsBounded
<1>2. TypeOK /\ IdsBounded /\ [Next]_vars => IdsBounded'
  <2> SUFFICES ASSUME TypeOK, IdsBounded, [Next]_vars PROVE IdsBounded'
    OBVIOUS
  <2>1. CASE Update
    <3>1. PICK m \in Matchings : UpdateWith(m[2], m[3])
      BY <2>1 DEF Update
    <3>2. m[3] \in Nat
      BY LeftIsCounted
    <3>3. Started(m[3]) \in Nat
      BY <3>2, StartedFits
    <3>4. nextId + Started(m[3]) <= MaxId + 1 /\ nextId' = nextId + Started(m[3])
      BY <3>1 DEF UpdateWith
    <3> QED BY <3>3, <3>4, TrackerAssumption DEF IdsBounded
  <2>2. CASE Reset \/ Release
    BY <2>2, TrackerAssumption DEF Reset, Release, IdsBounded
  <2>3. CASE UNCHANGED vars
    BY <2>3 DEF vars, IdsBounded
  <2> QED BY <2>1, <2>2, <2>3 DEF Next
<1> QED BY <1>1, <1>2, TrackerTypeInvariant, PTL DEF SafeSpec

\* MatchDetections computes a stable matching of the live tracks with any result,
\* whatever the distances and wherever the sort leaves equal pairs.
THEOREM MatchStableInvariant == SafeSpec => []MatchStable
<1>1. TypeOK /\ IdsBounded => MatchStable
  <2> SUFFICES ASSUME TypeOK, IdsBounded PROVE MatchStable
    OBVIOUS
  <2> DEFINE live == DOMAIN tracks
             Verdict(ids) == \A dist \in Distances(ids, MaxDetections) :
                               \A order \in Sorted(dist) : Stable(GreedyMatch(order), dist)
  <2>1. live \in LiveIds
    <3>1. live \subseteq 1..(nextId - 1) /\ Cardinality(live) <= MaxTracks
      BY DEF TypeOK
    <3>2. 1..(nextId - 1) \subseteq 1..MaxId
      BY TrackerAssumption DEF IdsBounded
    <3> HIDE DEF live
    <3> QED BY <3>1, <3>2 DEF LiveIds
  <2>2. IsFiniteSet(live)
    <3>1. IsFiniteSet(1..MaxId)
      BY TrackerAssumption, FS_Interval
    <3> QED BY <2>1, <3>1, FS_Subset DEF LiveIds
  <2>3. Verdict(live)
    BY <2>2, GreedyStable, TrackerAssumption
  <2>4. StableVerdicts = {<<ids, Verdict(ids)>> : ids \in LiveIds}
    BY DEF StableVerdicts
  <2> HIDE DEF Verdict, live
  <2>5. <<live, Verdict(live)>> \in StableVerdicts
    BY <2>1, <2>4
  <2>6. <<live, TRUE>> \in StableVerdicts
    <3>1. Verdict(live) \in BOOLEAN
      BY DEF Verdict
    <3>2. Verdict(live) = TRUE
      BY <2>3, <3>1, Zenon
    <3> QED BY <2>5, <3>2
  <2> QED BY <2>6 DEF MatchStable, live
<1> QED BY <1>1, TrackerTypeInvariant, IdsBoundedInvariant, PTL
=============================================================================
