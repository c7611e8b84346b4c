----------------------- MODULE FrameSynchronizerProofs -----------------------
(***************************************************************************)
(* Proofs about FrameSynchronizer, for any tolerance, any capacities and   *)
(* any delay: types and limits, the order of the pairs, the account of the *)
(* frames, and that a frame dropped as too old had no partner to come.     *)
(***************************************************************************)
EXTENDS FrameSynchronizer, SequenceTheorems, WellFoundedInduction, TLAPS

LEMMA LeastNatural ==
  ASSUME NEW S \in SUBSET Nat, S # {}
  PROVE  \E x \in S : \A y \in S : x <= y
<1> DEFINE R == {ss \in Nat \X Nat : ss[1] < ss[2]}
<1>1. IsWellFoundedOn(R, Nat)
  BY NatLessThanWellFounded DEF OpToRel
<1> HIDE DEF R
<1>2. PICK x \in S : \A y \in S : <<y, x>> \notin R
  BY <1>1, WFMin
<1>3. ASSUME NEW y \in S PROVE x <= y
  <2>1. x \in Nat /\ y \in Nat
    OBVIOUS
  <2>2. y < x => <<y, x>> \in R
    BY <2>1 DEF R
  <2> QED BY <1>2, <2>1, <2>2
<1> QED BY <1>3

\* What taking frames off the front of a deque leaves.
LEMMA FrontTaken ==
  ASSUME NEW s \in Seq(Frames), NEW k \in 0..Len(s)
  PROVE  LET t == SubSeq(s, k + 1, Len(s)) IN
         /\ t \in Seq(Frames) /\ Len(t) = Len(s) - k
         /\ \A i \in 1..Len(t) : i + k \in 1..Len(s) /\ t[i] = s[i + k]
<1> DEFINE t == SubSeq(s, k + 1, Len(s))
<1>1. Len(s) \in Nat /\ \A i \in (k + 1)..Len(s) : s[i] \in Frames
  BY LenProperties, ElementOfSeq
<1>2. /\ t \in Seq(Frames)
      /\ Len(t) = IF k + 1 <= Len(s) THEN Len(s) - (k + 1) + 1 ELSE 0
      /\ \A i \in 1..(Len(s) - (k + 1) + 1) : t[i] = s[(k + 1) + i - 1]
  BY <1>1, SubSeqProperties
<1> HIDE DEF t
<1>3. Len(t) = Len(s) - k
  BY <1>1, <1>2
<1>4. ASSUME NEW i \in 1..Len(t) PROVE i + k \in 1..Len(s) /\ t[i] = s[i + k]
  BY <1>1, <1>2, <1>3
<1> QED BY <1>2, <1>3, <1>4 DEF t

LEMMA StampOf ==
  ASSUME NEW s \in Seq(Frames)
  PROVE  /\ DOMAIN s = 1..Len(s) /\ Len(s) \in Nat
         /\ \A i \in 1..Len(s) : s[i] \in Frames /\ s[i].stamp \in Int
<1>1. DOMAIN s = 1..Len(s) /\ Len(s) \in Nat
  BY LenProperties
<1>2. ASSUME NEW i \in 1..Len(s) PROVE s[i] \in Frames
  BY ElementOfSeq
<1>3. \A f \in Frames : f.stamp \in Int
  BY DEF Frames
<1> QED BY <1>1, <1>2, <1>3

LEMMA DistanceProperties ==
  ASSUME NEW f \in Frames, NEW g \in Frames
  PROVE  /\ Distance(f, g) \in Nat /\ Distance(f, g) = Distance(g, f)
         /\ f.stamp <= g.stamp => Distance(f, g) = g.stamp - f.stamp
BY DEF Distance, Frames

\* Best is a pair of positions, and no pair is closer.
LEMMA BestProperties ==
  ASSUME deque \in [Cameras -> Seq(Frames)], Positions # {}
  PROVE  /\ Best \in Positions
         /\ \A q \in Positions : DistanceAt(Best) <= DistanceAt(q)
<1> DEFINE dists == {DistanceAt(p) : p \in Positions}
           Before(p, q) == \/ DistanceAt(p) < DistanceAt(q)
                           \/ /\ DistanceAt(p) = DistanceAt(q)
                              /\ p[1] < q[1] \/ (p[1] = q[1] /\ p[2] <= q[2])
<1>1. /\ deque["visible"] \in Seq(Frames) /\ deque["infrared"] \in Seq(Frames)
      /\ Positions = (1..Len(deque["visible"])) \X (1..Len(deque["infrared"]))
  BY LenProperties DEF Cameras, Positions
<1>2. ASSUME NEW p \in Positions PROVE DistanceAt(p) \in Nat /\ p[1] \in Nat /\ p[2] \in Nat
  <2>1. p[1] \in 1..Len(deque["visible"]) /\ p[2] \in 1..Len(deque["infrared"])
    BY <1>1
  <2>2. deque["visible"][p[1]] \in Frames /\ deque["infrared"][p[2]] \in Frames
    BY <1>1, <2>1, ElementOfSeq
  <2>3. Len(deque["visible"]) \in Nat /\ Len(deque["infrared"]) \in Nat
    BY <1>1, LenProperties
  <2>4. Distance(deque["visible"][p[1]], deque["infrared"][p[2]]) \in Nat
    BY <2>2, DistanceProperties
  <2> QED BY <2>1, <2>3, <2>4 DEF DistanceAt
<1>3. PICK d \in dists : \A e \in dists : d <= e
  <2>1. dists \in SUBSET Nat /\ dists # {}
    BY <1>2
  <2> QED BY <2>1, LeastNatural
<1> DEFINE firsts == {p[1] : p \in {q \in Positions : DistanceAt(q) = d}}
<1>4. PICK i \in firsts : \A j \in firsts : i <= j
  <2>1. firsts \in SUBSET Nat /\ firsts # {}
    BY <1>2
  <2> QED BY <2>1, LeastNatural
<1> DEFINE seconds == {p[2] : p \in {q \in Positions : DistanceAt(q) = d /\ q[1] = i}}
<1>5. PICK j \in seconds : \A l \in seconds : j <= l
  <2>1. seconds \in SUBSET Nat /\ seconds # {}
    BY <1>2
  <2> QED BY <2>1, LeastNatural
<1>6. PICK p \in Positions : DistanceAt(p) = d /\ p[1] = i /\ p[2] = j
  OBVIOUS
<1>7. ASSUME NEW q \in Positions PROVE Before(p, q)
  <2>1. DistanceAt(p) <= DistanceAt(q)
    BY <1>3, <1>6
  <2>2. DistanceAt(q) = d => p[1] <= q[1]
    BY <1>4, <1>6
  <2>3. DistanceAt(q) = d /\ q[1] = i => p[2] <= q[2]
    BY <1>5, <1>6
  <2> QED BY <2>1, <2>2, <2>3, <1>2, <1>6
<1>8. Best \in Positions /\ \A q \in Positions : Before(Best, q)
  <2>1. \E x \in Positions : \A q \in Positions : Before(x, q)
    BY <1>7
  <2> QED BY <2>1 DEF Best
<1>9. ASSUME NEW q \in Positions PROVE DistanceAt(Best) <= DistanceAt(q)
  BY <1>2, <1>8
<1> QED BY <1>8, <1>9
-----------------------------------------------------------------------------
\* Frames in the order of their stamps, all of them after lo and none after hi.
Between(s, lo, hi) ==
  Increasing(s) /\ \A i \in DOMAIN s : lo < s[i].stamp /\ s[i].stamp <= hi

\* Every element of t is one of s.
Among(t, s) == \A i \in DOMAIN t : \E j \in DOMAIN s : t[i] = s[j]

LEMMA BetweenWidens ==
  ASSUME NEW s \in Seq(Frames), NEW lo \in Int, NEW hi \in Int, Between(s, lo, hi),
         NEW lower \in Int, NEW higher \in Int, lower <= lo, hi <= higher
  PROVE  Between(s, lower, higher)
<1>1. \A i \in DOMAIN s : s[i].stamp \in Int
  BY StampOf
<1> QED BY <1>1 DEF Between

\* The frames behind the k-th are after it.
LEMMA BetweenFront ==
  ASSUME NEW s \in Seq(Frames), NEW lo \in Int, NEW hi \in Int, Between(s, lo, hi),
         NEW k \in 1..Len(s)
  PROVE  LET t == SubSeq(s, k + 1, Len(s)) IN
         /\ t \in Seq(Frames) /\ Len(t) = Len(s) - k /\ Among(t, s)
         /\ Between(t, s[k].stamp, hi)
         /\ s[k].stamp \in Int /\ lo < s[k].stamp /\ s[k].stamp <= hi
<1> DEFINE t == SubSeq(s, k + 1, Len(s))
<1>1. /\ t \in Seq(Frames) /\ Len(t) = Len(s) - k /\ Len(s) \in Nat
      /\ \A i \in 1..Len(t) : i + k \in 1..Len(s) /\ t[i] = s[i + k]
  <2>1. k \in 0..Len(s) /\ Len(s) \in Nat
    BY StampOf
  <2> QED BY <2>1, FrontTaken
<1>2. DOMAIN t = 1..Len(t) /\ DOMAIN s = 1..Len(s)
  BY <1>1, LenProperties
<1>3. \A i \in 1..Len(s) : s[i].stamp \in Int
  BY StampOf
<1> HIDE DEF t
<1>4. Among(t, s)
  BY <1>1, <1>2 DEF Among
<1>5. lo < s[k].stamp /\ s[k].stamp <= hi
  BY <1>2 DEF Between
<1>6. ASSUME NEW i \in 1..Len(t) PROVE s[k].stamp < t[i].stamp /\ t[i].stamp <= hi
  <2>1. k < i + k
    BY <1>1
  <2> QED BY <1>1, <1>2, <2>1 DEF Between, Increasing
<1>7. ASSUME NEW i \in 1..Len(t), NEW j \in 1..Len(t), i < j PROVE t[i].stamp < t[j].stamp
  <2>1. i + k < j + k
    BY <1>1, <1>7
  <2> QED BY <1>1, <1>2, <2>1 DEF Between, Increasing
<1>8. Between(t, s[k].stamp, hi)
  BY <1>2, <1>6, <1>7 DEF Between, Increasing
<1> QED BY <1>1, <1>3, <1>4, <1>5, <1>8 DEF t

LEMMA BetweenAppend ==
  ASSUME NEW s \in Seq(Frames), NEW lo \in Int, NEW hi \in Int, Between(s, lo, hi), lo <= hi,
         NEW f \in Frames, hi < f.stamp
  PROVE  /\ Append(s, f) \in Seq(Frames) /\ Len(Append(s, f)) = Len(s) + 1
         /\ Between(Append(s, f), lo, f.stamp)
         /\ \A i \in DOMAIN Append(s, f) : Append(s, f)[i] = f \/ \E j \in DOMAIN s : Append(s, f)[i] = s[j]
<1> DEFINE t == Append(s, f)
<1>1. /\ t \in Seq(Frames) /\ Len(t) = Len(s) + 1 /\ Len(s) \in Nat
      /\ \A i \in 1..Len(s) : t[i] = s[i]
      /\ t[Len(s) + 1] = f
  BY AppendProperties, LenProperties
<1>2. DOMAIN t = 1..(Len(s) + 1) /\ DOMAIN s = 1..Len(s)
  BY <1>1, LenProperties
<1>3. /\ \A i \in 1..Len(s) : s[i].stamp \in Int
      /\ f.stamp \in Int
  BY StampOf DEF Frames
<1> HIDE DEF t
<1>4. ASSUME NEW i \in DOMAIN t
      PROVE  /\ lo < t[i].stamp /\ t[i].stamp <= f.stamp
             /\ t[i] = f \/ \E j \in DOMAIN s : t[i] = s[j]
  <2>1. CASE i = Len(s) + 1
    BY <1>1, <1>3, <2>1
  <2>2. CASE i \in 1..Len(s)
    <3>1. lo < s[i].stamp /\ s[i].stamp <= hi
      BY <1>2, <2>2 DEF Between
    <3> QED BY <1>1, <1>2, <1>3, <2>2, <3>1
  <2> QED BY <1>1, <1>2, <2>1, <2>2
<1>5. ASSUME NEW i \in DOMAIN t, NEW j \in DOMAIN t, i < j PROVE t[i].stamp < t[j].stamp
  <2>1. i \in 1..Len(s) /\ t[i] = s[i] /\ s[i].stamp <= hi
    BY <1>1, <1>2, <1>5 DEF Between
  <2>2. CASE j = Len(s) + 1
    BY <1>1, <1>3, <2>1, <2>2
  <2>3. CASE j \in 1..Len(s)
    BY <1>1, <1>2, <1>5, <2>1, <2>3 DEF Between, Increasing
  <2> QED BY <1>1, <1>2, <2>2, <2>3
<1> QED BY <1>1, <1>4, <1>5 DEF t, Between, Increasing

\* Tail is what is behind the first.
LEMMA TailIsFront ==
  ASSUME NEW s \in Seq(Frames), s # <<>>
  PROVE  /\ Tail(s) = SubSeq(s, 1 + 1, Len(s)) /\ 1 \in 1..Len(s) /\ Head(s) = s[1]
         /\ Head(s) \in Frames /\ Len(s) \in Nat
<1>1. Len(s) \in Nat \ {0}
  BY EmptySeq, LenProperties
<1> QED BY <1>1, TailIsSubSeq, HeadTailProperties
-----------------------------------------------------------------------------
\* One camera's frames on their way: the last pair, the deque, the input queue,
\* the last frame stamped.
CameraInv(c) ==
  \E mid \in Int :
    /\ lastPair[c].stamp <= mid /\ mid <= last[c].stamp
    /\ Between(deque[c], lastPair[c].stamp, mid)
    /\ Between(input[c], mid, last[c].stamp)

\* A frame dropped as too old is out of the tolerance of what the other camera
\* has shown since, and therefore of what it will show.
StaleInv(c) ==
  \A f \in stale[c] :
    /\ f.stamp + MaxDiff < last[Other(c)].stamp
    /\ \A s \in {deque[Other(c)], input[Other(c)]} : \A i \in DOMAIN s :
         f.stamp + MaxDiff < s[i].stamp

\* The pairs waiting are in order, none of them after the last pair, and the pair
\* on its way to the output queue is the last one.
OutputInv ==
  /\ synced = IF pc = "output" THEN {lastPair} ELSE {}
  /\ \A c \in Cameras : \A i \in DOMAIN output :
       /\ output[i][c].stamp <= lastPair[c].stamp
       /\ pc = "output" => output[i][c].stamp < lastPair[c].stamp
  /\ \A c \in Cameras : \A i, j \in DOMAIN output :
       i < j => output[i][c].stamp < output[j][c].stamp

SyncInv ==
  /\ TypeOK /\ FramesConserved /\ OutputInv
  /\ \A c \in Cameras : CameraInv(c) /\ StaleInv(c)

Places == {"drain visible", "drain infrared", "try sync", "output", "check", "block", "wait",
           "done"}
StopPlaces == {"running", "queues", "flag", "join", "stopped"}

LEMMA SyncInitInv == Init => SyncInv
<1> SUFFICES ASSUME Init PROVE SyncInv
  OBVIOUS
<1>1. NoFrame \in Frames /\ NoFrame.stamp = -1
  BY DEF NoFrame, Frames
<1>2. \A c \in Cameras : /\ last[c] = NoFrame /\ lastPair[c] = NoFrame /\ stale[c] = {}
                         /\ deque[c] = <<>> /\ input[c] = <<>>
  BY DEF Init
<1>3. TypeOK
  <2>1. last \in [Cameras -> Frames] /\ lastPair \in Pairs
    BY <1>1 DEF Init, Pairs
  <2>2. input \in [Cameras -> Seq(Frames)] /\ deque \in [Cameras -> Seq(Frames)]
    <3>1. <<>> \in Seq(Frames)
      BY EmptySeq
    <3> QED BY <3>1 DEF Init
  <2>3. \A c \in Cameras : Len(input[c]) <= InputSize /\ Len(deque[c]) <= MaxQueue
    BY <1>2, SyncAssumption
  <2>4. output \in Seq(Pairs) /\ Len(output) <= OutputSize
    <3>1. output = <<>> /\ <<>> \in Seq(Pairs) /\ Len(<<>>) = 0
      BY EmptySeq DEF Init
    <3> QED BY <3>1, SyncAssumption
  <2>5. stale \in [Cameras -> SUBSET Frames]
    BY DEF Init
  <2>6. clock \in Nat /\ syncCount \in Nat /\ dropCount \in Nat /\ drained \in Nat
    BY DEF Init
  <2>7. open \in BOOLEAN /\ running \in BOOLEAN /\ pc = "drain visible" /\ synced = {} /\ stopPc = "running"
    BY DEF Init
  <2> QED BY <2>1, <2>2, <2>3, <2>4, <2>5, <2>6, <2>7 DEF TypeOK
<1>4. FramesConserved
  <2>1. Len(deque["visible"]) = 0 /\ Len(deque["infrared"]) = 0
    BY <1>2 DEF Cameras
  <2>2. drained = 0 /\ dropCount = 0 /\ syncCount = 0
    BY DEF Init
  <2> QED BY <2>1, <2>2 DEF FramesConserved
<1>5. OutputInv
  <2>1. output = <<>> /\ synced = {} /\ pc = "drain visible"
    BY DEF Init
  <2>2. DOMAIN output = {}
    <3>1. output \in Seq(Pairs) /\ Len(output) = 0
      BY <2>1, EmptySeq
    <3>2. DOMAIN output = 1..0
      BY <3>1, LenProperties
    <3> QED BY <3>2
  <2> QED BY <2>1, <2>2 DEF OutputInv
<1>6. ASSUME NEW c \in Cameras PROVE CameraInv(c) /\ StaleInv(c)
  <2>1. /\ lastPair[c].stamp = -1 /\ last[c].stamp = -1
        /\ deque[c] = <<>> /\ input[c] = <<>> /\ stale[c] = {}
    BY <1>1, <1>2
  <2>2. Between(<<>>, -1, -1)
    BY DEF Between, Increasing
  <2> QED BY <2>1, <2>2 DEF CameraInv, StaleInv
<1> QED BY <1>3, <1>4, <1>5, <1>6 DEF SyncInv

\* A step that moves no frame.
LEMMA NothingMoves ==
  ASSUME SyncInv, UNCHANGED <<last, input, deque, output, synced, countVars>>,
         clock' \in Nat, open' \in BOOLEAN, running' \in BOOLEAN,
         pc' \in Places, stopPc' \in StopPlaces, pc' = "output" <=> pc = "output"
  PROVE  SyncInv'
<1> USE DEF countVars
<1>1. TypeOK'
  BY DEF SyncInv, TypeOK, Places, StopPlaces
<1>2. FramesConserved'
  BY DEF SyncInv, FramesConserved
<1>3. OutputInv'
  BY DEF SyncInv, OutputInv
<1>4. ASSUME NEW c \in Cameras PROVE CameraInv(c)' /\ StaleInv(c)'
  <2>1. CameraInv(c) /\ StaleInv(c)
    BY DEF SyncInv
  <2> QED BY <2>1 DEF CameraInv, StaleInv
<1> QED BY <1>1, <1>2, <1>3, <1>4 DEF SyncInv

\* The order of the frames and of the pairs is kept by what the readers, the
\* result thread and the steps of SyncLoop do with them.

LEMMA PushInputKeeps ==
  ASSUME SyncInv, NEW cam \in Cameras, PushInput(cam)
  PROVE  SyncInv'
<1>1. PICK pts \in (clock - MaxDelay)..clock :
        LET f == [pts |-> pts, stamp |-> clock] IN
          /\ last' = [last EXCEPT ![cam] = f]
          /\ input' = IF open /\ Len(input[cam]) < InputSize
                      THEN [input EXCEPT ![cam] = Append(@, f)] ELSE input
  BY DEF PushInput
<1> DEFINE f == [pts |-> pts, stamp |-> clock]
<1>2. /\ last[cam].stamp < clock
      /\ UNCHANGED <<clock, deque, output, pc, synced, running, open, stopPc,
                     syncCount, dropCount, drained, lastPair, stale>>
  BY DEF PushInput, stopVars, countVars
<1>3. TypeOK /\ clock \in Nat /\ last \in [Cameras -> Frames] /\ input \in [Cameras -> Seq(Frames)]
  BY DEF SyncInv, TypeOK
<1>4. f \in Frames /\ f.stamp = clock
  BY <1>3, SyncAssumption DEF Frames
<1> HIDE DEF f
<1>5. last' = [last EXCEPT ![cam] = f]
  BY <1>1 DEF f
<1>6. \/ input' = input
      \/ Len(input[cam]) < InputSize /\ input' = [input EXCEPT ![cam] = Append(input[cam], f)]
  BY <1>1 DEF f
<1>7. /\ input[cam] \in Seq(Frames) /\ Append(input[cam], f) \in Seq(Frames)
      /\ Len(Append(input[cam], f)) = Len(input[cam]) + 1 /\ Len(input[cam]) \in Nat
  BY <1>3, <1>4, AppendProperties, LenProperties
<1>8. TypeOK'
  <2>1. last' \in [Cameras -> Frames] /\ input' \in [Cameras -> Seq(Frames)]
    BY <1>3, <1>4, <1>5, <1>6, <1>7
  <2>2. \A c \in Cameras : Len(input'[c]) <= InputSize
    <3>1. \A c \in Cameras : Len(input[c]) <= InputSize
      BY <1>3 DEF TypeOK
    <3>2. ASSUME NEW c \in Cameras, c = cam, input' # input
          PROVE  input'[c] = Append(input[cam], f) /\ Len(input[cam]) < InputSize
      BY <1>3, <1>6, <3>2
    <3>3. \A c \in Cameras : c # cam \/ input' = input => input'[c] = input[c]
      BY <1>3, <1>6
    <3> QED BY <1>7, <3>1, <3>2, <3>3, SyncAssumption
  <2> QED BY <1>2, <1>3, <2>1, <2>2 DEF TypeOK
<1>9. FramesConserved' /\ OutputInv'
  BY <1>2 DEF SyncInv, FramesConserved, OutputInv
<1>10. ASSUME NEW c \in Cameras PROVE CameraInv(c)'
  <2>1. PICK mid \in Int :
          /\ lastPair[c].stamp <= mid /\ mid <= last[c].stamp
          /\ Between(deque[c], lastPair[c].stamp, mid)
          /\ Between(input[c], mid, last[c].stamp)
    BY DEF SyncInv, CameraInv
  <2>2. lastPair'[c] = lastPair[c] /\ deque'[c] = deque[c]
    BY <1>2
  <2>3. CASE c # cam
    <3>1. input'[c] = input[c] /\ last'[c] = last[c]
      BY <1>3, <1>5, <1>6, <2>3
    <3> QED BY <2>1, <2>2, <3>1 DEF CameraInv
  <2>4. CASE c = cam
    <3>1. last'[c] = f /\ last[c].stamp \in Int
      BY <1>3, <1>5, <2>4 DEF Frames
    <3>2. mid <= f.stamp
      BY <1>2, <1>3, <1>4, <2>1, <2>4, <3>1
    <3>3. Between(input'[c], mid, f.stamp)
      <4>1. CASE input' = input
        BY <1>2, <1>3, <1>4, <1>7, <2>1, <2>4, <3>1, <4>1, BetweenWidens
      <4>2. CASE input' # input
        <5>1. input'[c] = Append(input[c], f)
          BY <1>3, <1>6, <2>4, <4>2
        <5> QED BY <1>2, <1>3, <1>4, <1>7, <2>1, <2>4, <3>1, <5>1, BetweenAppend
      <4> QED BY <4>1, <4>2
    <3> QED BY <2>1, <2>2, <3>1, <3>2, <3>3 DEF CameraInv
  <2> QED BY <2>3, <2>4
<1>11. ASSUME NEW c \in Cameras PROVE StaleInv(c)'
  <2> DEFINE o == Other(c)
  <2>1. o \in Cameras
    BY DEF Cameras, Other
  <2> SUFFICES ASSUME NEW g \in stale[c]
               PROVE  /\ g.stamp + MaxDiff < last'[o].stamp
                      /\ \A s \in {deque[o], input'[o]} : \A i \in DOMAIN s :
                           g.stamp + MaxDiff < s[i].stamp
    BY <1>2 DEF StaleInv
  <2>2. /\ g.stamp + MaxDiff < last[o].stamp /\ g.stamp \in Int
        /\ \A s \in {deque[o], input[o]} : \A i \in DOMAIN s : g.stamp + MaxDiff < s[i].stamp
    <3>1. g \in Frames
      BY DEF SyncInv, TypeOK
    <3> QED BY <3>1 DEF SyncInv, StaleInv, Frames
  <2> HIDE DEF o
  <2>3. CASE o # cam
    BY <1>3, <1>5, <1>6, <2>1, <2>2, <2>3
  <2>4. CASE o = cam
    <3>1. last'[o] = f /\ last[o].stamp \in Int
      BY <1>3, <1>5, <2>4 DEF Frames
    <3>2. g.stamp + MaxDiff < f.stamp
      BY <1>2, <1>3, <1>4, <2>2, <2>4, <3>1, SyncAssumption
    <3>3. ASSUME NEW i \in DOMAIN input'[o] PROVE g.stamp + MaxDiff < input'[o][i].stamp
      <4>1. CASE input' = input
        BY <2>2, <3>3, <4>1
      <4>2. CASE input' # input
        <5>1. input'[o] = Append(input[o], f)
          BY <1>3, <1>6, <2>4, <4>2
        <5>2. /\ DOMAIN input'[o] = 1..(Len(input[o]) + 1) /\ DOMAIN input[o] = 1..Len(input[o])
              /\ \A j \in 1..Len(input[o]) : input'[o][j] = input[o][j]
              /\ input'[o][Len(input[o]) + 1] = f
          BY <1>4, <1>7, <2>4, <5>1, AppendProperties, LenProperties
        <5> QED BY <1>7, <2>2, <2>4, <3>2, <3>3, <5>2
      <4> QED BY <4>1, <4>2
    <3> QED BY <2>2, <3>1, <3>2, <3>3
  <2> QED BY <2>3, <2>4
<1> QED BY <1>8, <1>9, <1>10, <1>11 DEF SyncInv

LEMMA TakePairKeeps == ASSUME SyncInv, TakePair PROVE SyncInv'
<1>1. /\ output # <<>> /\ output' = Tail(output)
      /\ UNCHANGED <<clock, last, input, deque, pc, synced, running, open, stopPc,
                     syncCount, dropCount, drained, lastPair, stale>>
  BY DEF TakePair, stopVars, countVars
<1>2. output \in Seq(Pairs) /\ Len(output) <= OutputSize
  BY DEF SyncInv, TypeOK
<1>3. /\ output' \in Seq(Pairs) /\ Len(output') = Len(output) - 1 /\ Len(output) \in Nat
      /\ \A i \in 1..Len(output') : output'[i] = output[i + 1]
  BY <1>1, <1>2, HeadTailProperties, LenProperties
<1>4. DOMAIN output = 1..Len(output) /\ DOMAIN output' = 1..Len(output')
  BY <1>2, <1>3, LenProperties
<1>5. \A i \in DOMAIN output' : i + 1 \in DOMAIN output /\ output'[i] = output[i + 1] /\ i \in Nat
  BY <1>3, <1>4
<1>6. Len(output') <= OutputSize
  BY <1>2, <1>3, SyncAssumption
<1>7. TypeOK'
  BY <1>1, <1>3, <1>6 DEF SyncInv, TypeOK
<1>8. OutputInv'
  <2>1. ASSUME NEW c \in Cameras, NEW i \in DOMAIN output'
        PROVE  /\ output'[i][c].stamp <= lastPair[c].stamp
               /\ pc = "output" => output'[i][c].stamp < lastPair[c].stamp
    BY <1>5 DEF SyncInv, OutputInv
  <2>2. ASSUME NEW c \in Cameras, NEW i \in DOMAIN output', NEW j \in DOMAIN output', i < j
        PROVE  output'[i][c].stamp < output'[j][c].stamp
    <3>1. i + 1 < j + 1
      BY <1>5, <2>2
    <3> QED BY <1>5, <3>1 DEF SyncInv, OutputInv
  <2>3. synced = IF pc = "output" THEN {lastPair} ELSE {}
    BY DEF SyncInv, OutputInv
  <2> QED BY <1>1, <2>1, <2>2, <2>3 DEF OutputInv
<1>9. FramesConserved' /\ \A c \in Cameras : CameraInv(c)' /\ StaleInv(c)'
  BY <1>1 DEF SyncInv, FramesConserved, CameraInv, StaleInv
<1> QED BY <1>7, <1>8, <1>9 DEF SyncInv

LEMMA OutputKeeps == ASSUME SyncInv, Output PROVE SyncInv'
<1>1. /\ pc = "output" /\ synced' = {} /\ pc' \in {"drain visible", "done"}
      /\ UNCHANGED <<clock, last, input, deque, running, open, stopPc,
                     syncCount, dropCount, drained, lastPair, stale>>
  BY DEF Output, LoopHead, stopVars, countVars
<1>2. synced = {lastPair} /\ lastPair \in Pairs /\ output \in Seq(Pairs) /\ Len(output) <= OutputSize
  BY <1>1 DEF SyncInv, TypeOK, OutputInv
<1>3. \/ output' = output
      \/ Len(output) < OutputSize /\ output' = Append(output, lastPair)
  BY <1>2 DEF Output
<1>4. /\ Append(output, lastPair) \in Seq(Pairs) /\ Len(Append(output, lastPair)) = Len(output) + 1
      /\ Len(output) \in Nat /\ DOMAIN output = 1..Len(output)
      /\ DOMAIN Append(output, lastPair) = 1..(Len(output) + 1)
      /\ \A i \in 1..Len(output) : Append(output, lastPair)[i] = output[i]
      /\ Append(output, lastPair)[Len(output) + 1] = lastPair
  BY <1>2, AppendProperties, LenProperties
<1>5. output' \in Seq(Pairs) /\ Len(output') <= OutputSize
  BY <1>2, <1>3, <1>4, SyncAssumption
<1>6. TypeOK'
  BY <1>1, <1>5 DEF SyncInv, TypeOK
<1>7. OutputInv'
  <2>1. \A c \in Cameras : lastPair[c].stamp \in Int
    BY <1>2 DEF Pairs, Frames
  <2>2. ASSUME NEW c \in Cameras, NEW i \in DOMAIN output'
        PROVE  output'[i][c].stamp <= lastPair[c].stamp
    <3>1. \A j \in DOMAIN output : output[j][c].stamp <= lastPair[c].stamp
      BY DEF SyncInv, OutputInv
    <3> QED BY <1>3, <1>4, <2>1, <2>2, <3>1
  <2>3. ASSUME NEW c \in Cameras, NEW i \in DOMAIN output', NEW j \in DOMAIN output', i < j
        PROVE  output'[i][c].stamp < output'[j][c].stamp
    <3>1. CASE output' = output
      BY <2>3, <3>1 DEF SyncInv, OutputInv
    <3>2. CASE output' = Append(output, lastPair) /\ j \in 1..Len(output)
      <4>1. i \in DOMAIN output /\ j \in DOMAIN output /\ output'[i] = output[i] /\ output'[j] = output[j]
        BY <1>4, <2>3, <3>2
      <4> QED BY <2>3, <4>1 DEF SyncInv, OutputInv
    <3>3. CASE output' = Append(output, lastPair) /\ j = Len(output) + 1
      <4>1. i \in DOMAIN output /\ output'[i] = output[i] /\ output'[j] = lastPair
        BY <1>4, <2>3, <3>3
      <4> QED BY <1>1, <4>1 DEF SyncInv, OutputInv
    <3> QED BY <1>3, <1>4, <2>3, <3>1, <3>2, <3>3
  <2>4. pc' # "output"
    BY <1>1
  <2> QED BY <1>1, <2>2, <2>3, <2>4 DEF OutputInv
<1>8. FramesConserved' /\ \A c \in Cameras : CameraInv(c)' /\ StaleInv(c)'
  BY <1>1 DEF SyncInv, FramesConserved, CameraInv, StaleInv
<1> QED BY <1>6, <1>7, <1>8 DEF SyncInv

LEMMA BetweenTail ==
  ASSUME NEW s \in Seq(Frames), NEW lo \in Int, NEW hi \in Int, Between(s, lo, hi), s # <<>>
  PROVE  /\ Tail(s) \in Seq(Frames) /\ Len(Tail(s)) = Len(s) - 1 /\ Len(s) \in Nat \ {0}
         /\ Among(Tail(s), s) /\ Between(Tail(s), lo, hi) /\ Between(Tail(s), Head(s).stamp, hi)
         /\ Head(s) \in Frames /\ Head(s).stamp \in Int /\ lo < Head(s).stamp /\ Head(s).stamp <= hi
         /\ 1 \in DOMAIN s /\ Head(s) = s[1]
<1>1. /\ Tail(s) = SubSeq(s, 1 + 1, Len(s)) /\ 1 \in 1..Len(s) /\ Head(s) = s[1]
      /\ Head(s) \in Frames /\ Len(s) \in Nat
  BY TailIsFront
<1>2. /\ Tail(s) \in Seq(Frames) /\ Len(Tail(s)) = Len(s) - 1 /\ Among(Tail(s), s)
      /\ Between(Tail(s), Head(s).stamp, hi)
      /\ Head(s).stamp \in Int /\ lo < Head(s).stamp /\ Head(s).stamp <= hi
  BY <1>1, BetweenFront
<1>3. Between(Tail(s), lo, hi)
  <2>1. /\ Tail(s) \in Seq(Frames) /\ Between(Tail(s), Head(s).stamp, hi)
        /\ Head(s).stamp \in Int /\ lo <= Head(s).stamp /\ hi <= hi
    BY <1>2
  <2> DEFINE t == Tail(s)
             m == Head(s).stamp
  <2>2. t \in Seq(Frames) /\ m \in Int /\ Between(t, m, hi) /\ lo <= m /\ hi <= hi
    BY <2>1
  <2> HIDE DEF t, m
  <2>3. Between(t, lo, hi)
    BY <2>2, BetweenWidens
  <2> QED BY <2>3 DEF t
<1> QED BY <1>1, <1>2, <1>3, StampOf

\* The account when a frame comes in and another makes room or not.
LEMMA AccountOfPush ==
  ASSUME NEW total \in Int, NEW a \in Int, NEW b \in Int, NEW drops \in Int, NEW pairs \in Int,
         total = a + b + drops + 2 * pairs, NEW gone \in Int
  PROVE  /\ total + 1 = (a + 1 - gone) + b + (drops + gone) + 2 * pairs
         /\ total + 1 = a + (b + 1 - gone) + (drops + gone) + 2 * pairs
OBVIOUS

\* A frame goes from the input queue to the deque, whose first frame may make room.
LEMMA DrainKeeps ==
  ASSUME SyncInv, NEW cam \in Cameras, Drain(cam), input[cam] # <<>>
  PROVE  SyncInv'
<1> DEFINE h == Head(input[cam])
           full == Len(deque[cam]) >= MaxQueue
           kept == IF full THEN Tail(deque[cam]) ELSE deque[cam]
<1>1. /\ deque' = [deque EXCEPT ![cam] = Append(kept, h)]
      /\ input' = [input EXCEPT ![cam] = Tail(input[cam])]
      /\ dropCount' = IF full THEN dropCount + 1 ELSE dropCount
      /\ drained' = drained + 1
      /\ UNCHANGED <<clock, last, output, pc, synced, running, open, stopPc, syncCount, lastPair, stale>>
  BY DEF Drain, PushFrame, stopVars
<1>2. /\ deque \in [Cameras -> Seq(Frames)] /\ input \in [Cameras -> Seq(Frames)]
      /\ last \in [Cameras -> Frames] /\ lastPair \in [Cameras -> Frames]
      /\ \A c \in Cameras : Len(input[c]) <= InputSize /\ Len(deque[c]) <= MaxQueue
      /\ drained \in Nat /\ dropCount \in Nat /\ syncCount \in Nat
  BY DEF SyncInv, TypeOK, Pairs
<1>3. \A c \in Cameras : lastPair[c].stamp \in Int /\ last[c].stamp \in Int
  BY <1>2 DEF Frames
<1>4. PICK mid \in Int :
        /\ lastPair[cam].stamp <= mid /\ mid <= last[cam].stamp
        /\ Between(deque[cam], lastPair[cam].stamp, mid)
        /\ Between(input[cam], mid, last[cam].stamp)
  BY DEF SyncInv, CameraInv
<1>5. /\ Tail(input[cam]) \in Seq(Frames) /\ Len(Tail(input[cam])) = Len(input[cam]) - 1
      /\ Len(input[cam]) \in Nat \ {0} /\ Among(Tail(input[cam]), input[cam])
      /\ Between(Tail(input[cam]), h.stamp, last[cam].stamp)
      /\ h \in Frames /\ h.stamp \in Int /\ mid < h.stamp /\ h.stamp <= last[cam].stamp
      /\ 1 \in DOMAIN input[cam] /\ h = input[cam][1]
  BY <1>2, <1>3, <1>4, BetweenTail
<1>6. /\ kept \in Seq(Frames) /\ Among(kept, deque[cam]) /\ Between(kept, lastPair[cam].stamp, mid)
      /\ Len(kept) = Len(deque[cam]) - (IF full THEN 1 ELSE 0) /\ Len(deque[cam]) \in Nat
      /\ Len(kept) + 1 <= MaxQueue
  <2>1. Len(deque[cam]) \in Nat /\ Len(deque[cam]) <= MaxQueue
    BY <1>2, LenProperties
  <2>2. CASE full
    <3>1. deque[cam] # <<>>
      BY <2>2, SyncAssumption, EmptySeq
    <3>2. /\ Tail(deque[cam]) \in Seq(Frames) /\ Len(Tail(deque[cam])) = Len(deque[cam]) - 1
          /\ Among(Tail(deque[cam]), deque[cam]) /\ Between(Tail(deque[cam]), lastPair[cam].stamp, mid)
      BY <1>2, <1>3, <1>4, <3>1, BetweenTail
    <3> QED BY <2>1, <2>2, <3>2, SyncAssumption
  <2>3. CASE ~full
    BY <1>2, <1>4, <2>1, <2>3, SyncAssumption DEF Among
  <2> QED BY <2>2, <2>3
<1> HIDE DEF kept, h
<1>7. /\ Append(kept, h) \in Seq(Frames) /\ Len(Append(kept, h)) = Len(kept) + 1
      /\ Between(Append(kept, h), lastPair[cam].stamp, h.stamp)
      /\ \A i \in DOMAIN Append(kept, h) :
           Append(kept, h)[i] = h \/ \E j \in DOMAIN kept : Append(kept, h)[i] = kept[j]
  BY <1>3, <1>4, <1>5, <1>6, BetweenAppend
<1>8. /\ deque'[cam] = Append(kept, h) /\ input'[cam] = Tail(input[cam])
      /\ \A c \in Cameras : c # cam => deque'[c] = deque[c] /\ input'[c] = input[c]
      /\ deque' \in [Cameras -> Seq(Frames)] /\ input' \in [Cameras -> Seq(Frames)]
  BY <1>1, <1>2, <1>5, <1>7
<1>9. TypeOK'
  <2>1. ASSUME NEW c \in Cameras PROVE Len(input'[c]) <= InputSize /\ Len(deque'[c]) <= MaxQueue
    <3>1. CASE c = cam
      BY <1>2, <1>5, <1>6, <1>7, <1>8, <3>1, SyncAssumption
    <3>2. CASE c # cam
      BY <1>2, <1>8, <3>2
    <3> QED BY <3>1, <3>2
  <2>2. drained' \in Nat /\ dropCount' \in Nat
    BY <1>1, <1>2
  <2> QED BY <1>1, <1>8, <2>1, <2>2 DEF SyncInv, TypeOK
<1>10. FramesConserved'
  <2>1. drained = Len(deque["visible"]) + Len(deque["infrared"]) + dropCount + 2 * syncCount
    BY DEF SyncInv, FramesConserved
  <2> DEFINE extra == IF full THEN 1 ELSE 0
  <2>0. extra \in Int
    OBVIOUS
  <2>2. Len(deque'[cam]) = Len(deque[cam]) + 1 - extra
    BY <1>6, <1>7, <1>8
  <2>3. Len(deque["visible"]) \in Nat /\ Len(deque["infrared"]) \in Nat
    BY <1>2, LenProperties DEF Cameras
  <2>4. dropCount' = dropCount + extra /\ drained' = drained + 1 /\ syncCount' = syncCount
    BY <1>1, <1>2
  <2> HIDE DEF extra
  <2>5. CASE cam = "visible"
    <3>1. deque'["infrared"] = deque["infrared"]
      BY <1>8, <2>5 DEF Cameras
    <3>2. Len(deque'["visible"]) = Len(deque["visible"]) + 1 - extra
      BY <2>2, <2>5
    <3>3. drained + 1 = Len(deque'["visible"]) + Len(deque'["infrared"]) + (dropCount + extra)
                          + 2 * syncCount
      <4> DEFINE v == Len(deque["visible"])
                 r == Len(deque["infrared"])
      <4>1. /\ drained \in Int /\ dropCount \in Int /\ syncCount \in Int
            /\ v \in Int /\ r \in Int /\ drained = v + r + dropCount + 2 * syncCount
        BY <1>2, <2>1, <2>3
      <4> HIDE DEF v, r
      <4>2. /\ drained + 1 = (v + 1 - extra) + r + (dropCount + extra) + 2 * syncCount
            /\ drained + 1 = v + (r + 1 - extra) + (dropCount + extra) + 2 * syncCount
        BY <2>0, <4>1, AccountOfPush
      <4> QED BY <3>1, <3>2, <4>2, Zenon DEF v, r
    <3> QED BY <2>4, <3>3 DEF FramesConserved
  <2>6. CASE cam = "infrared"
    <3>1. deque'["visible"] = deque["visible"]
      BY <1>8, <2>6 DEF Cameras
    <3>2. Len(deque'["infrared"]) = Len(deque["infrared"]) + 1 - extra
      BY <2>2, <2>6
    <3>3. drained + 1 = Len(deque'["visible"]) + Len(deque'["infrared"]) + (dropCount + extra)
                          + 2 * syncCount
      <4> DEFINE v == Len(deque["visible"])
                 r == Len(deque["infrared"])
      <4>1. /\ drained \in Int /\ dropCount \in Int /\ syncCount \in Int
            /\ v \in Int /\ r \in Int /\ drained = v + r + dropCount + 2 * syncCount
        BY <1>2, <2>1, <2>3
      <4> HIDE DEF v, r
      <4>2. /\ drained + 1 = (v + 1 - extra) + r + (dropCount + extra) + 2 * syncCount
            /\ drained + 1 = v + (r + 1 - extra) + (dropCount + extra) + 2 * syncCount
        BY <2>0, <4>1, AccountOfPush
      <4> QED BY <3>1, <3>2, <4>2, Zenon DEF v, r
    <3> QED BY <2>4, <3>3 DEF FramesConserved
  <2> QED BY <2>5, <2>6 DEF Cameras
<1>11. OutputInv'
  BY <1>1 DEF SyncInv, OutputInv
<1>12. ASSUME NEW c \in Cameras PROVE CameraInv(c)'
  <2>1. CASE c = cam
    <3>1. lastPair'[c].stamp <= h.stamp /\ h.stamp <= last'[c].stamp
      BY <1>1, <1>3, <1>4, <1>5, <2>1
    <3> QED BY <1>1, <1>5, <1>7, <1>8, <2>1, <3>1 DEF CameraInv
  <2>2. CASE c # cam
    BY <1>1, <1>8, <2>2 DEF SyncInv, CameraInv
  <2> QED BY <2>1, <2>2
<1>13. ASSUME NEW c \in Cameras PROVE StaleInv(c)'
  <2> DEFINE o == Other(c)
  <2>1. o \in Cameras
    BY DEF Cameras, Other
  <2> SUFFICES ASSUME NEW g \in stale[c]
               PROVE  /\ g.stamp + MaxDiff < last[o].stamp
                      /\ \A s \in {deque'[o], input'[o]} : \A i \in DOMAIN s :
                           g.stamp + MaxDiff < s[i].stamp
    BY <1>1 DEF StaleInv
  <2>2. /\ g.stamp + MaxDiff < last[o].stamp
        /\ \A s \in {deque[o], input[o]} : \A i \in DOMAIN s : g.stamp + MaxDiff < s[i].stamp
    BY DEF SyncInv, StaleInv
  <2> HIDE DEF o
  <2>3. CASE o # cam
    BY <1>8, <2>1, <2>2, <2>3
  <2>4. CASE o = cam
    <3>1. g.stamp + MaxDiff < h.stamp
      BY <1>5, <2>2, <2>4
    <3>2. ASSUME NEW i \in DOMAIN input'[o] PROVE g.stamp + MaxDiff < input'[o][i].stamp
      <4>1. PICK j \in DOMAIN input[cam] : input'[o][i] = input[cam][j]
        BY <1>5, <1>8, <2>4 DEF Among
      <4> QED BY <2>2, <2>4, <4>1
    <3>3. \A i \in DOMAIN kept : g.stamp + MaxDiff < kept[i].stamp
      BY <1>6, <2>2, <2>4 DEF Among
    <3>4. \A i \in DOMAIN deque'[o] : g.stamp + MaxDiff < deque'[o][i].stamp
      BY <1>7, <1>8, <2>4, <3>1, <3>3
    <3> QED BY <2>2, <3>2, <3>4
  <2> QED BY <2>3, <2>4
<1> QED BY <1>9, <1>10, <1>11, <1>12, <1>13 DEF SyncInv

\* A deque that only loses frames stays out of the tolerance of the dropped ones.
LEMMA StaleShrinks ==
  ASSUME SyncInv, UNCHANGED <<last, input, stale>>, NEW c \in Cameras,
         Among(deque'[Other(c)], deque[Other(c)])
  PROVE  StaleInv(c)'
<1> DEFINE o == Other(c)
<1> SUFFICES ASSUME NEW g \in stale[c]
             PROVE  /\ g.stamp + MaxDiff < last[o].stamp
                    /\ \A s \in {deque'[o], input[o]} : \A i \in DOMAIN s :
                         g.stamp + MaxDiff < s[i].stamp
  BY DEF StaleInv
<1>1. /\ g.stamp + MaxDiff < last[o].stamp
      /\ \A s \in {deque[o], input[o]} : \A i \in DOMAIN s : g.stamp + MaxDiff < s[i].stamp
  BY DEF SyncInv, StaleInv
<1>2. ASSUME NEW i \in DOMAIN deque'[o] PROVE g.stamp + MaxDiff < deque'[o][i].stamp
  <2>1. PICK j \in DOMAIN deque[o] : deque'[o][i] = deque[o][j]
    BY DEF Among
  <2> QED BY <1>1, <2>1
<1> QED BY <1>1, <1>2

\* The account when the first frames of the deques are dropped and the next paired.
LEMMA AccountOfDrop ==
  ASSUME NEW total \in Int, NEW a \in Int, NEW b \in Int, NEW drops \in Int, NEW pairs \in Int,
         total = a + b + drops + 2 * pairs
  PROVE  /\ total = (a - 1) + b + (drops + 1) + 2 * pairs
         /\ total = a + (b - 1) + (drops + 1) + 2 * pairs
         /\ \A i, j \in Int : total = (a - i) + (b - j) + (drops + (i - 1) + (j - 1)) + 2 * (pairs + 1)
OBVIOUS

LEMMA Later ==
  ASSUME NEW x \in Int, NEW m \in Int, NEW y \in Int, NEW z \in Int, x + m < y, y <= z
  PROVE  x + m < z
OBVIOUS

OutOfTolerance == Positions # {} /\ DistanceAt(Best) > MaxDiff

\* TrySync when it drops the front of one camera.
DropStep(cam) ==
  /\ pc = "try sync" /\ OutOfTolerance /\ TooOld(cam) /\ DropFront(cam)
  /\ pc' = "check" /\ NoPair
  /\ UNCHANGED <<clock, last, input, output, stopVars, drained>>

\* The older front is dropped: the closest pair is out of tolerance, so the two
\* fronts are, and everything behind the other front is later still.
LEMMA DropFrontKeeps ==
  ASSUME SyncInv, NEW cam \in Cameras, DropStep(cam)
  PROVE  SyncInv'
<1> DEFINE o == Other(cam)
           f == Head(deque[cam])
           t == Tail(deque[cam])
<1>1. /\ deque' = [deque EXCEPT ![cam] = t]
      /\ dropCount' = dropCount + 1
      /\ stale' = [stale EXCEPT ![cam] = stale[cam] \cup {f}]
      /\ UNCHANGED <<clock, last, input, output, synced, running, open, stopPc,
                     syncCount, drained, lastPair>>
      /\ pc = "try sync" /\ pc' = "check" /\ OutOfTolerance /\ TooOld(cam)
  BY DEF DropStep, DropFront, NoPair, stopVars
<1>2. /\ deque \in [Cameras -> Seq(Frames)] /\ input \in [Cameras -> Seq(Frames)]
      /\ last \in [Cameras -> Frames] /\ lastPair \in [Cameras -> Frames]
      /\ \A c \in Cameras : Len(input[c]) <= InputSize /\ Len(deque[c]) <= MaxQueue
      /\ drained \in Nat /\ dropCount \in Nat /\ syncCount \in Nat
  BY DEF SyncInv, TypeOK, Pairs
<1>3. \A c \in Cameras : lastPair[c].stamp \in Int /\ last[c].stamp \in Int
  BY <1>2 DEF Frames
<1>4. o \in Cameras /\ o # cam /\ \A c \in Cameras : c # cam => c = o /\ Other(c) = cam
  BY DEF Cameras, Other
<1>a. o = Other(cam) /\ f = Head(deque[cam]) /\ t = Tail(deque[cam])
  OBVIOUS
<1> HIDE DEF o, f, t
<1>5. \A c \in Cameras : deque[c] # <<>> /\ 1 \in 1..Len(deque[c]) /\ Len(deque[c]) \in Nat
  <2>1. Positions = (1..Len(deque["visible"])) \X (1..Len(deque["infrared"]))
    BY <1>2, LenProperties DEF Cameras, Positions
  <2>2. Len(deque["visible"]) \in Nat /\ Len(deque["infrared"]) \in Nat
    BY <1>2, LenProperties DEF Cameras
  <2>3. PICK i \in 1..Len(deque["visible"]), j \in 1..Len(deque["infrared"]) : TRUE
    BY <1>1, <2>1 DEF OutOfTolerance
  <2>4. 1 \in 1..Len(deque["visible"]) /\ 1 \in 1..Len(deque["infrared"])
    BY <2>2, <2>3
  <2>5. \A c \in Cameras : 1 \in 1..Len(deque[c]) /\ Len(deque[c]) \in Nat
    BY <2>2, <2>4 DEF Cameras
  <2>6. ASSUME NEW c \in Cameras PROVE deque[c] # <<>>
    <3>1. Len(deque[c]) # 0
      BY <2>5
    <3> QED BY <3>1, EmptySeq
  <2> QED BY <2>5, <2>6
<1>6. PICK mid \in Int :
        /\ lastPair[cam].stamp <= mid /\ mid <= last[cam].stamp
        /\ Between(deque[cam], lastPair[cam].stamp, mid)
        /\ Between(input[cam], mid, last[cam].stamp)
  BY DEF SyncInv, CameraInv
<1>7. /\ t \in Seq(Frames) /\ Len(t) = Len(deque[cam]) - 1
      /\ Among(t, deque[cam]) /\ Between(t, lastPair[cam].stamp, mid)
      /\ f \in Frames /\ f.stamp \in Int /\ f = deque[cam][1]
  BY <1>a, <1>2, <1>3, <1>5, <1>6, BetweenTail
<1>8. PICK far \in Int :
        /\ lastPair[o].stamp <= far /\ far <= last[o].stamp
        /\ Between(deque[o], lastPair[o].stamp, far)
        /\ Between(input[o], far, last[o].stamp)
  BY <1>4 DEF SyncInv, CameraInv
<1>9. /\ Head(deque[o]) = deque[o][1] /\ Head(deque[o]) \in Frames /\ Head(deque[o]).stamp \in Int
      /\ Head(deque[o]).stamp <= far /\ Between(Tail(deque[o]), Head(deque[o]).stamp, far)
  BY <1>2, <1>3, <1>4, <1>5, <1>8, BetweenTail
<1>10. f.stamp + MaxDiff < Head(deque[o]).stamp
  <2>1. f.stamp < Head(deque[o]).stamp
    BY <1>1, <1>a DEF TooOld
  <2>2. <<1, 1>> \in Positions
    BY <1>2, <1>5, LenProperties DEF Positions, Cameras
  <2>3. DistanceAt(Best) <= DistanceAt(<<1, 1>>) /\ Best \in Positions
    BY <1>2, <2>2, BestProperties
  <2>9. DistanceAt(Best) > MaxDiff
    BY <1>1 DEF OutOfTolerance
  <2>4. DistanceAt(<<1, 1>>) = Distance(deque["visible"][1], deque["infrared"][1])
    BY DEF DistanceAt
  <2>5. DistanceAt(<<1, 1>>) = Distance(f, Head(deque[o]))
    <3>1. CASE cam = "visible"
      BY <1>a, <1>7, <1>9, <2>4, <3>1 DEF Other
    <3>2. CASE cam = "infrared"
      <4>1. Distance(f, Head(deque[o])) = Distance(Head(deque[o]), f)
        BY <1>7, <1>9, DistanceProperties
      <4>2. o = "visible"
        BY <1>a, <3>2 DEF Other
      <4> QED BY <1>7, <1>9, <2>4, <3>2, <4>1, <4>2
    <3>3. cam = "visible" \/ cam = "infrared"
      BY DEF Cameras
    <3> QED BY <3>1, <3>2, <3>3
  <2>6. Distance(f, Head(deque[o])) = Head(deque[o]).stamp - f.stamp
    <3> DEFINE g == Head(deque[o])
    <3>1. g \in Frames /\ f \in Frames /\ f.stamp \in Int /\ g.stamp \in Int /\ f.stamp < g.stamp
      BY <1>7, <1>9, <2>1
    <3> HIDE DEF g
    <3>2. f.stamp <= g.stamp
      BY <3>1
    <3> QED BY <3>1, <3>2, DistanceProperties DEF g
  <2>7. DistanceAt(Best) \in Int
    <3>0. deque["visible"] \in Seq(Frames) /\ deque["infrared"] \in Seq(Frames)
      BY <1>2 DEF Cameras
    <3>1. Best[1] \in 1..Len(deque["visible"]) /\ Best[2] \in 1..Len(deque["infrared"])
      BY <2>3, <3>0, LenProperties DEF Positions
    <3>2. deque["visible"][Best[1]] \in Frames /\ deque["infrared"][Best[2]] \in Frames
      BY <3>0, <3>1, ElementOfSeq
    <3>3. Distance(deque["visible"][Best[1]], deque["infrared"][Best[2]]) \in Nat
      BY <3>2, DistanceProperties
    <3> QED BY <3>3 DEF DistanceAt
  <2>8. MaxDiff < Head(deque[o]).stamp - f.stamp
    <3> DEFINE b == DistanceAt(Best)
               d == Head(deque[o]).stamp - f.stamp
    <3>1. b \in Int /\ d \in Int /\ b > MaxDiff /\ b <= d /\ MaxDiff \in Int
      BY <1>7, <1>9, <2>3, <2>5, <2>6, <2>7, <2>9, SyncAssumption
    <3> HIDE DEF b, d
    <3>2. MaxDiff < d
      BY <3>1
    <3> QED BY <3>2 DEF d
  <2>10. ASSUME NEW x \in Int, NEW y \in Int, NEW m \in Int, m < y - x PROVE x + m < y
    BY <2>10
  <2>11. MaxDiff \in Int
    BY SyncAssumption
  <2> QED BY <1>7, <1>9, <2>8, <2>10, <2>11
<1>11. \A s \in {deque[o], input[o]} : \A i \in DOMAIN s : f.stamp + MaxDiff < s[i].stamp
  <2>1. ASSUME NEW i \in DOMAIN deque[o] PROVE f.stamp + MaxDiff < deque[o][i].stamp
    <3>1. i \in 1..Len(deque[o]) /\ 1 \in DOMAIN deque[o] /\ deque[o][i].stamp \in Int
      BY <1>2, <1>4, <1>5, StampOf
    <3>2. CASE i = 1
      BY <1>9, <1>10, <3>2
    <3>3. CASE i # 1
      <4>1. 1 < i
        BY <1>4, <1>5, <3>1, <3>3
      <4>2. deque[o][1].stamp < deque[o][i].stamp
        BY <1>8, <3>1, <4>1 DEF Between, Increasing
      <4>3. Head(deque[o]).stamp <= deque[o][i].stamp
        BY <1>9, <3>1, <4>2
      <4>4. MaxDiff \in Int
        BY SyncAssumption
      <4> QED BY <1>7, <1>9, <1>10, <3>1, <4>3, <4>4, Later
    <3> QED BY <3>2, <3>3
  <2>2. ASSUME NEW i \in DOMAIN input[o] PROVE f.stamp + MaxDiff < input[o][i].stamp
    <3>1. far < input[o][i].stamp /\ input[o][i].stamp \in Int
      BY <1>2, <1>4, <1>8, StampOf DEF Between
    <3>2. Head(deque[o]).stamp <= input[o][i].stamp
      BY <1>9, <3>1
    <3>3. MaxDiff \in Int
      BY SyncAssumption
    <3> QED BY <1>7, <1>9, <1>10, <3>1, <3>2, <3>3, Later
  <2> QED BY <2>1, <2>2
<1>12. f.stamp + MaxDiff < last[o].stamp
  <2>1. last[o].stamp \in Int /\ Head(deque[o]).stamp <= last[o].stamp
    BY <1>3, <1>4, <1>8, <1>9
  <2>2. MaxDiff \in Int
    BY SyncAssumption
  <2> QED BY <1>7, <1>9, <1>10, <2>1, <2>2, Later
<1> HIDE DEF f, t
<1>13. /\ deque'[cam] = t /\ deque'[o] = deque[o] /\ deque' \in [Cameras -> Seq(Frames)]
  BY <1>1, <1>2, <1>4, <1>7
<1>14. TypeOK'
  <2>1. ASSUME NEW c \in Cameras PROVE Len(deque'[c]) <= MaxQueue
    <3>1. CASE c = cam
      <4>1. Len(deque[cam]) \in Nat /\ Len(deque[cam]) <= MaxQueue /\ MaxQueue \in Nat
        BY <1>2, <1>5, SyncAssumption
      <4> QED BY <1>7, <1>13, <3>1, <4>1
    <3>2. CASE c # cam
      BY <1>2, <1>4, <1>13, <3>2
    <3> QED BY <3>1, <3>2
  <2>2. stale' \in [Cameras -> SUBSET Frames]
    BY <1>1, <1>7 DEF SyncInv, TypeOK
  <2>3. dropCount' \in Nat
    <3>1. dropCount' = dropCount + 1 /\ dropCount \in Nat
      BY <1>1, <1>2
    <3> QED BY <3>1
  <2> QED BY <1>1, <1>13, <2>1, <2>2, <2>3 DEF SyncInv, TypeOK
<1>15. FramesConserved'
  <2> DEFINE v == Len(deque["visible"])
             r == Len(deque["infrared"])
  <2>1. /\ drained \in Int /\ dropCount \in Int /\ syncCount \in Int /\ v \in Int /\ r \in Int
        /\ drained = v + r + dropCount + 2 * syncCount
    <3>1. v \in Int /\ r \in Int
      BY <1>5 DEF Cameras
    <3>2. drained = v + r + dropCount + 2 * syncCount
      BY DEF SyncInv, FramesConserved
    <3> QED BY <1>2, <3>1, <3>2
  <2> HIDE DEF v, r
  <2>2. /\ drained = (v - 1) + r + (dropCount + 1) + 2 * syncCount
        /\ drained = v + (r - 1) + (dropCount + 1) + 2 * syncCount
    BY <2>1, AccountOfDrop
  <2>3. CASE cam = "visible"
    <3>0. o = "infrared"
      BY <1>a, <2>3 DEF Other
    <3>1. Len(deque'["visible"]) = v - 1 /\ Len(deque'["infrared"]) = r
      BY <1>7, <1>13, <2>3, <3>0 DEF v, r
    <3> QED BY <1>1, <2>2, <3>1, Zenon DEF FramesConserved
  <2>4. CASE cam = "infrared"
    <3>0. o = "visible"
      BY <1>a, <2>4 DEF Other
    <3>1. Len(deque'["visible"]) = v /\ Len(deque'["infrared"]) = r - 1
      BY <1>7, <1>13, <2>4, <3>0 DEF v, r
    <3> QED BY <1>1, <2>2, <3>1, Zenon DEF FramesConserved
  <2> QED BY <2>3, <2>4 DEF Cameras
<1>16. OutputInv'
  <2>1. synced' = {} /\ pc' # "output"
    BY <1>1 DEF SyncInv, OutputInv
  <2> QED BY <1>1, <2>1 DEF SyncInv, OutputInv
<1>17. ASSUME NEW c \in Cameras PROVE CameraInv(c)'
  <2>1. CASE c = cam
    BY <1>1, <1>6, <1>7, <1>13, <2>1 DEF CameraInv
  <2>2. CASE c # cam
    BY <1>1, <1>4, <1>13, <2>2 DEF SyncInv, CameraInv
  <2> QED BY <2>1, <2>2
<1>b. stale \in [Cameras -> SUBSET Frames]
  BY DEF SyncInv, TypeOK
<1>18. ASSUME NEW c \in Cameras PROVE StaleInv(c)'
  <2>0. /\ UNCHANGED <<last, input>> /\ stale' = [stale EXCEPT ![cam] = stale[cam] \cup {f}]
        /\ deque'[o] = deque[o] /\ Other(cam) = o
    BY <1>a, <1>1, <1>13
  <2>1. CASE c = cam
    <3> SUFFICES ASSUME NEW g \in stale'[cam]
                 PROVE  /\ g.stamp + MaxDiff < last[o].stamp
                        /\ \A s \in {deque[o], input[o]} : \A i \in DOMAIN s :
                             g.stamp + MaxDiff < s[i].stamp
      BY <2>0, <2>1 DEF StaleInv
    <3>1. g = f \/ g \in stale[cam]
      BY <2>0, <1>b
    <3>2. CASE g = f
      BY <1>11, <1>12, <3>2
    <3>3. CASE g \in stale[cam]
      BY <1>a, <3>3 DEF SyncInv, StaleInv
    <3> QED BY <3>1, <3>2, <3>3
  <2>2. CASE c # cam
    <3>1. stale'[c] = stale[c] /\ Other(c) = cam
      BY <2>0, <1>4, <1>b, <2>2
    <3> SUFFICES ASSUME NEW g \in stale[c]
                 PROVE  /\ g.stamp + MaxDiff < last[cam].stamp
                        /\ \A s \in {deque'[cam], input[cam]} : \A i \in DOMAIN s :
                             g.stamp + MaxDiff < s[i].stamp
      BY <2>0, <3>1 DEF StaleInv
    <3>2. /\ g.stamp + MaxDiff < last[cam].stamp
          /\ \A s \in {deque[cam], input[cam]} : \A i \in DOMAIN s : g.stamp + MaxDiff < s[i].stamp
      BY <3>1 DEF SyncInv, StaleInv
    <3>3. ASSUME NEW i \in DOMAIN t PROVE g.stamp + MaxDiff < t[i].stamp
      <4>1. PICK j \in DOMAIN deque[cam] : t[i] = deque[cam][j]
        BY <1>7 DEF Among
      <4> QED BY <3>2, <4>1
    <3> QED BY <1>13, <3>2, <3>3
  <2> QED BY <2>1, <2>2
<1> QED BY <1>14, <1>15, <1>16, <1>17, <1>18 DEF SyncInv

\* TrySync when it finds a pair.
PairStep ==
  /\ pc = "try sync" /\ Positions # {} /\ pc' = "output" /\ Pair(Best) /\ UNCHANGED stale
  /\ UNCHANGED <<clock, last, input, output, stopVars, drained>>

\* The pair and what is in front of it leave; the rest is later than the pair.
LEMMA PairKeeps == ASSUME SyncInv, PairStep PROVE SyncInv'
<1> DEFINE p == Best
           at == [c \in Cameras |-> IF c = "visible" THEN p[1] ELSE p[2]]
<1>1. /\ deque' = [c \in Cameras |-> SubSeq(deque[c], at[c] + 1, Len(deque[c]))]
      /\ dropCount' = dropCount + (p[1] - 1) + (p[2] - 1)
      /\ syncCount' = syncCount + 1
      /\ lastPair' = [c \in Cameras |-> deque[c][at[c]]]
      /\ synced' = {lastPair'} /\ pc = "try sync" /\ pc' = "output" /\ Positions # {}
      /\ UNCHANGED <<clock, last, input, output, running, open, stopPc, stale, drained>>
  BY DEF PairStep, Pair, stopVars
<1>2. /\ deque \in [Cameras -> Seq(Frames)] /\ input \in [Cameras -> Seq(Frames)]
      /\ last \in [Cameras -> Frames] /\ lastPair \in [Cameras -> Frames]
      /\ \A c \in Cameras : Len(input[c]) <= InputSize /\ Len(deque[c]) <= MaxQueue
      /\ drained \in Nat /\ dropCount \in Nat /\ syncCount \in Nat
  BY DEF SyncInv, TypeOK, Pairs
<1>3. \A c \in Cameras : lastPair[c].stamp \in Int /\ last[c].stamp \in Int
  BY <1>2 DEF Frames
<1>4. \A c \in Cameras : Len(deque[c]) \in Nat
  BY <1>2, LenProperties
<1>5. p \in Positions
  BY <1>1, <1>2, BestProperties
<1>6. /\ p[1] \in 1..Len(deque["visible"]) /\ p[2] \in 1..Len(deque["infrared"])
      /\ p[1] \in Nat \ {0} /\ p[2] \in Nat \ {0}
  <2>1. deque["visible"] \in Seq(Frames) /\ deque["infrared"] \in Seq(Frames)
    BY <1>2 DEF Cameras
  <2>2. p[1] \in 1..Len(deque["visible"]) /\ p[2] \in 1..Len(deque["infrared"])
    BY <1>5, <2>1, LenProperties DEF Positions
  <2>3. Len(deque["visible"]) \in Nat /\ Len(deque["infrared"]) \in Nat
    BY <1>4 DEF Cameras
  <2> QED BY <2>2, <2>3
<1> HIDE DEF p
<1>7. at["visible"] = p[1] /\ at["infrared"] = p[2] /\ \A c \in Cameras : at[c] \in 1..Len(deque[c])
  BY <1>6 DEF Cameras
<1> HIDE DEF at
<1>8. ASSUME NEW c \in Cameras
      PROVE  /\ deque'[c] \in Seq(Frames) /\ Len(deque'[c]) = Len(deque[c]) - at[c]
             /\ Among(deque'[c], deque[c]) /\ lastPair'[c] = deque[c][at[c]] /\ lastPair'[c] \in Frames
             /\ lastPair'[c].stamp \in Int /\ lastPair[c].stamp < lastPair'[c].stamp
             /\ CameraInv(c)'
  <2>1. PICK mid \in Int :
          /\ lastPair[c].stamp <= mid /\ mid <= last[c].stamp
          /\ Between(deque[c], lastPair[c].stamp, mid)
          /\ Between(input[c], mid, last[c].stamp)
    BY DEF SyncInv, CameraInv
  <2> DEFINE k == at[c]
             t == SubSeq(deque[c], k + 1, Len(deque[c]))
  <2>2. /\ t \in Seq(Frames) /\ Len(t) = Len(deque[c]) - k /\ Among(t, deque[c])
        /\ Between(t, deque[c][k].stamp, mid)
        /\ deque[c][k].stamp \in Int /\ lastPair[c].stamp < deque[c][k].stamp /\ deque[c][k].stamp <= mid
    <3>1. deque[c] \in Seq(Frames) /\ lastPair[c].stamp \in Int /\ k \in 1..Len(deque[c])
      BY <1>2, <1>3, <1>7
    <3> HIDE DEF k
    <3> QED BY <2>1, <3>1, BetweenFront
  <2>3. deque[c][k] \in Frames
    BY <1>2, <1>7, ElementOfSeq
  <2>4. deque'[c] = t /\ lastPair'[c] = deque[c][k]
    BY <1>1
  <2> HIDE DEF t
  <2>5. CameraInv(c)'
    BY <1>1, <2>1, <2>2, <2>4 DEF CameraInv
  <2> QED BY <2>2, <2>3, <2>4, <2>5
<1>9. TypeOK'
  <2>1. deque' \in [Cameras -> Seq(Frames)] /\ lastPair' \in Pairs
    <3>1. deque' = [c \in Cameras |-> deque'[c]] /\ lastPair' = [c \in Cameras |-> lastPair'[c]]
      BY <1>1
    <3> QED BY <1>8, <3>1 DEF Pairs
  <2>2. ASSUME NEW c \in Cameras PROVE Len(deque'[c]) <= MaxQueue
    <3>1. /\ Len(deque'[c]) = Len(deque[c]) - at[c] /\ at[c] \in 1..Len(deque[c])
          /\ Len(deque[c]) \in Nat /\ Len(deque[c]) <= MaxQueue /\ MaxQueue \in Nat
      BY <1>2, <1>4, <1>7, <1>8, SyncAssumption
    <3> QED BY <3>1
  <2>3. dropCount' \in Nat /\ syncCount' \in Nat
    <3>1. /\ dropCount' = dropCount + (p[1] - 1) + (p[2] - 1) /\ dropCount \in Nat
          /\ syncCount' = syncCount + 1 /\ syncCount \in Nat
      BY <1>1, <1>2
    <3> QED BY <1>6, <3>1
  <2>4. synced' \subseteq Pairs /\ pc' = "output"
    BY <1>1, <2>1
  <2>5. UNCHANGED <<clock, last, input, output, running, open, stopPc, stale, drained>>
    BY <1>1
  <2> QED BY <2>1, <2>2, <2>3, <2>4, <2>5 DEF SyncInv, TypeOK
<1>10. FramesConserved'
  <2> DEFINE v == Len(deque["visible"])
             r == Len(deque["infrared"])
             i == p[1]
             j == p[2]
  <2>1. /\ v \in Int /\ r \in Int /\ i \in Int /\ j \in Int
        /\ drained \in Int /\ dropCount \in Int /\ syncCount \in Int
        /\ drained = v + r + dropCount + 2 * syncCount
    <3>1. v \in Int /\ r \in Int
      BY <1>4 DEF Cameras
    <3>2. i \in Int /\ j \in Int
      BY <1>6
    <3>3. drained = v + r + dropCount + 2 * syncCount
      BY DEF SyncInv, FramesConserved
    <3> QED BY <1>2, <3>1, <3>2, <3>3
  <2>2. Len(deque'["visible"]) = v - i /\ Len(deque'["infrared"]) = r - j
    BY <1>7, <1>8 DEF Cameras
  <2>3. /\ dropCount' = dropCount + (i - 1) + (j - 1)
        /\ syncCount' = syncCount + 1 /\ drained' = drained
    BY <1>1
  <2> HIDE DEF v, r, i, j
  <2>4. drained = (v - i) + (r - j) + (dropCount + (i - 1) + (j - 1)) + 2 * (syncCount + 1)
    BY <2>1, AccountOfDrop
  <2> QED BY <2>2, <2>3, <2>4, Zenon DEF FramesConserved
<1>11. OutputInv'
  <2>1. synced' = {lastPair'} /\ pc = "try sync" /\ pc' = "output" /\ output' = output
    BY <1>1
  <2>2. output \in Seq(Pairs) /\ \A i \in DOMAIN output : output[i] \in Pairs
    BY ElementOfSeq, LenProperties DEF SyncInv, TypeOK
  <2>3. ASSUME NEW c \in Cameras, NEW i \in DOMAIN output
        PROVE  /\ output[i][c].stamp <= lastPair'[c].stamp
               /\ output[i][c].stamp < lastPair'[c].stamp
    <3>1. output[i][c].stamp <= lastPair[c].stamp
      BY DEF SyncInv, OutputInv
    <3>2. output[i][c].stamp \in Int
      BY <2>2 DEF Pairs, Frames
    <3> QED BY <1>3, <1>8, <3>1, <3>2
  <2> QED BY <2>1, <2>3 DEF SyncInv, OutputInv
<1>12. ASSUME NEW c \in Cameras PROVE StaleInv(c)'
  <2>1. Other(c) \in Cameras
    BY DEF Cameras, Other
  <2>2. Among(deque'[Other(c)], deque[Other(c)])
    BY <1>8, <2>1
  <2>3. UNCHANGED <<last, input, stale>>
    BY <1>1
  <2> QED BY <2>2, <2>3, StaleShrinks
<1> QED BY <1>8, <1>9, <1>10, <1>11, <1>12 DEF SyncInv

LEMMA TrySyncKeeps == ASSUME SyncInv, TrySync PROVE SyncInv'
<1>1. \/ /\ pc = "try sync" /\ pc' = "check"
         /\ UNCHANGED <<clock, last, input, deque, output, synced, stopVars, countVars>>
      \/ \E cam \in Cameras : DropStep(cam)
      \/ PairStep
  BY DEF TrySync, NoPair, DropStep, OutOfTolerance, PairStep, stopVars, countVars
<1>2. CASE /\ pc = "try sync" /\ pc' = "check"
           /\ UNCHANGED <<clock, last, input, deque, output, synced, stopVars, countVars>>
  BY <1>2, NothingMoves DEF SyncInv, TypeOK, stopVars, Places, StopPlaces
<1>3. CASE \E cam \in Cameras : DropStep(cam)
  BY <1>3, DropFrontKeeps
<1>4. CASE PairStep
  BY <1>4, PairKeeps
<1> QED BY <1>1, <1>2, <1>3, <1>4

LEMMA SyncNextInv == SyncInv /\ [Next]_vars => SyncInv'
<1> SUFFICES ASSUME SyncInv, [Next]_vars PROVE SyncInv'
  OBVIOUS
<1> USE DEF Places, StopPlaces
<1>0. /\ clock \in Nat /\ open \in BOOLEAN /\ running \in BOOLEAN
      /\ pc \in Places /\ stopPc \in StopPlaces
  BY DEF SyncInv, TypeOK
<1>1. CASE Tick
  <2>1. clock' \in Nat
    <3>1. clock' = clock + 1
      BY <1>1 DEF Tick
    <3>2. clock \in Nat
      BY <1>0
    <3> QED BY <3>1, <3>2
  <2> QED BY <1>0, <1>1, <2>1, NothingMoves DEF Tick, stopVars
<1>2. CASE \E cam \in Cameras : PushInput(cam)
  BY <1>2, PushInputKeeps
<1>3. CASE TakePair
  BY <1>3, TakePairKeeps
<1>4. ASSUME NEW cam \in Cameras, Drain(cam) PROVE SyncInv'
  <2>1. CASE input[cam] # <<>>
    BY <1>4, <2>1, DrainKeeps
  <2>2. CASE input[cam] = <<>>
    BY <1>0, <1>4, <2>2, NothingMoves DEF Drain, stopVars, countVars
  <2> QED BY <2>1, <2>2
<1>5. CASE TrySync
  BY <1>5, TrySyncKeeps
<1>6. CASE Output
  BY <1>6, OutputKeeps
<1>7. CASE CheckWait \/ Block \/ Timeout
  BY <1>0, <1>7, NothingMoves DEF CheckWait, Block, Timeout, LoopHead, stopVars
<1>8. CASE StopQueues \/ StopStep
  BY <1>0, <1>8, NothingMoves DEF StopQueues, StopStep, StopFlag, StopNotify, StopJoin
<1>9. CASE UNCHANGED vars
  BY <1>0, <1>9, NothingMoves DEF vars, stopVars
<1> QED BY <1>1, <1>2, <1>3, <1>4, <1>5, <1>6, <1>7, <1>8, <1>9 DEF Next, SyncStep

\* The invariant holds in every state, whatever the fairness.
THEOREM SyncInvariant == SafeSpec => []SyncInv
<1>1. Init => SyncInv
  BY SyncInitInv
<1>2. SyncInv /\ [Next]_vars => SyncInv'
  BY SyncNextInv
<1> QED BY <1>1, <1>2, PTL DEF SafeSpec
-----------------------------------------------------------------------------
\* Every variable keeps its type, and no deque or queue goes over its limit, for
\* every limit: the counters, SyncLoop's place and the recorded frames too.
THEOREM SyncTypeInvariant == SafeSpec => []TypeOK
<1>1. SyncInv => TypeOK
  BY DEF SyncInv
<1> QED BY <1>1, SyncInvariant, PTL

\* PushVisibleFrame, PushInfraredFrame and TrySync account for every frame that
\* SyncLoop takes from the input queues, for any limits and any tolerance.
THEOREM FramesConservedInvariant == SafeSpec => []FramesConserved
<1>1. SyncInv => FramesConserved
  BY DEF SyncInv
<1> QED BY <1>1, SyncInvariant, PTL

\* Two runs of frames, the second after the first, make one run.
LEMMA BetweenConcat ==
  ASSUME NEW s \in Seq(Frames), NEW t \in Seq(Frames), NEW lo \in Int, NEW mid \in Int, NEW hi \in Int,
         Between(s, lo, mid), Between(t, mid, hi)
  PROVE  Increasing(s \o t)
<1> DEFINE u == s \o t
<1>1. /\ Len(s) \in Nat /\ Len(t) \in Nat /\ DOMAIN s = 1..Len(s) /\ DOMAIN t = 1..Len(t)
      /\ u \in Seq(Frames) /\ Len(u) = Len(s) + Len(t)
      /\ \A i \in 1..Len(u) : u[i] = IF i <= Len(s) THEN s[i] ELSE t[i - Len(s)]
  BY ConcatProperties, LenProperties
<1> HIDE DEF u
<1>2. DOMAIN u = 1..(Len(s) + Len(t))
  BY <1>1, LenProperties
<1>3. ASSUME NEW i \in DOMAIN u, NEW j \in DOMAIN u, i < j PROVE u[i].stamp < u[j].stamp
  <2>1. i \in Nat /\ j \in Nat
    BY <1>1, <1>2
  <2>2. CASE j <= Len(s)
    <3>1. i \in DOMAIN s /\ j \in DOMAIN s /\ u[i] = s[i] /\ u[j] = s[j]
      BY <1>1, <1>2, <1>3, <2>1, <2>2
    <3> QED BY <1>3, <3>1 DEF Between, Increasing
  <2>3. CASE i <= Len(s) /\ j > Len(s)
    <3>1. i \in DOMAIN s /\ j - Len(s) \in DOMAIN t /\ u[i] = s[i] /\ u[j] = t[j - Len(s)]
      BY <1>1, <1>2, <2>1, <2>3
    <3>2. s[i].stamp <= mid /\ mid < t[j - Len(s)].stamp
      BY <3>1 DEF Between
    <3>3. s[i].stamp \in Int /\ t[j - Len(s)].stamp \in Int
      BY <1>1, <3>1, StampOf
    <3> QED BY <3>1, <3>2, <3>3
  <2>4. CASE i > Len(s)
    <3>1. /\ i - Len(s) \in DOMAIN t /\ j - Len(s) \in DOMAIN t /\ i - Len(s) < j - Len(s)
          /\ u[i] = t[i - Len(s)] /\ u[j] = t[j - Len(s)]
      BY <1>1, <1>2, <1>3, <2>1, <2>4
    <3> QED BY <3>1 DEF Between, Increasing
  <2> QED BY <1>1, <2>1, <2>2, <2>3, <2>4
<1>4. Increasing(u)
  BY <1>3 DEF Increasing
<1> QED BY <1>4 DEF u

\* The pairs leave in time order on both cameras and no frame is used twice, for
\* any capacities, whatever the queues lose and TrySync skips.
THEOREM PairsInOrderInvariant == SafeSpec => []PairsInOrder
<1>1. ASSUME SyncInv PROVE PairsInOrder
  <2>1. ASSUME NEW c \in Cameras
        PROVE  /\ Increasing(deque[c] \o input[c])
               /\ \A i \in DOMAIN deque[c] : deque[c][i].stamp > lastPair[c].stamp
    <3>1. PICK mid \in Int :
            /\ Between(deque[c], lastPair[c].stamp, mid)
            /\ Between(input[c], mid, last[c].stamp)
      BY <1>1 DEF SyncInv, CameraInv
    <3>2. /\ deque[c] \in Seq(Frames) /\ input[c] \in Seq(Frames)
          /\ lastPair[c].stamp \in Int /\ last[c].stamp \in Int
      BY <1>1 DEF SyncInv, TypeOK, Pairs, Frames
    <3>3. Increasing(deque[c] \o input[c])
      BY <3>1, <3>2, BetweenConcat
    <3>4. \A i \in DOMAIN deque[c] : lastPair[c].stamp < deque[c][i].stamp
      BY <3>1 DEF Between
    <3>5. \A i \in DOMAIN deque[c] : deque[c][i].stamp \in Int
      BY <3>2, StampOf
    <3> QED BY <3>2, <3>3, <3>4, <3>5
  <2>2. \A c \in Cameras : Increasing([i \in DOMAIN output |-> output[i][c]])
    BY <1>1 DEF SyncInv, OutputInv, Increasing
  <2>3. ASSUME NEW i \in DOMAIN output, NEW q \in synced, NEW c \in Cameras
        PROVE  output[i][c].stamp < q[c].stamp
    <3>1. pc = "output" /\ q = lastPair
      BY <1>1 DEF SyncInv, OutputInv
    <3> QED BY <1>1, <3>1 DEF SyncInv, OutputInv
  <2> QED BY <2>1, <2>2, <2>3 DEF PairsInOrder
<1> QED BY <1>1, SyncInvariant, PTL

\* TrySync drops the front of a deque more than half full only when no frame the
\* other camera holds or will deliver is within the tolerance of it.
THEOREM StaleFramesInvariant == SafeSpec => []StaleFramesUnmatchable
<1>1. ASSUME SyncInv PROVE StaleFramesUnmatchable
  <2> SUFFICES ASSUME NEW c \in Cameras, NEW f \in stale[c],
                      NEW s \in {deque[Other(c)], input[Other(c)]}, NEW i \in DOMAIN s
               PROVE  Distance(f, s[i]) > MaxDiff
    BY DEF StaleFramesUnmatchable
  <2>1. f.stamp + MaxDiff < s[i].stamp
    BY <1>1 DEF SyncInv, StaleInv
  <2>2. f \in Frames /\ s \in Seq(Frames)
    <3>1. Other(c) \in Cameras
      BY DEF Cameras, Other
    <3> QED BY <1>1, <3>1 DEF SyncInv, TypeOK
  <2>3. s[i] \in Frames
    BY <2>2, StampOf
  <2> DEFINE g == s[i]
  <2>4. g \in Frames /\ f.stamp \in Int /\ g.stamp \in Int /\ f.stamp + MaxDiff < g.stamp
    BY <2>1, <2>2, <2>3 DEF Frames
  <2> HIDE DEF g
  <2>5. f.stamp <= g.stamp /\ g.stamp - f.stamp > MaxDiff
    BY <2>4, SyncAssumption
  <2>6. Distance(f, g) > MaxDiff
    BY <2>2, <2>4, <2>5, DistanceProperties
  <2> QED BY <2>6 DEF g
<1> QED BY <1>1, SyncInvariant, PTL
-----------------------------------------------------------------------------
\* A deque with its input queue behind it.

LEMMA LineProperties ==
  ASSUME NEW s \in Seq(Frames), NEW t \in Seq(Frames)
  PROVE  /\ s \o t \in Seq(Frames) /\ Len(s \o t) = Len(s) + Len(t)
         /\ Len(s) \in Nat /\ Len(t) \in Nat /\ DOMAIN (s \o t) = 1..(Len(s) + Len(t))
         /\ \A i \in 1..(Len(s) + Len(t)) : (s \o t)[i] = IF i <= Len(s) THEN s[i] ELSE t[i - Len(s)]
<1>1. /\ s \o t \in Seq(Frames) /\ Len(s \o t) = Len(s) + Len(t)
      /\ \A i \in 1..(Len(s) + Len(t)) : (s \o t)[i] = IF i <= Len(s) THEN s[i] ELSE t[i - Len(s)]
  BY ConcatProperties
<1>2. Len(s) \in Nat /\ Len(t) \in Nat /\ DOMAIN (s \o t) = 1..Len(s \o t)
  BY <1>1, LenProperties
<1> QED BY <1>1, <1>2

\* The deque's frames are the first of the line.
LEMMA LineStart ==
  ASSUME NEW s \in Seq(Frames), NEW t \in Seq(Frames), NEW k \in 1..Len(s)
  PROVE  (s \o t)[k] = s[k] /\ k \in DOMAIN (s \o t)
<1>1. /\ Len(s) \in Nat /\ Len(t) \in Nat /\ DOMAIN (s \o t) = 1..(Len(s) + Len(t))
      /\ \A i \in 1..(Len(s) + Len(t)) : (s \o t)[i] = IF i <= Len(s) THEN s[i] ELSE t[i - Len(s)]
  BY LineProperties
<1>2. k \in 1..(Len(s) + Len(t)) /\ k <= Len(s)
  BY <1>1
<1> QED BY <1>1, <1>2

\* A frame pushed on the input queue joins the line at its end.
LEMMA LineGrows ==
  ASSUME NEW s \in Seq(Frames), NEW t \in Seq(Frames), NEW f \in Frames
  PROVE  s \o Append(t, f) = Append(s \o t, f)
<1>1. Append(t, f) = t \o <<f>> /\ <<f>> \in Seq(Frames)
  BY AppendIsConcat
<1>2. Append(s \o t, f) = (s \o t) \o <<f>>
  BY ConcatProperties, AppendIsConcat
<1> QED BY <1>1, <1>2, ConcatAssociative

\* A frame that goes from the input queue to the deque keeps its place.
LEMMA LineDrained ==
  ASSUME NEW s \in Seq(Frames), NEW t \in Seq(Frames), t # <<>>
  PROVE  Append(s, Head(t)) \o Tail(t) = s \o t
<1>1. /\ Head(t) \in Frames /\ Tail(t) \in Seq(Frames)
      /\ <<Head(t)>> \in Seq(Frames) /\ t = <<Head(t)>> \o Tail(t)
  <2>1. Head(t) \in Frames /\ Tail(t) \in Seq(Frames) /\ Len(Tail(t)) = Len(t) - 1 /\ Head(t) = t[1]
        /\ \A i \in 1..(Len(t) - 1) : Tail(t)[i] = t[i + 1]
    BY HeadTailProperties
  <2> DEFINE h == <<Head(t)>>
  <2>2. h \in Seq(Frames) /\ Len(h) = 1 /\ h[1] = t[1]
    BY <2>1
  <2>3. Len(t) \in Nat \ {0}
    BY EmptySeq, LenProperties
  <2> HIDE DEF h
  <2>4. /\ h \o Tail(t) \in Seq(Frames) /\ Len(h \o Tail(t)) = Len(t)
        /\ \A i \in 1..Len(t) : (h \o Tail(t))[i] = IF i <= 1 THEN h[i] ELSE Tail(t)[i - 1]
    <3> DEFINE r == Tail(t)
    <3>1. r \in Seq(Frames) /\ h \in Seq(Frames) /\ Len(h) = 1 /\ Len(r) = Len(t) - 1 /\ Len(t) \in Nat
      BY <2>1, <2>2, <2>3
    <3> HIDE DEF r
    <3>2. /\ h \o r \in Seq(Frames) /\ Len(h \o r) = Len(h) + Len(r)
          /\ \A i \in 1..(Len(h) + Len(r)) : (h \o r)[i] = IF i <= Len(h) THEN h[i] ELSE r[i - Len(h)]
      BY <3>1, LineProperties
    <3>3. Len(h) + Len(r) = Len(t)
      BY <3>1
    <3>4. /\ h \o r \in Seq(Frames) /\ Len(h \o r) = Len(t)
          /\ \A i \in 1..Len(t) : (h \o r)[i] = IF i <= 1 THEN h[i] ELSE r[i - 1]
      BY ONLY <3>1, <3>2, <3>3
    <3> QED BY <3>4 DEF r
  <2>5. ASSUME NEW i \in 1..Len(t) PROVE (h \o Tail(t))[i] = t[i]
    <3>1. CASE i = 1
      BY <2>2, <2>4, <3>1
    <3>2. CASE i # 1
      <4>1. i - 1 \in 1..(Len(t) - 1) /\ (i - 1) + 1 = i /\ ~(i <= 1)
        BY <2>3, <3>2
      <4> QED BY <2>1, <2>4, <4>1
    <3> QED BY <3>1, <3>2
  <2>6. h \o Tail(t) = t
    BY <2>4, <2>5, SeqEqual
  <2> QED BY <2>1, <2>2, <2>6 DEF h
<1>2. Append(s, Head(t)) = s \o <<Head(t)>>
  BY <1>1, AppendIsConcat
<1>3. (s \o <<Head(t)>>) \o Tail(t) = s \o (<<Head(t)>> \o Tail(t))
  BY <1>1, ConcatAssociative
<1> QED BY <1>1, <1>2, <1>3

\* Frames that leave the deque at its front leave the line at its front.
LEMMA LineShortened ==
  ASSUME NEW s \in Seq(Frames), NEW t \in Seq(Frames), NEW k \in 0..Len(s)
  PROVE  SubSeq(s, k + 1, Len(s)) \o t = SubSeq(s \o t, k + 1, Len(s \o t))
<1> DEFINE u == s \o t
           a == SubSeq(s, k + 1, Len(s))
           b == SubSeq(u, k + 1, Len(u))
<1>1. /\ u \in Seq(Frames) /\ Len(u) = Len(s) + Len(t) /\ Len(s) \in Nat /\ Len(t) \in Nat
      /\ \A i \in 1..(Len(s) + Len(t)) : u[i] = IF i <= Len(s) THEN s[i] ELSE t[i - Len(s)]
  BY LineProperties
<1>2. a \in Seq(Frames) /\ Len(a) = Len(s) - k /\ \A i \in 1..Len(a) : a[i] = s[i + k]
  BY FrontTaken
<1> HIDE DEF u, a
<1>3. b \in Seq(Frames) /\ Len(b) = Len(u) - k /\ \A i \in 1..Len(b) : b[i] = u[i + k]
  <2>1. k \in 0..Len(u)
    BY <1>1
  <2> QED BY <1>1, <2>1, FrontTaken
<1> HIDE DEF b
<1>4. /\ a \o t \in Seq(Frames) /\ Len(a \o t) = Len(b)
      /\ \A i \in 1..Len(b) : (a \o t)[i] = IF i <= Len(a) THEN a[i] ELSE t[i - Len(a)]
  <2>1. /\ a \o t \in Seq(Frames) /\ Len(a \o t) = Len(a) + Len(t)
        /\ \A i \in 1..(Len(a) + Len(t)) : (a \o t)[i] = IF i <= Len(a) THEN a[i] ELSE t[i - Len(a)]
    BY <1>2, LineProperties
  <2>2. Len(a) + Len(t) = Len(b)
    BY <1>1, <1>2, <1>3
  <2> QED BY <2>1, <2>2
<1>5. ASSUME NEW i \in 1..Len(b) PROVE (a \o t)[i] = b[i]
  <2>1. /\ i \in Nat /\ i + k \in 1..(Len(s) + Len(t)) /\ Len(a) = Len(s) - k /\ b[i] = u[i + k]
        /\ (i + k) - Len(s) = i - Len(a)
    BY <1>1, <1>2, <1>3
  <2>2. CASE i <= Len(a)
    <3>1. i + k <= Len(s) /\ i \in 1..Len(a)
      BY <1>1, <2>1, <2>2
    <3> QED BY <1>1, <1>2, <1>4, <2>1, <2>2, <3>1
  <2>3. CASE ~(i <= Len(a))
    <3>1. ~(i + k <= Len(s))
      BY <1>1, <2>1, <2>3
    <3> QED BY <1>1, <1>4, <2>1, <2>3, <3>1
  <2> QED BY <2>2, <2>3
<1>6. a \o t = b
  BY <1>3, <1>4, <1>5, SeqEqual
<1> QED BY <1>6 DEF a, b, u

LEMMA LineFront ==
  ASSUME NEW s \in Seq(Frames), NEW t \in Seq(Frames), s # <<>>
  PROVE  Tail(s) \o t = Tail(s \o t) /\ s \o t # <<>> /\ Tail(s) \in Seq(Frames)
<1>1. /\ Tail(s) = SubSeq(s, 1 + 1, Len(s)) /\ 1 \in 1..Len(s) /\ Len(s) \in Nat
  BY TailIsFront
<1>2. Tail(s) \o t = SubSeq(s \o t, 1 + 1, Len(s \o t))
  <2>1. 1 \in 0..Len(s)
    BY <1>1
  <2> QED BY <1>1, <2>1, LineShortened
<1>3. s \o t \in Seq(Frames) /\ s \o t # <<>>
  BY LineProperties, ConcatEqualIffEmpty
<1>4. Tail(s \o t) = SubSeq(s \o t, 1 + 1, Len(s \o t))
  BY <1>3, TailIsFront
<1> QED BY <1>2, <1>3, <1>4, HeadTailProperties

\* The lines of frames of the matcher.
Lines == [c \in Cameras |-> deque[c] \o input[c]]

\* The stamps a frame can have, in the matcher's terms.
ClockBounded == clock \in 0..MaxClock

LEMMA ClockInvariant == SafeSpec => []ClockBounded
<1>1. Init => ClockBounded
  <2>1. 0 \in 0..MaxClock
    BY SyncAssumption
  <2> QED BY <2>1 DEF Init, ClockBounded
<1>2. ClockBounded /\ [Next]_vars => ClockBounded'
  <2> SUFFICES ASSUME ClockBounded, [Next]_vars PROVE ClockBounded'
    OBVIOUS
  <2>1. CASE Tick
    BY <2>1, SyncAssumption DEF Tick, ClockBounded
  <2>2. CASE UNCHANGED clock
    BY <2>2 DEF ClockBounded
  <2>3. Tick \/ UNCHANGED clock
    BY DEF Next, vars, PushInput, TakePair, SyncStep, Drain, TrySync, Output, CheckWait, Block,
           Timeout, StopQueues, StopStep, StopFlag, StopNotify, StopJoin
  <2> QED BY <2>1, <2>2, <2>3
<1> QED BY <1>1, <1>2, PTL DEF SafeSpec

LEMMA LinesTyped ==
  ASSUME SyncInv, NEW c \in Cameras
  PROVE  /\ deque[c] \in Seq(Frames) /\ input[c] \in Seq(Frames) /\ Lines[c] = deque[c] \o input[c]
         /\ Lines[c] \in Seq(Frames)
<1>1. deque[c] \in Seq(Frames) /\ input[c] \in Seq(Frames) /\ Lines[c] = deque[c] \o input[c]
  BY DEF SyncInv, TypeOK, Lines
<1> QED BY <1>1, LineProperties

\* Nothing happens to the matcher when the lines and the pairs stay as they are.
LEMMA MatcherStutters ==
  ASSUME UNCHANGED <<last, synced, output>>, Lines' = Lines
  PROVE  UNCHANGED Matcher!vars
BY DEF Lines, Matcher!vars

LEMMA OfferStep ==
  ASSUME SyncInv, ClockBounded, NEW cam \in Cameras, PushInput(cam)
  PROVE  Matcher!Offer(cam)
<1>1. PICK pts \in (clock - MaxDelay)..clock :
        LET f == [pts |-> pts, stamp |-> clock] IN
          /\ last' = [last EXCEPT ![cam] = f]
          /\ input' = IF open /\ Len(input[cam]) < InputSize
                      THEN [input EXCEPT ![cam] = Append(@, f)] ELSE input
  BY DEF PushInput
<1> DEFINE f == [pts |-> pts, stamp |-> clock]
<1>2. last[cam].stamp < clock /\ UNCHANGED <<deque, synced, output>>
  BY DEF PushInput
<1>3. /\ f \in [pts : (-MaxDelay)..MaxClock, stamp : 0..MaxClock]
      /\ f \in Frames /\ f.stamp > last[cam].stamp
  <2>1. pts \in (-MaxDelay)..MaxClock /\ pts \in Int /\ clock \in 0..MaxClock /\ clock \in Int
    BY SyncAssumption DEF ClockBounded
  <2>2. clock > last[cam].stamp
    BY <1>2, <2>1 DEF SyncInv, TypeOK, Frames
  <2> QED BY <2>1, <2>2 DEF Frames
<1>4. /\ last' = [last EXCEPT ![cam] = f]
      /\ input' = input \/ input' = [input EXCEPT ![cam] = Append(input[cam], f)]
  BY <1>1
<1> HIDE DEF f
<1>5. Lines' \in {Lines, [Lines EXCEPT ![cam] = Append(Lines[cam], f)]}
  <2>1. CASE input' = input
    BY <1>2, <2>1 DEF Lines
  <2>2. CASE input' = [input EXCEPT ![cam] = Append(input[cam], f)]
    <3>1. deque[cam] \o Append(input[cam], f) = Append(Lines[cam], f)
      <4> DEFINE s == deque[cam]
                 t == input[cam]
      <4>1. s \in Seq(Frames) /\ t \in Seq(Frames) /\ Lines[cam] = s \o t
        BY LinesTyped
      <4> HIDE DEF s, t
      <4>2. s \o Append(t, f) = Append(s \o t, f)
        BY <1>3, <4>1, LineGrows
      <4> QED BY <4>1, <4>2 DEF s, t
    <3>2. \A c \in Cameras : input'[c] = IF c = cam THEN Append(input[cam], f) ELSE input[c]
      BY <2>2 DEF SyncInv, TypeOK
    <3> QED BY <1>2, <3>1, <3>2 DEF Lines
  <2> QED BY <1>4, <2>1, <2>2
<1> QED BY <1>2, <1>3, <1>4, <1>5 DEF Matcher!Offer, Lines

\* The first frame of a line leaves it.
LEMMA GiveUpStep ==
  ASSUME SyncInv, NEW cam \in Cameras, deque[cam] # <<>>, UNCHANGED <<last, synced, output>>,
         \A c \in Cameras : Lines'[c] = IF c = cam THEN Tail(deque[cam]) \o input[cam] ELSE Lines[c]
  PROVE  Matcher!GiveUp(cam)
<1>1. Lines[cam] # <<>> /\ Tail(deque[cam]) \o input[cam] = Tail(Lines[cam])
  <2> DEFINE s == deque[cam]
             t == input[cam]
  <2>1. s \in Seq(Frames) /\ t \in Seq(Frames) /\ Lines[cam] = s \o t /\ s # <<>>
    BY LinesTyped
  <2> HIDE DEF s, t
  <2>2. Tail(s) \o t = Tail(s \o t) /\ s \o t # <<>>
    BY <2>1, LineFront
  <2> QED BY <2>1, <2>2 DEF s, t
<1>2. Lines' = [Lines EXCEPT ![cam] = Tail(Lines[cam])]
  BY <1>1 DEF Lines
<1> QED BY <1>1, <1>2 DEF Matcher!GiveUp, Lines

\* A turn of the draining loop changes no line, unless the deque is full.
LEMMA DrainMatches ==
  ASSUME SyncInv, NEW cam \in Cameras, Drain(cam)
  PROVE  Matcher!GiveUp(cam) \/ UNCHANGED Matcher!vars
<1>1. UNCHANGED <<last, synced, output>>
  BY DEF Drain
<1>2. CASE input[cam] = <<>>
  <2>1. UNCHANGED <<deque, input>>
    BY <1>2 DEF Drain
  <2> QED BY <1>1, <2>1, MatcherStutters DEF Lines
<1>3. CASE input[cam] # <<>>
  <2> DEFINE full == Len(deque[cam]) >= MaxQueue
             kept == IF full THEN Tail(deque[cam]) ELSE deque[cam]
  <2>1. /\ deque' = [deque EXCEPT ![cam] = Append(kept, Head(input[cam]))]
        /\ input' = [input EXCEPT ![cam] = Tail(input[cam])]
    BY <1>3 DEF Drain, PushFrame
  <2>2. /\ full => deque[cam] # <<>>
        /\ kept \in Seq(Frames) /\ deque[cam] \in Seq(Frames) /\ input[cam] \in Seq(Frames)
    <3>1. deque[cam] \in Seq(Frames) /\ input[cam] \in Seq(Frames)
      BY LinesTyped
    <3>2. full => deque[cam] # <<>>
      BY SyncAssumption, EmptySeq
    <3> QED BY <3>1, <3>2, HeadTailProperties
  <2>a. (full => kept = Tail(deque[cam])) /\ (~full => kept = deque[cam])
    OBVIOUS
  <2> HIDE DEF kept
  <2>3. Append(kept, Head(input[cam])) \o Tail(input[cam]) = kept \o input[cam]
    BY <1>3, <2>2, LineDrained
  <2>4. \A c \in Cameras : Lines'[c] = IF c = cam THEN kept \o input[cam] ELSE Lines[c]
    BY <2>1, <2>3 DEF Lines, SyncInv, TypeOK
  <2> HIDE DEF full
  <2>5. CASE full
    BY <1>1, <2>2, <2>4, <2>5, <2>a, GiveUpStep
  <2>6. CASE ~full
    <3>1. Lines' = Lines
      BY <2>4, <2>6, <2>a DEF Lines
    <3> QED BY <1>1, <3>1, MatcherStutters
  <2> QED BY <2>5, <2>6
<1> QED BY <1>2, <1>3

\* The pair that TrySync makes is the matcher's: close enough, and no frame that it
\* passes over is closer.
LEMMA MatchStep ==
  ASSUME SyncInv, PairStep, DistanceAt(Best) <= MaxDiff
  PROVE  Matcher!Match
<1> DEFINE p == Best
           at == [c \in Cameras |-> IF c = "visible" THEN p[1] ELSE p[2]]
<1>1. /\ deque' = [c \in Cameras |-> SubSeq(deque[c], at[c] + 1, Len(deque[c]))]
      /\ synced' = {[c \in Cameras |-> deque[c][at[c]]]} /\ synced = {}
      /\ Positions # {} /\ UNCHANGED <<last, input, output>>
  BY DEF PairStep, Pair, SyncInv, OutputInv
<1>2. /\ p \in Positions /\ \A q \in Positions : DistanceAt(p) <= DistanceAt(q)
  BY <1>1, BestProperties DEF SyncInv, TypeOK
<1>3. DistanceAt(p) <= MaxDiff
  OBVIOUS
<1> HIDE DEF p
<1>4. /\ p[1] \in 1..Len(deque["visible"]) /\ p[2] \in 1..Len(deque["infrared"])
      /\ Len(deque["visible"]) \in Nat /\ Len(deque["infrared"]) \in Nat
  <2>1. deque["visible"] \in Seq(Frames) /\ deque["infrared"] \in Seq(Frames)
    BY LinesTyped DEF Cameras
  <2> QED BY <1>2, <2>1, LenProperties DEF Positions
<1>5. at["visible"] = p[1] /\ at["infrared"] = p[2] /\ \A c \in Cameras : at[c] \in 1..Len(deque[c])
  BY <1>4 DEF Cameras
<1>6. ASSUME NEW c \in Cameras
      PROVE  /\ \A k \in 1..Len(deque[c]) : Lines[c][k] = deque[c][k] /\ k \in DOMAIN Lines[c]
             /\ Lines'[c] = SubSeq(Lines[c], at[c] + 1, Len(Lines[c]))
  <2>0. at[c] \in 1..Len(deque[c])
    BY <1>5
  <2>b. deque'[c] = SubSeq(deque[c], at[c] + 1, Len(deque[c])) /\ input'[c] = input[c]
    BY <1>1
  <2> HIDE DEF at
  <2>1. /\ deque[c] \in Seq(Frames) /\ input[c] \in Seq(Frames) /\ Lines[c] = deque[c] \o input[c]
    BY LinesTyped
  <2>2. Len(deque[c]) \in Nat
    BY <2>1, LenProperties
  <2>3. ASSUME NEW k \in 1..Len(deque[c]) PROVE Lines[c][k] = deque[c][k] /\ k \in DOMAIN Lines[c]
    <3> DEFINE s == deque[c]
               t == input[c]
    <3>1. s \in Seq(Frames) /\ t \in Seq(Frames) /\ k \in 1..Len(s) /\ Lines[c] = s \o t
      BY <2>1
    <3> HIDE DEF s, t
    <3>2. (s \o t)[k] = s[k] /\ k \in DOMAIN (s \o t)
      BY <3>1, LineStart
    <3> QED BY <3>1, <3>2 DEF s, t
  <2>4. at[c] \in 0..Len(deque[c])
    BY <2>0, <2>2
  <2>5. SubSeq(deque[c], at[c] + 1, Len(deque[c])) \o input[c]
          = SubSeq(Lines[c], at[c] + 1, Len(Lines[c]))
    BY <2>1, <2>4, LineShortened
  <2>6. Lines'[c] = deque'[c] \o input'[c]
    BY DEF Lines
  <2> QED BY <2>3, <2>5, <2>6, <2>b
<1> HIDE DEF at
<1>7. /\ synced' = {[c \in Cameras |-> Lines[c][at[c]]]}
      /\ Lines' = [c \in Cameras |-> SubSeq(Lines[c], at[c] + 1, Len(Lines[c]))]
  <2>1. \A c \in Cameras : deque[c][at[c]] = Lines[c][at[c]]
    BY <1>5, <1>6
  <2>2. Lines' = [c \in Cameras |-> Lines'[c]]
    BY DEF Lines
  <2> QED BY <1>1, <1>6, <2>1, <2>2
<1>8. Matcher!Matches(p[1], p[2])
  <2> DEFINE d(k, l) == Distance(Lines["visible"][k], Lines["infrared"][l])
  <2>1. ASSUME NEW k \in 1..p[1], NEW l \in 1..p[2]
        PROVE  d(k, l) = DistanceAt(<<k, l>>) /\ <<k, l>> \in Positions
    <3>1. k \in 1..Len(deque["visible"]) /\ l \in 1..Len(deque["infrared"])
      BY <1>4
    <3>2. Lines["visible"][k] = deque["visible"][k] /\ Lines["infrared"][l] = deque["infrared"][l]
      BY <1>6, <3>1 DEF Cameras
    <3>3. k \in DOMAIN deque["visible"] /\ l \in DOMAIN deque["infrared"]
      BY <3>1, LinesTyped, LenProperties DEF Cameras
    <3> QED BY <3>2, <3>3 DEF DistanceAt, Positions
  <2>2. p[1] \in 1..p[1] /\ p[2] \in 1..p[2] /\ p = <<p[1], p[2]>>
    BY <1>2, <1>4 DEF Positions
  <2>3. d(p[1], p[2]) = DistanceAt(p)
    BY <2>1, <2>2
  <2>4. d(p[1], p[2]) <= MaxDiff /\ \A k \in 1..p[1], l \in 1..p[2] : d(p[1], p[2]) <= d(k, l)
    BY <1>2, <1>3, <2>1, <2>3
  <2>5. \A f, g : Matcher!Apart(f, g) = Distance(f, g)
    BY DEF Matcher!Apart, Distance
  <2> QED BY <2>4, <2>5 DEF Matcher!Matches, Lines
<1>9. p[1] \in DOMAIN Lines["visible"] /\ p[2] \in DOMAIN Lines["infrared"]
  BY <1>4, <1>6 DEF Cameras
<1>10. at = [c \in Matcher!Cameras |-> IF c = "visible" THEN p[1] ELSE p[2]]
  BY DEF at, Cameras, Matcher!Cameras
<1>11. Cameras = Matcher!Cameras
  BY DEF Cameras, Matcher!Cameras
<1> DEFINE i == p[1]
           j == p[2]
<1>12. /\ synced = {} /\ UNCHANGED <<last, output>>
       /\ i \in DOMAIN Lines["visible"] /\ j \in DOMAIN Lines["infrared"] /\ Matcher!Matches(i, j)
       /\ at = [c \in Matcher!Cameras |-> IF c = "visible" THEN i ELSE j]
       /\ synced' = {[c \in Matcher!Cameras |-> Lines[c][at[c]]]}
       /\ Lines' = [c \in Matcher!Cameras |-> SubSeq(Lines[c], at[c] + 1, Len(Lines[c]))]
  BY <1>1, <1>7, <1>8, <1>9, <1>10, <1>11
<1> HIDE DEF i, j
<1> QED BY <1>12 DEF Matcher!Match, Lines

\* Every step is one of the matcher's or leaves the lines and the pairs as they are.
LEMMA MatcherStep == SyncInv /\ ClockBounded /\ [Next]_vars => [Matcher!Next]_(Matcher!vars)
<1> SUFFICES ASSUME SyncInv, ClockBounded, [Next]_vars PROVE Matcher!Next \/ UNCHANGED Matcher!vars
  OBVIOUS
<1>0. Cameras = Matcher!Cameras
  BY DEF Cameras, Matcher!Cameras
<1>1. CASE UNCHANGED <<last, input, deque, output, synced>>
  BY <1>1, MatcherStutters DEF Lines
<1>2. CASE Tick \/ CheckWait \/ Block \/ Timeout \/ StopQueues \/ StopStep
  BY <1>1, <1>2 DEF Tick, CheckWait, Block, Timeout, StopQueues, StopStep, StopFlag, StopNotify, StopJoin
<1>3. ASSUME NEW cam \in Cameras, PushInput(cam) PROVE Matcher!Next
  BY <1>0, <1>3, OfferStep DEF Matcher!Next
<1>4. CASE TakePair
  <2>1. Matcher!TakePair
    BY <1>4 DEF TakePair, Matcher!TakePair
  <2> QED BY <2>1 DEF Matcher!Next
<1>5. ASSUME NEW cam \in Cameras, Drain(cam) PROVE Matcher!Next \/ UNCHANGED Matcher!vars
  BY <1>0, <1>5, DrainMatches DEF Matcher!Next
<1>6. CASE TrySync
  <2>1. \/ UNCHANGED <<last, input, deque, output, synced>>
        \/ \E cam \in Cameras : DropStep(cam)
        \/ PairStep /\ DistanceAt(Best) <= MaxDiff
    BY <1>6 DEF TrySync, NoPair, DropStep, OutOfTolerance, PairStep
  <2>2. ASSUME NEW cam \in Cameras, DropStep(cam) PROVE Matcher!GiveUp(cam)
    <3>1. /\ deque' = [deque EXCEPT ![cam] = Tail(deque[cam])] /\ UNCHANGED <<last, input, output, synced>>
          /\ Len(deque[cam]) > MaxQueue \div 2
      BY <2>2 DEF DropStep, DropFront, TooOld, NoPair
    <3>2. deque[cam] # <<>>
      <4>1. ~(0 > MaxQueue \div 2)
        BY SyncAssumption
      <4> QED BY <3>1, <4>1, EmptySeq
    <3>3. \A c \in Cameras : Lines'[c] = IF c = cam THEN Tail(deque[cam]) \o input[cam] ELSE Lines[c]
      BY <3>1 DEF Lines, SyncInv, TypeOK
    <3> QED BY <3>1, <3>2, <3>3, GiveUpStep
  <2>3. CASE PairStep /\ DistanceAt(Best) <= MaxDiff
    BY <2>3, MatchStep DEF Matcher!Next
  <2> QED BY <1>0, <1>1, <2>1, <2>2, <2>3 DEF Matcher!Next
<1>7. CASE Output
  <2>1. Matcher!HandOut
    BY <1>7 DEF Output, Matcher!HandOut
  <2> QED BY <2>1 DEF Matcher!Next
<1>8. CASE UNCHANGED vars
  BY <1>1, <1>8 DEF vars
<1> QED BY <1>2, <1>3, <1>4, <1>5, <1>6, <1>7, <1>8 DEF Next, SyncStep

\* The synchroniser implements the matcher of two lines of frames, for any tolerance,
\* capacities and delay: what full queues, dropped fronts and Stop do to the frames is
\* no more than to lose them on arrival, from the front of a line, or as a pair.
THEOREM SyncImplementsMatcher == SafeSpec => ImplementsMatcher
<1>1. Init => Matcher!Init
  <2> SUFFICES ASSUME Init PROVE Matcher!Init
    OBVIOUS
  <2>1. \A c \in Cameras : deque[c] \o input[c] = <<>>
    <3>1. <<>> \in Seq(Frames) /\ <<>> \o <<>> = <<>>
      BY EmptySeq, ConcatEmptySeq
    <3> QED BY <3>1 DEF Init
  <2>2. Cameras = Matcher!Cameras
    BY DEF Cameras, Matcher!Cameras
  <2>3. [c \in Cameras |-> deque[c] \o input[c]] = [c \in Cameras |-> <<>>]
    BY <2>1
  <2> QED BY <2>2, <2>3 DEF Init, Matcher!Init
<1>2. SyncInv /\ ClockBounded /\ [Next]_vars => [Matcher!Next]_(Matcher!vars)
  BY MatcherStep
<1> QED BY <1>1, <1>2, SyncInvariant, ClockInvariant, PTL DEF SafeSpec, ImplementsMatcher, Matcher!SafeSpec

\* A pair of frames within the tolerance of each other, by the stamps they got on arrival.
Close(pair) == Distance(pair["visible"], pair["infrared"]) <= MaxDiff

\* What the result thread can take, or is about to get, is close.
PairsClose == (\A i \in DOMAIN output : Close(output[i])) /\ \A pair \in synced : Close(pair)

\* The matcher makes close pairs and hands out what it made.
LEMMA MatcherKeepsClose ==
  ASSUME output \in Seq(Pairs), PairsClose, Matcher!Next \/ UNCHANGED Matcher!vars
  PROVE  PairsClose'
<1>1. CASE UNCHANGED <<synced, output>>
  BY <1>1 DEF PairsClose
<1>2. CASE \E cam \in Matcher!Cameras : Matcher!Offer(cam) \/ Matcher!GiveUp(cam)
  BY <1>1, <1>2 DEF Matcher!Offer, Matcher!GiveUp
<1>3. CASE Matcher!Match
  <2>1. PICK i \in DOMAIN Lines["visible"], j \in DOMAIN Lines["infrared"] :
          LET at == [c \in Matcher!Cameras |-> IF c = "visible" THEN i ELSE j] IN
          Matcher!Matches(i, j) /\ synced' = {[c \in Matcher!Cameras |-> Lines[c][at[c]]]}
    BY <1>3 DEF Matcher!Match, Lines
  <2> DEFINE at == [c \in Matcher!Cameras |-> IF c = "visible" THEN i ELSE j]
             pair == [c \in Matcher!Cameras |-> Lines[c][at[c]]]
  <2>2. pair["visible"] = Lines["visible"][i] /\ pair["infrared"] = Lines["infrared"][j]
    BY DEF Matcher!Cameras
  <2>3. Distance(Lines["visible"][i], Lines["infrared"][j]) <= MaxDiff
    BY <2>1 DEF Matcher!Matches, Matcher!Apart, Distance, Lines
  <2>4. synced' = {pair} /\ output' = output
    BY <1>3, <2>1 DEF Matcher!Match
  <2> HIDE DEF pair
  <2> QED BY <2>2, <2>3, <2>4 DEF PairsClose, Close
<1>4. CASE Matcher!HandOut
  <2>1. PICK pair \in synced : output' \in {output, Append(output, pair)}
    BY <1>4 DEF Matcher!HandOut
  <2>2. synced' = {} /\ Close(pair)
    BY <1>4 DEF Matcher!HandOut, PairsClose
  <2>3. ASSUME NEW i \in DOMAIN Append(output, pair) PROVE Close(Append(output, pair)[i])
    <3>1. /\ Len(output) \in Nat /\ DOMAIN output = 1..Len(output)
          /\ DOMAIN Append(output, pair) = 1..(Len(output) + 1)
          /\ Append(output, pair)[i] = IF i <= Len(output) THEN output[i] ELSE pair
      BY LenProperties
    <3>2. CASE i <= Len(output)
      <4>1. i \in DOMAIN output
        BY <3>1, <3>2
      <4> QED BY <3>1, <3>2, <4>1 DEF PairsClose
    <3>3. CASE ~(i <= Len(output))
      BY <2>2, <3>1, <3>3
    <3> QED BY <3>2, <3>3
  <2> QED BY <2>1, <2>2, <2>3 DEF PairsClose
<1>5. CASE Matcher!TakePair
  <2>1. output # <<>> /\ output' = Tail(output) /\ synced' = synced
    BY <1>5 DEF Matcher!TakePair
  <2>2. /\ Len(output) \in Nat /\ DOMAIN output = 1..Len(output)
        /\ DOMAIN output' = 1..(Len(output) - 1)
        /\ \A i \in 1..(Len(output) - 1) : output'[i] = output[i + 1]
    BY <2>1, HeadTailProperties, LenProperties
  <2>3. ASSUME NEW i \in DOMAIN output' PROVE Close(output'[i])
    <3>1. i + 1 \in DOMAIN output /\ output'[i] = output[i + 1]
      BY <2>2
    <3> QED BY <3>1 DEF PairsClose
  <2> QED BY <2>1, <2>3 DEF PairsClose, Close, Distance
<1> QED BY <1>1, <1>2, <1>3, <1>4, <1>5 DEF Matcher!Next, Matcher!vars

\* Every pair handed to the result thread is within max_timestamp_diff_us by the time
\* stamps of its frames, and that by the refinement alone: nothing but the matcher's
\* steps and the type of the output queue is used.
THEOREM PairsCloseInvariant == SafeSpec => []PairsClose
<1>1. Init => PairsClose
  <2>1. DOMAIN <<>> = {}
    OBVIOUS
  <2> QED BY <2>1 DEF Init, PairsClose
<1>2. SyncInv /\ ClockBounded /\ PairsClose /\ [Next]_vars => PairsClose'
  BY MatcherStep, MatcherKeepsClose DEF SyncInv, TypeOK
<1> QED BY <1>1, <1>2, SyncInvariant, ClockInvariant, PTL DEF SafeSpec
=============================================================================
