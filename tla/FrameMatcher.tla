----------------------------- MODULE FrameMatcher -----------------------------
(***************************************************************************)
(* What FrameSynchronizer promises, with no thread, no wait and no         *)
(* capacities: of two lines of frames in time order it makes pairs within  *)
(* a tolerance.  Frames and pairs may be lost on the way, and the oldest   *)
(* frame of a line may be given up, but what is passed over for a pair is  *)
(* no closer than the pair, and nothing comes out twice or out of order.   *)
(***************************************************************************)
EXTENDS Integers, Sequences

CONSTANTS Frames,   \* records with a stamp
          NoFrame,  \* the frame before the first
          MaxDiff   \* the tolerance

VARIABLES newest,  \* per camera, the newest frame offered
          held,    \* per camera, its line of frames
          made,    \* the pair made and not handed out yet, as a set
          ready    \* the pairs to be taken

vars == <<newest, held, made, ready>>

Cameras == {"visible", "infrared"}

Apart(f, g) == IF f.stamp >= g.stamp THEN f.stamp - g.stamp ELSE g.stamp - f.stamp

Init ==
  /\ newest = [c \in Cameras |-> NoFrame]
  /\ held = [c \in Cameras |-> <<>>]
  /\ made = {} /\ ready = <<>>

\* A frame is offered; it joins its line or is lost.
Offer(cam) ==
  /\ \E f \in Frames :
       /\ f.stamp > newest[cam].stamp
       /\ newest' = [newest EXCEPT ![cam] = f]
       /\ held' \in {held, [held EXCEPT ![cam] = Append(@, f)]}
  /\ UNCHANGED <<made, ready>>

GiveUp(cam) ==
  /\ held[cam] # <<>>
  /\ held' = [held EXCEPT ![cam] = Tail(@)]
  /\ UNCHANGED <<newest, made, ready>>

\* The i-th visible and the j-th infrared frame are close, and none of those in
\* front of them are closer.
Matches(i, j) ==
  LET d(k, l) == Apart(held["visible"][k], held["infrared"][l]) IN
  /\ d(i, j) <= MaxDiff
  /\ \A k \in 1..i, l \in 1..j : d(i, j) <= d(k, l)

Match ==
  /\ made = {}
  /\ \E i \in DOMAIN held["visible"], j \in DOMAIN held["infrared"] :
       LET at == [c \in Cameras |-> IF c = "visible" THEN i ELSE j] IN
       /\ Matches(i, j)
       /\ made' = {[c \in Cameras |-> held[c][at[c]]]}
       /\ held' = [c \in Cameras |-> SubSeq(held[c], at[c] + 1, Len(held[c]))]
  /\ UNCHANGED <<newest, ready>>

\* The pair is handed out or lost.
HandOut ==
  /\ \E pair \in made : ready' \in {ready, Append(ready, pair)}
  /\ made' = {}
  /\ UNCHANGED <<newest, held>>

TakePair ==
  /\ ready # <<>>
  /\ ready' = Tail(ready)
  /\ UNCHANGED <<newest, held, made>>

Next ==
  \/ \E cam \in Cameras : Offer(cam) \/ GiveUp(cam)
  \/ Match \/ HandOut \/ TakePair

SafeSpec == Init /\ [][Next]_vars
================================================================================
