--------------------------- MODULE BlockingChannel ---------------------------
(***************************************************************************)
(* What ThreadSafeQueue promises to its callers, with no mutex and no      *)
(* condition variable: a first-in first-out buffer that can be closed.  A  *)
(* caller that cannot proceed is pending; when what it waits for is there, *)
(* some pending caller completes, and closing lets every caller go.        *)
(***************************************************************************)
EXTENDS Naturals, Sequences

CONSTANTS Threads,  \* the callers
          Items,    \* what is put and taken
          MaxSize   \* the capacity; 0 means that there is none

VARIABLES queue,    \* the items put and not taken yet
          running,  \* the channel is open
          call      \* per thread, the pending call or the last outcome

vars == <<queue, running, call>>

Results == Items \cup {"none", "ok", "false", "throw"}

HasRoom == MaxSize = 0 \/ Len(queue) < MaxSize
Ready(t) == call[t].op = "none"
Pending(t, ops) == call[t].op \in ops

Outcome(t, r) == call' = [call EXCEPT ![t] = [op |-> "none", val |-> r]]

Init ==
  /\ queue = <<>>
  /\ running = TRUE
  /\ call = [t \in Threads |-> [op |-> "none", val |-> "none"]]

Accept(t, v) ==
  /\ running /\ HasRoom
  /\ queue' = Append(queue, v)
  /\ Outcome(t, "ok")
  /\ UNCHANGED running

Deliver(t) ==
  /\ queue # <<>>
  /\ queue' = Tail(queue)
  /\ Outcome(t, Head(queue))
  /\ UNCHANGED running

\* A call that is answered at once without touching the buffer: the channel
\* is closed, or a non-blocking call finds it full or empty.
Refuse(t) ==
  /\ \/ ~running /\ \E r \in {"false", "throw"} : Outcome(t, r)
     \/ (~HasRoom \/ queue = <<>>) /\ Outcome(t, "false")
  /\ UNCHANGED <<queue, running>>

\* A call that cannot be answered now.
Suspend(t) ==
  /\ running
  /\ \/ /\ ~HasRoom
        /\ \E v \in Items : call' = [call EXCEPT ![t] = [op |-> "Push", val |-> v]]
     \/ /\ queue = <<>>
        /\ \E o \in {"Pop", "WaitPop"} :
             call' = [call EXCEPT ![t] = [op |-> o, val |-> "none"]]
  /\ UNCHANGED <<queue, running>>

FinishPut(t) == Pending(t, {"Push"}) /\ Accept(t, call[t].val)
FinishGet(t) == Pending(t, {"Pop", "WaitPop"}) /\ Deliver(t)

\* A pending call is let go: put by closing, blocking get by closing an
\* empty channel, timed get because it is still empty.
Release(t) ==
  /\ \/ Pending(t, {"Push"}) /\ ~running /\ Outcome(t, "throw")
     \/ Pending(t, {"Pop"}) /\ ~running /\ queue = <<>> /\ Outcome(t, "throw")
     \/ Pending(t, {"WaitPop"}) /\ queue = <<>> /\ Outcome(t, "false")
  /\ UNCHANGED <<queue, running>>

Close == running' = FALSE /\ UNCHANGED <<queue, call>>
Discard == queue' = <<>> /\ UNCHANGED <<running, call>>

Start(t) ==
  /\ Ready(t)
  /\ \/ \E v \in Items : Accept(t, v)
     \/ Deliver(t)
     \/ Refuse(t)
     \/ Suspend(t)

Next ==
  \/ \E t \in Threads : Start(t) \/ FinishPut(t) \/ FinishGet(t) \/ Release(t)
  \/ Close
  \/ Discard

\* Nothing promises a turn to one given caller while the channel is open,
\* only that some caller gets it.
Fairness ==
  /\ WF_vars(\E t \in Threads : FinishPut(t))
  /\ WF_vars(\E t \in Threads : FinishGet(t))
  /\ \A t \in Threads : WF_vars(Release(t))

SafeSpec == Init /\ [][Next]_vars
Spec == SafeSpec /\ Fairness
==============================================================================
