----------------------------- MODULE RtspReader -----------------------------
(***************************************************************************)
(* RtspReader: a thread reads packets from the camera's stream, decodes    *)
(* them and offers each frame to the frame queue; when reading fails it    *)
(* closes the stream and opens it anew, up to a number of attempts.  One   *)
(* controlling thread calls Start, Stop and the destructor.  The stream    *)
(* contexts (fmt_ctx_, codec_ctx_, hw_device_ctx_) are used by both        *)
(* threads and guarded by nothing but the order of these calls.            *)
(***************************************************************************)
EXTENDS Naturals

CONSTANTS MaxReconnect, \* config_.max_reconnect
          MaxDecoded    \* bound of the model: frames decoded from one packet

ASSUME ReaderAssumption == MaxReconnect \in Nat /\ MaxDecoded \in Nat

VARIABLES running,   \* running_
          stream,    \* the contexts are "open", or "closed" (null pointers)
          decoder,   \* frames the decoder still has to give out
          queueOpen, \* frame_queue_ is not stopped
          attempts,  \* reconnect_count_
          pc,        \* the read thread: "none" (not joinable), "ended", or its place
          ctl,       \* the controlling thread: "idle" or its place
          failure    \* "none", or what ended the process

vars == <<running, stream, decoder, queueOpen, attempts, pc, ctl, failure>>

Init ==
  /\ running = FALSE /\ stream = "closed" /\ decoder = 0
  /\ queueOpen = TRUE /\ attempts = 0
  /\ pc = "none" /\ ctl = "idle" /\ failure = "none"

\* FFmpeg: the stream is opened, or it cannot be and nothing is left of it.
OpenStream == stream' \in {"open", "closed"} /\ decoder' = 0
CloseStream == stream' = "closed" /\ decoder' = 0
-----------------------------------------------------------------------------
(* The controlling thread.                                                 *)

Start ==
  /\ ctl = "idle" /\ ~running
  /\ OpenStream
  /\ ctl' = IF stream' = "open" THEN "start thread" ELSE "idle"
  /\ UNCHANGED <<running, queueOpen, attempts, pc, failure>>

\* Assigning to a std::thread that is still joinable ends the process.
StartThread ==
  /\ ctl = "start thread"
  /\ running' = TRUE
  /\ IF pc = "none" THEN pc' = "alloc" /\ UNCHANGED failure
                    ELSE failure' = "unjoined thread" /\ UNCHANGED pc
  /\ ctl' = "idle"
  /\ UNCHANGED <<stream, decoder, queueOpen, attempts>>

Stop ==
  /\ ctl = "idle" /\ running
  /\ running' = FALSE
  /\ ctl' = "stop queue"
  /\ UNCHANGED <<stream, decoder, queueOpen, attempts, pc, failure>>

StopQueue ==
  /\ ctl = "stop queue"
  /\ queueOpen' = FALSE
  /\ ctl' = "join"
  /\ UNCHANGED <<running, stream, decoder, attempts, pc, failure>>

\* Variant: Stop does not wait for the read thread (detach in place of join).
StopDetach ==
  /\ ctl = "join"
  /\ ctl' = "close"
  /\ UNCHANGED <<running, stream, decoder, queueOpen, attempts, pc, failure>>

StopJoin ==
  /\ ctl = "join" /\ pc = "ended"
  /\ pc' = "none"
  /\ ctl' = "close"
  /\ UNCHANGED <<running, stream, decoder, queueOpen, attempts, failure>>

StopClose ==
  /\ ctl = "close"
  /\ CloseStream
  /\ ctl' = "idle"
  /\ UNCHANGED <<running, queueOpen, attempts, pc, failure>>

\* ~RtspReader once Stop has nothing to do.  A read thread that ended by itself
\* was never joined, and destroying its std::thread ends the process.
Destroy ==
  /\ ctl = "idle" /\ ~running
  /\ CloseStream
  /\ failure' = IF pc = "none" THEN failure ELSE "unjoined thread"
  /\ ctl' = "destroyed"
  /\ UNCHANGED <<running, queueOpen, attempts, pc>>
-----------------------------------------------------------------------------
(* ReadLoop.                                                               *)

\* av_packet_alloc and av_frame_alloc.
Allocate ==
  /\ pc = "alloc"
  /\ \/ pc' = "loop" /\ UNCHANGED running
     \/ pc' = "ended" /\ running' = FALSE
  /\ UNCHANGED <<stream, decoder, queueOpen, attempts, ctl, failure>>

\* Variant: the loop ends when the attempts are used up, not when Stop asks for it.
LoopHeadUntilAttemptsEnd ==
  /\ pc = "loop"
  /\ pc' = IF attempts < MaxReconnect THEN "read" ELSE "ended"
  /\ UNCHANGED <<running, stream, decoder, queueOpen, attempts, ctl, failure>>

LoopHead ==
  /\ pc = "loop"
  /\ pc' = IF running THEN "read" ELSE "ended"
  /\ UNCHANGED <<running, stream, decoder, queueOpen, attempts, ctl, failure>>

\* av_read_frame dereferences fmt_ctx_.  Otherwise it fails, or returns a packet:
\* one of another stream, one the decoder refuses, or one that gives frames.
ReadPacket ==
  /\ pc = "read"
  /\ \/ /\ stream = "closed"
        /\ failure' = "null stream"
        /\ UNCHANGED <<pc, decoder>>
     \/ /\ stream = "open"
        /\ \/ pc' \in {"reconnect", "loop"} /\ UNCHANGED decoder
           \/ /\ \E n \in 0..MaxDecoded : decoder' = n
              /\ pc' = "receive"
        /\ UNCHANGED failure
  /\ UNCHANGED <<running, stream, queueOpen, attempts, ctl>>

\* One turn of avcodec_receive_frame: it has no frame or fails; the frame cannot
\* be copied from the GPU, which also ends the turns; or the frame is offered to
\* the queue, which may be full or stopped, and the next one is asked for.
ReceiveFrame ==
  /\ pc = "receive"
  /\ \/ pc' = "loop" /\ UNCHANGED decoder
     \/ decoder > 0 /\ decoder' = decoder - 1 /\ pc' \in {"loop", "receive"}
  /\ UNCHANGED <<running, stream, queueOpen, attempts, ctl, failure>>

\* Variant: Reconnect does not look at the limit.
ReconnectUnlimited ==
  /\ pc = "reconnect"
  /\ attempts' = attempts + 1
  /\ CloseStream
  /\ pc' = "reopen"
  /\ UNCHANGED <<running, queueOpen, ctl, failure>>

\* Reconnect, up to its sleep.
Reconnect ==
  /\ pc = "reconnect"
  /\ \/ /\ ~running \/ attempts >= MaxReconnect
        /\ pc' = "loop"
        /\ UNCHANGED <<stream, decoder, attempts>>
     \/ /\ running /\ attempts < MaxReconnect
        /\ attempts' = attempts + 1
        /\ CloseStream
        /\ pc' = "reopen"
  /\ UNCHANGED <<running, queueOpen, ctl, failure>>

\* It does not look at running_ again before it opens the stream.
Reopen ==
  /\ pc = "reopen"
  /\ OpenStream
  /\ attempts' = IF stream' = "open" THEN 0 ELSE attempts
  /\ pc' = "loop"
  /\ UNCHANGED <<running, queueOpen, ctl, failure>>

ReadStep == Allocate \/ LoopHead \/ ReadPacket \/ ReceiveFrame \/ Reconnect \/ Reopen
StopStep == StopQueue \/ StopJoin \/ StopClose

Next == /\ failure = "none"
        /\ \/ Start \/ StartThread \/ Stop \/ StopStep \/ Destroy
           \/ ReadStep

\* Both threads run: FFmpeg's calls return, because of stimeout, and sleeps end.
Fairness == /\ WF_vars(failure = "none" /\ ReadStep)
            /\ WF_vars(failure = "none" /\ (StartThread \/ StopStep))

SafeSpec == Init /\ [][Next]_vars
Spec == SafeSpec /\ Fairness
-----------------------------------------------------------------------------
Joinable == pc # "none"

\* Every variable has its type, and reconnect_count_ never passes its limit.
TypeOK ==
  /\ running \in BOOLEAN /\ queueOpen \in BOOLEAN
  /\ stream \in {"open", "closed"}
  /\ decoder \in 0..MaxDecoded /\ attempts \in 0..MaxReconnect
  /\ pc \in {"none", "alloc", "loop", "read", "receive", "reconnect", "reopen", "ended"}
  /\ ctl \in {"idle", "start thread", "stop queue", "join", "close", "destroyed"}
  /\ failure \in {"none", "unjoined thread", "null stream"}

\* The controlling thread opens or closes the stream only while no read thread is
\* in its loop: neither OpenStream in Start nor CloseStream in Stop and in the
\* destructor pulls the contexts away under av_read_frame or the decoder.
StreamHasOneUser ==
  [][ctl' # ctl /\ (stream' # stream \/ decoder' # decoder) => pc \in {"none", "ended"}]_vars

\* A reader whose thread was joined is at rest: nothing is left open that a late
\* reconnection could have opened after the flag was cleared.
StoppedReaderHoldsNothing ==
  ctl = "idle" /\ ~Joinable => ~running /\ stream = "closed" /\ decoder = 0

\* README line 110 promises automatic reconnection, with max_reconnect attempts:
\* a failed attempt leads to the next one, not to the use of the closed stream.
ReconnectRetries == failure # "null stream"
=============================================================================
