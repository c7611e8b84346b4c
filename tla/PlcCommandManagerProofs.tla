----------------------- MODULE PlcCommandManagerProofs -----------------------
(***************************************************************************)
(* Proofs about PlcCommandManager, for any limits, intervals, switches and *)
(* bounds: its types, the conservation of commands and the throttle.       *)
(***************************************************************************)
EXTENDS PlcCommandManager, FiniteSetTheorems, SequenceTheorems, TLAPS

USE DEF SAFE, WARNING, DANGER, CRITICAL_LEVEL, NORMAL, HIGH, CRITICAL

\* What SubmitCommand may be asked for is a command of a known type.
LEMMA RequestType ==
  ASSUME NEW level \in {WARNING, DANGER, CRITICAL_LEVEL}
  PROVE  ShouldTriggerDamping[level] \in Commands
BY DEF ShouldTriggerDamping, Commands, Types

\* The history after a command is recorded: that command in front, the others
\* moved back by one, no longer than the configured size.
LEMMA HistoryUpdated ==
  ASSUME commandHistory \in Seq(Commands), cmd \in Commands, UpdateHistory,
         Len(commandHistory) <= HistorySize
  PROVE  /\ commandHistory' \in Seq(Commands)
         /\ Len(commandHistory') <= HistorySize
         /\ \A i \in DOMAIN commandHistory' :
              \/ i = 1 /\ commandHistory'[i] = cmd
              \/ /\ i > 1 /\ i - 1 \in DOMAIN commandHistory
                 /\ commandHistory'[i] = commandHistory[i - 1]
<1> DEFINE h == <<cmd>> \o commandHistory
<1>1. /\ h \in Seq(Commands) /\ Len(h) = Len(commandHistory) + 1
      /\ \A i \in 1..Len(h) : h[i] = IF i = 1 THEN cmd ELSE commandHistory[i - 1]
  OBVIOUS
<1>2. HistorySize \in Nat /\ Len(commandHistory) \in Nat
  BY PlcAssumption, LenProperties
<1>3. CASE Len(h) > HistorySize
  <2>1. commandHistory' = SubSeq(h, 1, Len(h) - 1)
    BY <1>3 DEF UpdateHistory
  <2> HIDE DEF h
  <2>2. /\ commandHistory' \in Seq(Commands) /\ Len(commandHistory') = Len(h) - 1
        /\ \A i \in 1..(Len(h) - 1) : commandHistory'[i] = h[i]
    BY <1>1, <1>2, <2>1
  <2>3. /\ DOMAIN commandHistory' = 1..(Len(h) - 1)
        /\ DOMAIN commandHistory = 1..Len(commandHistory)
    BY <2>2, LenProperties
  <2> QED BY <1>1, <1>2, <2>2, <2>3
<1>4. CASE ~(Len(h) > HistorySize)
  <2>1. commandHistory' = h
    BY <1>4 DEF UpdateHistory
  <2>2. DOMAIN h = 1..Len(h) /\ DOMAIN commandHistory = 1..Len(commandHistory)
    BY <1>1, LenProperties
  <2> HIDE DEF h
  <2> QED BY <1>1, <1>2, <1>4, <2>1, <2>2
<1> QED BY <1>3, <1>4

\* An empty queue has no backlog.
LEMMA NoBacklog ==
  {c \in {} : c.priority <= NORMAL} = {} /\ Cardinality({}) <= MaxPending
BY FS_EmptySet, PlcAssumption

\* A set gains at most one element by one more.
LEMMA OneMore ==
  ASSUME NEW S, NEW x, IsFiniteSet(S)
  PROVE  /\ Cardinality(S \cup {x}) \in Nat /\ Cardinality(S) \in Nat
         /\ Cardinality(S \cup {x}) <= Cardinality(S) + 1
<1>1. Cardinality(S) \in Nat
  BY FS_CardinalityType
<1>2. Cardinality(S \cup {x}) = Cardinality(S) \/ Cardinality(S \cup {x}) = Cardinality(S) + 1
  BY FS_AddElement
<1> QED BY <1>1, <1>2

\* What a push does to the backlog: a command that is not
\* urgent joins a queue with room only, one that is urgent is no part of it.
LEMMA BacklogBounded ==
  ASSUME IsFiniteSet(priorityQueue), Cardinality(Backlog) <= MaxPending, cmd \in Commands,
         PushLocked
  PROVE  IsFiniteSet(priorityQueue') /\ Cardinality(Backlog') <= MaxPending
<1>1. /\ MaxPending \in Nat /\ cmd.priority \in {NORMAL, HIGH, CRITICAL}
      /\ Backlog \in SUBSET priorityQueue
  BY PlcAssumption DEF Commands, Backlog
<1>2. /\ IsFiniteSet(Backlog) /\ Cardinality(Backlog) \in Nat
      /\ Cardinality(priorityQueue) \in Nat /\ Cardinality(Backlog) <= Cardinality(priorityQueue)
  BY <1>1, FS_Subset, FS_CardinalityType
<1>3. CASE priorityQueue' = priorityQueue
  BY <1>3 DEF Backlog
<1>4. CASE priorityQueue' = priorityQueue \cup {cmd}
  <2>1. IsFiniteSet(priorityQueue')
    BY <1>4, FS_AddElement
  <2>2. CASE cmd.priority > NORMAL
    <3>1. Backlog' = Backlog
      BY <1>1, <1>4, <2>2 DEF Backlog
    <3> QED BY <2>1, <3>1
  <2>3. CASE cmd.priority <= NORMAL /\ Cardinality(priorityQueue) < MaxPending
    <3>1. Backlog' = Backlog \cup {cmd}
      BY <1>1, <1>4, <2>3 DEF Backlog
    <3>2. Cardinality(Backlog') \in Nat /\ Cardinality(Backlog') <= Cardinality(Backlog) + 1
      BY <1>2, <3>1, OneMore
    <3> QED BY <1>1, <1>2, <2>1, <2>3, <3>2
  <2>4. CASE cmd.priority <= NORMAL /\ Cardinality(priorityQueue) >= MaxPending
    BY <1>3, <2>4 DEF PushLocked
  <2> QED BY <1>1, <1>2, <2>2, <2>3, <2>4
<1> QED BY <1>3, <1>4 DEF PushLocked

\* The driver takes from the queue and adds nothing.
LEMMA TakeBounded ==
  ASSUME IsFiniteSet(priorityQueue), Cardinality(Backlog) <= MaxPending,
         GetHighestPriorityCommand
  PROVE  IsFiniteSet(priorityQueue') /\ Cardinality(Backlog') <= MaxPending
<1>1. priorityQueue' \in SUBSET priorityQueue /\ Backlog \in SUBSET priorityQueue
  BY DEF GetHighestPriorityCommand, Backlog
<1>2. Backlog' \in SUBSET Backlog
  BY <1>1 DEF Backlog
<1>3. IsFiniteSet(priorityQueue') /\ IsFiniteSet(Backlog)
  BY <1>1, FS_Subset
<1>4. IsFiniteSet(Backlog') /\ Cardinality(Backlog') <= Cardinality(Backlog)
  BY <1>2, <1>3, FS_Subset
<1>5. Cardinality(Backlog') \in Nat /\ Cardinality(Backlog) \in Nat /\ MaxPending \in Nat
  BY <1>3, <1>4, FS_CardinalityType, PlcAssumption
<1> QED BY <1>3, <1>4, <1>5

\* TypeOK is inductive.
THEOREM PlcTypeInvariant == SafeSpec => []TypeOK
<1>1. Init => TypeOK
  <2>1. Init => /\ commandHistory \in Seq(Commands) /\ Len(commandHistory) <= HistorySize
                /\ IsFiniteSet(priorityQueue) /\ Cardinality(Backlog) <= MaxPending
    BY PlcAssumption, FS_EmptySet, EmptySeq, NoBacklog DEF Init, Backlog
  <2>2. Init => lastTaken \in [{NORMAL, HIGH, CRITICAL} -> Nat]
    BY DEF Init
  <2>3. Init => /\ DOMAIN lastIssueTime \subseteq Types
                /\ \A t \in DOMAIN lastIssueTime : lastIssueTime[t] \in Nat
    BY DEF Init, NeverIssued
  <2>4. Init => /\ running \in BOOLEAN /\ emergencyActive \in BOOLEAN /\ alive \in BOOLEAN
                /\ priorityQueue \subseteq Commands
    BY DEF Init
  <2>5. Init => /\ nextCommandId \in Nat /\ issued \in Nat /\ dropped \in Nat /\ acked \in Nat
                /\ clock \in Nat /\ asked \in Nat /\ taken \in Nat
                /\ activeLevel \in {SAFE, WARNING, DANGER, CRITICAL_LEVEL}
    BY DEF Init
  <2>6. Init => /\ pc \in {"idle", "stamp", "push", "record", "fatal", "notify"}
                /\ cmd \in Commands \cup {NoCommand} /\ (pc # "idle" => cmd \in Commands)
    BY DEF Init
  <2> QED BY <2>1, <2>2, <2>3, <2>4, <2>5, <2>6 DEF TypeOK
<1>2. TypeOK /\ [Next]_vars => TypeOK'
  <2> SUFFICES ASSUME TypeOK, [Next]_vars PROVE TypeOK'
    OBVIOUS
  <2> USE DEF TypeOK, Backlog, submit, stats, driver
  <2>1. ASSUME Start \/ Stop PROVE TypeOK'
    BY <2>1 DEF Start, Stop
  <2>2. ASSUME Reinitialise PROVE TypeOK'
    <3>1. /\ commandHistory' \in Seq(Commands) /\ Len(commandHistory') <= HistorySize
          /\ IsFiniteSet(priorityQueue') /\ Cardinality(Backlog') <= MaxPending
      BY <2>2, PlcAssumption, FS_EmptySet, EmptySeq, NoBacklog DEF Reinitialise, Backlog
    <3>2. lastTaken' \in [{NORMAL, HIGH, CRITICAL} -> Nat]
      BY <2>2 DEF Reinitialise
    <3> QED BY <2>2, <3>1, <3>2 DEF Reinitialise, NeverIssued
  <2>3. ASSUME NEW level \in {WARNING, DANGER, CRITICAL_LEVEL}, SubmitCommand(level) PROVE TypeOK'
    BY <2>3, RequestType DEF SubmitCommand
  <2>4. ASSUME Stamp PROVE TypeOK'
    <3>1. cmd' \in Commands
      BY <2>4 DEF Stamp, Commands
    <3> QED BY <2>4, <3>1 DEF Stamp
  <2>5. ASSUME PushLocked PROVE TypeOK'
    <3>1. IsFiniteSet(priorityQueue') /\ Cardinality(Backlog') <= MaxPending
      BY <2>5, BacklogBounded DEF PushLocked
    <3> HIDE DEF Backlog
    <3> QED BY <2>5, <3>1 DEF PushLocked
  <2>6. ASSUME Record PROVE TypeOK'
    <3>1. cmd \in Commands /\ UpdateHistory
      BY <2>6 DEF Record
    <3>2. commandHistory' \in Seq(Commands) /\ Len(commandHistory') <= HistorySize
      BY <3>1, HistoryUpdated
    <3>3. /\ DOMAIN lastIssueTime' \subseteq Types
          /\ \A t \in DOMAIN lastIssueTime' : lastIssueTime'[t] \in Nat
      BY <2>6, <3>1 DEF Record, Commands
    <3>4. activeLevel' \in {SAFE, WARNING, DANGER, CRITICAL_LEVEL}
      BY <2>6, <3>3 DEF Record, UpdateSafetyLevel, LevelOf, RecentTypes, Types
    <3>5. /\ issued' \in Nat /\ pc' \in {"fatal", "notify"}
          /\ emergencyActive' = TRUE \/ emergencyActive' = emergencyActive
      BY <2>6 DEF Record
    <3> QED BY <2>6, <3>1, <3>2, <3>3, <3>4, <3>5 DEF Record
  <2>7. ASSUME LogFatal \/ Notify PROVE TypeOK'
    BY <2>7 DEF LogFatal, Notify
  <2>8. ASSUME GetHighestPriorityCommand PROVE TypeOK'
    <3>1. Cardinality(Backlog') <= MaxPending /\ IsFiniteSet(priorityQueue')
      BY <2>8, TakeBounded
    <3> HIDE DEF Backlog
    <3> QED BY <2>8, <3>1 DEF GetHighestPriorityCommand, Commands
  <2>9. ASSUME AckCommand PROVE TypeOK'
    BY <2>9 DEF AckCommand
  <2>10. ASSUME ClearEmergency \/ StatsThread PROVE TypeOK'
    BY <2>10 DEF ClearEmergency, StatsThread
  <2>11. ASSUME Tick PROVE TypeOK'
    BY <2>11 DEF Tick
  <2>12. CASE UNCHANGED vars
    BY <2>12 DEF vars
  <2> QED
    BY <2>1, <2>2, <2>3, <2>4, <2>5, <2>6, <2>7, <2>8, <2>9, <2>10, <2>11, <2>12
    DEF Next, SubmitStep
<1> QED BY <1>1, <1>2, PTL DEF SafeSpec
-----------------------------------------------------------------------------
\* Ids are fresh: those in the queue were given out, and the command about to
\* be pushed carries the newest one, so it is not in the queue yet.
IdsFresh ==
  /\ \A c \in priorityQueue : c.id < nextCommandId
  /\ pc = "push" => /\ cmd.id < nextCommandId
                    /\ \A c \in priorityQueue : c.id < cmd.id

LEMMA IdsFreshInvariant == SafeSpec => []IdsFresh
<1>1. Init => IdsFresh
  BY DEF Init, IdsFresh
<1>2. TypeOK /\ IdsFresh /\ [Next]_vars => IdsFresh'
  <2> SUFFICES ASSUME TypeOK, IdsFresh, [Next]_vars PROVE IdsFresh'
    OBVIOUS
  <2> USE DEF IdsFresh, submit, stats, driver
  <2>1. ASSUME Start \/ Stop \/ Reinitialise PROVE IdsFresh'
    BY <2>1 DEF Start, Stop, Reinitialise
  <2>2. ASSUME NEW level \in {WARNING, DANGER, CRITICAL_LEVEL}, SubmitCommand(level) PROVE IdsFresh'
    BY <2>2 DEF SubmitCommand
  <2>3. ASSUME Stamp PROVE IdsFresh'
    <3>1. cmd'.id = nextCommandId /\ nextCommandId \in Nat
          /\ \A c \in priorityQueue : c.id \in Nat
      BY <2>3 DEF Stamp, TypeOK, Commands
    <3> QED BY <2>3, <3>1 DEF Stamp
  <2>4. ASSUME PushLocked PROVE IdsFresh'
    BY <2>4 DEF PushLocked
  <2>5. ASSUME Record \/ LogFatal \/ Notify PROVE IdsFresh'
    BY <2>5 DEF Record, LogFatal, Notify
  <2>6. ASSUME GetHighestPriorityCommand \/ AckCommand PROVE IdsFresh'
    BY <2>6 DEF GetHighestPriorityCommand, AckCommand
  <2>7. ASSUME ClearEmergency \/ StatsThread \/ Tick PROVE IdsFresh'
    BY <2>7 DEF ClearEmergency, StatsThread, Tick
  <2>8. CASE UNCHANGED vars
    BY <2>8 DEF vars
  <2> QED BY <2>1, <2>2, <2>3, <2>4, <2>5, <2>6, <2>7, <2>8 DEF Next, SubmitStep
<1> QED BY <1>1, <1>2, PlcTypeInvariant, PTL DEF SafeSpec

\* No command is lost, doubled or left uncounted between the request, the
\* queue, the driver and the statistics.
THEOREM CommandsConservedInvariant == SafeSpec => []CommandsConserved
<1>1. Init => CommandsConserved
  BY FS_EmptySet DEF Init, CommandsConserved, InFlight
<1>2. TypeOK /\ IdsFresh /\ CommandsConserved /\ [Next]_vars => CommandsConserved'
  <2> SUFFICES ASSUME TypeOK, IdsFresh, CommandsConserved, [Next]_vars
               PROVE CommandsConserved'
    OBVIOUS
  <2> USE DEF CommandsConserved, InFlight, submit, stats, driver
  <2>0. /\ issued \in Nat /\ dropped \in Nat /\ asked \in Nat /\ taken \in Nat
        /\ IsFiniteSet(priorityQueue) /\ Cardinality(priorityQueue) \in Nat
    BY FS_CardinalityType DEF TypeOK
  <2>1. ASSUME Start \/ Stop PROVE CommandsConserved'
    BY <2>1 DEF Start, Stop
  <2>2. ASSUME Reinitialise PROVE CommandsConserved'
    BY <2>2, FS_EmptySet DEF Reinitialise
  <2>3. ASSUME NEW level \in {WARNING, DANGER, CRITICAL_LEVEL}, SubmitCommand(level)
        PROVE CommandsConserved'
    BY <2>0, <2>3 DEF SubmitCommand
  <2>4. ASSUME Stamp PROVE CommandsConserved'
    BY <2>4 DEF Stamp
  <2>5. ASSUME PushLocked PROVE CommandsConserved'
    <3>1. CASE pc' = "idle"
      BY <2>0, <2>5, <3>1 DEF PushLocked
    <3>2. CASE pc' = "record"
      <4>1. cmd \notin priorityQueue /\ priorityQueue' = priorityQueue \cup {cmd}
        BY <2>5, <3>2 DEF PushLocked, IdsFresh, TypeOK, Commands
      <4>2. Cardinality(priorityQueue') = Cardinality(priorityQueue) + 1
        BY <2>0, <4>1, FS_AddElement
      <4> QED BY <2>0, <2>5, <3>2, <4>2 DEF PushLocked
    <3> QED BY <2>5, <3>1, <3>2 DEF PushLocked
  <2>6. ASSUME Record PROVE CommandsConserved'
    BY <2>0, <2>6 DEF Record
  <2>7. ASSUME LogFatal \/ Notify PROVE CommandsConserved'
    BY <2>7 DEF LogFatal, Notify
  <2>8. ASSUME GetHighestPriorityCommand PROVE CommandsConserved'
    <3>1. PICK c \in priorityQueue : priorityQueue' = priorityQueue \ {c}
      BY <2>8 DEF GetHighestPriorityCommand
    <3>2. Cardinality(priorityQueue') = Cardinality(priorityQueue) - 1
      BY <2>0, <3>1, FS_RemoveElement
    <3> QED BY <2>0, <2>8, <3>2 DEF GetHighestPriorityCommand
  <2>9. ASSUME AckCommand \/ ClearEmergency \/ StatsThread \/ Tick PROVE CommandsConserved'
    BY <2>9 DEF AckCommand, ClearEmergency, StatsThread, Tick
  <2>10. CASE UNCHANGED vars
    BY <2>10 DEF vars
  <2> QED
    BY <2>1, <2>2, <2>3, <2>4, <2>5, <2>6, <2>7, <2>8, <2>9, <2>10 DEF Next, SubmitStep
<1> QED BY <1>1, <1>2, PlcTypeInvariant, IdsFreshInvariant, PTL DEF SafeSpec
-----------------------------------------------------------------------------
Since(t, type) == t - lastIssueTime[type]

\* What the throttle knows and when: the last issue of a type is no earlier than
\* any command of it in the history and never in the future, and the command under
\* way was found far enough from it, by the clock that will stamp it or has.
ThrottleKnows ==
  /\ \A t \in DOMAIN lastIssueTime : lastIssueTime[t] <= clock
  /\ \A i \in DOMAIN commandHistory :
       /\ commandHistory[i].type \in DOMAIN lastIssueTime
       /\ commandHistory[i].time <= lastIssueTime[commandHistory[i].type]
  /\ pc \in {"push", "record"} => cmd.time <= clock
  /\ pc \in {"stamp", "push", "record"} /\ cmd.type \in DOMAIN lastIssueTime =>
       LET t == IF pc = "stamp" THEN clock ELSE cmd.time IN
         /\ lastIssueTime[cmd.type] <= t
         /\ cmd.priority # CRITICAL => Since(t, cmd.type) >= MinInterval

\* The spacing of commands of one type, from what the throttle knows: the step
\* that records a command puts it, far enough, before all the others.
LEMMA ThrottleInvariant == SafeSpec => [](ThrottleKnows /\ ThrottleSpacing)
<1> DEFINE IInv == ThrottleKnows /\ ThrottleSpacing
<1>1. Init => IInv
  BY EmptySeq DEF Init, ThrottleKnows, ThrottleSpacing, NeverIssued
<1>2. TypeOK /\ TypeOK' /\ IInv /\ [Next]_vars => IInv'
  <2> SUFFICES ASSUME TypeOK, TypeOK', IInv, [Next]_vars PROVE IInv'
    OBVIOUS
  <2> USE PlcAssumption DEF ThrottleKnows, Since, submit, stats, driver
  <2>a. /\ DOMAIN commandHistory = 1..Len(commandHistory)
        /\ DOMAIN commandHistory' = 1..Len(commandHistory')
        /\ Len(commandHistory) \in Nat /\ Len(commandHistory') \in Nat
        /\ \A i \in DOMAIN commandHistory : commandHistory[i] \in Commands
    BY LenProperties, ElementOfSeq DEF TypeOK
  <2>0. /\ clock \in Nat /\ clock' \in Nat
        /\ \A t \in DOMAIN lastIssueTime : lastIssueTime[t] \in Nat
        /\ \A i \in DOMAIN commandHistory : commandHistory[i] \in Commands
        /\ pc # "idle" => cmd \in Commands
    BY <2>a DEF TypeOK
  <2>1. ASSUME UNCHANGED commandHistory PROVE ThrottleSpacing'
    BY <2>1 DEF ThrottleSpacing
  <2>2. ASSUME Start \/ Stop PROVE IInv'
    BY <2>1, <2>2 DEF Start, Stop
  <2>3. ASSUME Reinitialise PROVE IInv'
    BY <2>3, EmptySeq DEF Reinitialise, NeverIssued, ThrottleSpacing
  <2>4. ASSUME NEW level \in {WARNING, DANGER, CRITICAL_LEVEL}, SubmitCommand(level) PROVE IInv'
    <3>1. CASE pc' = "idle"
      BY <2>1, <2>4, <3>1 DEF SubmitCommand
    <3>2. CASE pc' = "stamp"
      <4>1. /\ cmd' = ShouldTriggerDamping[level] /\ ~ShouldThrottle(cmd')
            /\ UNCHANGED <<lastIssueTime, commandHistory, clock>>
        BY <2>4, <3>2 DEF SubmitCommand
      <4>2. cmd'.priority # CRITICAL /\ cmd'.type \in DOMAIN lastIssueTime
              => clock - lastIssueTime[cmd'.type] >= MinInterval
        BY <2>0, <4>1 DEF ShouldThrottle
      <4> QED BY <2>1, <3>2, <4>1, <4>2
    <3> QED BY <2>4, <3>1, <3>2 DEF SubmitCommand
  <2>5. ASSUME Stamp PROVE IInv'
    <3>1. /\ cmd'.time = clock /\ cmd'.type = cmd.type /\ cmd'.priority = cmd.priority
          /\ pc = "stamp" /\ pc' = "push" /\ UNCHANGED <<lastIssueTime, commandHistory, clock>>
      BY <2>0, <2>5 DEF Stamp, Commands
    <3> QED BY <2>0, <2>1, <3>1
  <2>6. ASSUME PushLocked PROVE IInv'
    <3>1. UNCHANGED <<lastIssueTime, commandHistory, clock>> /\ pc = "push"
      BY <2>6 DEF PushLocked
    <3>2. CASE pc' = "idle"
      BY <2>1, <3>1, <3>2
    <3>3. CASE pc' = "record" /\ cmd' = cmd
      BY <2>1, <3>1, <3>3
    <3> QED BY <2>6, <3>2, <3>3 DEF PushLocked
  <2>7. ASSUME Record PROVE IInv'
    <3>1. /\ cmd \in Commands /\ pc = "record" /\ pc' \in {"fatal", "notify"}
          /\ UNCHANGED <<clock, cmd>> /\ UpdateHistory
          /\ lastIssueTime' = [t \in DOMAIN lastIssueTime \cup {cmd.type} |->
                                 IF t = cmd.type THEN cmd.time ELSE lastIssueTime[t]]
      BY <2>0, <2>7 DEF Record
    <3>2. \A i \in DOMAIN commandHistory' :
            \/ i = 1 /\ commandHistory'[i] = cmd
            \/ /\ i > 1 /\ i - 1 \in DOMAIN commandHistory
               /\ commandHistory'[i] = commandHistory[i - 1]
      BY <3>1, HistoryUpdated DEF TypeOK
    <3>3. cmd.time \in Nat /\ cmd.time <= clock
          /\ (cmd.type \in DOMAIN lastIssueTime => lastIssueTime[cmd.type] <= cmd.time)
      BY <3>1 DEF Commands
    <3>4. \A t \in DOMAIN lastIssueTime' : lastIssueTime'[t] <= clock'
      BY <2>0, <3>1, <3>3
    <3>5. ASSUME NEW i \in DOMAIN commandHistory'
          PROVE /\ commandHistory'[i].type \in DOMAIN lastIssueTime'
                /\ commandHistory'[i].time <= lastIssueTime'[commandHistory'[i].type]
      <4>1. CASE i = 1 /\ commandHistory'[i] = cmd
        BY <3>1, <3>3, <4>1
      <4>2. CASE /\ i - 1 \in DOMAIN commandHistory
                 /\ commandHistory'[i] = commandHistory[i - 1]
        <5>1. /\ commandHistory[i - 1].type \in DOMAIN lastIssueTime
              /\ commandHistory[i - 1].time <= lastIssueTime[commandHistory[i - 1].type]
              /\ commandHistory[i - 1].time \in Nat
          BY <2>0, <4>2 DEF Commands
        <5> QED BY <2>0, <3>1, <3>3, <4>2, <5>1
      <4> QED BY <3>2, <4>1, <4>2
    <3>6. ASSUME NEW i \in DOMAIN commandHistory', NEW j \in DOMAIN commandHistory', i < j,
                 commandHistory'[i].type = commandHistory'[j].type,
                 commandHistory'[i].priority # CRITICAL
          PROVE commandHistory'[i].time - commandHistory'[j].time >= MinInterval
      <4>0. DOMAIN commandHistory \subseteq Nat /\ i \in Nat /\ j \in Nat
            /\ \A k \in DOMAIN commandHistory : k >= 1
        BY <2>a
      <4>1. j > 1 /\ j - 1 \in DOMAIN commandHistory
            /\ commandHistory'[j] = commandHistory[j - 1]
        BY <3>2, <3>6, <4>0
      <4>2. /\ commandHistory[j - 1].type \in DOMAIN lastIssueTime
            /\ commandHistory[j - 1].time <= lastIssueTime[commandHistory[j - 1].type]
            /\ commandHistory[j - 1].time \in Nat
        BY <2>0, <4>1 DEF Commands
      <4>3. CASE i = 1 /\ commandHistory'[i] = cmd
        <5>1. cmd.type \in DOMAIN lastIssueTime /\ cmd.time - lastIssueTime[cmd.type] >= MinInterval
          BY <3>1, <3>6, <4>1, <4>2, <4>3
        <5> QED BY <2>0, <3>3, <3>6, <4>1, <4>2, <4>3, <5>1
      <4>4. CASE /\ i > 1 /\ i - 1 \in DOMAIN commandHistory
                 /\ commandHistory'[i] = commandHistory[i - 1]
        <5>1. i - 1 < j - 1
          BY <3>6, <4>0
        <5> QED BY <3>6, <4>1, <4>4, <5>1 DEF ThrottleSpacing
      <4> QED BY <3>2, <4>3, <4>4
    <3>7. ThrottleSpacing'
      BY <3>6 DEF ThrottleSpacing
    <3> QED BY <3>1, <3>4, <3>5, <3>7
  <2>8. ASSUME LogFatal \/ Notify PROVE IInv'
    BY <2>1, <2>8 DEF LogFatal, Notify
  <2>9. ASSUME \/ GetHighestPriorityCommand \/ AckCommand \/ ClearEmergency \/ StatsThread
        PROVE IInv'
    BY <2>1, <2>9 DEF GetHighestPriorityCommand, AckCommand, ClearEmergency, StatsThread
  <2>10. ASSUME Tick PROVE IInv'
    <3>1. clock' = clock + 1 /\ UNCHANGED <<lastIssueTime, commandHistory, pc, cmd>>
      BY <2>10 DEF Tick
    <3>2. pc # "idle" => cmd.time \in Nat
      BY <2>0 DEF Commands
    <3> QED BY <2>0, <2>1, <3>1, <3>2
  <2>11. CASE UNCHANGED vars
    BY <2>1, <2>11 DEF vars
  <2> QED
    BY <2>2, <2>3, <2>4, <2>5, <2>6, <2>7, <2>8, <2>9, <2>10, <2>11 DEF Next, SubmitStep
<1> QED BY <1>1, <1>2, PlcTypeInvariant, PTL DEF SafeSpec

\* Two commands of one type are the minimum interval apart, though SubmitCommand
\* reads the clock to check that, to stamp the command and, later, to record it.
THEOREM ThrottleSpacingInvariant == SafeSpec => []ThrottleSpacing
<1>1. ThrottleKnows /\ ThrottleSpacing => ThrottleSpacing
  OBVIOUS
<1> QED BY <1>1, ThrottleInvariant, PTL
-----------------------------------------------------------------------------
\* Each priority belongs to one type, and an emergency stop that was recorded is
\* the last thing the result thread does: LOG_FATAL follows.
OneTypePerPriority ==
  /\ \A c \in priorityQueue : c.priority = LevelOf[c.type] - 1
  /\ pc # "idle" => cmd.priority = LevelOf[cmd.type] - 1
NothingAfterStop == "EMERGENCY_STOP" \in DOMAIN lastIssueTime => pc = "fatal"

\* UpdateSafetyLevel counts every type of the last seconds, and the level it
\* sets is never the one that ClearEmergency takes back.
LevelKnown ==
  /\ activeLevel # CRITICAL_LEVEL
  /\ pc # "fatal" => \A t \in RecentTypes(lastIssueTime) : activeLevel >= LevelOf[t]

LevelInv == OneTypePerPriority /\ NothingAfterStop /\ LevelKnown

\* Steps of the other threads and of the clock, which issue nothing.
LEMMA NothingIssued ==
  ASSUME TypeOK, LevelInv, priorityQueue' \subseteq priorityQueue,
         UNCHANGED <<pc, cmd, lastIssueTime>>, activeLevel' = activeLevel,
         clock' \in Nat, clock' >= clock
  PROVE  LevelInv'
<1>1. \A t \in DOMAIN lastIssueTime : lastIssueTime[t] \in Nat
  BY DEF TypeOK
<1>2. RecentTypes(lastIssueTime)' \subseteq RecentTypes(lastIssueTime)
  <2>1. clock \in Nat /\ LevelWindow \in Nat
    BY PlcAssumption DEF TypeOK
  <2> QED BY <1>1, <2>1 DEF RecentTypes
<1>3. OneTypePerPriority' /\ NothingAfterStop'
  BY DEF LevelInv, OneTypePerPriority, NothingAfterStop
<1> QED BY <1>2, <1>3 DEF LevelInv, LevelKnown

\* Record sets the highest level among the types of the last seconds.
LEMMA RecordLevel ==
  ASSUME TypeOK, LevelInv, Record
  PROVE  LevelInv'
<1>1. /\ cmd \in Commands /\ cmd.type \in Types /\ pc = "record" /\ UNCHANGED <<clock, cmd, priorityQueue>>
      /\ lastIssueTime' = [t \in DOMAIN lastIssueTime \cup {cmd.type} |->
                             IF t = cmd.type THEN cmd.time ELSE lastIssueTime[t]]
  BY DEF Record, TypeOK, Commands
<1>2. OneTypePerPriority'
  BY <1>1 DEF LevelInv, OneTypePerPriority
<1>3. CASE cmd.type = "EMERGENCY_STOP"
  <2>1. pc' = "fatal" /\ activeLevel' = activeLevel
    BY <1>3 DEF Record
  <2> QED BY <1>2, <2>1 DEF LevelInv, NothingAfterStop, LevelKnown
<1>4. CASE cmd.type # "EMERGENCY_STOP"
  <2>1. "EMERGENCY_STOP" \notin DOMAIN lastIssueTime'
    BY <1>1, <1>4 DEF LevelInv, NothingAfterStop
  <2>2. NothingAfterStop'
    BY <2>1 DEF NothingAfterStop
  <2>3. UpdateSafetyLevel(lastIssueTime')
    BY <1>4 DEF Record
  <2>4. RecentTypes(lastIssueTime') \subseteq {"SPEED_LIMIT", "SWING_DAMPING"}
    <3>1. DOMAIN lastIssueTime' \subseteq Types
      BY <1>1 DEF TypeOK
    <3> QED BY <2>1, <3>1 DEF RecentTypes, Types
  <2>5. /\ \A t \in RecentTypes(lastIssueTime') : LevelOf[t] <= activeLevel'
        /\ activeLevel' \in {SAFE} \cup {LevelOf[t] : t \in RecentTypes(lastIssueTime')}
    BY <2>3 DEF UpdateSafetyLevel
  <2>6. \A t \in RecentTypes(lastIssueTime') : LevelOf[t] \in {WARNING, DANGER}
    BY <2>4 DEF LevelOf, Types
  <2>7. activeLevel' \in {SAFE, WARNING, DANGER}
    BY <2>5, <2>6
  <2>8. RecentTypes(lastIssueTime)' = RecentTypes(lastIssueTime')
    BY <1>1 DEF RecentTypes
  <2>9. \A t \in RecentTypes(lastIssueTime) ' : activeLevel' >= LevelOf[t]
    BY <2>5, <2>6, <2>7, <2>8
  <2> QED BY <1>2, <2>2, <2>7, <2>9 DEF LevelInv, LevelKnown
<1> QED BY <1>3, <1>4

\* What is asked for at a level has the priority of its type.
LEMMA RequestPriority ==
  ASSUME NEW level \in {WARNING, DANGER, CRITICAL_LEVEL}
  PROVE  ShouldTriggerDamping[level].priority = LevelOf[ShouldTriggerDamping[level].type] - 1
BY DEF ShouldTriggerDamping, LevelOf, Types

LEMMA LevelInvariant == SafeSpec => []LevelInv
<1>1. Init => LevelInv
  BY DEF Init, LevelInv, OneTypePerPriority, NothingAfterStop, LevelKnown, NeverIssued, RecentTypes
<1>2. TypeOK /\ LevelInv /\ [Next]_vars => LevelInv'
  <2> SUFFICES ASSUME TypeOK, LevelInv, [Next]_vars PROVE LevelInv'
    OBVIOUS
  <2> USE DEF submit, stats, driver
  <2>0. clock \in Nat /\ clock >= clock
    BY DEF TypeOK
  <2>1. ASSUME Start \/ Stop PROVE LevelInv'
    BY <2>0, <2>1, NothingIssued DEF Start, Stop
  <2>2. ASSUME Reinitialise PROVE LevelInv'
    BY <2>2 DEF Reinitialise, LevelInv, OneTypePerPriority, NothingAfterStop, LevelKnown,
                NeverIssued, RecentTypes
  <2>3. ASSUME NEW level \in {WARNING, DANGER, CRITICAL_LEVEL}, SubmitCommand(level) PROVE LevelInv'
    <3>1. CASE UNCHANGED submit
      BY <2>0, <2>3, <3>1, NothingIssued DEF SubmitCommand
    <3>2. CASE pc' = "stamp" /\ cmd' = ShouldTriggerDamping[level]
      <4>1. UNCHANGED <<priorityQueue, lastIssueTime, activeLevel, clock>> /\ pc = "idle"
        BY <2>3 DEF SubmitCommand
      <4>2. OneTypePerPriority'
        BY <3>2, <4>1, RequestPriority DEF LevelInv, OneTypePerPriority
      <4> QED BY <3>2, <4>1, <4>2 DEF LevelInv, NothingAfterStop, LevelKnown, RecentTypes
    <3> QED BY <2>3, <3>1, <3>2 DEF SubmitCommand
  <2>4. ASSUME Stamp PROVE LevelInv'
    <3>1. /\ cmd'.priority = cmd.priority /\ cmd'.type = cmd.type /\ pc = "stamp" /\ pc' = "push"
          /\ UNCHANGED <<priorityQueue, lastIssueTime, activeLevel, clock>>
      BY <2>4 DEF Stamp, TypeOK, Commands
    <3>2. OneTypePerPriority'
      BY <3>1 DEF LevelInv, OneTypePerPriority
    <3> QED BY <3>1, <3>2 DEF LevelInv, NothingAfterStop, LevelKnown, RecentTypes
  <2>5. ASSUME PushLocked PROVE LevelInv'
    <3>1. /\ pc = "push" /\ pc' \in {"idle", "record"} /\ (pc' = "record" => cmd' = cmd)
          /\ priorityQueue' \subseteq priorityQueue \cup {cmd}
          /\ UNCHANGED <<lastIssueTime, activeLevel, clock>>
      BY <2>5 DEF PushLocked
    <3>2. OneTypePerPriority'
      BY <3>1 DEF LevelInv, OneTypePerPriority
    <3> QED BY <3>1, <3>2 DEF LevelInv, NothingAfterStop, LevelKnown, RecentTypes
  <2>6. ASSUME Record PROVE LevelInv'
    BY <2>6, RecordLevel
  <2>7. ASSUME LogFatal PROVE LevelInv'
    BY <2>0, <2>7, NothingIssued DEF LogFatal
  <2>8. ASSUME Notify PROVE LevelInv'
    <3>1. /\ pc = "notify" /\ pc' = "idle"
          /\ UNCHANGED <<priorityQueue, lastIssueTime, activeLevel, clock>>
      BY <2>8 DEF Notify
    <3>2. OneTypePerPriority'
      BY <3>1 DEF LevelInv, OneTypePerPriority
    <3> QED BY <3>1, <3>2 DEF LevelInv, NothingAfterStop, LevelKnown, RecentTypes
  <2>9. ASSUME GetHighestPriorityCommand PROVE LevelInv'
    BY <2>0, <2>9, NothingIssued DEF GetHighestPriorityCommand
  <2>10. ASSUME AckCommand \/ StatsThread PROVE LevelInv'
    BY <2>0, <2>10, NothingIssued DEF AckCommand, StatsThread
  <2>11. ASSUME ClearEmergency PROVE LevelInv'
    <3>1. activeLevel' = activeLevel
      BY <2>11 DEF ClearEmergency, LevelInv, LevelKnown
    <3> QED BY <2>0, <2>11, <3>1, NothingIssued DEF ClearEmergency
  <2>12. ASSUME Tick PROVE LevelInv'
    <3>1. clock' = clock + 1
      BY <2>12 DEF Tick
    <3>2. clock' \in Nat /\ clock' >= clock
      BY <2>0, <3>1
    <3> QED BY <2>12, <3>2, NothingIssued DEF Tick
  <2>13. CASE UNCHANGED vars
    BY <2>0, <2>13, NothingIssued DEF vars
  <2> QED
    BY <2>1, <2>2, <2>3, <2>4, <2>5, <2>6, <2>7, <2>8, <2>9, <2>10, <2>11, <2>12, <2>13
    DEF Next, SubmitStep
<1> QED BY <1>1, <1>2, PlcTypeInvariant, PTL DEF SafeSpec

\* The reported level is never below that of a command issued in the last seconds,
\* for any window, any switches and any interval.
THEOREM LevelNotUnderstatedInvariant == SafeSpec => []LevelNotUnderstated
<1>1. LevelInv => LevelNotUnderstated
  BY DEF LevelInv, LevelKnown, LevelNotUnderstated
<1> QED BY <1>1, LevelInvariant, PTL
-----------------------------------------------------------------------------
\* In the queue the time stamps of one priority rise with the ids, and what the
\* throttle knows of a type is no older than any command of it in the queue.
QueueOrder ==
  /\ \A c, d \in priorityQueue : c.id = d.id => c = d
  /\ \A c, d \in priorityQueue : c.priority = d.priority /\ c.id < d.id => c.time < d.time
  /\ \A c \in priorityQueue :
       \/ c.type \in DOMAIN lastIssueTime /\ c.time <= lastIssueTime[c.type]
       \/ pc = "record" /\ c = cmd
  /\ \A p \in {NORMAL, HIGH, CRITICAL} :
       /\ lastTaken[p] < nextCommandId
       /\ pc = "push" => lastTaken[p] < cmd.id
  /\ TakenInIssueOrder

\* Everything a step may rely on.
OrderContext == TypeOK /\ IdsFresh /\ ThrottleKnows /\ LevelInv

\* Steps that put nothing in the queue and take nothing out of it.
LEMMA QueueStays ==
  ASSUME QueueOrder, UNCHANGED <<priorityQueue, lastTaken, lastIssueTime, nextCommandId>>,
         pc \notin {"push", "record"} \/ UNCHANGED <<pc, cmd>>, pc' = "push" => pc = "push"
  PROVE  QueueOrder'
BY DEF QueueOrder, TakenInIssueOrder

\* The command that is pushed is later, in id and in time, than those of its
\* priority in the queue: the throttle has kept it apart from the last of its type.
LEMMA PushOrdered ==
  ASSUME OrderContext, QueueOrder, PushLocked, pc' = "record", MinInterval > 0
  PROVE  QueueOrder'
<1>1. /\ pc = "push" /\ priorityQueue' = priorityQueue \cup {cmd} /\ cmd' = cmd
      /\ UNCHANGED <<lastTaken, lastIssueTime, nextCommandId>>
  BY DEF PushLocked, driver
<1>2. /\ cmd \in Commands /\ \A c \in priorityQueue : c \in Commands
      /\ \A c \in priorityQueue : c.id < cmd.id
  BY <1>1 DEF OrderContext, TypeOK, IdsFresh
<1>3. ASSUME NEW c \in priorityQueue, c.priority = cmd.priority PROVE c.time < cmd.time
  <2>1. c.type \in Types /\ cmd.type \in Types /\ c.time \in Nat /\ cmd.time \in Nat
    BY <1>2 DEF Commands
  <2>2. c.type = cmd.type
    BY <1>1, <1>3, <2>1 DEF OrderContext, LevelInv, OneTypePerPriority, LevelOf, Types
  <2>3. c.type \in DOMAIN lastIssueTime /\ c.time <= lastIssueTime[c.type]
    BY <1>1 DEF QueueOrder
  <2>4. cmd.type # "EMERGENCY_STOP"
    BY <1>1, <2>2, <2>3 DEF OrderContext, LevelInv, NothingAfterStop
  <2>5. cmd.priority # CRITICAL
    BY <1>1, <2>1, <2>4 DEF OrderContext, LevelInv, OneTypePerPriority, LevelOf, Types
  <2>6. cmd.time - lastIssueTime[cmd.type] >= MinInterval
    BY <1>1, <2>2, <2>3, <2>5 DEF OrderContext, ThrottleKnows, Since
  <2>7. lastIssueTime[cmd.type] \in Nat /\ MinInterval \in Nat
    BY <2>2, <2>3, PlcAssumption DEF OrderContext, TypeOK
  <2> QED BY <2>1, <2>2, <2>3, <2>6, <2>7
<1>4. /\ cmd.id \in Nat /\ cmd.time \in Nat /\ cmd.priority \in {NORMAL, HIGH, CRITICAL}
      /\ \A c \in priorityQueue : c.id \in Nat
  BY <1>2 DEF Commands
<1>5. \A c, d \in priorityQueue' : c.id = d.id => c = d
  BY <1>1, <1>2, <1>4 DEF QueueOrder
<1>6. \A c, d \in priorityQueue' : c.priority = d.priority /\ c.id < d.id => c.time < d.time
  <2> SUFFICES ASSUME NEW c \in priorityQueue', NEW d \in priorityQueue', c.priority = d.priority,
                      c.id < d.id
               PROVE  c.time < d.time
    OBVIOUS
  <2>1. c \in priorityQueue
    BY <1>1, <1>2, <1>4
  <2> QED BY <1>1, <1>3, <2>1 DEF QueueOrder
<1>7. \A c \in priorityQueue' : \/ c.type \in DOMAIN lastIssueTime /\ c.time <= lastIssueTime[c.type]
                               \/ c = cmd
  BY <1>1 DEF QueueOrder
<1>8. \A c \in priorityQueue' : c.id > lastTaken[c.priority]
  <2>1. \A c \in priorityQueue : c.id > lastTaken[c.priority]
    BY DEF QueueOrder, TakenInIssueOrder
  <2>2. cmd.id > lastTaken[cmd.priority]
    BY <1>1, <1>4 DEF QueueOrder, OrderContext, TypeOK
  <2> QED BY <1>1, <2>1, <2>2
<1> QED BY <1>1, <1>5, <1>6, <1>7, <1>8 DEF QueueOrder, TakenInIssueOrder

\* What the driver takes was served no later than the rest of its priority, so it
\* has the smallest id of it.
LEMMA TakeOrdered ==
  ASSUME OrderContext, QueueOrder, GetHighestPriorityCommand
  PROVE  QueueOrder'
<1>1. PICK c \in priorityQueue :
        /\ \A d \in priorityQueue : Outranks(c, d)
        /\ priorityQueue' = priorityQueue \ {c}
        /\ lastTaken' = [lastTaken EXCEPT ![c.priority] = c.id]
        /\ UNCHANGED <<lastIssueTime, nextCommandId, pc, cmd>>
  BY DEF GetHighestPriorityCommand, submit
<1>2. /\ \A d \in priorityQueue : d.id \in Nat /\ d.time \in Nat /\ d.priority \in {NORMAL, HIGH, CRITICAL}
      /\ lastTaken \in [{NORMAL, HIGH, CRITICAL} -> Nat]
  BY DEF OrderContext, TypeOK, Commands
<1>3. ASSUME NEW d \in priorityQueue' PROVE d.id > lastTaken'[d.priority]
  <2>1. d \in priorityQueue /\ d # c /\ d.id > lastTaken[d.priority]
    BY <1>1 DEF QueueOrder, TakenInIssueOrder
  <2>2. CASE d.priority # c.priority
    BY <1>1, <1>2, <2>1, <2>2
  <2>3. CASE d.priority = c.priority
    <3>1. c.time <= d.time
      BY <1>1, <1>2, <2>1, <2>3 DEF Outranks
    <3>2. d.id # c.id /\ ~(d.id < c.id)
      BY <1>2, <2>1, <2>3, <3>1 DEF QueueOrder
    <3> QED BY <1>1, <1>2, <2>1, <2>3, <3>2
  <2> QED BY <2>2, <2>3
<1>4. ASSUME NEW p \in {NORMAL, HIGH, CRITICAL}
      PROVE  lastTaken'[p] < nextCommandId /\ (pc = "push" => lastTaken'[p] < cmd.id)
  <2>1. c.id < nextCommandId /\ (pc = "push" => c.id < cmd.id)
    BY DEF OrderContext, IdsFresh
  <2> QED BY <1>1, <1>2, <2>1 DEF QueueOrder
<1>5. TakenInIssueOrder'
  BY <1>3 DEF TakenInIssueOrder
<1> QED BY <1>1, <1>4, <1>5 DEF QueueOrder

LEMMA QueueOrderKept ==
  ASSUME OrderContext, QueueOrder, [Next]_vars, MinInterval > 0
  PROVE  QueueOrder'
<1> USE DEF submit, stats, driver
<1>1. CASE Start \/ Stop
  BY <1>1, QueueStays DEF Start, Stop
<1>2. CASE Reinitialise
  BY <1>2 DEF Reinitialise, QueueOrder, TakenInIssueOrder
<1>3. ASSUME NEW level \in {WARNING, DANGER, CRITICAL_LEVEL}, SubmitCommand(level) PROVE QueueOrder'
  BY <1>3, QueueStays DEF SubmitCommand
<1>4. CASE Stamp
  <2>1. /\ pc = "stamp" /\ pc' = "push" /\ cmd'.id = nextCommandId /\ nextCommandId' = nextCommandId + 1
        /\ UNCHANGED <<priorityQueue, lastTaken, lastIssueTime>> /\ nextCommandId \in Nat
    BY <1>4 DEF Stamp, OrderContext, TypeOK, Commands
  <2>2. \A p \in {NORMAL, HIGH, CRITICAL} : lastTaken[p] \in Nat
    BY DEF OrderContext, TypeOK
  <2>3. \A p \in {NORMAL, HIGH, CRITICAL} : lastTaken'[p] < nextCommandId' /\ lastTaken'[p] < cmd'.id
    BY <2>1, <2>2 DEF QueueOrder
  <2> QED BY <2>1, <2>3 DEF QueueOrder, TakenInIssueOrder
<1>5. CASE PushLocked
  <2>1. CASE pc' = "record"
    BY <1>5, <2>1, PushOrdered
  <2>2. CASE pc' = "idle"
    <3>1. UNCHANGED <<priorityQueue, lastTaken, lastIssueTime, nextCommandId>> /\ pc = "push"
      BY <1>5, <2>2 DEF PushLocked
    <3> QED BY <2>2, <3>1 DEF QueueOrder, TakenInIssueOrder
  <2> QED BY <1>5, <2>1, <2>2 DEF PushLocked
<1>6. CASE Record
  <2>1. /\ pc = "record" /\ pc' \in {"fatal", "notify"} /\ cmd' = cmd /\ cmd \in Commands
        /\ UNCHANGED <<priorityQueue, lastTaken, nextCommandId>>
        /\ lastIssueTime' = [t \in DOMAIN lastIssueTime \cup {cmd.type} |->
                               IF t = cmd.type THEN cmd.time ELSE lastIssueTime[t]]
    BY <1>6 DEF Record, OrderContext, TypeOK
  <2>2. /\ cmd.time \in Nat
        /\ cmd.type \in DOMAIN lastIssueTime => /\ lastIssueTime[cmd.type] <= cmd.time
                                                /\ lastIssueTime[cmd.type] \in Nat
    BY <2>1 DEF OrderContext, ThrottleKnows, TypeOK, Commands
  <2>3. ASSUME NEW c \in priorityQueue'
        PROVE  c.type \in DOMAIN lastIssueTime' /\ c.time <= lastIssueTime'[c.type]
    <3>1. c \in priorityQueue /\ c.time \in Nat
      BY <2>1 DEF OrderContext, TypeOK, Commands
    <3>2. CASE c = cmd
      BY <2>1, <2>2, <3>2
    <3>3. CASE c.type \in DOMAIN lastIssueTime /\ c.time <= lastIssueTime[c.type]
      BY <2>1, <2>2, <3>1, <3>3
    <3> QED BY <3>1, <3>2, <3>3 DEF QueueOrder
  <2> QED BY <2>1, <2>3 DEF QueueOrder, TakenInIssueOrder
<1>7. CASE LogFatal \/ Notify
  <2>1. /\ UNCHANGED <<priorityQueue, lastTaken, lastIssueTime, nextCommandId>>
        /\ pc \in {"fatal", "notify"} /\ pc' # "push"
    BY <1>7 DEF LogFatal, Notify
  <2> QED BY <2>1, QueueStays
<1>8. CASE GetHighestPriorityCommand
  BY <1>8, TakeOrdered
<1>9. CASE AckCommand \/ ClearEmergency \/ StatsThread \/ Tick
  BY <1>9, QueueStays DEF AckCommand, ClearEmergency, StatsThread, Tick
<1>10. CASE UNCHANGED vars
  BY <1>10, QueueStays DEF vars
<1> QED BY <1>1, <1>2, <1>3, <1>4, <1>5, <1>6, <1>7, <1>8, <1>9, <1>10 DEF Next, SubmitStep

\* The driver takes the commands of one priority in the order of their ids, though
\* the heap compares time stamps only, as long as there is a minimum interval: with
\* none, two commands could have the same stamp.
THEOREM TakenInIssueOrderInvariant ==
  ASSUME MinInterval > 0
  PROVE  SafeSpec => []TakenInIssueOrder
<1>1. Init => QueueOrder
  BY DEF Init, QueueOrder, TakenInIssueOrder
<1>2. OrderContext /\ QueueOrder /\ [Next]_vars => QueueOrder'
  BY QueueOrderKept
<1>3. QueueOrder => TakenInIssueOrder
  BY DEF QueueOrder
<1>4. TypeOK /\ IdsFresh /\ (ThrottleKnows /\ ThrottleSpacing) /\ LevelInv => OrderContext
  BY DEF OrderContext
<1> QED
  BY <1>1, <1>2, <1>3, <1>4, PlcTypeInvariant, IdsFreshInvariant, ThrottleInvariant,
     LevelInvariant, PTL DEF SafeSpec
=============================================================================
