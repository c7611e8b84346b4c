-------------------------- MODULE PlcCommandManager --------------------------
(***************************************************************************)
(* PlcCommandManager: the safety commands that the result thread submits,  *)
(* the priority queue from which the driver of the PLC takes them, and the *)
(* throttle, history, statistics and emergency flag kept beside it.        *)
(* SubmitCommand is cut where it takes or leaves a mutex, reads the clock  *)
(* or raises the emergency flag, so the driver, the operator, the          *)
(* statistics thread and the clock run in between.  LOG_FATAL writes its   *)
(* line and aborts the process (logger.cpp).                               *)
(***************************************************************************)
EXTENDS Integers, Sequences, FiniteSets

CONSTANTS MaxPending,     \* config.max_pending_commands
          HistorySize,    \* config.command_history_size
          MinInterval,    \* config.min_interval_between_same_type_ms, in clock ticks
          LevelWindow,    \* the five seconds of UpdateSafetyLevel, in clock ticks
          MinLevel,       \* config.min_safety_level_for_command
          Enabled,        \* the command types whose enable_* switch is on
          MaxClock,       \* bound of the model: the clock stops there
          MaxAsked        \* bound of the model: requests past the switches

\* SafetyLevel and PlcCommandPriority, with the values of their enumerators.
SAFE == 0  WARNING == 2  DANGER == 3  CRITICAL_LEVEL == 4
NORMAL == 1  HIGH == 2  CRITICAL == 3

Types == {"SPEED_LIMIT", "SWING_DAMPING", "EMERGENCY_STOP"}

ASSUME PlcAssumption ==
  /\ MaxPending \in Nat /\ HistorySize \in Nat /\ MinInterval \in Nat
  /\ LevelWindow \in Nat /\ MinLevel \in Nat /\ Enabled \subseteq Types
  /\ MaxClock \in Nat /\ MaxAsked \in Nat

VARIABLES running,          \* running_
          emergencyActive,  \* emergency_active_
          priorityQueue,    \* priority_queue_, as a set: command ids are unique
          commandHistory,   \* command_history_, newest first
          lastIssueTime,    \* last_issue_time_us_: a partial function of the type
          nextCommandId,    \* next_command_id_
          issued,           \* stats_.total_commands_issued
          dropped,          \* stats_.commands_dropped
          acked,            \* stats_.commands_acked
          activeLevel,      \* stats_.highest_active_level
          pc, cmd,          \* where the result thread is in SubmitCommand, with what
          clock,            \* TimeUtil::NowMicros()
          alive,            \* the process has not been aborted
          asked,            \* history: requests that passed the switches
          taken,            \* history: commands the driver has taken
          lastTaken         \* history: per priority, the id the driver took last

stats == <<issued, dropped, acked, activeLevel>>
submit == <<pc, cmd>>
driver == <<taken, lastTaken>>
vars == <<running, emergencyActive, priorityQueue, commandHistory, lastIssueTime,
          nextCommandId, stats, submit, clock, alive, asked, driver>>

NeverIssued == [t \in {} |-> 0]
NoCommand == [type |-> "NONE", priority |-> NORMAL, id |-> 0, time |-> 0]

\* What ShouldTriggerDamping asks for at a safety level (none below WARNING).
ShouldTriggerDamping ==
  [level \in {WARNING, DANGER, CRITICAL_LEVEL} |->
     [type |-> CASE level = WARNING -> "SPEED_LIMIT"
                 [] level = DANGER -> "SWING_DAMPING"
                 [] level = CRITICAL_LEVEL -> "EMERGENCY_STOP",
      priority |-> level - 1, id |-> 0, time |-> 0]]

Init ==
  /\ running = FALSE /\ emergencyActive = FALSE
  /\ priorityQueue = {} /\ commandHistory = <<>> /\ lastIssueTime = NeverIssued
  /\ nextCommandId = 1
  /\ issued = 0 /\ dropped = 0 /\ acked = 0 /\ activeLevel = SAFE
  /\ pc = "idle" /\ cmd = NoCommand
  /\ clock = 0 /\ alive = TRUE
  /\ asked = 0 /\ taken = 0 /\ lastTaken = [p \in {NORMAL, HIGH, CRITICAL} |-> 0]
-----------------------------------------------------------------------------
(* The life cycle.                                                         *)

Start ==
  /\ ~running
  /\ running' = TRUE
  /\ UNCHANGED <<emergencyActive, priorityQueue, commandHistory, lastIssueTime,
                 nextCommandId, stats, submit, clock, alive, asked, driver>>

Stop ==
  /\ running' = FALSE
  /\ UNCHANGED <<emergencyActive, priorityQueue, commandHistory, lastIssueTime,
                 nextCommandId, stats, submit, clock, alive, asked, driver>>

\* Release, and the Init of the next use.  The owner calls them with the
\* result thread joined and nobody using the manager.
Reinitialise ==
  /\ ~running /\ pc = "idle"
  /\ priorityQueue' = {} /\ commandHistory' = <<>> /\ lastIssueTime' = NeverIssued
  /\ issued' = 0 /\ dropped' = 0 /\ acked' = 0 /\ activeLevel' = SAFE
  /\ emergencyActive' = FALSE
  /\ nextCommandId' = 1
  /\ asked' = 0 /\ taken' = 0 /\ lastTaken' = [p \in {NORMAL, HIGH, CRITICAL} |-> 0]
  /\ UNCHANGED <<running, submit, clock, alive>>
-----------------------------------------------------------------------------
(* SubmitCommand.                                                          *)

\* Variant: every urgent command is exempt, not the critical ones alone.
ShouldThrottleNormalOnly(c) ==
  /\ c.type \in DOMAIN lastIssueTime
  /\ c.priority = NORMAL
  /\ clock - lastIssueTime[c.type] < MinInterval

ShouldThrottle(c) ==
  /\ c.type \in DOMAIN lastIssueTime
  /\ c.priority # CRITICAL
  /\ clock - lastIssueTime[c.type] < MinInterval

\* A request that fails a switch returns false and changes nothing.
PassesSwitches(level) ==
  /\ running
  /\ level >= MinLevel
  /\ ShouldTriggerDamping[level].type \in Enabled

SubmitCommand(level) ==
  /\ pc = "idle" /\ asked < MaxAsked
  /\ PassesSwitches(level)
  /\ asked' = asked + 1
  /\ LET c == ShouldTriggerDamping[level] IN
       IF ShouldThrottle(c)
       THEN dropped' = dropped + 1 /\ UNCHANGED submit
       ELSE pc' = "stamp" /\ cmd' = c /\ UNCHANGED dropped
  /\ UNCHANGED <<running, emergencyActive, priorityQueue, commandHistory, lastIssueTime,
                 nextCommandId, issued, acked, activeLevel, clock, alive, driver>>

Stamp ==
  /\ pc = "stamp"
  /\ cmd' = [cmd EXCEPT !.id = nextCommandId, !.time = clock]
  /\ nextCommandId' = nextCommandId + 1
  /\ pc' = "push"
  /\ UNCHANGED <<running, emergencyActive, priorityQueue, commandHistory, lastIssueTime,
                 stats, clock, alive, asked, driver>>

\* Variant: the refusal of a full queue is not counted.
PushLockedUncounted ==
  /\ pc = "push"
  /\ IF Cardinality(priorityQueue) >= MaxPending /\ cmd.priority <= NORMAL
     THEN /\ pc' = "idle" /\ cmd' = NoCommand
          /\ UNCHANGED <<dropped, priorityQueue>>
     ELSE /\ priorityQueue' = priorityQueue \cup {cmd}
          /\ pc' = "record"
          /\ UNCHANGED <<dropped, cmd>>
  /\ UNCHANGED <<running, emergencyActive, commandHistory, lastIssueTime, nextCommandId,
                 issued, acked, activeLevel, clock, alive, asked, driver>>

\* Variant: the limit is tested with > in place of >=.
PushLockedOverLimit ==
  /\ pc = "push"
  /\ IF Cardinality(priorityQueue) > MaxPending /\ cmd.priority <= NORMAL
     THEN /\ dropped' = dropped + 1
          /\ pc' = "idle" /\ cmd' = NoCommand
          /\ UNCHANGED priorityQueue
     ELSE /\ priorityQueue' = priorityQueue \cup {cmd}
          /\ pc' = "record"
          /\ UNCHANGED <<dropped, cmd>>
  /\ UNCHANGED <<running, emergencyActive, commandHistory, lastIssueTime, nextCommandId,
                 issued, acked, activeLevel, clock, alive, asked, driver>>

\* Under queue_mutex_.  A full queue refuses what is not urgent only.
PushLocked ==
  /\ pc = "push"
  /\ IF Cardinality(priorityQueue) >= MaxPending /\ cmd.priority <= NORMAL
     THEN /\ dropped' = dropped + 1
          /\ pc' = "idle" /\ cmd' = NoCommand
          /\ UNCHANGED priorityQueue
     ELSE /\ priorityQueue' = priorityQueue \cup {cmd}
          /\ pc' = "record"
          /\ UNCHANGED <<dropped, cmd>>
  /\ UNCHANGED <<running, emergencyActive, commandHistory, lastIssueTime, nextCommandId,
                 issued, acked, activeLevel, clock, alive, asked, driver>>

UpdateHistory ==
  commandHistory' = LET h == <<cmd>> \o commandHistory
                    IN IF Len(h) > HistorySize THEN SubSeq(h, 1, Len(h) - 1) ELSE h

LevelOf == [t \in Types |-> CASE t = "EMERGENCY_STOP" -> CRITICAL_LEVEL
                              [] t = "SWING_DAMPING" -> DANGER
                              [] t = "SPEED_LIMIT" -> WARNING]

RecentTypes(issueTime) == {t \in DOMAIN issueTime : clock - issueTime[t] < LevelWindow}

\* Variant: the level of the command just issued replaces a higher one.
UpdateSafetyLevelOfLast(issueTime) == activeLevel' = LevelOf[cmd.type]

\* The highest level among the types issued in the last five seconds.
UpdateSafetyLevel(issueTime) ==
  \E l \in {SAFE} \cup {LevelOf[t] : t \in RecentTypes(issueTime)} :
    /\ \A t \in RecentTypes(issueTime) : LevelOf[t] <= l
    /\ activeLevel' = l

\* History and throttle record.  An emergency stop raises the flag next and
\* then logs at FATAL; any other command is counted and sets the level.
Record ==
  /\ pc = "record"
  /\ UpdateHistory
  /\ lastIssueTime' = [t \in DOMAIN lastIssueTime \cup {cmd.type} |->
                         IF t = cmd.type THEN cmd.time ELSE lastIssueTime[t]]
  /\ IF cmd.type = "EMERGENCY_STOP"
     THEN pc' = "fatal" /\ emergencyActive' = TRUE /\ UNCHANGED <<issued, activeLevel>>
     ELSE /\ pc' = "notify" /\ issued' = issued + 1
          /\ UpdateSafetyLevel(lastIssueTime')
          /\ UNCHANGED emergencyActive
  /\ UNCHANGED <<running, priorityQueue, nextCommandId, dropped, acked, cmd, clock,
                 alive, asked, driver>>

\* LOG_FATAL of SubmitCommand: nothing after it is reached.
LogFatal ==
  /\ pc = "fatal"
  /\ alive' = FALSE
  /\ UNCHANGED <<running, emergencyActive, priorityQueue, commandHistory, lastIssueTime,
                 nextCommandId, stats, submit, clock, asked, driver>>

\* command_callback_ and the return.
Notify ==
  /\ pc = "notify"
  /\ pc' = "idle" /\ cmd' = NoCommand
  /\ UNCHANGED <<running, emergencyActive, priorityQueue, commandHistory, lastIssueTime,
                 nextCommandId, stats, clock, alive, asked, driver>>

SubmitStep == Stamp \/ PushLocked \/ Record \/ LogFatal \/ Notify
-----------------------------------------------------------------------------
(* The other threads.                                                      *)

\* Variant: the newest of equal priority is served first.
OutranksNewest(c, d) ==
  \/ c.priority > d.priority
  \/ c.priority = d.priority /\ c.time >= d.time

\* operator<: c is served no later than d.
Outranks(c, d) ==
  \/ c.priority > d.priority
  \/ c.priority = d.priority /\ c.time <= d.time

\* The heap leaves the order of equal commands open.
GetHighestPriorityCommand ==
  \E c \in priorityQueue :
    /\ \A d \in priorityQueue : Outranks(c, d)
    /\ priorityQueue' = priorityQueue \ {c}
    /\ taken' = taken + 1
    /\ lastTaken' = [lastTaken EXCEPT ![c.priority] = c.id]
    /\ UNCHANGED <<running, emergencyActive, commandHistory, lastIssueTime,
                   nextCommandId, stats, submit, clock, alive, asked>>

\* The driver acknowledges what it took.
AckCommand ==
  /\ acked < taken
  /\ acked' = acked + 1
  /\ UNCHANGED <<running, emergencyActive, priorityQueue, commandHistory, lastIssueTime,
                 nextCommandId, issued, dropped, activeLevel, submit, clock, alive, asked,
                 driver>>

ClearEmergency ==
  /\ emergencyActive
  /\ emergencyActive' = FALSE
  /\ activeLevel' = IF activeLevel = CRITICAL_LEVEL THEN SAFE ELSE activeLevel
  /\ UNCHANGED <<running, priorityQueue, commandHistory, lastIssueTime, nextCommandId,
                 issued, dropped, acked, submit, clock, alive, asked, driver>>

\* The statistics thread logs an active emergency at FATAL too.
StatsThread ==
  /\ emergencyActive
  /\ alive' = FALSE
  /\ UNCHANGED <<running, emergencyActive, priorityQueue, commandHistory, lastIssueTime,
                 nextCommandId, stats, submit, clock, asked, driver>>

Tick ==
  /\ clock < MaxClock
  /\ clock' = clock + 1
  /\ UNCHANGED <<running, emergencyActive, priorityQueue, commandHistory, lastIssueTime,
                 nextCommandId, stats, submit, alive, asked, driver>>

Next ==
  /\ alive
  /\ \/ Start \/ Stop \/ Reinitialise
     \/ \E level \in {WARNING, DANGER, CRITICAL_LEVEL} : SubmitCommand(level)
     \/ SubmitStep
     \/ GetHighestPriorityCommand \/ AckCommand
     \/ ClearEmergency \/ StatsThread
     \/ Tick

SafeSpec == Init /\ [][Next]_vars
\* The result thread runs; nothing else is obliged to.
Spec == SafeSpec /\ WF_vars(alive /\ SubmitStep)
-----------------------------------------------------------------------------
Commands == [type : Types, priority : {NORMAL, HIGH, CRITICAL}, id : Nat, time : Nat]
InFlight(places) == IF pc \in places THEN 1 ELSE 0

Backlog == {c \in priorityQueue : c.priority <= NORMAL}

\* Every variable has its type, the history is no longer than configured, and the
\* commands that are not urgent fill the queue up to its limit only, whatever
\* urgent ones were pushed beyond it and taken since.
TypeOK ==
  /\ running \in BOOLEAN /\ emergencyActive \in BOOLEAN /\ alive \in BOOLEAN
  /\ priorityQueue \subseteq Commands /\ IsFiniteSet(priorityQueue)
  /\ Cardinality(Backlog) <= MaxPending
  /\ commandHistory \in Seq(Commands) /\ Len(commandHistory) <= HistorySize
  /\ DOMAIN lastIssueTime \subseteq Types
  /\ \A t \in DOMAIN lastIssueTime : lastIssueTime[t] \in Nat
  /\ nextCommandId \in Nat /\ issued \in Nat /\ dropped \in Nat /\ acked \in Nat
  /\ activeLevel \in {SAFE, WARNING, DANGER, CRITICAL_LEVEL}
  /\ pc \in {"idle", "stamp", "push", "record", "fatal", "notify"}
  /\ cmd \in Commands \cup {NoCommand} /\ (pc # "idle" => cmd \in Commands)
  /\ clock \in Nat /\ asked \in Nat /\ taken \in Nat
  /\ lastTaken \in [{NORMAL, HIGH, CRITICAL} -> Nat]

\* Two commands of one type other than the emergency stop are at least the
\* minimum interval apart, though the clock is read once to check that and again,
\* later, for the time stamp, and recorded as last issue later still.
ThrottleSpacing ==
  \A i, j \in DOMAIN commandHistory :
    i < j /\ commandHistory[i].type = commandHistory[j].type
          /\ commandHistory[i].priority # CRITICAL
      => commandHistory[i].time - commandHistory[j].time >= MinInterval

\* Every request that passes the switches is issued or counted as dropped, and
\* every command issued is in the queue or was taken by the driver, exactly once.
CommandsConserved ==
  /\ asked = issued + dropped + InFlight({"stamp", "push", "record", "fatal"})
  /\ taken + Cardinality(priorityQueue) = issued + InFlight({"record", "fatal"})

\* The commands of one priority reach the driver in the order in which they were
\* issued.  The heap orders by time stamp only, so this rests on the throttle
\* keeping the stamps of one priority apart.
TakenInIssueOrder == \A c \in priorityQueue : c.id > lastTaken[c.priority]

\* While no submission is under way the reported level is at least that of every
\* command issued in the last five seconds: it may be stale, never too low.
LevelNotUnderstated ==
  pc \in {"idle", "stamp", "push"} =>
    \A t \in RecentTypes(lastIssueTime) : activeLevel >= LevelOf[t]

\* main.cpp prints "[PLC-ESTOP] EMERGENCY STOP issued!" from the command callback:
\* an emergency stop that has been queued reaches the callback.
EmergencyStopReported ==
  pc = "record" /\ cmd.type = "EMERGENCY_STOP"
    ~> pc = "notify" /\ cmd.type = "EMERGENCY_STOP"
=============================================================================
