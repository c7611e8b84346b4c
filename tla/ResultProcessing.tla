--------------------------- MODULE ResultProcessing ---------------------------
(***************************************************************************)
(* GatewayPipeline::ProcessDetectionResult: the result thread hands each   *)
(* result to the tracker, the confirmed tracks to the energy analyser, and *)
(* the commands that these tracks ask for to the PLC manager.  Init makes  *)
(* both components anew; Stop releases both, and the ids go on.  A CRITICAL *)
(* level is left out here: its command ends the process, which is in       *)
(* PlcCommandManager.                                                      *)
(***************************************************************************)
EXTENDS CornerSlotTracker, SwingEnergyAnalyzer

CONSTANT Followed \* the ids whose swing is followed: tracks do not share any of it

VARIABLE commands \* what the last result submitted: <<track, level>>

procVars == <<tracks, nextId, stats, swings, newest, commands>>

ProcInit == Init /\ AnalyzerInit /\ commands = {}

\* Variant: every track that the analyser knows may submit its command.
CommandsOfAllTracks(ids) == {<<id, swings[id].level>> : id \in {x \in DOMAIN swings : ShouldTriggerDamping(x)}}

CommandsOf(ids) == {<<id, swings[id].level>> : id \in {x \in ids : ShouldTriggerDamping(x)}}

\* The analyser and the commands only see the tracks that this result confirms.
ProcessDetectionResult ==
  /\ Update
  /\ \E reported \in {(Reported \cap Followed)'} :
       /\ \E ts \in Stamps : UpdateTracks(reported, ts)
       /\ commands' = CommandsOf(reported)'

\* Variant: the analyser of the last run is kept.
InitComponentsKeepingAnalyzer == Reset /\ UNCHANGED analyzerVars /\ commands' = {}

\* GatewayPipeline::Init: a new tracker, whose ids start again, and a new analyser.
InitComponents == Reset /\ ReleaseSwings /\ commands' = {}

\* The end of GatewayPipeline::Stop.
ReleaseComponents == Release /\ ReleaseSwings /\ commands' = {}

ProcNext == ProcessDetectionResult \/ InitComponents \/ ReleaseComponents

\* Results keep coming: the detector's workers and the result thread run.
ProcSpec == ProcInit /\ [][ProcNext]_procVars /\ Fairness
-----------------------------------------------------------------------------
(* Properties.                                                             *)

\* The analyser knows every reported track and only tracks that this tracker
\* started, so no track inherits the history of an earlier one with its id,
\* though forgotten tracks are never removed from it.
SwingsOfOwnTracks ==
  /\ Reported \cap Followed \subseteq DOMAIN swings
  /\ DOMAIN swings \subseteq 1..(nextId - 1)

\* A track that is lost or forgotten keeps its last level in the analyser and
\* submits no more commands: those of a result are of tracks seen lately, with
\* the level that this result gave them.
CommandsOfFreshTracks ==
  \A c \in commands :
    /\ c[1] \in DOMAIN tracks /\ tracks[c[1]].since <= LostAfter
    /\ c[2] = swings[c[1]].level
=============================================================================
