--------------------------- MODULE MCHiringPages ---------------------------
(***************************************************************************)
(* The pages candidates and panelists are sent to, and those on which      *)
(* staff follow candidates, on small sets.                                 *)
(* No two of these modules share state: each is a scene, and a behaviour   *)
(* stays in the one it starts in, where the others keep an initial state.  *)
(* The states of a run are the sum of the scenes' states, not a product.   *)
(***************************************************************************)
EXTENDS ApplyChat, Erasure, Careers, CandidatePortal, PanelFeedback, InterviewRounds,
        TalentPool, CandidatePage, PipelineBoard, TLC

CONSTANTS
    Scenes,     \* the modules a run explores
    tabA,       \* a tab of ApplyChat
    pa, ta, tb  \* a tab of PanelFeedback, and the two panelists

VARIABLE scene

MCProfile     == <<"notice_period">>
MCPanelOwner  == [t \in PanelTab |-> IF t = pa THEN ta ELSE tb]
MCMoveStages  == <<"sourced">>
MCBoardRank   == <<"c1">>
MCBoardStages == <<"sourced", "screening", "rejected">>
MCAutoOrder   == <<"screening", "sourced", "rejected">>

MCInit ==
    /\ scene \in Scenes
    /\ ApplyInit /\ ErasureInit /\ CareersInit /\ PortalInit /\ PanelInit /\ IvInit /\
       PoolInit /\ CandInit /\ BoardInit
    \* One initial state of the modules that have several, while another is on the scene.
    /\ scene # "TalentPool" => filled
    /\ scene # "PanelRace" => notice.creator
    /\ scene # "PipelineBoard" => \A c \in BoardCand : appStage[c] = "none"

\* Bounds of three modules.  Two tabs with one call at a time, or two calls of one tab at
\* a time; two panelists without notes, who send complete ratings and of whom one waits
\* for every answer, or one who writes notes.
\* One tab that schedules a round by typing in its time, while another completes and
\* debriefs it without deciding on it; or one tab with all of it.
ApplyBounded ==
    /\ ApplyNext
    /\ \/ scene = "ApplyTabs" /\ Cardinality(ApplyBusy') <= 1
       \/ scene = "ApplyCalls" /\ \A t \in ApplyTab \ {tabA} : UNCHANGED <<apage[t], acall[t]>>
PanelBounded ==
    /\ PanelNext
    /\ \/ /\ scene = "PanelRace"
          /\ \A t \in PanelTab : panel'[t].notes = "empty" /\ (panel'[t].busy # "no" => panel'[t].ready)
          /\ \E t \in PanelTab : \A u \in PanelTab \ {t} : feedback'[u].heard
       \/ scene = "PanelNotes" /\ \A t \in PanelTab \ {pa} : UNCHANGED <<panel[t], feedback[t]>>
RoundBounded ==
    /\ IvNext
    /\ \/ /\ scene = "RoundTabs"
          /\ \A t \in IvTab : ivcall'[t] \notin {"decide", "invites"}
          /\ \A t \in SchedulesIn : ivpage'[t].plan \notin {"asked", "slots"} /\ ivcall'[t] \notin CardAsk \cup {"hurry"}
       \/ scene = "RoundForm" /\ \A t \in IvTab \ SchedulesIn : UNCHANGED <<ivpage[t], ivcall[t]>>

MCNext ==
    /\ UNCHANGED scene
    /\ IF scene \in {"ApplyTabs", "ApplyCalls"} THEN ApplyBounded ELSE UNCHANGED applyVars
    /\ IF scene = "Erasure" THEN ErasureNext ELSE UNCHANGED erasureVars
    /\ IF scene = "Careers" THEN CareersNext ELSE UNCHANGED careersVars
    /\ IF scene = "CandidatePortal" THEN PortalNext ELSE UNCHANGED portalVars
    /\ IF scene \in {"PanelRace", "PanelNotes"} THEN PanelBounded ELSE UNCHANGED panelVars
    /\ IF scene \in {"RoundTabs", "RoundForm"} THEN RoundBounded ELSE UNCHANGED ivVars
    /\ IF scene = "TalentPool" THEN PoolNext ELSE UNCHANGED poolVars
    /\ IF scene = "CandidatePage" THEN CandNext ELSE UNCHANGED candVars
    /\ IF scene = "PipelineBoard" THEN BoardNext ELSE UNCHANGED boardVars

MCVars == <<scene, applyVars, erasureVars, careersVars, portalVars, panelVars, ivVars,
            poolVars, candVars, boardVars>>
MCSpec == MCInit /\ [][MCNext]_MCVars

\* Every variable of the module on the scene keeps its type; the others do not move.
HiringPagesTypeOK ==
    /\ scene \in {"ApplyTabs", "ApplyCalls"} => ApplyTypeOK
    /\ scene = "Erasure" => ErasureTypeOK
    /\ scene = "Careers" => CareersTypeOK
    /\ scene = "CandidatePortal" => PortalTypeOK
    /\ scene \in {"PanelRace", "PanelNotes"} => PanelTypeOK
    /\ scene \in {"RoundTabs", "RoundForm"} => IvTypeOK
    /\ scene = "TalentPool" => PoolTypeOK
    /\ scene = "CandidatePage" => CandTypeOK
    /\ scene = "PipelineBoard" => BoardTypeOK
=============================================================================
