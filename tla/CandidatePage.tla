---------------------------- MODULE CandidatePage ----------------------------
(***************************************************************************)
(* The page of one candidate (frontend/src/components/Candidates/          *)
(* CandidateDetailPage.jsx, CandidateHero.jsx, common/ConfirmModal.jsx):   *)
(* the stage moves, "Mark Selected", the scoring that is run again.        *)
(*                                                                         *)
(* The page is not mounted anew when the browser's history leads from one *)
(* candidate to another: its state stays, and what is still on its way    *)
(* for the first answers into the page of the second.                      *)
(***************************************************************************)
EXTENDS Naturals, Sequences, SequencesExt

CONSTANTS
    CandId,        \* candidates, each with one application to the position
    MoveStages,    \* VISIBLE_MOVE_STAGES, in their order
    EndStages,     \* the other stages of PIPELINE_STAGES
    NoCandId

ASSUME CandPageAssumption ==
    /\ MoveStages \in Seq(STRING) /\ Len(MoveStages) > 0
    /\ EndStages \in SUBSET STRING /\ "none" \notin Range(MoveStages) \cup EndStages
    /\ "selected" \in Range(MoveStages) \cup EndStages
    /\ NoCandId \notin CandId

PipelineStage == Range(MoveStages) \cup EndStages
StageOrNone == PipelineStage \cup {"none"}
Shown == CandId \cup {NoCandId}
CandOps == {"move", "select", "retry"}

VARIABLES
    stageOf,    \* [CandId -> the status of the application]
    url,        \* the candidate of the address, or none: another page
    cview,      \* what the page shows of a candidate, and its dialog
    cloads,     \* the candidates whose load is on its way
    cops,       \* [CandOps -> the call]
    atsPause    \* the loads after a pause of 4 seconds, with the candidate of the closure

candVars == <<stageOf, url, cview, cloads, cops, atsPause>>

NoView == [who |-> NoCandId, stage |-> "none", dialog |-> "none", pending |-> "none",
           moving |-> FALSE, busy |-> "none"]
NoOp == [on |-> NoCandId, to |-> "none", at |-> "idle", of |-> NoCandId]

CandTypeOK ==
    /\ stageOf \in [CandId -> PipelineStage] /\ url \in Shown
    /\ cview \in [who : Shown, stage : StageOrNone, dialog : {"none", "status", "select", "retry", "other"},
                  pending : StageOrNone, moving : BOOLEAN, busy : {"none", "select"}]
    /\ cloads \subseteq CandId /\ atsPause \subseteq CandId
    /\ cops \in [CandOps -> [on : Shown, to : StageOrNone, at : {"idle", "sent", "ok"}, of : Shown]]

CandInit ==
    /\ stageOf \in [CandId -> {MoveStages[1]}]
    /\ url = NoCandId /\ cview = NoView /\ cloads = {} /\ atsPause = {}
    /\ cops = [o \in CandOps |-> NoOp]

-----------------------------------------------------------------------------
\* Loading.

OpenCandidate(c) ==
    /\ url = NoCandId
    /\ url' = c /\ cloads' = {c}
    /\ UNCHANGED <<stageOf, cview, cops, atsPause>>

\* Back or forward, to the page of another candidate: the same component.
HistoryTo(c) ==
    /\ url \notin {NoCandId, c}
    /\ url' = c /\ cloads' = cloads \cup {c}
    /\ UNCHANGED <<stageOf, cview, cops, atsPause>>

\* Away from the page: its calls go on, their answers change nothing that is shown.
LeaveCandidate ==
    /\ url # NoCandId
    /\ url' = NoCandId /\ cview' = NoView /\ cloads' = {} /\ atsPause' = {}
    /\ cops' = [o \in CandOps |-> IF cops[o].at = "sent" /\ o # "retry"
                                  THEN [cops[o] EXCEPT !.of = NoCandId] ELSE NoOp]
    /\ UNCHANGED stageOf

CandidateLoaded(c) ==
    /\ c \in cloads
    /\ cloads' = cloads \ {c}
    /\ cview' = [cview EXCEPT !.who = c, !.stage = stageOf[c]]
    /\ UNCHANGED <<stageOf, url, cops, atsPause>>

CandidateLoadLost(c) ==
    /\ c \in cloads
    /\ cloads' = cloads \ {c}
    /\ UNCHANGED <<stageOf, url, cview, cops, atsPause>>

-----------------------------------------------------------------------------
\* The dialogs.  One that is open covers the page.

OnPage == cview.who # NoCandId /\ cview.dialog = "none"
CanMove == OnPage /\ ~cview.moving

\* The hero's button: the stage after this one, or the first where this one is none of them.
HeroStage ==
    LET i == IF \E k \in DOMAIN MoveStages : MoveStages[k] = cview.stage
             THEN CHOOSE k \in DOMAIN MoveStages : MoveStages[k] = cview.stage
             ELSE 0
    IN  IF i < Len(MoveStages) THEN MoveStages[i + 1] ELSE "none"

SetDialog(d, p) ==
    /\ cview' = [cview EXCEPT !.dialog = d, !.pending = p]
    /\ UNCHANGED <<stageOf, url, cloads, cops, atsPause>>

HeroMove ==
    /\ CanMove /\ HeroStage # "none"
    /\ SetDialog("status", HeroStage)

\* The select of the tags row.
SelectStatus(s) ==
    /\ CanMove /\ s # cview.stage
    /\ SetDialog("status", s)

OpenSelect == OnPage /\ cview.stage # "selected" /\ SetDialog("select", cview.pending)
OpenRetry == OnPage /\ SetDialog("retry", cview.pending)
OpenOther == OnPage /\ SetDialog("other", cview.pending)

\* Cancel, which a dialog that waits for its call does not take.
CloseDialog ==
    /\ \/ cview.dialog = "status" /\ SetDialog("none", "none")
       \/ cview.dialog = "select" /\ cview.busy # "select" /\ SetDialog("none", cview.pending)
       \/ cview.dialog = "retry" /\ cops["retry"].at = "idle" /\ SetDialog("none", cview.pending)
       \/ cview.dialog = "other" /\ SetDialog("none", cview.pending)

\* A call on the candidate shown, whose answer will use the load of the address.
SendOp(o, to) ==
    /\ cops[o].at = "idle"
    /\ cops' = [cops EXCEPT ![o] = [on |-> cview.who, to |-> to, at |-> "sent", of |-> url]]
    /\ UNCHANGED <<stageOf, url, cloads, atsPause>>

ConfirmStatusChange ==
    /\ cview.dialog = "status" /\ cview.pending # "none"
    /\ SendOp("move", cview.pending)
    /\ cview' = [cview EXCEPT !.dialog = "none", !.moving = TRUE]

ConfirmMarkSelected ==
    /\ cview.dialog = "select" /\ cview.busy = "none"
    /\ SendOp("select", "selected")
    /\ cview' = [cview EXCEPT !.busy = "select"]

ConfirmRetryAts ==
    /\ cview.dialog = "retry"
    /\ SendOp("retry", "none")
    /\ cview' = [cview EXCEPT !.dialog = "none"]

-----------------------------------------------------------------------------
\* The calls.

\* Nobody waits any longer for the answer of a call whose page was left.
OpServed(o) ==
    /\ cops[o].at = "sent" /\ cops[o].to # "none"
    /\ cops' = [cops EXCEPT ![o] = IF cops[o].of = NoCandId THEN NoOp ELSE [cops[o] EXCEPT !.at = "ok"]]
    /\ stageOf' = [stageOf EXCEPT ![cops[o].on] = cops[o].to]
    /\ UNCHANGED <<url, cview, cloads, atsPause>>

OpGone(o) ==
    /\ cops[o].at = "sent" /\ cops[o].of = NoCandId
    /\ cops' = [cops EXCEPT ![o] = NoOp]
    /\ UNCHANGED <<stageOf, url, cview, cloads, atsPause>>

\* A call may fail on its way there or back; either way its handler goes on.
Answered(o, ok) ==
    /\ cops[o].of # NoCandId /\ (ok => cops[o].at = "ok" \/ o = "retry")
    /\ cops' = [cops EXCEPT ![o] = NoOp]
    /\ UNCHANGED <<stageOf, url>>
LoadAgain(o, ok) == cloads' = IF ok THEN cloads \cup {cops[o].of} ELSE cloads

\* The stage is set on whatever candidate is shown by now; the load is the closure's.
MoveAnswered(ok) ==
    /\ Answered("move", ok)
    /\ cview' = [cview EXCEPT !.stage = IF ok THEN cview.pending ELSE @, !.moving = FALSE,
                              !.pending = "none", !.dialog = IF @ = "status" THEN "none" ELSE @]
    /\ LoadAgain("move", ok) /\ UNCHANGED atsPause

\* The dialog is closed in both cases: the failure is swallowed by the handler.
SelectAnswered(ok) ==
    /\ Answered("select", ok)
    /\ cview' = [cview EXCEPT !.stage = IF ok THEN "selected" ELSE @,
                              !.busy = "none", !.dialog = IF @ = "select" THEN "none" ELSE @]
    /\ LoadAgain("select", ok) /\ UNCHANGED atsPause

\* Also closes a dialog that was opened again meanwhile.
RetryAnswered(ok) ==
    /\ Answered("retry", ok)
    /\ cview' = [cview EXCEPT !.dialog = IF @ = "retry" THEN "none" ELSE @]
    /\ atsPause' = IF ok THEN atsPause \cup {cops["retry"].of} ELSE atsPause
    /\ UNCHANGED cloads

AtsPaused(c) ==
    /\ c \in atsPause
    /\ atsPause' = atsPause \ {c} /\ cloads' = cloads \cup {c}
    /\ UNCHANGED <<stageOf, url, cview, cops>>

-----------------------------------------------------------------------------
CandNext ==
    \/ \E c \in CandId :
         \/ OpenCandidate(c) \/ HistoryTo(c) \/ CandidateLoaded(c) \/ CandidateLoadLost(c)
         \/ AtsPaused(c)
    \/ LeaveCandidate \/ HeroMove \/ OpenSelect \/ OpenRetry \/ OpenOther \/ CloseDialog
    \/ \E s \in PipelineStage : SelectStatus(s)
    \/ ConfirmStatusChange \/ ConfirmMarkSelected \/ ConfirmRetryAts
    \/ \E o \in CandOps : OpServed(o) \/ OpGone(o)
    \/ \E ok \in BOOLEAN : MoveAnswered(ok) \/ SelectAnswered(ok) \/ RetryAnswered(ok)

CandidatePageSpec == CandInit /\ [][CandNext]_candVars
=============================================================================
