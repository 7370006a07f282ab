---------------------------- MODULE PanelFeedback ----------------------------
(***************************************************************************)
(* The feedback of an interview panel: the page behind a panelist's link  *)
(* (frontend/src/components/Panel/PanelPage.jsx) and                       *)
(* backend/services/interview_service.py, PanelFeedbackService.            *)
(*                                                                         *)
(* One round with its panelists; a panelist may open the link in several  *)
(* tabs.  submit_feedback runs statement by statement, each committed on  *)
(* its own, and goes on when the page no longer waits for its answer; it   *)
(* may fail or die at each of them.                                        *)
(***************************************************************************)
EXTENDS Naturals

CONSTANTS
    Panelist,
    PanelTab,
    PanelOwner    \* [PanelTab -> Panelist], whose link the tab shows

\* A round is not scheduled without a panel (ScheduleInterviewModal.jsx, handleSubmit).
ASSUME PanelAssumption == PanelOwner \in [PanelTab -> Panelist] /\ Panelist # {}

VARIABLES
    seat,       \* [Panelist -> the interview_panel row and its scorecard]
    notice,     \* who is to be told, whether they were told "All Feedback Received", and
                \* whether a submission was cut short since the last mark
    panel,      \* [PanelTab -> the state of the page]
    feedback    \* [PanelTab -> its submit call]

panelVars == <<seat, notice, panel, feedback>>

NoFeedback == [kind |-> "none", at |-> "idle", full |-> FALSE, heard |-> TRUE]
NoPanelPage == [page |-> "closed", ready |-> FALSE, notes |-> "empty",
                confirm |-> FALSE, busy |-> "no"]

PanelTypeOK ==
    /\ seat \in [Panelist -> [submitted : BOOLEAN, absent : BOOLEAN, card : {"none", "draft", "final"}]]
    /\ notice \in [creator : BOOLEAN, allIn : BOOLEAN, cut : BOOLEAN]
    /\ panel \in [PanelTab ->
         [page : {"closed", "loading", "attendance", "form", "submitted", "success", "absent", "invalid"},
          ready : BOOLEAN, notes : {"empty", "rough", "busy", "preview", "used", "kept"},
          confirm : BOOLEAN, busy : {"no", "draft", "final"}]]
    /\ feedback \in [PanelTab ->
         [kind : {"none", "absent", "draft", "final"},
          at : {"idle", "sent", "checked", "stored", "marked", "logged", "counted", "ok", "failed"},
          full : BOOLEAN, heard : BOOLEAN]]

PanelInit ==
    /\ seat = [p \in Panelist |-> [submitted |-> FALSE, absent |-> FALSE, card |-> "none"]]
    \* positions.created_by may be NULL: then there is nobody to tell.
    /\ \E creator \in BOOLEAN : notice = [creator |-> creator, allIn |-> FALSE, cut |-> FALSE]
    /\ panel = [t \in PanelTab |-> NoPanelPage]
    /\ feedback = [t \in PanelTab |-> NoFeedback]

PanelKeeps == UNCHANGED <<seat, notice, feedback>>
Mine(t) == seat[PanelOwner[t]]

-----------------------------------------------------------------------------
\* The page.

OpenPanel(t) ==
    /\ panel[t].page = "closed"
    /\ panel' = [panel EXCEPT ![t].page = "loading"]
    /\ PanelKeeps

LoadPanel(t, ok) ==
    /\ panel[t].page = "loading"
    /\ panel' = [panel EXCEPT ![t].page = IF ~ok THEN "invalid"
                                         ELSE IF Mine(t).submitted THEN "submitted" ELSE "attendance"]
    /\ PanelKeeps

\* The tab is left or reloaded; a call on its way goes on without it.
LeavePanel(t) ==
    /\ panel[t].page # "closed"
    /\ panel' = [panel EXCEPT ![t] = NoPanelPage]
    /\ feedback' = [feedback EXCEPT ![t].heard = feedback[t] = NoFeedback]
    /\ UNCHANGED <<seat, notice>>

SendFeedback(t, kind) ==
    /\ feedback[t] = NoFeedback
    /\ feedback' = [feedback EXCEPT ![t] = [NoFeedback EXCEPT !.kind = kind, !.at = "sent"]]
    /\ UNCHANGED <<seat, notice>>

AttendYes(t) ==
    /\ panel[t].page = "attendance"
    /\ panel' = [panel EXCEPT ![t].page = "form"]
    /\ PanelKeeps

\* "I was not present"; the page stays until the call is through.
AttendNo(t) ==
    /\ panel[t].page = "attendance"
    /\ SendFeedback(t, "absent")
    /\ UNCHANGED panel

FormShown(t) == panel[t].page = "form"

\* The four ratings and the recommendation: complete, or not (a star clicked again is cleared).
FillRatings(t) ==
    /\ FormShown(t)
    /\ panel' = [panel EXCEPT ![t].ready = ~@]
    /\ PanelKeeps

\* The two rough notes: both empty, or not.
WriteNotes(t) ==
    /\ FormShown(t) /\ panel[t].notes \in {"empty", "rough"}
    /\ panel' = [panel EXCEPT ![t].notes = IF @ = "empty" THEN "rough" ELSE "empty"]
    /\ PanelKeeps

HandleEnrich(t) ==
    /\ FormShown(t) /\ panel[t].notes = "rough"
    /\ panel' = [panel EXCEPT ![t].notes = "busy"]
    /\ PanelKeeps

\* An answer of any status is taken as the enriched text, a lost one is an error.
EnrichAnswered(t, ok) ==
    /\ FormShown(t) /\ panel[t].notes = "busy"
    /\ panel' = [panel EXCEPT ![t].notes = IF ok THEN "preview" ELSE "rough"]
    /\ PanelKeeps

ChooseEnriched(t, to) ==
    /\ FormShown(t)
    /\ \/ panel[t].notes = "preview" /\ to \in {"used", "kept"}
       \/ panel[t].notes = "used" /\ to = "preview"
    /\ panel' = [panel EXCEPT ![t].notes = to]
    /\ PanelKeeps

CanSubmit(t) == FormShown(t) /\ panel[t].busy = "no"

SaveFeedbackDraft(t) ==
    /\ CanSubmit(t)
    /\ SendFeedback(t, "draft")
    /\ panel' = [panel EXCEPT ![t].busy = "draft"]

\* With a rating or the recommendation missing it only says so.
HandleSubmitFeedback(t) ==
    /\ CanSubmit(t) /\ panel[t].ready
    /\ panel' = [panel EXCEPT ![t].confirm = TRUE]
    /\ PanelKeeps

CancelConfirm(t) ==
    /\ FormShown(t) /\ panel[t].confirm
    /\ panel' = [panel EXCEPT ![t].confirm = FALSE]
    /\ PanelKeeps

ConfirmSubmit(t) ==
    /\ FormShown(t) /\ panel[t].confirm
    /\ SendFeedback(t, "final")
    /\ panel' = [panel EXCEPT ![t].confirm = FALSE, ![t].busy = "final"]

\* Whatever became of an absence, the page says it was recorded.
BugPageAfterFeedback(t, ok) ==
    IF feedback[t].kind = "absent" THEN "absent" ELSE IF ok THEN "success" ELSE panel[t].page
PageAfterFeedback(t, ok) ==
    IF feedback[t].kind = "absent" THEN "absent"
    ELSE IF ok /\ panel[t].busy = "final" THEN "success" ELSE panel[t].page

\* The answer is lost, and the page stops waiting for the call.
FeedbackLost(t) ==
    /\ feedback[t].heard /\ feedback[t].at \notin {"idle", "failed"}
    /\ feedback' = [feedback EXCEPT ![t].heard = FALSE]
    /\ panel' = [panel EXCEPT ![t].page = PageAfterFeedback(t, FALSE), ![t].busy = "no"]
    /\ UNCHANGED <<seat, notice>>

FeedbackAnswered(t) ==
    /\ feedback[t].at \in {"ok", "failed"}
    /\ LET ok == feedback[t].at = "ok"
       IN  panel' = IF feedback[t].heard
                    THEN [panel EXCEPT ![t].page = PageAfterFeedback(t, ok), ![t].busy = "no"]
                    ELSE panel
    /\ feedback' = [feedback EXCEPT ![t] = NoFeedback]
    /\ UNCHANGED <<seat, notice>>

-----------------------------------------------------------------------------
\* submit_feedback.

ServesFeedback(t, at) == feedback' = [feedback EXCEPT ![t].at = at] /\ UNCHANGED panel

\* The panelist's row is read; a second final submission is refused, a draft never is.
CheckFeedback(t) ==
    /\ feedback[t].at = "sent"
    /\ LET absent == feedback[t].kind = "absent"
       IN  /\ seat' = [seat EXCEPT ![PanelOwner[t]].absent = @ \/ absent]
           /\ ServesFeedback(t, IF absent THEN "ok"
                                ELSE IF Mine(t).submitted /\ feedback[t].kind = "final" THEN "failed"
                                ELSE "checked")
    /\ UNCHANGED notice

\* ScorecardRepository.upsert.
StoreScorecard(t) ==
    /\ feedback[t].at = "checked"
    /\ seat' = [seat EXCEPT ![PanelOwner[t]].card = feedback[t].kind]
    /\ ServesFeedback(t, IF feedback[t].kind = "final" THEN "stored" ELSE "ok")
    /\ UNCHANGED notice

MarkSubmitted(t) ==
    /\ feedback[t].at = "stored"
    /\ seat' = [seat EXCEPT ![PanelOwner[t]].submitted = TRUE]
    /\ notice' = [notice EXCEPT !.cut = FALSE]
    /\ ServesFeedback(t, "marked")

\* The pipeline event.
LogFeedback(t) ==
    /\ feedback[t].at = "marked"
    /\ ServesFeedback(t, "logged")
    /\ UNCHANGED <<seat, notice>>

\* The panel is counted after this panelist was marked; its size does not change.
CountSubmitted == \A p \in Panelist : seat[p].submitted
Counts(t, full) ==
    /\ feedback[t].at = "logged"
    /\ feedback' = [feedback EXCEPT ![t].at = "counted", ![t].full = full]
    /\ UNCHANGED <<seat, notice, panel>>
\* In one transaction per call, the marks of calls that are not through would not be seen.
BugCountPanel(t) == Counts(t, \A p \in Panelist : seat[p].submitted /\
    \A u \in PanelTab \ {t} : PanelOwner[u] = p => feedback[u].at \notin {"marked", "logged", "counted"})
CountPanel(t) == Counts(t, CountSubmitted)

\* The recruiter is told by what was counted, if the position has one.
NotifyRecruiter(t) ==
    /\ feedback[t].at = "counted"
    /\ notice' = [notice EXCEPT !.allIn = @ \/ (feedback[t].full /\ notice.creator)]
    /\ ServesFeedback(t, "ok")
    /\ UNCHANGED seat

\* A statement fails, or the process dies before it: what was written stays.
PastMark == {"marked", "logged", "counted"}
FeedbackFails(t) ==
    /\ feedback[t].at \in {"sent", "checked", "stored"} \cup PastMark
    /\ notice' = [notice EXCEPT !.cut = @ \/ feedback[t].at \in PastMark]
    /\ ServesFeedback(t, "failed")
    /\ UNCHANGED seat

-----------------------------------------------------------------------------
PanelNext ==
    \E t \in PanelTab :
        \/ OpenPanel(t) \/ LeavePanel(t) \/ AttendYes(t) \/ AttendNo(t)
        \/ \E ok \in BOOLEAN : LoadPanel(t, ok) \/ EnrichAnswered(t, ok)
        \/ FillRatings(t) \/ WriteNotes(t) \/ HandleEnrich(t)
        \/ \E to \in {"used", "kept", "preview"} : ChooseEnriched(t, to)
        \/ SaveFeedbackDraft(t) \/ HandleSubmitFeedback(t) \/ CancelConfirm(t) \/ ConfirmSubmit(t)
        \/ FeedbackLost(t) \/ FeedbackAnswered(t)
        \/ CheckFeedback(t) \/ StoreScorecard(t) \/ MarkSubmitted(t) \/ LogFeedback(t)
        \/ CountPanel(t) \/ NotifyRecruiter(t) \/ FeedbackFails(t)

PanelSpec == PanelInit /\ [][PanelNext]_panelVars

\* Panelists who finish at the same time do not each believe the other is missing: when
\* all have submitted and their calls are through, the recruiter was told so, unless the
\* position has none or a call was cut short after the last mark
\* (interview_service.py, submit_feedback: the count follows the mark).
AllInAnnounced ==
    (/\ CountSubmitted /\ notice.creator /\ ~notice.cut
     /\ \A t \in PanelTab : feedback[t].at \notin PastMark) => notice.allIn

\* "Feedback Submitted!" is shown only for feedback that is in, however the tabs, the
\* drafts and the lost answers interleave (PanelPage.jsx, confirmSubmit).
SuccessIsIn == \A t \in PanelTab : panel[t].page = "success" => Mine(t).submitted

\* Submitted feedback stays the panelist's feedback (PanelPage.jsx:463, "Once submitted,
\* feedback cannot be edited"; interview_service.py:427, "Single-use on final submit").
FeedbackFinal ==
    [][\A p \in Panelist : (seat[p].submitted /\ seat[p].card = "final") => seat'[p].card = "final"]_panelVars
=============================================================================
