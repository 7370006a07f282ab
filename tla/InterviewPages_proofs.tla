------------------------ MODULE InterviewPages_proofs ------------------------
(**************************************************************************)
(* The interviews and the pages on which staff follow candidates: the      *)
(* panelists' pages, the tab of the rounds, the board on which candidates  *)
(* move from stage to stage, the talent pool and the page of one           *)
(* candidate; then all the pages of hiring together.                       *)
(**************************************************************************)
EXTENDS CandidatePages_proofs, MCHiringPages, FiniteSetTheorems, TLAPS

-----------------------------------------------------------------------------
(**************************************************************************)
(* The panel. For any panel, any number of tabs and any overlap of their   *)
(* calls: what the page says about a submission is true, and the recruiter *)
(* is told when the last panelist is done.                                 *)
(**************************************************************************)

Seat == [submitted : BOOLEAN, absent : BOOLEAN, card : {"none", "draft", "final"}]
PanelPage ==
    [page : {"closed", "loading", "attendance", "form", "submitted", "success", "absent", "invalid"},
     ready : BOOLEAN, notes : {"empty", "rough", "busy", "preview", "used", "kept"},
     confirm : BOOLEAN, busy : {"no", "draft", "final"}]
FeedbackCall ==
    [kind : {"none", "absent", "draft", "final"},
     at : {"idle", "sent", "checked", "stored", "marked", "logged", "counted", "ok", "failed"},
     full : BOOLEAN, heard : BOOLEAN]
Notice == [creator : BOOLEAN, allIn : BOOLEAN, cut : BOOLEAN]

\* What a submission that is under way says about the panelist's row, and what the
\* page waits for: a page that waits for its final submission has that call.
CallInv(t) ==
    /\ feedback[t].at = "sent" => feedback[t].kind # "none"
    /\ feedback[t].at = "checked" => feedback[t].kind \in {"draft", "final"}
    /\ feedback[t].at \in PastMark => Mine(t).submitted
    /\ feedback[t].at = "ok" /\ feedback[t].kind = "final" => Mine(t).submitted
    /\ panel[t].busy = "final" => feedback[t].heard /\ feedback[t].kind = "final"
    /\ panel[t].page = "success" => Mine(t).submitted
PanelInv == PanelTypeOK /\ \A t \in PanelTab : CallInv(t)

\* The actions of one tab on the page, and those of the server.
PanelPageStep(t) ==
    \/ OpenPanel(t) \/ AttendYes(t) \/ FillRatings(t) \/ WriteNotes(t) \/ HandleEnrich(t)
    \/ HandleSubmitFeedback(t) \/ CancelConfirm(t)
    \/ \E ok \in BOOLEAN : LoadPanel(t, ok) \/ EnrichAnswered(t, ok)
    \/ \E to \in {"used", "kept", "preview"} : ChooseEnriched(t, to)
SendStep(t) == AttendNo(t) \/ SaveFeedbackDraft(t) \/ ConfirmSubmit(t)
ServerStep(t) ==
    \/ CheckFeedback(t) \/ StoreScorecard(t) \/ MarkSubmitted(t) \/ LogFeedback(t)
    \/ CountPanel(t) \/ NotifyRecruiter(t) \/ FeedbackFails(t)

LEMMA PanelSteps ==
    PanelNext => \E t \in PanelTab :
        PanelPageStep(t) \/ SendStep(t) \/ ServerStep(t) \/ LeavePanel(t) \/ FeedbackLost(t) \/ FeedbackAnswered(t)
BY DEF PanelNext, PanelPageStep, SendStep, ServerStep

\* The type invariant, by the three records it is about.
LEMMA TypeParts ==
    PanelTypeOK <=> /\ seat \in [Panelist -> Seat] /\ notice \in Notice
                    /\ panel \in [PanelTab -> PanelPage]
                    /\ feedback \in [PanelTab -> FeedbackCall]
BY DEF PanelTypeOK, Seat, PanelPage, FeedbackCall, Notice

LEMMA PanelInitTypes == PanelInit => PanelTypeOK
<1> SUFFICES ASSUME PanelInit PROVE PanelTypeOK
  OBVIOUS
<1>1. NoPanelPage \in PanelPage /\ NoFeedback \in FeedbackCall
  BY DEF NoPanelPage, NoFeedback, PanelPage, FeedbackCall
<1>3. notice \in Notice
  BY DEF PanelInit, Notice
<1>2. [submitted |-> FALSE, absent |-> FALSE, card |-> "none"] \in Seat
  BY DEF Seat
<1> QED
  BY <1>1, <1>2, <1>3, TypeParts DEF PanelInit

LEMMA PanelTypesStep == PanelInv /\ [PanelNext]_panelVars => PanelTypeOK'
<1> SUFFICES ASSUME PanelInv, [PanelNext]_panelVars PROVE PanelTypeOK'
  OBVIOUS
<1>0. PanelTypeOK
  BY DEF PanelInv
<1> USE PanelAssumption
<1>1. CASE UNCHANGED panelVars
  BY <1>0, <1>1 DEF PanelTypeOK, panelVars
<1>2. ASSUME NEW t \in PanelTab, PanelPageStep(t) PROVE PanelTypeOK'
  <2>1. /\ panel' \in [PanelTab -> PanelPage]
        /\ UNCHANGED <<seat, notice, feedback>>
    <3>1. panel \in [PanelTab -> PanelPage] /\ panel[t] \in PanelPage
      BY <1>0, TypeParts
    <3>2. UNCHANGED <<seat, notice, feedback>>
      BY <1>2 DEF PanelPageStep, PanelKeeps, OpenPanel, AttendYes, FillRatings, WriteNotes,
                  HandleEnrich, HandleSubmitFeedback, CancelConfirm, LoadPanel, EnrichAnswered,
                  ChooseEnriched
    <3>3. \E p \in PanelPage : panel' = [panel EXCEPT ![t] = p]
      <4>1. CASE OpenPanel(t)
        BY <3>1, <4>1 DEF OpenPanel, PanelPage
      <4>2. CASE AttendYes(t)
        BY <3>1, <4>2 DEF AttendYes, PanelPage
      <4>3. CASE FillRatings(t)
        BY <3>1, <4>3 DEF FillRatings, PanelPage
      <4>4. CASE WriteNotes(t)
        BY <3>1, <4>4 DEF WriteNotes, PanelPage
      <4>5. CASE HandleEnrich(t)
        BY <3>1, <4>5 DEF HandleEnrich, PanelPage
      <4>6. CASE HandleSubmitFeedback(t)
        BY <3>1, <4>6 DEF HandleSubmitFeedback, PanelPage
      <4>7. CASE CancelConfirm(t)
        BY <3>1, <4>7 DEF CancelConfirm, PanelPage
      <4>8. CASE \E ok \in BOOLEAN : LoadPanel(t, ok)
        BY <3>1, <4>8 DEF LoadPanel, PanelPage
      <4>9. CASE \E ok \in BOOLEAN : EnrichAnswered(t, ok)
        BY <3>1, <4>9 DEF EnrichAnswered, PanelPage
      <4>10. CASE \E to \in {"used", "kept", "preview"} : ChooseEnriched(t, to)
        BY <3>1, <4>10 DEF ChooseEnriched, PanelPage
      <4> QED
        BY <1>2, <4>1, <4>2, <4>3, <4>4, <4>5, <4>6, <4>7, <4>8, <4>9, <4>10 DEF PanelPageStep
    <3> QED
      BY <3>1, <3>2, <3>3
  <2> QED
    BY <2>1, <1>0, TypeParts DEF PanelTypeOK, Seat, PanelPage, FeedbackCall
<1>3. ASSUME NEW t \in PanelTab, SendStep(t) PROVE PanelTypeOK'
  <2>1. panel[t] \in PanelPage
    BY <1>0, TypeParts
  <2>2. panel' = panel \/ \E p \in PanelPage : panel' = [panel EXCEPT ![t] = p]
    BY <1>3, <2>1 DEF SendStep, AttendNo, SaveFeedbackDraft, ConfirmSubmit, PanelPage
  <2>3. \E q \in FeedbackCall : feedback' = [feedback EXCEPT ![t] = q]
    <3>1. \A k \in {"absent", "draft", "final"} : [NoFeedback EXCEPT !.kind = k, !.at = "sent"] \in FeedbackCall
      BY DEF NoFeedback, FeedbackCall
    <3> QED
      BY <1>3, <3>1 DEF SendStep, AttendNo, SaveFeedbackDraft, ConfirmSubmit, SendFeedback
  <2>4. UNCHANGED <<seat, notice>>
    BY <1>3 DEF SendStep, AttendNo, SaveFeedbackDraft, ConfirmSubmit, SendFeedback
  <2> QED
    BY <2>2, <2>3, <2>4, <1>0, TypeParts DEF PanelTypeOK, Seat, PanelPage, FeedbackCall
<1>4. ASSUME NEW t \in PanelTab, ServerStep(t) PROVE PanelTypeOK'
  <2>1. /\ seat \in [Panelist -> Seat] /\ notice \in Notice /\ seat[PanelOwner[t]] \in Seat
        /\ feedback[t] \in FeedbackCall /\ PanelOwner[t] \in Panelist
    BY <1>0, TypeParts
  <2>2. \E q \in FeedbackCall : feedback' = [feedback EXCEPT ![t] = q]
    <3>1. CASE CountPanel(t)
      <4>1. CountSubmitted \in BOOLEAN
        BY DEF CountSubmitted
      <4>2. [feedback[t] EXCEPT !.at = "counted", !.full = CountSubmitted] \in FeedbackCall
        BY <2>1, <4>1 DEF FeedbackCall
      <4>3. feedback' = [feedback EXCEPT ![t] = [feedback[t] EXCEPT !.at = "counted", !.full = CountSubmitted]]
        BY <1>0, <3>1, TypeParts DEF CountPanel, Counts
      <4> QED
        BY <4>2, <4>3
    <3>2. CASE \E at \in {"checked", "stored", "marked", "logged", "ok", "failed"} :
                  feedback' = [feedback EXCEPT ![t].at = at]
      BY <2>1, <3>2 DEF FeedbackCall
    <3> QED
      BY <1>4, <3>1, <3>2 DEF ServerStep, CheckFeedback, StoreScorecard, MarkSubmitted, LogFeedback,
                              NotifyRecruiter, FeedbackFails, ServesFeedback
  <2>3. panel' = panel
    BY <1>4 DEF ServerStep, CheckFeedback, StoreScorecard, MarkSubmitted, LogFeedback, CountPanel, Counts,
                NotifyRecruiter, FeedbackFails, ServesFeedback
  <2>4. seat' \in [Panelist -> Seat] /\ notice' \in Notice
    <3>1. CASE CheckFeedback(t)
      <4>1. \E r \in Seat : seat' = [seat EXCEPT ![PanelOwner[t]] = r]
        BY <2>1, <3>1 DEF CheckFeedback, Seat
      <4> QED
        BY <2>1, <3>1, <4>1 DEF CheckFeedback
    <3>2. CASE StoreScorecard(t)
      <4>1. feedback[t].kind \in {"draft", "final"}
        BY <3>2 DEF StoreScorecard, PanelInv, CallInv
      <4>2. \E r \in Seat : seat' = [seat EXCEPT ![PanelOwner[t]] = r]
        BY <2>1, <3>2, <4>1 DEF StoreScorecard, Seat
      <4> QED
        BY <2>1, <3>2, <4>2 DEF StoreScorecard
    <3>3. CASE MarkSubmitted(t)
      <4>1. \E r \in Seat : seat' = [seat EXCEPT ![PanelOwner[t]] = r]
        BY <2>1, <3>3 DEF MarkSubmitted, Seat
      <4>2. notice' \in Notice
        BY <2>1, <3>3 DEF MarkSubmitted, Notice
      <4> QED
        BY <2>1, <4>1, <4>2
    <3>4. CASE NotifyRecruiter(t)
      <4>1. feedback[t].full \in BOOLEAN /\ notice.creator \in BOOLEAN
        BY <2>1 DEF FeedbackCall, Notice
      <4>2. seat' = seat /\ notice' \in Notice
        BY <2>1, <3>4, <4>1 DEF NotifyRecruiter, Notice
      <4> QED
        BY <2>1, <4>2
    <3>5. CASE FeedbackFails(t)
      <4>1. seat' = seat /\ notice' \in Notice
        BY <2>1, <3>5 DEF FeedbackFails, Notice
      <4> QED
        BY <2>1, <4>1
    <3>6. CASE LogFeedback(t) \/ CountPanel(t)
      BY <2>1, <3>6 DEF LogFeedback, CountPanel, Counts
    <3> QED
      BY <1>4, <3>1, <3>2, <3>3, <3>4, <3>5, <3>6 DEF ServerStep
  <2> QED
    BY <2>2, <2>3, <2>4, <1>0, TypeParts DEF PanelTypeOK, Seat, PanelPage, FeedbackCall, Notice
<1>5. ASSUME NEW t \in PanelTab, LeavePanel(t) PROVE PanelTypeOK'
  <2>1. NoPanelPage \in PanelPage /\ feedback[t] \in FeedbackCall
    BY <1>0, TypeParts DEF NoPanelPage, PanelPage
  <2>2. \E q \in FeedbackCall : feedback' = [feedback EXCEPT ![t] = q]
    BY <1>5, <2>1 DEF LeavePanel, FeedbackCall
  <2> QED
    BY <1>5, <2>1, <2>2, <1>0, TypeParts DEF LeavePanel, PanelTypeOK, Seat, PanelPage, FeedbackCall
<1>6. ASSUME NEW t \in PanelTab, FeedbackLost(t) PROVE PanelTypeOK'
  <2>1. panel[t] \in PanelPage /\ feedback[t] \in FeedbackCall
    BY <1>0, TypeParts
  <2>2. \E q \in FeedbackCall : feedback' = [feedback EXCEPT ![t] = q]
    BY <1>6, <2>1 DEF FeedbackLost, FeedbackCall
  <2>3. PageAfterFeedback(t, FALSE) \in
           {"closed", "loading", "attendance", "form", "submitted", "success", "absent", "invalid"}
    BY <2>1 DEF PageAfterFeedback, PanelPage
  <2>4. \E p \in PanelPage : panel' = [panel EXCEPT ![t] = p]
    BY <1>6, <2>1, <2>3 DEF FeedbackLost, PanelPage
  <2>5. seat' = seat /\ notice' = notice
    BY <1>6 DEF FeedbackLost
  <2>6. /\ panel' \in [PanelTab -> PanelPage] /\ feedback' \in [PanelTab -> FeedbackCall]
        /\ seat \in [Panelist -> Seat] /\ notice \in Notice
    BY <2>2, <2>4, <1>0, TypeParts
  <2> QED
    BY <2>5, <2>6 DEF PanelTypeOK, Seat, PanelPage, FeedbackCall, Notice
<1>7. ASSUME NEW t \in PanelTab, FeedbackAnswered(t) PROVE PanelTypeOK'
  <2>1. panel[t] \in PanelPage /\ NoFeedback \in FeedbackCall
    BY <1>0, TypeParts DEF NoFeedback, FeedbackCall
  <2>2. PageAfterFeedback(t, feedback[t].at = "ok") \in
           {"closed", "loading", "attendance", "form", "submitted", "success", "absent", "invalid"}
    BY <2>1 DEF PageAfterFeedback, PanelPage
  <2>3. \/ panel' = panel
        \/ \E p \in PanelPage : panel' = [panel EXCEPT ![t] = p]
    BY <1>7, <2>1, <2>2 DEF FeedbackAnswered, PanelPage
  <2>4. seat' = seat /\ notice' = notice /\ feedback' = [feedback EXCEPT ![t] = NoFeedback]
    BY <1>7 DEF FeedbackAnswered
  <2>5. /\ panel' \in [PanelTab -> PanelPage] /\ feedback' \in [PanelTab -> FeedbackCall]
        /\ seat \in [Panelist -> Seat] /\ notice \in Notice
    BY <2>1, <2>3, <2>4, <1>0, TypeParts
  <2> QED
    BY <2>4, <2>5 DEF PanelTypeOK, Seat, PanelPage, FeedbackCall, Notice
<1> QED
  BY <1>1, <1>2, <1>3, <1>4, <1>5, <1>6, <1>7, PanelSteps

\* The submission mark, once set, stays: nothing but its own step touches it.
LEMMA SubmittedStays ==
    ASSUME PanelInv, [PanelNext]_panelVars, NEW p \in Panelist, seat[p].submitted
    PROVE  seat'[p].submitted
<1> USE PanelAssumption
<1>1. seat \in [Panelist -> Seat]
  BY TypeParts DEF PanelInv
<1>2. CASE seat' = seat
  BY <1>2
<1>3. ASSUME NEW t \in PanelTab, ServerStep(t) PROVE seat'[p].submitted
  <2>1. CASE CheckFeedback(t)
    BY <1>1, <2>1 DEF CheckFeedback, Seat
  <2>2. CASE StoreScorecard(t)
    BY <1>1, <2>2 DEF StoreScorecard, Seat
  <2>3. CASE MarkSubmitted(t)
    BY <1>1, <2>3 DEF MarkSubmitted, Seat
  <2>4. CASE LogFeedback(t) \/ CountPanel(t) \/ NotifyRecruiter(t) \/ FeedbackFails(t)
    BY <2>4 DEF LogFeedback, CountPanel, Counts, NotifyRecruiter, FeedbackFails
  <2> QED
    BY <1>3, <2>1, <2>2, <2>3, <2>4 DEF ServerStep
<1>4. ASSUME NEW t \in PanelTab,
             PanelPageStep(t) \/ SendStep(t) \/ LeavePanel(t) \/ FeedbackLost(t) \/ FeedbackAnswered(t)
      PROVE  seat' = seat
  BY <1>4 DEF PanelPageStep, PanelKeeps, OpenPanel, AttendYes, FillRatings, WriteNotes, HandleEnrich,
              HandleSubmitFeedback, CancelConfirm, LoadPanel, EnrichAnswered, ChooseEnriched,
              SendStep, AttendNo, SaveFeedbackDraft, ConfirmSubmit, SendFeedback, LeavePanel,
              FeedbackLost, FeedbackAnswered
<1>5. UNCHANGED panelVars => seat' = seat
  BY DEF panelVars
<1> QED
  BY <1>2, <1>3, <1>4, <1>5, PanelSteps

LEMMA CallInvStep ==
    ASSUME PanelInv, [PanelNext]_panelVars, NEW u \in PanelTab
    PROVE  CallInv(u)'
<1> USE PanelAssumption
<1>1. /\ seat \in [Panelist -> Seat] /\ panel \in [PanelTab -> PanelPage]
      /\ feedback \in [PanelTab -> FeedbackCall]
      /\ CallInv(u) /\ PanelOwner[u] \in Panelist
  BY TypeParts DEF PanelInv
<1>2. Mine(u).submitted => Mine(u)'.submitted
  BY SubmittedStays, <1>1 DEF Mine
<1>3. CASE /\ feedback'[u] = feedback[u]
           /\ panel'[u].busy = "final" => panel[u].busy = "final"
           /\ panel'[u].page = "success" => panel[u].page = "success"
  BY <1>1, <1>2, <1>3 DEF CallInv
<1>4. ASSUME NEW t \in PanelTab, PanelPageStep(t) PROVE CallInv(u)'
  <2>1. feedback' = feedback
    BY <1>4 DEF PanelPageStep, PanelKeeps, OpenPanel, AttendYes, FillRatings, WriteNotes, HandleEnrich,
                HandleSubmitFeedback, CancelConfirm, LoadPanel, EnrichAnswered, ChooseEnriched
  <2>2. /\ panel'[u].busy = panel[u].busy
        /\ panel'[u].page = "success" => panel[u].page = "success"
    <3>1. CASE \E ok \in BOOLEAN : LoadPanel(t, ok)
      BY <1>1, <3>1 DEF LoadPanel, PanelPage
    <3>2. CASE OpenPanel(t) \/ AttendYes(t)
      BY <1>1, <3>2 DEF OpenPanel, AttendYes, PanelPage
    <3>3. CASE FillRatings(t) \/ WriteNotes(t) \/ HandleEnrich(t)
      BY <1>1, <3>3 DEF FillRatings, WriteNotes, HandleEnrich, PanelPage
    <3>4. CASE HandleSubmitFeedback(t) \/ CancelConfirm(t)
      BY <1>1, <3>4 DEF HandleSubmitFeedback, CancelConfirm, PanelPage
    <3>5. CASE \E ok \in BOOLEAN : EnrichAnswered(t, ok)
      BY <1>1, <3>5 DEF EnrichAnswered, PanelPage
    <3>6. CASE \E to \in {"used", "kept", "preview"} : ChooseEnriched(t, to)
      BY <1>1, <3>6 DEF ChooseEnriched, PanelPage
    <3> QED
      BY <1>4, <3>1, <3>2, <3>3, <3>4, <3>5, <3>6 DEF PanelPageStep
  <2> QED
    BY <1>3, <2>1, <2>2
<1>5. ASSUME NEW t \in PanelTab, t # u,
             SendStep(t) \/ ServerStep(t) \/ LeavePanel(t) \/ FeedbackLost(t) \/ FeedbackAnswered(t)
      PROVE  CallInv(u)'
  <2>1. feedback'[u] = feedback[u] /\ panel'[u] = panel[u]
    BY <1>1, <1>5 DEF SendStep, AttendNo, SaveFeedbackDraft, ConfirmSubmit, SendFeedback, ServerStep,
       CheckFeedback, StoreScorecard, MarkSubmitted, LogFeedback, CountPanel, Counts, NotifyRecruiter,
       FeedbackFails, ServesFeedback, LeavePanel,
       FeedbackLost, FeedbackAnswered
  <2> QED
    BY <1>3, <2>1
<1>6. CASE SendStep(u)
  <2>1. feedback[u] = NoFeedback /\ panel[u].busy # "final"
    BY <1>1, <1>6 DEF SendStep, AttendNo, SaveFeedbackDraft, ConfirmSubmit, SendFeedback, CallInv, NoFeedback
  <2>2. \E k \in {"absent", "draft", "final"} :
          /\ feedback'[u] = [NoFeedback EXCEPT !.kind = k, !.at = "sent"]
          /\ panel'[u].busy = "final" => k = "final"
          /\ panel'[u].page # "success"
    <3>1. CASE AttendNo(u)
      BY <1>1, <2>1, <3>1 DEF AttendNo, SendFeedback
    <3>2. CASE SaveFeedbackDraft(u)
      BY <1>1, <2>1, <3>2 DEF SaveFeedbackDraft, SendFeedback, CanSubmit, FormShown, PanelPage
    <3>3. CASE ConfirmSubmit(u)
      BY <1>1, <2>1, <3>3 DEF ConfirmSubmit, SendFeedback, FormShown, PanelPage
    <3> QED
      BY <1>6, <3>1, <3>2, <3>3 DEF SendStep
  <2> QED
    BY <2>2 DEF CallInv, NoFeedback, PastMark
<1>7. CASE ServerStep(u)
  <2>1. panel' = panel
    BY <1>7 DEF ServerStep, CheckFeedback, StoreScorecard, MarkSubmitted, LogFeedback, CountPanel, Counts,
                NotifyRecruiter, FeedbackFails, ServesFeedback
  <2>2. CASE CheckFeedback(u)
    <3>1. \E a \in {"ok", "failed", "checked"} :
            /\ feedback'[u] = [feedback[u] EXCEPT !.at = a]
            /\ a = "ok" => feedback[u].kind = "absent"
            /\ a = "checked" => feedback[u].kind \in {"draft", "final"}
      BY <1>1, <2>2 DEF CheckFeedback, ServesFeedback, FeedbackCall, CallInv
    <3> QED
      BY <1>1, <1>2, <2>1, <3>1 DEF CallInv, FeedbackCall, PastMark
  <2>3. CASE StoreScorecard(u)
    <3>1. feedback'[u] = [feedback[u] EXCEPT !.at = IF feedback[u].kind = "final" THEN "stored" ELSE "ok"]
      BY <1>1, <2>3 DEF StoreScorecard, ServesFeedback
    <3> QED
      BY <1>1, <1>2, <2>1, <3>1 DEF CallInv, FeedbackCall, PastMark
  <2>4. CASE MarkSubmitted(u)
    <3>1. feedback'[u] = [feedback[u] EXCEPT !.at = "marked"] /\ Mine(u)'.submitted
      BY <1>1, <2>4 DEF MarkSubmitted, ServesFeedback, Mine, Seat
    <3> QED
      BY <1>1, <2>1, <3>1 DEF CallInv, FeedbackCall
  <2>5. CASE LogFeedback(u) \/ CountPanel(u) \/ NotifyRecruiter(u)
    <3>1. /\ feedback'[u].at \in {"logged", "counted", "ok"} /\ feedback'[u].kind = feedback[u].kind
          /\ feedback'[u].heard = feedback[u].heard /\ Mine(u).submitted
      BY <1>1, <2>5 DEF LogFeedback, CountPanel, Counts, NotifyRecruiter, ServesFeedback, CallInv, PastMark,
                        FeedbackCall
    <3> QED
      BY <1>1, <1>2, <2>1, <3>1 DEF CallInv
  <2>6. CASE FeedbackFails(u)
    <3>1. feedback'[u] = [feedback[u] EXCEPT !.at = "failed"]
      BY <1>1, <2>6 DEF FeedbackFails, ServesFeedback
    <3> QED
      BY <1>1, <1>2, <2>1, <3>1 DEF CallInv, FeedbackCall, PastMark
  <2> QED
    BY <1>7, <2>2, <2>3, <2>4, <2>5, <2>6 DEF ServerStep
<1>8. CASE LeavePanel(u)
  <2>1. \E b \in BOOLEAN : feedback'[u] = [feedback[u] EXCEPT !.heard = b]
    BY <1>1, <1>8 DEF LeavePanel
  <2>2. panel'[u] = NoPanelPage
    BY <1>1, <1>8 DEF LeavePanel
  <2> QED
    BY <1>1, <1>2, <2>1, <2>2 DEF CallInv, NoPanelPage, FeedbackCall, PastMark
<1>9. CASE FeedbackLost(u)
  <2>1. /\ feedback'[u] = [feedback[u] EXCEPT !.heard = FALSE]
        /\ panel'[u] = [panel[u] EXCEPT !.page = PageAfterFeedback(u, FALSE), !.busy = "no"]
    BY <1>1, <1>9 DEF FeedbackLost
  <2>2. panel'[u].busy = "no" /\ (panel'[u].page = "success" => panel[u].page = "success")
    BY <1>1, <2>1 DEF PageAfterFeedback, PanelPage
  <2> QED
    BY <1>1, <1>2, <2>1, <2>2 DEF CallInv, FeedbackCall, PastMark
<1>10. CASE FeedbackAnswered(u)
  <2>1. feedback'[u] = NoFeedback
    BY <1>1, <1>10 DEF FeedbackAnswered
  <2>2. CASE ~feedback[u].heard
    <3>1. panel'[u] = panel[u]
      BY <1>10, <2>2 DEF FeedbackAnswered
    <3> QED
      BY <1>1, <1>2, <2>1, <2>2, <3>1 DEF CallInv, NoFeedback, PastMark
  <2>3. CASE feedback[u].heard
    <3>1. panel'[u].busy = "no" /\ panel'[u].page = PageAfterFeedback(u, feedback[u].at = "ok")
      BY <1>1, <1>10, <2>3 DEF FeedbackAnswered, PanelPage
    <3>2. panel'[u].page = "success" => Mine(u).submitted
      BY <1>1, <3>1 DEF PageAfterFeedback, CallInv
    <3> QED
      BY <1>2, <2>1, <3>1, <3>2 DEF CallInv, NoFeedback, PastMark
  <2> QED
    BY <2>2, <2>3
<1>11. CASE UNCHANGED panelVars
  BY <1>3, <1>11 DEF panelVars
<1> QED
  BY <1>4, <1>5, <1>6, <1>7, <1>8, <1>9, <1>10, <1>11, PanelSteps

LEMMA PanelInitInv == PanelInit => PanelInv
<1> SUFFICES ASSUME PanelInit PROVE PanelInv
  OBVIOUS
<1>1. \A t \in PanelTab : panel[t] = NoPanelPage /\ feedback[t] = NoFeedback
  BY DEF PanelInit
<1>2. \A t \in PanelTab : CallInv(t)
  BY <1>1 DEF CallInv, NoPanelPage, NoFeedback, PastMark
<1> QED
  BY <1>2, PanelInitTypes DEF PanelInv

LEMMA PanelStep == PanelInv /\ [PanelNext]_panelVars => PanelInv'
BY PanelTypesStep, CallInvStep DEF PanelInv

\* Seats, pages and calls keep their types, and a call that is past the mark has it,
\* whatever overlaps.
THEOREM PanelInvariance == PanelSpec => []PanelInv
BY PanelInitInv, PanelStep, PTL DEF PanelSpec

\* "Feedback Submitted!" is shown only for feedback that is in, for any panel and any
\* number of tabs (PanelPage.jsx, confirmSubmit).
THEOREM SuccessIsTrue == PanelSpec => []SuccessIsIn
<1>1. PanelInv => SuccessIsIn
  BY DEF PanelInv, CallInv, SuccessIsIn
<1> QED
  BY PanelInvariance, <1>1, PTL

\* A call that will tell, or has told, that all feedback is in.
Telling(t) ==
    feedback[t].at \in {"marked", "logged"} \/ (feedback[t].at = "counted" /\ feedback[t].full)
ToldOrTelling ==
    CountSubmitted /\ notice.creator /\ ~notice.cut => notice.allIn \/ \E t \in PanelTab : Telling(t)

\* Only a mark makes the panel complete, and its call counts after it: the message is
\* not lost between panelists who finish at the same time.
LEMMA ToldStep ==
    PanelInv /\ ToldOrTelling /\ [PanelNext]_panelVars => ToldOrTelling'
<1> SUFFICES ASSUME PanelInv, ToldOrTelling, [PanelNext]_panelVars,
                    CountSubmitted', notice'.creator, ~notice'.cut
             PROVE  notice'.allIn \/ \E t \in PanelTab : Telling(t)'
  BY DEF ToldOrTelling
<1> USE PanelAssumption
<1>1. /\ seat \in [Panelist -> Seat] /\ feedback \in [PanelTab -> FeedbackCall] /\ notice \in Notice
  BY TypeParts DEF PanelInv
<1>2. CASE /\ \A p \in Panelist : seat'[p].submitted = seat[p].submitted
           /\ notice' = notice
           /\ \A t \in PanelTab : Telling(t) => Telling(t)'
  BY <1>2 DEF ToldOrTelling, CountSubmitted
<1>3. ASSUME NEW t \in PanelTab,
             PanelPageStep(t) \/ SendStep(t) \/ LeavePanel(t) \/ FeedbackLost(t) \/ FeedbackAnswered(t)
      PROVE  notice'.allIn \/ \E u \in PanelTab : Telling(u)'
  <2>1. seat' = seat /\ notice' = notice
    BY <1>3 DEF PanelPageStep, PanelKeeps, OpenPanel, AttendYes, FillRatings, WriteNotes, HandleEnrich,
              HandleSubmitFeedback, CancelConfirm, LoadPanel, EnrichAnswered, ChooseEnriched,
              SendStep, AttendNo, SaveFeedbackDraft, ConfirmSubmit, SendFeedback, LeavePanel,
              FeedbackLost, FeedbackAnswered
  <2>2. \A u \in PanelTab : Telling(u) => Telling(u)'
    <3>1. CASE PanelPageStep(t)
      BY <3>1 DEF PanelPageStep, PanelKeeps, OpenPanel, AttendYes, FillRatings, WriteNotes, HandleEnrich,
              HandleSubmitFeedback, CancelConfirm, LoadPanel, EnrichAnswered, ChooseEnriched, Telling
    <3>2. CASE SendStep(t)
      BY <1>1, <3>2 DEF SendStep, AttendNo, SaveFeedbackDraft, ConfirmSubmit, SendFeedback, NoFeedback, Telling
    <3>3. CASE FeedbackAnswered(t)
      BY <1>1, <3>3 DEF FeedbackAnswered, Telling
    <3>4. CASE LeavePanel(t)
      BY <1>1, <3>4 DEF LeavePanel, FeedbackCall, Telling
    <3>5. CASE FeedbackLost(t)
      BY <1>1, <3>5 DEF FeedbackLost, FeedbackCall, Telling
    <3> QED
      BY <1>3, <3>1, <3>2, <3>3, <3>4, <3>5
  <2> QED
    BY <1>2, <2>1, <2>2
<1>4. ASSUME NEW t \in PanelTab, CheckFeedback(t) \/ StoreScorecard(t)
      PROVE  notice'.allIn \/ \E u \in PanelTab : Telling(u)'
  <2>1. notice' = notice /\ \A p \in Panelist : seat'[p].submitted = seat[p].submitted
    BY <1>1, <1>4 DEF CheckFeedback, StoreScorecard, Seat
  <2>2. \A u \in PanelTab : Telling(u) => Telling(u)'
    BY <1>1, <1>4 DEF CheckFeedback, StoreScorecard, ServesFeedback, Telling
  <2> QED
    BY <1>2, <2>1, <2>2
<1>5. ASSUME NEW t \in PanelTab, MarkSubmitted(t) \/ LogFeedback(t) PROVE Telling(t)'
  BY <1>1, <1>5 DEF MarkSubmitted, LogFeedback, ServesFeedback, FeedbackCall, Telling
<1>6. ASSUME NEW t \in PanelTab, CountPanel(t) PROVE Telling(t)'
  <2>1. seat' = seat /\ feedback'[t].at = "counted" /\ feedback'[t].full = CountSubmitted
    BY <1>1, <1>6 DEF CountPanel, Counts, FeedbackCall
  <2>2. CountSubmitted
    BY <2>1 DEF CountSubmitted
  <2> QED
    BY <2>1, <2>2 DEF Telling
<1>7. ASSUME NEW t \in PanelTab, NotifyRecruiter(t)
      PROVE  notice'.allIn \/ \E u \in PanelTab : Telling(u)'
  <2>1. /\ seat' = seat /\ notice'.creator = notice.creator /\ notice'.cut = notice.cut
        /\ notice'.allIn = (notice.allIn \/ (feedback[t].full /\ notice.creator))
    BY <1>1, <1>7 DEF NotifyRecruiter, Notice
  <2>2. CountSubmitted
    BY <2>1 DEF CountSubmitted
  <2>3. CASE notice.allIn
    BY <2>1, <2>3
  <2>4. ASSUME NEW u \in PanelTab, Telling(u) PROVE notice'.allIn \/ Telling(u)'
    <3>1. CASE u = t
      BY <1>7, <2>1, <2>4, <3>1 DEF NotifyRecruiter, Telling
    <3>2. CASE u # t
      BY <1>1, <1>7, <2>4, <3>2 DEF NotifyRecruiter, ServesFeedback, Telling
    <3> QED
      BY <3>1, <3>2
  <2> QED
    BY <2>1, <2>2, <2>3, <2>4 DEF ToldOrTelling
<1>8. ASSUME NEW t \in PanelTab, FeedbackFails(t)
      PROVE  notice'.allIn \/ \E u \in PanelTab : Telling(u)'
  <2>1. /\ seat' = seat /\ notice'.creator = notice.creator /\ notice'.allIn = notice.allIn
        /\ notice'.cut = (notice.cut \/ feedback[t].at \in PastMark)
    BY <1>1, <1>8 DEF FeedbackFails, Notice
  <2>2. CountSubmitted /\ ~notice.cut /\ ~Telling(t)
    BY <2>1 DEF CountSubmitted, Telling, PastMark
  <2>3. \A u \in PanelTab : Telling(u) => Telling(u)'
    BY <1>1, <1>8, <2>2 DEF FeedbackFails, ServesFeedback, Telling
  <2> QED
    BY <2>1, <2>2, <2>3 DEF ToldOrTelling
<1>9. CASE UNCHANGED panelVars
  BY <1>2, <1>9 DEF panelVars, Telling
<1> QED
  BY <1>3, <1>4, <1>5, <1>6, <1>7, <1>8, <1>9, PanelSteps DEF ServerStep

\* When all have submitted and their calls are through, the recruiter was told, however
\* many panelists finish at once, unless there is none or a call was cut short after
\* the last mark (interview_service.py, submit_feedback).
THEOREM LastOneTells == PanelSpec => []AllInAnnounced
<1>1. PanelInit => ToldOrTelling
  BY PanelAssumption DEF PanelInit, ToldOrTelling, CountSubmitted
<1>2. ToldOrTelling => AllInAnnounced
  BY DEF ToldOrTelling, AllInAnnounced, Telling, PastMark
<1> QED
  BY PanelInvariance, ToldStep, <1>1, <1>2, PTL DEF PanelSpec

-----------------------------------------------------------------------------
(**************************************************************************)
(* The interview rounds. A debrief is drafted from feedback that is whole: *)
(* a tab asks for it from a copy of the round, and the copies, however     *)
(* old, show no feedback that was not there.                               *)
(**************************************************************************)

IvPage ==
    [loading : BOOLEAN, seen : RoundSeen, modal : BOOLEAN,
     plan : {"blank", "panel", "asked", "slots", "full"}, scheduling : BOOLEAN]
IvAsk == CardAsk \cup {"none", "create", "panel", "event", "calendar", "hurry", "draft"}

\* Once the panel is on record a mark of its feedback is never taken back: a copy that
\* shows them all, and a debrief that was asked for from such a copy, are right however
\* old they are.
AllMarked(row) == row.panel /\ row.fed
CopyIsPast(p) == AllMarked(p.seen) => AllMarked(round.row)
IvInv ==
    /\ IvTypeOK
    /\ \A t \in IvTab : CopyIsPast(ivpage[t])
    /\ \A t \in IvTab : ivcall[t] = "debrief" => AllMarked(round.row)
    /\ NoEarlyDebrief

LEMMA IvStarts == IvInit => IvInv
BY DEF IvInit, IvInv, IvTypeOK, CopyIsPast, AllMarked, NoEarlyDebrief, NoRoundSeen, RoundSeen, CardAsk, Drafted

\* What a write makes of the row: the panel and its marks stay.
LEMMA AfterWriteRow ==
    ASSUME NEW row \in RoundSeen, NEW act \in IvAsk
    PROVE  AfterWrite(row, act) \in RoundSeen /\ AllMarked(AfterWrite(row, act)) = AllMarked(row)
BY DEF AfterWrite, AllMarked, RoundSeen, IvAsk, CardAsk

\* A page's plan and copy, as the tab's own steps change them.
LEMMA PageValues ==
    ASSUME NEW p \in IvPage
    PROVE  /\ \A plan \in {"blank", "panel", "asked", "slots", "full"} : [p EXCEPT !.plan = plan] \in IvPage
           /\ \A plan \in {"blank", "panel", "asked", "slots", "full"} : [p EXCEPT !.plan = plan].seen = p.seen
           /\ Reading(p) \in IvPage /\ Reading(p).seen = p.seen
           /\ [Reading(p) EXCEPT !.modal = FALSE] \in IvPage /\ [Reading(p) EXCEPT !.modal = FALSE].seen = p.seen
BY DEF IvPage, Reading

\* What a step does to one page: the copy is kept, or brought by a read.
PageKept(t) ==
    \E p \in IvPage : ivpage' = [ivpage EXCEPT ![t] = p] /\ p.seen \in {ivpage[t].seen, round.row}

\* What a step does to the round: the marks of a panel on record are never taken back.
LEMMA RoundSteps ==
    ASSUME IvInv, IvNext
    PROVE  /\ round' \in [row : RoundSeen, cards : BOOLEAN, debrief : Drafted]
           /\ AllMarked(round.row) => AllMarked(round'.row)
           /\ round'.debrief # "early"
<1>1. /\ round \in [row : RoundSeen, cards : BOOLEAN, debrief : Drafted]
      /\ ivcall \in [IvTab -> IvAsk]
      /\ \A t \in IvTab : ivcall[t] = "debrief" => AllMarked(round.row)
      /\ round.debrief # "early"
  BY DEF IvInv, IvTypeOK, NoEarlyDebrief, IvAsk
<1>2. ASSUME NEW t \in IvTab, NEW done \in BOOLEAN, Written(t, done)
      PROVE  /\ round' \in [row : RoundSeen, cards : BOOLEAN, debrief : Drafted]
             /\ AllMarked(round.row) => AllMarked(round'.row)
             /\ round'.debrief # "early"
  <2>1. round.row \in RoundSeen /\ ivcall[t] \in IvAsk
    BY <1>1
  <2> DEFINE row == IF done THEN AfterWrite(round.row, ivcall[t]) ELSE round.row
  <2>2. row \in RoundSeen /\ AllMarked(row) = AllMarked(round.row)
    BY <2>1, AfterWriteRow
  <2>3. round' = [round EXCEPT !.row = row]
    BY <1>2 DEF Written
  <2> HIDE DEF row
  <2> QED
    BY <1>1, <2>2, <2>3
<1>3. ASSUME PanelFeeds
      PROVE  /\ round' \in [row : RoundSeen, cards : BOOLEAN, debrief : Drafted]
             /\ AllMarked(round.row) => AllMarked(round'.row)
             /\ round'.debrief # "early"
  <2>1. PICK fed \in BOOLEAN, cards \in BOOLEAN :
           /\ AllMarked(round.row) => fed
           /\ round' = [round EXCEPT !.row.fed = fed, !.cards = cards]
    BY <1>3 DEF PanelFeeds, AllMarked
  <2> QED
    BY <1>1, <2>1 DEF RoundSeen, AllMarked
<1>4. ASSUME PanelOnRecord
      PROVE  /\ round' \in [row : RoundSeen, cards : BOOLEAN, debrief : Drafted]
             /\ AllMarked(round.row) => AllMarked(round'.row)
             /\ round'.debrief # "early"
  <2>1. ~AllMarked(round.row) /\ round' = [round EXCEPT !.row.panel = TRUE, !.row.fed = FALSE]
    BY <1>4 DEF PanelOnRecord, AllMarked
  <2> QED
    BY <1>1, <2>1 DEF RoundSeen
<1>5. ASSUME NEW t \in IvTab, CreateRound(t)
      PROVE  /\ round' \in [row : RoundSeen, cards : BOOLEAN, debrief : Drafted]
             /\ AllMarked(round.row) => AllMarked(round'.row)
             /\ round'.debrief # "early"
  <2>1. CASE round.row.status = "none"
    <3>1. round' = [round EXCEPT !.row.status = "scheduled", !.row.fed = TRUE]
      BY <1>5, <2>1 DEF CreateRound
    <3> QED
      BY <1>1, <3>1 DEF RoundSeen, AllMarked
  <2>2. CASE round.row.status # "none"
    <3>1. UNCHANGED round
      BY <1>5, <2>2 DEF CreateRound
    <3> QED
      BY <1>1, <3>1
  <2> QED
    BY <2>1, <2>2
<1>6. ASSUME NEW t \in IvTab, ReadScorecards(t)
      PROVE  /\ round' \in [row : RoundSeen, cards : BOOLEAN, debrief : Drafted]
             /\ AllMarked(round.row) => AllMarked(round'.row)
             /\ round'.debrief # "early"
  <2>1. PICK drafted \in Drafted \ {"early"} : round' = [round EXCEPT !.debrief = drafted]
    <3>1. ivcall[t] = "hurry" \/ AllMarked(round.row)
      BY <1>1, <1>6 DEF ReadScorecards
    <3> QED
      BY <1>6, <3>1 DEF ReadScorecards, AllMarked, Drafted
  <2> QED
    BY <1>1, <2>1
<1>7. CASE UNCHANGED round
  BY <1>1, <1>7
<1> QED
  BY <1>2, <1>3, <1>4, <1>5, <1>6, <1>7
  DEF IvNext, LoadRounds, OpenSchedule, CloseSchedule, AddPanelMember, RemovePanelMember, FetchAvailability,
      PickSlot, SetScheduledAt, SubmitSchedule, Act, RoundsLoaded, AvailabilityAnswered, ModalSets, Plans,
      IvSends, ScheduleServed, CardServed, DebriefServed

\* A page keeps a copy of the past.
LEMMA PageSteps ==
    ASSUME IvInv, IvNext
    PROVE  UNCHANGED ivpage \/ \E t \in IvTab : PageKept(t)
<1>1. round.row \in RoundSeen /\ ivpage \in [IvTab -> IvPage]
  BY DEF IvInv, IvTypeOK, IvPage
<1>2. ASSUME NEW t \in IvTab PROVE ivpage[t] \in IvPage
  BY <1>1, <1>2
<1>3. ASSUME NEW t \in IvTab, LoadRounds(t) PROVE PageKept(t)
  BY <1>1, <1>2, <1>3, PageValues DEF LoadRounds, PageKept
<1>4. ASSUME NEW t \in IvTab, NEW ok \in BOOLEAN, RoundsLoaded(t, ok) PROVE PageKept(t)
  <2> DEFINE seen == IF ok THEN round.row ELSE ivpage[t].seen
             p == [ivpage[t] EXCEPT !.seen = seen, !.loading = FALSE]
  <2>1. ivpage' = [ivpage EXCEPT ![t] = p]
    BY <1>1, <1>4 DEF RoundsLoaded
  <2>2. seen \in RoundSeen /\ seen \in {ivpage[t].seen, round.row}
    BY <1>1, <1>2 DEF IvPage
  <2> HIDE DEF seen
  <2>3. p \in IvPage /\ p.seen = seen
    BY <1>2, <2>2 DEF IvPage
  <2> QED
    BY <2>1, <2>2, <2>3 DEF PageKept
<1>5. ASSUME NEW t \in IvTab, OpenSchedule(t) \/ CloseSchedule(t) PROVE PageKept(t)
  <2>1. ivpage[t] \in IvPage
    BY <1>2
  <2>2. \A plan \in {ivpage[t].plan, "panel"}, modal \in BOOLEAN :
           LET p == [ivpage[t] EXCEPT !.modal = modal, !.plan = plan] IN p \in IvPage /\ p.seen = ivpage[t].seen
    BY <2>1 DEF IvPage
  <2>3. CASE OpenSchedule(t)
    <3> DEFINE plan == IF ivpage[t].plan \in {"asked", "slots"} THEN "panel" ELSE ivpage[t].plan
    <3>1. ivpage' = [ivpage EXCEPT ![t] = [ivpage[t] EXCEPT !.modal = TRUE, !.plan = plan]]
      BY <2>1, <2>3 DEF OpenSchedule, ModalSets, IvPage
    <3>2. plan \in {ivpage[t].plan, "panel"}
      OBVIOUS
    <3> QED
      BY <2>2, <3>1, <3>2 DEF PageKept
  <2>4. CASE CloseSchedule(t)
    <3>1. ivpage' = [ivpage EXCEPT ![t] = [ivpage[t] EXCEPT !.modal = FALSE]]
      BY <2>4 DEF CloseSchedule, ModalSets
    <3>2. [ivpage[t] EXCEPT !.modal = FALSE] \in IvPage /\ [ivpage[t] EXCEPT !.modal = FALSE].seen = ivpage[t].seen
      BY <2>1 DEF IvPage
    <3> QED
      BY <3>1, <3>2 DEF PageKept
  <2> QED
    BY <1>5, <2>3, <2>4
<1>6. ASSUME NEW t \in IvTab,
             \/ AddPanelMember(t) \/ RemovePanelMember(t) \/ FetchAvailability(t) \/ PickSlot(t)
             \/ SetScheduledAt(t) \/ \E ok \in BOOLEAN : AvailabilityAnswered(t, ok)
      PROVE  PageKept(t)
  <2>1. PICK plan \in {"blank", "panel", "asked", "slots", "full"} :
            ivpage' = [ivpage EXCEPT ![t] = [ivpage[t] EXCEPT !.plan = plan]]
    BY <1>6 DEF AddPanelMember, RemovePanelMember, FetchAvailability, PickSlot, SetScheduledAt,
                AvailabilityAnswered, Plans, ModalSets
  <2> QED
    BY <1>2, <2>1, PageValues DEF PageKept
<1>7. ASSUME NEW t \in IvTab, SubmitSchedule(t) PROVE PageKept(t)
  <2>1. ivpage' = [ivpage EXCEPT ![t] = [ivpage[t] EXCEPT !.scheduling = TRUE]]
    BY <1>1, <1>7 DEF SubmitSchedule
  <2>2. [ivpage[t] EXCEPT !.scheduling = TRUE] \in IvPage
        /\ [ivpage[t] EXCEPT !.scheduling = TRUE].seen = ivpage[t].seen
    BY <1>2 DEF IvPage
  <2> QED
    BY <2>1, <2>2 DEF PageKept
<1>8. ASSUME NEW t \in IvTab, NEW done \in BOOLEAN, NEW ok \in BOOLEAN,
             ScheduleServed(t, done, ok) \/ CardServed(t, done, ok)
      PROVE  UNCHANGED ivpage \/ PageKept(t)
  <2>1. ivpage[t] \in IvPage
    BY <1>2
  <2>2. \/ UNCHANGED ivpage
        \/ ivpage' = [ivpage EXCEPT ![t] = [Reading(ivpage[t]) EXCEPT !.modal = FALSE]]
        \/ ivpage' = [ivpage EXCEPT ![t] = [ivpage[t] EXCEPT !.scheduling = FALSE]]
        \/ ivpage' = [ivpage EXCEPT ![t] = Reading(ivpage[t])]
        \/ ivpage' = [ivpage EXCEPT ![t] = ivpage[t]]
    BY <1>1, <1>8 DEF ScheduleServed, CardServed
  <2>3. /\ [ivpage[t] EXCEPT !.scheduling = FALSE] \in IvPage
        /\ [ivpage[t] EXCEPT !.scheduling = FALSE].seen = ivpage[t].seen
    BY <2>1 DEF IvPage
  <2> QED
    BY <2>1, <2>2, <2>3, PageValues DEF PageKept
<1>9. CASE UNCHANGED ivpage
  BY <1>9
<1> QED
  BY <1>3, <1>4, <1>5, <1>6, <1>7, <1>8, <1>9
  DEF IvNext, PanelOnRecord, PanelFeeds, CreateRound, Act, ReadScorecards, DebriefServed

\* A debrief is asked for from a copy that shows a panel on record with all its marks.
LEMMA IvCallSteps ==
    ASSUME IvInv, IvNext
    PROVE  /\ ivcall' \in [IvTab -> IvAsk]
           /\ \A t \in IvTab : ivcall'[t] = "debrief" => AllMarked(round.row)
<1>1. /\ ivcall \in [IvTab -> IvAsk]
      /\ \A t \in IvTab : ivcall[t] = "debrief" => AllMarked(round.row)
      /\ \A t \in IvTab : CopyIsPast(ivpage[t])
  BY DEF IvInv, IvTypeOK, IvAsk
<1>2. ASSUME NEW t \in IvTab, NEW act \in IvAsk, ivcall' = [ivcall EXCEPT ![t] = act],
             act = "debrief" => AllMarked(round.row)
      PROVE  /\ ivcall' \in [IvTab -> IvAsk]
             /\ \A u \in IvTab : ivcall'[u] = "debrief" => AllMarked(round.row)
  BY <1>1, <1>2
<1>3. CASE UNCHANGED ivcall
  BY <1>1, <1>3
<1>4. ASSUME NEW t \in IvTab, NEW act \in CardAsk, Act(t, act)
      PROVE  /\ ivcall' \in [IvTab -> IvAsk]
             /\ \A u \in IvTab : ivcall'[u] = "debrief" => AllMarked(round.row)
  <2> DEFINE sent == IF act = "debrief" /\ ~ivpage[t].seen.panel THEN "hurry" ELSE act
  <2>1. sent \in IvAsk /\ ivcall' = [ivcall EXCEPT ![t] = sent]
    BY <1>4 DEF Act, IvSends, IvAsk
  <2>2. sent = "debrief" => AllMarked(ivpage[t].seen)
    BY <1>4 DEF Act, CanAct, AllMarked
  <2>3. sent = "debrief" => AllMarked(round.row)
    BY <1>1, <2>2 DEF CopyIsPast
  <2> HIDE DEF sent
  <2> QED
    BY <1>2, <2>1, <2>3
<1>5. ASSUME NEW t \in IvTab, NEW done \in BOOLEAN, NEW ok \in BOOLEAN,
             \/ SubmitSchedule(t) \/ CreateRound(t) \/ ReadScorecards(t)
             \/ ScheduleServed(t, done, ok) \/ CardServed(t, done, ok) \/ DebriefServed(t, done)
      PROVE  /\ ivcall' \in [IvTab -> IvAsk]
             /\ \A u \in IvTab : ivcall'[u] = "debrief" => AllMarked(round.row)
  <2>1. \E act \in {"create", "panel", "event", "draft", "calendar", "none"} : ivcall' = [ivcall EXCEPT ![t] = act]
    BY <1>5 DEF SubmitSchedule, CreateRound, IvSends, ReadScorecards, ScheduleServed, CardServed, DebriefServed
  <2> QED
    BY <1>2, <2>1 DEF IvAsk
<1>6. ASSUME PanelOnRecord
      PROVE  /\ ivcall' \in [IvTab -> IvAsk]
             /\ \A u \in IvTab : ivcall'[u] = "debrief" => AllMarked(round.row)
  <2>1. ivcall' = [t \in IvTab |-> IF ivcall[t] = "panel" THEN "event" ELSE ivcall[t]]
    BY <1>6 DEF PanelOnRecord
  <2> QED
    BY <1>1, <2>1 DEF IvAsk
<1> QED
  BY <1>3, <1>4, <1>5, <1>6
  DEF IvNext, PanelFeeds, LoadRounds, OpenSchedule, CloseSchedule, AddPanelMember, RemovePanelMember,
      FetchAvailability, PickSlot, SetScheduledAt, RoundsLoaded, AvailabilityAnswered, ModalSets, Plans

\* The invariant from what a step does to the round, the pages and the calls.
LEMMA IvInvStep == IvInv /\ [IvNext]_ivVars => IvInv'
<1>1. ASSUME IvInv, UNCHANGED ivVars PROVE IvInv'
  BY <1>1 DEF IvInv, IvTypeOK, CopyIsPast, AllMarked, NoEarlyDebrief, ivVars
<1>2. ASSUME IvInv, IvNext PROVE IvInv'
  <2>1. /\ round' \in [row : RoundSeen, cards : BOOLEAN, debrief : Drafted]
        /\ AllMarked(round.row) => AllMarked(round'.row)
        /\ round'.debrief # "early"
    BY <1>2, RoundSteps
  <2>2. ivcall' \in [IvTab -> IvAsk] /\ \A t \in IvTab : ivcall'[t] = "debrief" => AllMarked(round'.row)
    BY <1>2, <2>1, IvCallSteps
  <2>3. ivpage \in [IvTab -> IvPage] /\ \A t \in IvTab : AllMarked(ivpage[t].seen) => AllMarked(round.row)
    BY <1>2 DEF IvInv, IvTypeOK, IvPage, CopyIsPast
  <2>4. ivpage' \in [IvTab -> IvPage] /\ \A t \in IvTab : AllMarked(ivpage'[t].seen) => AllMarked(round'.row)
    <3>1. CASE UNCHANGED ivpage
      BY <2>1, <2>3, <3>1
    <3>2. ASSUME NEW u \in IvTab, PageKept(u)
          PROVE  ivpage' \in [IvTab -> IvPage] /\ \A t \in IvTab : AllMarked(ivpage'[t].seen) => AllMarked(round'.row)
      <4>1. PICK p \in IvPage : ivpage' = [ivpage EXCEPT ![u] = p] /\ p.seen \in {ivpage[u].seen, round.row}
        BY <3>2 DEF PageKept
      <4>2. AllMarked(p.seen) => AllMarked(round.row)
        BY <2>3, <4>1
      <4> QED
        BY <2>1, <2>3, <4>1, <4>2
    <3> QED
      BY <1>2, <3>1, <3>2, PageSteps
  <2> QED
    BY <2>1, <2>2, <2>4 DEF IvInv, IvTypeOK, IvPage, IvAsk, CopyIsPast, NoEarlyDebrief
<1> QED
  BY <1>1, <1>2

\* For any number of tabs, each with a copy of any age: no debrief asked from a copy as
\* young as the panel is drafted before the whole panel is marked.
THEOREM DebriefsComeLate == IvSpec => []NoEarlyDebrief
<1>1. IvInv => NoEarlyDebrief
  BY DEF IvInv
<1> QED
  BY IvStarts, IvInvStep, <1>1, PTL DEF IvSpec

\* The round, the tabs and their calls keep their types.
THEOREM RoundTypes == IvSpec => []IvTypeOK
<1>1. IvInv => IvTypeOK
  BY DEF IvInv
<1> QED
  BY IvStarts, IvInvStep, <1>1, PTL DEF IvSpec

-----------------------------------------------------------------------------
(**************************************************************************)
(* The pipeline board. A move that is repeated for one list goes where it  *)
(* went before.                                                            *)
(**************************************************************************)

\* What the proof needs of the types: which fields the records have.
BoardFields ==
    /\ DOMAIN board = {"at", "stage", "kanban", "loading", "focus", "view", "summing"}
    /\ \A m \in moves : DOMAIN m = {"cand", "to", "fresh", "here"}

\* A move made for the list that is still shown goes one stage from where the list
\* shows its candidate; a page that was left shows no list.
MovesInv ==
    /\ BoardFields
    /\ \A m \in moves : m.fresh => board.at # "away" /\ m.to = NextStage(m.cand)

LEMMA BoardStarts == BoardInit => MovesInv
BY DEF BoardInit, MovesInv, BoardFields, BoardClosed

\* A step that makes no move and keeps the list, or that begins with no page.
LEMMA MovesKept ==
    ASSUME MovesInv, moves' \subseteq moves,
           DOMAIN board' = DOMAIN board,
           board.at = "away" \/ (board'.kanban = board.kanban /\ board'.at # "away")
    PROVE  MovesInv'
<1>1. ASSUME NEW m \in moves', m.fresh PROVE board'.at # "away" /\ m.to = NextStage(m.cand)'
  <2>1. board.at # "away" /\ m.to = NextStage(m.cand)
    BY <1>1 DEF MovesInv
  <2>2. board'.kanban = board.kanban /\ board'.at # "away"
    BY <2>1
  <2> QED
    BY <2>1, <2>2 DEF NextStage
<1> QED
  BY <1>1 DEF MovesInv, BoardFields

\* A new list, or another tab: the moves on their way were made for an earlier one.
LEMMA MovesStale ==
    ASSUME MovesInv, DOMAIN board' = DOMAIN board,
           \A m \in moves' : DOMAIN m = {"cand", "to", "fresh", "here"} /\ ~m.fresh
    PROVE  MovesInv'
BY DEF MovesInv, BoardFields

\* A move that is made leaves the page as it is.
LEMMA MoveMade ==
    ASSUME MovesInv, UNCHANGED board, NEW c, NEW to, NEW next \in BOOLEAN,
           HandleMove(c, to, next), next => to = NextStage(c) /\ board.at = "pipeline"
    PROVE  MovesInv'
<1> DEFINE new == [cand |-> c, to |-> to, fresh |-> next, here |-> TRUE]
<1>1. moves' = moves \cup {new}
  BY DEF HandleMove
<1>2. DOMAIN new = {"cand", "to", "fresh", "here"} /\ new.cand = c /\ new.to = to /\ new.fresh = next
  OBVIOUS
<1> HIDE DEF new
<1>3. \A m \in moves' : DOMAIN m = {"cand", "to", "fresh", "here"}
  BY <1>1, <1>2 DEF MovesInv, BoardFields
<1>4. \A m \in moves' : m.fresh => board.at # "away" /\ m.to = NextStage(m.cand)
  BY <1>1, <1>2 DEF MovesInv
<1> QED
  BY <1>3, <1>4 DEF MovesInv, BoardFields, NextStage

\* One step per action of BoardNext.
LEMMA MovesInvStep == MovesInv /\ [BoardNext]_boardVars => MovesInv'
<1> SUFFICES ASSUME MovesInv, [BoardNext]_boardVars PROVE MovesInv'
  OBVIOUS
<1>1. /\ DOMAIN board = {"at", "stage", "kanban", "loading", "focus", "view", "summing"}
      /\ \A m \in moves : DOMAIN m = {"cand", "to", "fresh", "here"}
      /\ \A m \in moves : m.fresh => board.at # "away"
  BY DEF MovesInv, BoardFields
<1>2. ASSUME UNCHANGED board, moves' \subseteq moves PROVE MovesInv'
  <2>1. CASE board.at = "away"
    BY <1>2, <2>1, MovesKept
  <2>2. CASE board.at # "away"
    BY <1>2, <2>2, MovesKept
  <2> QED
    BY <2>1, <2>2
<1>3. ASSUME \/ moves' = {[m EXCEPT !.fresh = FALSE, !.here = FALSE] : m \in moves}
             \/ moves' = {[m EXCEPT !.fresh = FALSE] : m \in moves}
      PROVE  \A m \in moves' : DOMAIN m = {"cand", "to", "fresh", "here"} /\ ~m.fresh
  <2> SUFFICES ASSUME NEW n \in moves' PROVE DOMAIN n = {"cand", "to", "fresh", "here"} /\ ~n.fresh
    OBVIOUS
  <2>1. PICK m \in moves : n = [m EXCEPT !.fresh = FALSE, !.here = FALSE] \/ n = [m EXCEPT !.fresh = FALSE]
    BY <1>3
  <2>2. DOMAIN m = {"cand", "to", "fresh", "here"}
    BY <1>1
  <2> QED
    BY <2>1, <2>2
<1>4. CASE OpenPosition
  <2>1. board' = [BoardClosed EXCEPT !.at = "loading", !.summing = TRUE] /\ moves' = moves /\ board.at = "away"
    BY <1>4 DEF OpenPosition
  <2>2. DOMAIN board' = DOMAIN board
    BY <1>1, <2>1 DEF BoardClosed
  <2> QED
    BY <2>1, <2>2, MovesKept
<1>5. CASE PositionArrives
  <2>1. /\ board.at = "loading" /\ moves' = moves
        /\ \/ board' = [board EXCEPT !.at = "pipeline", !.loading = TRUE]
           \/ board' = [board EXCEPT !.at = "error"]
    BY <1>5 DEF PositionArrives
  <2>2. DOMAIN board' = DOMAIN board /\ board'.kanban = board.kanban /\ board'.at # "away"
    BY <1>1, <2>1
  <2> QED
    BY <2>1, <2>2, MovesKept
<1>6. CASE LeavePosition
  <2>1. board' = BoardClosed /\ moves' = {[m EXCEPT !.fresh = FALSE, !.here = FALSE] : m \in moves}
    BY <1>6 DEF LeavePosition
  <2>2. DOMAIN board' = DOMAIN board
    BY <1>1, <2>1 DEF BoardClosed
  <2> QED
    BY <1>3, <2>1, <2>2, MovesStale
<1>7. ASSUME NEW tab \in {"pipeline", "candidates", "other"}, SwitchTab(tab) PROVE MovesInv'
  <2>1. moves' = {[m EXCEPT !.fresh = FALSE, !.here = FALSE] : m \in moves}
    BY <1>7 DEF SwitchTab, Unmounted
  <2>2. DOMAIN board' = DOMAIN board
    BY <1>7 DEF SwitchTab, Unmounted
  <2> QED
    BY <1>3, <2>1, <2>2, MovesStale
<1>8. ASSUME NEW r \in boardReads, PipelineArrives(r) PROVE MovesInv'
  <2>1. moves' = {[m EXCEPT !.fresh = FALSE] : m \in moves}
    BY <1>8 DEF PipelineArrives
  <2>2. DOMAIN board' = DOMAIN board
    BY <1>8 DEF PipelineArrives
  <2> QED
    BY <1>3, <2>1, <2>2, MovesStale
<1>9. ASSUME moves' = moves,
             \/ \E s, f : board' = [board EXCEPT !.stage = s, !.focus = f]
             \/ \E s, f, x : board' = [[board EXCEPT !.stage = s, !.focus = f] EXCEPT !.summing = x]
             \/ \E x : board' = [board EXCEPT !.summing = x]
             \/ \E v : board' = [board EXCEPT !.view = v]
             \/ \E f : board' = [board EXCEPT !.focus = f]
             \/ \E l : board' = [board EXCEPT !.loading = l]
      PROVE  MovesInv'
  <2>1. DOMAIN board' = DOMAIN board /\ board'.kanban = board.kanban /\ board'.at = board.at
    BY <1>1, <1>9
  <2>2. board.at = "away" \/ board.at # "away"
    OBVIOUS
  <2> QED
    BY <1>9, <2>1, <2>2, MovesKept
<1>10. ASSUME NEW s \in BoardStage, PickStage(s) PROVE MovesInv'
  BY <1>9, <1>10 DEF PickStage, Showing
<1>11. CASE ToggleView \/ \E d \in {"up", "down"} : KeyArrow(d)
  BY <1>9, <1>11 DEF ToggleView, KeyArrow
<1>12. ASSUME NEW ok \in BOOLEAN, SummaryArrives(ok) PROVE MovesInv'
  <2>1. UNCHANGED <<appStage, mailed, rowsTab, moves, boardReads>>
    BY <1>12 DEF SummaryArrives
  <2>2. CASE ok
    <3>1. PICK s \in BoardStage : board' = [Showing(s) EXCEPT !.summing = FALSE]
      BY <1>12, <2>2 DEF SummaryArrives
    <3> QED
      BY <1>9, <2>1, <3>1 DEF Showing
  <2>3. CASE ~ok
    BY <1>9, <1>12, <2>1, <2>3 DEF SummaryArrives
  <2> QED
    BY <2>2, <2>3
<1>13. ASSUME NEW r \in boardReads, ReadLost(r) PROVE MovesInv'
  BY <1>2, <1>9, <1>13 DEF ReadLost
<1>14. CASE KeyMove
  BY <1>14, MoveMade DEF KeyMove, KeysOn
<1>15. ASSUME NEW c \in BoardCand, ButtonMove(c) PROVE MovesInv'
  BY <1>15, MoveMade DEF ButtonMove, StackOn, StackShown
<1>16. ASSUME NEW c \in BoardCand, NEW s \in BoardStage, MenuMove(c, s) PROVE MovesInv'
  BY <1>16, MoveMade DEF MenuMove
<1>17. CASE UNCHANGED boardVars
  BY <1>2, <1>17 DEF boardVars
<1> QED
  BY <1>2, <1>4, <1>5, <1>6, <1>7, <1>8, <1>10, <1>11, <1>12, <1>13, <1>14, <1>15, <1>16, <1>17
  DEF BoardNext, EmptyStageSearch, SendOutreach, Sourced, OutreachSent, MoveServed, ReadServed,
      CandidatesArrive, ChooseStatus

\* M and "Move", pressed again for the same list, repeat the move they made, for any
\* number of candidates, of moves on their way and of lists that overtake each other.
THEOREM MovesRepeat == PipelineBoardSpec => []RepeatMovesOnce
<1>1. MovesInv => RepeatMovesOnce
  BY DEF MovesInv, RepeatMovesOnce
<1> QED
  BY BoardStarts, MovesInvStep, <1>1, PTL DEF PipelineBoardSpec

Boards == [at : {"away", "loading", "error", "pipeline", "candidates", "other"}, stage : BoardStage,
           kanban : Rows, loading : BOOLEAN, focus : {1} \cup 1..Len(BoardRank), view : {"stack", "kanban"},
           summing : BOOLEAN]
RowsTabs == [filter : StatusFilter, of : StatusFilter, loading : BOOLEAN]
MoveSet == [cand : BoardCand, to : BoardStage, fresh : BOOLEAN, here : BOOLEAN]
ReadSet == [of : {"pipeline"} \cup StatusFilter, served : BOOLEAN, rows : Rows]

LEMMA BoardStagesFacts ==
    /\ BoardStages[1] \in BoardStage /\ "none" \notin BoardStage
    /\ \A s : NextFrom(s) \in BoardStage \cup {"none"}
    /\ \A i \in DOMAIN AutoOrder : AutoOrder[i] \in BoardStage
    /\ Len(BoardRank) \in Nat /\ DOMAIN BoardRank = 1..Len(BoardRank)
    /\ \A i \in DOMAIN BoardRank : BoardRank[i] \in BoardCand
<1>1. BoardStages \in Seq(STRING) /\ Len(BoardStages) \in Nat /\ Len(BoardStages) # 0
  BY BoardAssumption
<1>2. DOMAIN BoardStages = 1..Len(BoardStages)
  BY <1>1
<1>3. \A i \in 1..Len(BoardStages) : BoardStages[i] \in BoardStage
  BY <1>2 DEF BoardStage, Range
<1>4. ASSUME NEW s PROVE NextFrom(s) \in BoardStage \cup {"none"}
  <2>1. CASE s \in BoardStage /\ StageIndex(s) < Len(BoardStages)
    <3>1. \E i \in DOMAIN BoardStages : BoardStages[i] = s
      BY <2>1 DEF BoardStage, Range
    <3>2. StageIndex(s) \in 1..Len(BoardStages)
      BY <1>2, <3>1 DEF StageIndex
    <3>3. StageIndex(s) + 1 \in 1..Len(BoardStages)
      BY <1>1, <2>1, <3>2
    <3> QED
      BY <1>3, <2>1, <3>3 DEF NextFrom
  <2>2. CASE ~(s \in BoardStage /\ StageIndex(s) < Len(BoardStages))
    BY <2>2 DEF NextFrom
  <2> QED
    BY <2>1, <2>2
<1>5. \A i \in DOMAIN AutoOrder : AutoOrder[i] \in BoardStage
  BY BoardAssumption DEF BoardStage, Range
<1>6. Len(BoardRank) \in Nat /\ DOMAIN BoardRank = 1..Len(BoardRank)
  BY BoardAssumption
<1>7. \A i \in DOMAIN BoardRank : BoardRank[i] \in BoardCand
  BY DEF BoardCand, Range
<1> QED
  BY <1>1, <1>3, <1>4, <1>5, <1>6, <1>7, BoardAssumption DEF BoardStage

LEMMA BoardDefaults ==
    /\ NoRows \in Rows /\ BoardClosed \in Boards /\ NoRowsTab \in RowsTabs
    /\ \A of \in {"pipeline"} \cup StatusFilter : Ask(of) \in ReadSet
<1>1. NoRows \in Rows
  BY DEF NoRows, Rows, StatusFilter
<1>2. BoardClosed \in Boards
  <2> HIDE DEF Rows
  <2> QED
    BY <1>1, BoardStagesFacts DEF BoardClosed, Boards
<1>3. NoRowsTab \in RowsTabs
  BY DEF NoRowsTab, RowsTabs, StatusFilter
<1>4. \A of \in {"pipeline"} \cup StatusFilter : Ask(of) \in ReadSet
  <2> HIDE DEF Rows, StatusFilter
  <2> QED
    BY <1>1 DEF Ask, ReadSet
<1> QED
  BY <1>1, <1>2, <1>3, <1>4

\* The list of a stage is never longer than the ranking it is taken from.
LEMMA ListedFits == Cardinality(Listed) \in 0..Len(BoardRank) /\ (Listed # {} => Cardinality(Listed) # 0)
<1>1. Listed \in SUBSET (1..Len(BoardRank)) /\ Len(BoardRank) \in Nat
  BY BoardStagesFacts DEF Listed
<1>2. IsFiniteSet(1..Len(BoardRank)) /\ Cardinality(1..Len(BoardRank)) = Len(BoardRank)
  <2>1. IsFiniteSet(1..Len(BoardRank))
        /\ Cardinality(1..Len(BoardRank)) = IF 1 > Len(BoardRank) THEN 0 ELSE Len(BoardRank) - 1 + 1
    BY <1>1, FS_Interval
  <2> QED
    BY <1>1, <2>1
<1>3. IsFiniteSet(Listed) /\ Cardinality(Listed) <= Len(BoardRank)
  BY <1>1, <1>2, FS_Subset
<1>4. Cardinality(Listed) \in Nat /\ (Listed # {} => Cardinality(Listed) # 0)
  BY <1>3, FS_CardinalityType, FS_EmptySet
<1> QED
  BY <1>1, <1>3, <1>4

LEMMA BoardTypeInit == BoardInit => BoardTypeOK
<1> SUFFICES ASSUME BoardInit PROVE BoardTypeOK
  OBVIOUS
<1>1. appStage \in Rows
  <2>1. BoardStages[1] \in StatusFilter
    BY BoardStagesFacts DEF StatusFilter
  <2> QED
    BY <2>1 DEF BoardInit, Rows, StatusFilter
<1> QED
  BY <1>1, BoardDefaults DEF BoardInit, BoardTypeOK, Boards, RowsTabs

LEMMA BoardTypeNext == BoardTypeOK /\ [BoardNext]_boardVars => BoardTypeOK'
<1> SUFFICES ASSUME BoardTypeOK, [BoardNext]_boardVars PROVE BoardTypeOK'
  OBVIOUS
<1>a. /\ appStage \in Rows /\ mailed \subseteq BoardCand /\ board \in Boards /\ rowsTab \in RowsTabs
      /\ moves \subseteq MoveSet /\ boardReads \subseteq ReadSet
  BY DEF BoardTypeOK, Boards, RowsTabs, MoveSet, ReadSet
<1>b. /\ appStage' \in Rows /\ mailed' \subseteq BoardCand /\ board' \in Boards /\ rowsTab' \in RowsTabs
      /\ moves' \subseteq MoveSet /\ boardReads' \subseteq ReadSet
      => BoardTypeOK'
  BY DEF BoardTypeOK, Boards, RowsTabs, MoveSet, ReadSet
<1>c. "none" \in StatusFilter /\ BoardStage \subseteq StatusFilter /\ BoardStages[1] \in BoardStage
  BY BoardStagesFacts DEF StatusFilter
<1> HIDE DEF Rows, StatusFilter, BoardStage, BoardCand
<1>d. {[m EXCEPT !.fresh = FALSE, !.here = FALSE] : m \in moves} \subseteq MoveSet
      /\ {[m EXCEPT !.fresh = FALSE] : m \in moves} \subseteq MoveSet
  <2>1. \A m \in MoveSet : [m EXCEPT !.fresh = FALSE, !.here = FALSE] \in MoveSet /\ [m EXCEPT !.fresh = FALSE] \in MoveSet
    BY DEF MoveSet
  <2> QED
    BY <1>a, <2>1
<1>e. \A s \in BoardStage : Showing(s) \in Boards
  BY <1>a DEF Showing, Boards
<1>f. ASSUME NEW c \in BoardCand, NEW to \in BoardStage \cup {"none"}, NEW next \in BOOLEAN, HandleMove(c, to, next)
      PROVE  /\ moves' \subseteq MoveSet /\ UNCHANGED <<appStage, mailed, rowsTab, boardReads>>
  <2>1. to \in BoardStage /\ moves' = moves \cup {[cand |-> c, to |-> to, fresh |-> next, here |-> TRUE]}
    BY <1>f DEF HandleMove
  <2>2. [cand |-> c, to |-> to, fresh |-> next, here |-> TRUE] \in MoveSet
    BY <2>1 DEF MoveSet
  <2> QED
    BY <1>a, <1>f, <2>1, <2>2 DEF HandleMove
<1>1. CASE OpenPosition
  <2>1. board' \in Boards
    BY <1>1, BoardDefaults DEF OpenPosition, Boards
  <2> QED
    BY <1>a, <1>b, <1>1, <2>1 DEF OpenPosition
<1>2. CASE PositionArrives
  <2>1. board' \in Boards
    BY <1>a, <1>2 DEF PositionArrives, Boards
  <2>2. boardReads' \subseteq ReadSet
    BY <1>a, <1>2, BoardDefaults DEF PositionArrives
  <2> QED
    BY <1>a, <1>b, <1>2, <2>1, <2>2 DEF PositionArrives
<1>3. CASE LeavePosition
  BY <1>a, <1>b, <1>d, <1>3, BoardDefaults DEF LeavePosition
<1>4. ASSUME NEW tab \in {"pipeline", "candidates", "other"}, SwitchTab(tab) PROVE BoardTypeOK'
  <2>1. Unmounted(tab) /\ UNCHANGED <<appStage, mailed>>
    BY <1>4 DEF SwitchTab
  <2>2. board' \in Boards
    BY <1>a, <2>1, BoardDefaults DEF Unmounted, Boards
  <2>3. rowsTab' \in RowsTabs
    BY <2>1, BoardDefaults DEF Unmounted, RowsTabs
  <2>4. boardReads' \subseteq ReadSet
    BY <1>c, <2>1, BoardDefaults DEF Unmounted
  <2> QED
    BY <1>a, <1>b, <1>d, <2>1, <2>2, <2>3, <2>4 DEF Unmounted
<1>5. ASSUME NEW s \in BoardStage, PickStage(s) PROVE BoardTypeOK'
  BY <1>a, <1>b, <1>e, <1>5 DEF PickStage
<1>6. ASSUME NEW c \in BoardCand, Sourced(c) PROVE BoardTypeOK'
  <2>1. appStage' = [appStage EXCEPT ![c] = BoardStages[1]]
    BY <1>6 DEF Sourced
  <2>2. appStage' \in Rows
    BY <1>a, <1>c, <2>1 DEF Rows
  <2> QED
    BY <1>a, <1>b, <1>6, <2>2 DEF Sourced
<1>7. CASE ToggleView
  <2>1. board' \in Boards
    BY <1>a, <1>7 DEF ToggleView, Boards
  <2> QED
    BY <1>a, <1>b, <1>7, <2>1 DEF ToggleView
<1>8. ASSUME NEW d \in {"up", "down"}, KeyArrow(d) PROVE BoardTypeOK'
  <2> DEFINE n == IF d = "up" THEN (IF board.focus > 1 THEN board.focus - 1 ELSE 1)
                  ELSE IF board.focus < Cardinality(Listed) THEN board.focus + 1 ELSE Cardinality(Listed)
  <2>1. board' = [board EXCEPT !.focus = n] /\ Listed # {}
    BY <1>8 DEF KeyArrow, KeysOn
  <2>2. n \in {1} \cup 1..Len(BoardRank)
    <3>1. board.focus \in {1} \cup 1..Len(BoardRank)
      BY <1>a DEF Boards
    <3>2. Cardinality(Listed) \in 1..Len(BoardRank) /\ Len(BoardRank) \in Nat
      BY <2>1, ListedFits, BoardStagesFacts
    <3> HIDE DEF Listed
    <3> QED
      BY <3>1, <3>2
  <2> HIDE DEF n
  <2>3. board' \in Boards
    BY <1>a, <2>1, <2>2 DEF Boards
  <2> QED
    BY <1>a, <1>b, <1>8, <2>3 DEF KeyArrow
<1>9. CASE KeyMove
  <2>1. PICK i \in Listed : HandleMove(BoardRank[i], NextStage(BoardRank[i]), TRUE) /\ board' = board
    BY <1>9 DEF KeyMove
  <2>2. BoardRank[i] \in BoardCand /\ NextStage(BoardRank[i]) \in BoardStage \cup {"none"}
    BY <2>1, BoardStagesFacts DEF Listed, NextStage
  <2> QED
    BY <1>a, <1>b, <1>f, <2>1, <2>2
<1>10. ASSUME NEW c \in BoardCand, ButtonMove(c) PROVE BoardTypeOK'
  <2>1. HandleMove(c, NextStage(c), TRUE) /\ board' = board /\ NextStage(c) \in BoardStage \cup {"none"}
    BY <1>10, BoardStagesFacts DEF ButtonMove, NextStage
  <2> QED
    BY <1>a, <1>b, <1>f, <2>1
<1>11. ASSUME NEW c \in BoardCand, NEW s \in BoardStage, MenuMove(c, s) PROVE BoardTypeOK'
  <2>1. HandleMove(c, s, FALSE) /\ board' = board
    BY <1>11 DEF MenuMove
  <2> QED
    BY <1>a, <1>b, <1>f, <2>1
<1>12. CASE EmptyStageSearch
  BY <1>a, <1>b, <1>12, BoardDefaults DEF EmptyStageSearch
<1>13. ASSUME NEW m \in moves, NEW ok \in BOOLEAN, MoveServed(m, ok) PROVE BoardTypeOK'
  <2>1. appStage' \in Rows
    <3>1. m.to \in StatusFilter
      BY <1>a, <1>c DEF MoveSet
    <3>2. appStage' = [appStage EXCEPT ![m.cand] = m.to] \/ appStage' = appStage
      BY <1>13 DEF MoveServed
    <3> QED
      BY <1>a, <3>1, <3>2 DEF Rows
  <2>2. boardReads' \subseteq boardReads \cup {Ask("pipeline")}
    BY <1>13 DEF MoveServed
  <2> QED
    BY <1>a, <1>b, <1>13, <2>1, <2>2, BoardDefaults DEF MoveServed
<1>14. ASSUME NEW r \in boardReads, ReadServed(r) PROVE BoardTypeOK'
  <2> DEFINE new == [r EXCEPT !.served = TRUE, !.rows = IF r.of = "pipeline" THEN appStage ELSE r.rows]
  <2>1. boardReads' = (boardReads \ {r}) \cup {new}
    BY <1>14 DEF ReadServed
  <2>2. new \in ReadSet
    BY <1>a DEF ReadSet
  <2> HIDE DEF new
  <2> QED
    BY <1>a, <1>b, <1>14, <2>1, <2>2 DEF ReadServed
<1>15. ASSUME NEW ok \in BOOLEAN, SummaryArrives(ok) PROVE BoardTypeOK'
  <2>1. board' \in Boards
    <3>1. CASE ok
      <4>1. PICK s \in BoardStage : board' = [Showing(s) EXCEPT !.summing = FALSE]
        BY <1>15, <3>1 DEF SummaryArrives
      <4>2. \A b \in Boards : [b EXCEPT !.summing = FALSE] \in Boards
        BY DEF Boards
      <4> QED
        BY <1>e, <4>1, <4>2
    <3>2. CASE ~ok
      BY <1>a, <1>15, <3>2 DEF SummaryArrives, Boards
    <3> QED
      BY <3>1, <3>2
  <2> QED
    BY <1>a, <1>b, <1>15, <2>1 DEF SummaryArrives
<1>16. ASSUME NEW r \in boardReads, PipelineArrives(r) PROVE BoardTypeOK'
  <2>1. r.rows \in Rows
    BY <1>a DEF ReadSet
  <2>2. board' \in Boards
    BY <1>a, <1>16, <2>1 DEF PipelineArrives, Boards
  <2> QED
    BY <1>a, <1>b, <1>d, <1>16, <2>2 DEF PipelineArrives
<1>17. ASSUME NEW r \in boardReads, ReadLost(r) PROVE BoardTypeOK'
  <2>1. board' \in Boards
    BY <1>a, <1>17 DEF ReadLost, Boards
  <2>2. rowsTab' \in RowsTabs
    BY <1>a, <1>17 DEF ReadLost, RowsTabs
  <2> QED
    BY <1>a, <1>b, <1>17, <2>1, <2>2 DEF ReadLost
<1>18. ASSUME NEW f \in StatusFilter, ChooseStatus(f) PROVE BoardTypeOK'
  <2>1. rowsTab' \in RowsTabs
    BY <1>a, <1>18 DEF ChooseStatus, RowsTabs
  <2> QED
    BY <1>a, <1>b, <1>18, <2>1, BoardDefaults DEF ChooseStatus
<1>19. ASSUME NEW r \in boardReads, CandidatesArrive(r) PROVE BoardTypeOK'
  <2>1. rowsTab' \in RowsTabs
    BY <1>a, <1>19 DEF CandidatesArrive, RowsTabs
  <2> QED
    BY <1>a, <1>b, <1>19, <2>1 DEF CandidatesArrive
<1>20. CASE SendOutreach
  <2>1. rowsTab' \in RowsTabs /\ rowsTab.filter \in StatusFilter
    BY <1>a, <1>20 DEF SendOutreach, RowsTabs
  <2> QED
    BY <1>a, <1>b, <1>20, <2>1, BoardDefaults DEF SendOutreach
<1>21. ASSUME NEW c \in BoardCand, OutreachSent(c) PROVE BoardTypeOK'
  <2>1. appStage' = [appStage EXCEPT ![c] = "magic_link_sent"]
    BY <1>21 DEF OutreachSent
  <2>2. appStage' \in Rows
    BY <1>a, <2>1 DEF Rows
  <2> QED
    BY <1>a, <1>b, <1>21, <2>2 DEF OutreachSent
<1>22. CASE UNCHANGED boardVars
  BY <1>a, <1>b, <1>22 DEF boardVars
<1> QED
  BY <1>1, <1>2, <1>3, <1>4, <1>5, <1>6, <1>7, <1>8, <1>9, <1>10, <1>11, <1>12, <1>13, <1>14,
     <1>15, <1>16, <1>17, <1>18, <1>19, <1>20, <1>21, <1>22 DEF BoardNext

\* The board's rows, its menus, moves and lists keep their types: the row in focus is one
\* of the position's candidates, whatever list arrives (PipelineStackView.jsx).
THEOREM BoardTypes == PipelineBoardSpec => []BoardTypeOK
BY BoardTypeInit, BoardTypeNext, PTL DEF PipelineBoardSpec

-----------------------------------------------------------------------------
(**************************************************************************)
(* The talent pool, and the page of one candidate.                         *)
(**************************************************************************)

PoolPage  == [at : {"closed", "open", "crashed"}, found : BOOLEAN, by : Filters, loading : BOOLEAN,
              modal : {"none", "zone", "busy", "done", "failed"}]
PoolMatch == [open : BOOLEAN, pos : PoolPosition \cup {NoPosition},
              ask : PoolPosition \cup {NoPosition}, found : {"unasked", "none", "some"}]
PoolLoads == [1..MaxPoolLoads -> Calls]

LEMMA PoolDefaults ==
    /\ NoFilter \in Filters /\ Idling \in Calls /\ NoPage \in PoolPage /\ NoMatch \in PoolMatch
    /\ [i \in 1..MaxPoolLoads |-> Idling] \in PoolLoads
<1>1. NoFilter \in Filters
  BY DEF NoFilter, Filters
<1>2. Idling \in Calls /\ NoPage \in PoolPage
  BY <1>1 DEF Idling, Calls, NoPage, PoolPage
<1>3. NoMatch \in PoolMatch
  BY DEF NoMatch, PoolMatch
<1> QED
  BY <1>1, <1>2, <1>3 DEF PoolLoads

LEMMA PoolTypeInit == PoolInit => PoolTypeOK
BY PoolDefaults DEF PoolInit, PoolTypeOK, PoolPage, PoolMatch, PoolLoads

LEMMA PoolTypeNext == PoolTypeOK /\ [PoolNext]_poolVars => PoolTypeOK'
<1> SUFFICES ASSUME PoolTypeOK, [PoolNext]_poolVars PROVE PoolTypeOK'
  OBVIOUS
<1>a. /\ filled \in BOOLEAN /\ tpage \in PoolPage /\ tloads \in PoolLoads /\ ttimer \in Calls /\ tup \in Calls
      /\ tmatch \in PoolMatch
  BY DEF PoolTypeOK, PoolPage, PoolMatch, PoolLoads
<1>b. /\ filled' \in BOOLEAN /\ tpage' \in PoolPage /\ tloads' \in PoolLoads /\ ttimer' \in Calls /\ tup' \in Calls
      /\ tmatch' \in PoolMatch
      => PoolTypeOK'
  BY DEF PoolTypeOK, PoolPage, PoolMatch, PoolLoads
<1> HIDE DEF PoolTypeOK
<1> USE PoolDefaults
<1>c. /\ tpage.by \in Filters /\ ttimer.by \in Filters /\ tup.by \in Filters
      /\ \A i \in 1..MaxPoolLoads : tloads[i] \in Calls
  BY <1>a DEF PoolPage, Calls, PoolLoads
<1>d. ASSUME NEW i \in 1..MaxPoolLoads, NEW by \in Filters, SendLoad(i, by) PROVE tloads' \in PoolLoads
  <2>1. [on |-> TRUE, by |-> by] \in Calls
    BY DEF Calls
  <2> QED
    BY <1>a, <1>d, <2>1 DEF SendLoad, PoolLoads
<1>e. ASSUME NEW i \in 1..MaxPoolLoads, tloads' = [tloads EXCEPT ![i] = Idling] PROVE tloads' \in PoolLoads
  BY <1>a, <1>e DEF PoolLoads
<1>f. ASSUME NEW q \in BOOLEAN PROVE [tpage.by EXCEPT !.q = q] \in Filters
  BY <1>c DEF Filters
<1>1. CASE LeavePool
  BY <1>a, <1>b, <1>1 DEF LeavePool
<1>2. CASE HandleSearch
  <2>1. PICK q \in BOOLEAN : tpage' = [tpage EXCEPT !.by = [tpage.by EXCEPT !.q = q]]
                             /\ ttimer' = [on |-> TRUE, by |-> [tpage.by EXCEPT !.q = q]]
                             /\ UNCHANGED <<filled, tloads, tup, tmatch>>
    <3>1. PICK q \in BOOLEAN : tpage' = [tpage EXCEPT !.by.q = q]
                               /\ ttimer' = [on |-> TRUE, by |-> [tpage.by EXCEPT !.q = q]]
      BY <1>2 DEF HandleSearch
    <3> QED
      BY <1>2, <1>a, <3>1 DEF HandleSearch, PoolPage
  <2> DEFINE f == [tpage.by EXCEPT !.q = q]
  <2>2. f \in Filters
    BY <1>f
  <2> HIDE DEF f
  <2>3. [tpage EXCEPT !.by = f] \in PoolPage /\ [on |-> TRUE, by |-> f] \in Calls
    BY <1>a, <2>2 DEF PoolPage, Calls
  <2> QED
    BY <1>a, <1>b, <2>1, <2>3 DEF f
<1>3. CASE PoolChanges
  BY <1>a, <1>b, <1>3 DEF PoolChanges
<1>4. ASSUME NEW i \in 1..MaxPoolLoads, OpenPool(i) PROVE PoolTypeOK'
  <2>1. [NoPage EXCEPT !.at = "open"] \in PoolPage
    BY DEF PoolPage
  <2> QED
    BY <1>a, <1>b, <1>d, <1>4, <2>1 DEF OpenPool
<1>5. ASSUME NEW i \in 1..MaxPoolLoads, PoolAnswered(i) PROVE PoolTypeOK'
  <2>1. PICK narrowed \in BOOLEAN :
            tpage' = [tpage EXCEPT !.found = PoolToken /\ filled /\ narrowed, !.loading = FALSE]
    BY <1>5 DEF PoolAnswered
  <2>2. (PoolToken /\ filled /\ narrowed) \in BOOLEAN
    OBVIOUS
  <2>3. tpage' \in PoolPage
    BY <1>a, <2>1, <2>2 DEF PoolPage
  <2> QED
    BY <1>a, <1>b, <1>e, <1>5, <2>3 DEF PoolAnswered
<1>6. ASSUME NEW i \in 1..MaxPoolLoads, PoolLost(i) PROVE PoolTypeOK'
  <2>1. [tpage EXCEPT !.loading = FALSE] \in PoolPage
    BY <1>a DEF PoolPage
  <2> QED
    BY <1>a, <1>b, <1>e, <1>6, <2>1 DEF PoolLost
<1>7. ASSUME NEW i \in 1..MaxPoolLoads, SearchPaused(i) PROVE PoolTypeOK'
  <2>1. [tpage EXCEPT !.loading = TRUE] \in PoolPage
    BY <1>a DEF PoolPage
  <2> QED
    BY <1>a, <1>b, <1>c, <1>d, <1>7, <2>1 DEF SearchPaused
<1>8. ASSUME NEW i \in 1..MaxPoolLoads, UploadDone(i) PROVE PoolTypeOK'
  <2>1. tpage' = [tpage EXCEPT !.modal = IF tpage.modal = "busy" THEN "done" ELSE tpage.modal, !.loading = TRUE]
    BY <1>8 DEF UploadDone
  <2>2. tpage' \in PoolPage
    BY <1>a, <2>1 DEF PoolPage
  <2>3. filled' \in BOOLEAN
    BY <1>a, <1>8 DEF UploadDone
  <2> QED
    BY <1>a, <1>b, <1>c, <1>d, <1>8, <2>2, <2>3 DEF UploadDone
<1>9. ASSUME NEW i \in 1..MaxPoolLoads, NEW by \in Filters, ChooseFilter(i, by) PROVE PoolTypeOK'
  <2>1. [tpage EXCEPT !.by = by, !.loading = TRUE] \in PoolPage
    BY <1>a DEF PoolPage
  <2> QED
    BY <1>a, <1>b, <1>d, <1>9, <2>1 DEF ChooseFilter
<1>10. CASE OpenUpload \/ CloseUpload \/ HandleFiles
  <2>1. PICK m \in {"zone", "none", "busy"} : SetModal(m)
    BY <1>10 DEF OpenUpload, CloseUpload, HandleFiles
  <2>2. tpage' \in PoolPage
    BY <1>a, <2>1 DEF SetModal, PoolPage
  <2>3. [on |-> TRUE, by |-> tpage.by] \in Calls
    BY <1>c DEF Calls
  <2> QED
    BY <1>a, <1>b, <1>10, <2>2, <2>3 DEF OpenUpload, CloseUpload, HandleFiles
<1>11. ASSUME NEW lost \in BOOLEAN, UploadFailed(lost) PROVE PoolTypeOK'
  <2>1. tpage' = tpage \/ tpage' = [tpage EXCEPT !.modal = "failed"] \/ tpage' = [NoPage EXCEPT !.at = "crashed"]
    BY <1>11 DEF UploadFailed, SetModal
  <2>2. tpage' \in PoolPage
    BY <1>a, <2>1 DEF PoolPage
  <2>3. tloads' \in PoolLoads /\ ttimer' \in Calls /\ tmatch' \in PoolMatch
    BY <1>a, <1>11 DEF UploadFailed
  <2> QED
    BY <1>a, <1>b, <1>11, <2>2, <2>3 DEF UploadFailed
<1>12. CASE ToggleMatch
  <2>1. tmatch' \in PoolMatch
    BY <1>a, <1>12 DEF ToggleMatch, PoolMatch
  <2> QED
    BY <1>a, <1>b, <1>12, <2>1 DEF ToggleMatch
<1>13. ASSUME NEW p \in PoolPosition \cup {NoPosition}, SelectPosition(p) PROVE PoolTypeOK'
  <2>1. tmatch' \in PoolMatch
    BY <1>a, <1>13 DEF SelectPosition, PoolMatch
  <2> QED
    BY <1>a, <1>b, <1>13, <2>1 DEF SelectPosition
<1>14. CASE HandleSuggest
  <2>1. tmatch' \in PoolMatch
    BY <1>a, <1>14 DEF HandleSuggest, PoolMatch
  <2> QED
    BY <1>a, <1>b, <1>14, <2>1 DEF HandleSuggest
<1>15. ASSUME NEW some \in BOOLEAN, SuggestAnswered(some) PROVE PoolTypeOK'
  <2>1. tmatch' \in PoolMatch
    BY <1>a, <1>15 DEF SuggestAnswered, PoolMatch
  <2> QED
    BY <1>a, <1>b, <1>15, <2>1 DEF SuggestAnswered
<1>16. CASE AddToPipeline
  <2>1. tmatch' = [tmatch EXCEPT !.found = "none"] \/ tmatch' = [tmatch EXCEPT !.found = tmatch.found]
    BY <1>16 DEF AddToPipeline
  <2>2. tmatch' \in PoolMatch
    BY <1>a, <2>1 DEF PoolMatch
  <2> QED
    BY <1>a, <1>b, <1>16, <2>2 DEF AddToPipeline
<1>17. CASE UNCHANGED poolVars
  BY <1>a, <1>b, <1>17 DEF poolVars
<1> QED
  BY <1>1, <1>2, <1>3, <1>4, <1>5, <1>6, <1>7, <1>8, <1>9, <1>10, <1>11, <1>12, <1>13, <1>14, <1>15, <1>16, <1>17
  DEF PoolNext

\* The talent pool page keeps its types, also after the crash of its upload dialog.
THEOREM PoolTypes == TalentPoolSpec => []PoolTypeOK
BY PoolTypeInit, PoolTypeNext, PTL DEF TalentPoolSpec

CandView == [who : Shown, stage : StageOrNone, dialog : {"none", "status", "select", "retry", "other"},
             pending : StageOrNone, moving : BOOLEAN, busy : {"none", "select"}]
CandCall == [on : Shown, to : StageOrNone, at : {"idle", "sent", "ok"}, of : Shown]

LEMMA CandDefaults ==
    /\ "none" \in StageOrNone /\ "selected" \in PipelineStage /\ MoveStages[1] \in PipelineStage
    /\ \A i \in DOMAIN MoveStages : MoveStages[i] \in PipelineStage
    /\ NoView \in CandView /\ NoOp \in CandCall /\ NoCandId \in Shown
    /\ \A s \in PipelineStage : s \in StageOrNone
    /\ \A s \in StageOrNone : s # "none" => s \in PipelineStage
<1>1. /\ "selected" \in Range(MoveStages) \cup EndStages
      /\ MoveStages \in Seq(STRING) /\ Len(MoveStages) > 0
  BY CandPageAssumption
<1>2. 1 \in DOMAIN MoveStages
  BY <1>1
<1>3. \A i \in DOMAIN MoveStages : MoveStages[i] \in PipelineStage
  BY DEF PipelineStage, Range
<1>4. "none" \in StageOrNone /\ "selected" \in PipelineStage
  BY <1>1 DEF StageOrNone, PipelineStage
<1>5. NoView \in CandView /\ NoOp \in CandCall /\ NoCandId \in Shown
  BY <1>4 DEF NoView, CandView, NoOp, CandCall, Shown
<1> QED
  BY <1>1, <1>2, <1>3, <1>4, <1>5 DEF StageOrNone

LEMMA CandTypeInit == CandInit => CandTypeOK
<1> SUFFICES ASSUME CandInit PROVE CandTypeOK
  OBVIOUS
<1>1. stageOf \in [CandId -> PipelineStage]
  BY CandDefaults DEF CandInit
<1> QED
  BY <1>1, CandDefaults DEF CandInit, CandTypeOK, CandView, CandCall

LEMMA CandTypeNext == CandTypeOK /\ [CandNext]_candVars => CandTypeOK'
<1> SUFFICES ASSUME CandTypeOK, [CandNext]_candVars PROVE CandTypeOK'
  OBVIOUS
<1>a. /\ stageOf \in [CandId -> PipelineStage] /\ url \in Shown /\ cview \in CandView
      /\ cloads \subseteq CandId /\ atsPause \subseteq CandId /\ cops \in [CandOps -> CandCall]
  BY DEF CandTypeOK, CandView, CandCall
<1>b. /\ stageOf' \in [CandId -> PipelineStage] /\ url' \in Shown /\ cview' \in CandView
      /\ cloads' \subseteq CandId /\ atsPause' \subseteq CandId /\ cops' \in [CandOps -> CandCall]
      => CandTypeOK'
  BY DEF CandTypeOK, CandView, CandCall
<1> HIDE DEF CandTypeOK
<1>c. \A c \in CandId : c \in Shown
  BY DEF Shown
<1>d. /\ cview.who \in Shown /\ cview.pending \in StageOrNone
      /\ \A o \in CandOps : /\ cops[o] \in CandCall /\ cops[o].to \in StageOrNone /\ cops[o].of \in Shown
                            /\ cops[o].of # NoCandId => cops[o].of \in CandId
  BY <1>a DEF CandView, CandCall, Shown
\* A dialog that opens or closes.
<1>e. ASSUME NEW d \in {"none", "status", "select", "retry", "other"}, NEW p \in StageOrNone, SetDialog(d, p)
      PROVE  CandTypeOK'
  <2>1. [cview EXCEPT !.dialog = d, !.pending = p] \in CandView
    BY <1>a DEF CandView
  <2> QED
    BY <1>a, <1>b, <1>e, <2>1 DEF SetDialog
\* A call that is sent, and the page after it.
<1>f. ASSUME NEW o \in CandOps, NEW to \in StageOrNone, SendOp(o, to), cview' \in CandView
      PROVE  CandTypeOK'
  <2>1. [on |-> cview.who, to |-> to, at |-> "sent", of |-> url] \in CandCall
    BY <1>a, <1>d DEF CandCall
  <2> QED
    BY <1>a, <1>b, <1>f, <2>1 DEF SendOp
\* A call whose answer has come.
<1>g. ASSUME NEW o \in CandOps, NEW ok \in BOOLEAN, Answered(o, ok)
      PROVE  /\ stageOf' \in [CandId -> PipelineStage] /\ url' \in Shown
             /\ cops' \in [CandOps -> CandCall] /\ cops[o].of \in CandId
  BY <1>a, <1>d, <1>g, CandDefaults DEF Answered
<1>1. ASSUME NEW c \in CandId, OpenCandidate(c) \/ HistoryTo(c) PROVE CandTypeOK'
  BY <1>a, <1>b, <1>c, <1>1 DEF OpenCandidate, HistoryTo
<1>2. ASSUME NEW c \in CandId, CandidateLoaded(c) PROVE CandTypeOK'
  <2>1. stageOf[c] \in StageOrNone /\ c \in Shown
    BY <1>a, <1>c, CandDefaults
  <2>2. [cview EXCEPT !.who = c, !.stage = stageOf[c]] \in CandView
    BY <1>a, <2>1 DEF CandView
  <2> QED
    BY <1>a, <1>b, <1>2, <2>2 DEF CandidateLoaded
<1>3. ASSUME NEW c \in CandId, CandidateLoadLost(c) \/ AtsPaused(c) PROVE CandTypeOK'
  BY <1>a, <1>b, <1>3 DEF CandidateLoadLost, AtsPaused
<1>4. CASE LeaveCandidate
  <2>1. ASSUME NEW o \in CandOps PROVE [cops[o] EXCEPT !.of = NoCandId] \in CandCall
    BY <1>d, <2>1, CandDefaults DEF CandCall
  <2>2. cops' \in [CandOps -> CandCall]
    BY <1>4, <2>1, CandDefaults DEF LeaveCandidate
  <2> QED
    BY <1>a, <1>b, <1>4, <2>2, CandDefaults DEF LeaveCandidate
<1>5. CASE HeroMove
  <2>1. HeroStage \in StageOrNone
    <3> DEFINE i == IF \E k \in DOMAIN MoveStages : MoveStages[k] = cview.stage
                    THEN CHOOSE k \in DOMAIN MoveStages : MoveStages[k] = cview.stage
                    ELSE 0
    <3>1. MoveStages \in Seq(STRING)
      BY CandPageAssumption
    <3>2. Len(MoveStages) \in Nat /\ DOMAIN MoveStages = 1..Len(MoveStages)
      BY <3>1
    <3>3. i \in 0..Len(MoveStages)
      BY <3>2
    <3> HIDE DEF i
    <3>4. i < Len(MoveStages) => i + 1 \in DOMAIN MoveStages
      BY <3>2, <3>3
    <3>5. HeroStage = IF i < Len(MoveStages) THEN MoveStages[i + 1] ELSE "none"
      BY DEF HeroStage, i
    <3> QED
      BY <3>4, <3>5, CandDefaults
  <2> QED
    BY <1>e, <1>5, <2>1 DEF HeroMove
<1>6. ASSUME NEW s \in PipelineStage, SelectStatus(s) PROVE CandTypeOK'
  BY <1>e, <1>6, CandDefaults DEF SelectStatus
<1>7. CASE OpenSelect \/ OpenRetry \/ OpenOther \/ CloseDialog
  BY <1>d, <1>e, <1>7, CandDefaults DEF OpenSelect, OpenRetry, OpenOther, CloseDialog
<1>8. CASE ConfirmStatusChange
  <2>1. [cview EXCEPT !.dialog = "none", !.moving = TRUE] \in CandView
    BY <1>a DEF CandView
  <2> QED
    BY <1>d, <1>f, <1>8, <2>1 DEF ConfirmStatusChange, CandOps
<1>9. CASE ConfirmMarkSelected
  <2>1. [cview EXCEPT !.busy = "select"] \in CandView
    BY <1>a DEF CandView
  <2> QED
    BY <1>f, <1>9, <2>1, CandDefaults DEF ConfirmMarkSelected, CandOps
<1>10. CASE ConfirmRetryAts
  <2>1. [cview EXCEPT !.dialog = "none"] \in CandView
    BY <1>a DEF CandView
  <2> QED
    BY <1>f, <1>10, <2>1, CandDefaults DEF ConfirmRetryAts, CandOps
<1>11. ASSUME NEW o \in CandOps, OpServed(o) PROVE CandTypeOK'
  <2>1. [cops[o] EXCEPT !.at = "ok"] \in CandCall /\ cops[o].to \in PipelineStage
    BY <1>d, <1>11, CandDefaults DEF CandCall, OpServed
  <2> QED
    BY <1>a, <1>b, <1>11, <2>1, CandDefaults DEF OpServed
<1>12. ASSUME NEW o \in CandOps, OpGone(o) PROVE CandTypeOK'
  BY <1>a, <1>b, <1>12, CandDefaults DEF OpGone
<1>13. ASSUME NEW ok \in BOOLEAN, MoveAnswered(ok) PROVE CandTypeOK'
  <2>1. cview' = [cview EXCEPT !.stage = IF ok THEN cview.pending ELSE cview.stage, !.moving = FALSE,
                               !.pending = "none", !.dialog = IF cview.dialog = "status" THEN "none" ELSE cview.dialog]
    BY <1>13 DEF MoveAnswered
  <2>2. cview' \in CandView
    BY <1>a, <2>1, CandDefaults DEF CandView
  <2> QED
    BY <1>a, <1>b, <1>g, <1>13, <2>2 DEF MoveAnswered, LoadAgain, CandOps
<1>14. ASSUME NEW ok \in BOOLEAN, SelectAnswered(ok) PROVE CandTypeOK'
  <2>1. cview' = [cview EXCEPT !.stage = IF ok THEN "selected" ELSE cview.stage,
                               !.busy = "none", !.dialog = IF cview.dialog = "select" THEN "none" ELSE cview.dialog]
    BY <1>14 DEF SelectAnswered
  <2>2. cview' \in CandView
    BY <1>a, <2>1, CandDefaults DEF CandView
  <2> QED
    BY <1>a, <1>b, <1>g, <1>14, <2>2 DEF SelectAnswered, LoadAgain, CandOps
<1>15. ASSUME NEW ok \in BOOLEAN, RetryAnswered(ok) PROVE CandTypeOK'
  <2>1. cview' = [cview EXCEPT !.dialog = IF cview.dialog = "retry" THEN "none" ELSE cview.dialog]
    BY <1>15 DEF RetryAnswered
  <2>2. cview' \in CandView
    BY <1>a, <2>1 DEF CandView
  <2> QED
    BY <1>a, <1>b, <1>g, <1>15, <2>2 DEF RetryAnswered, CandOps
<1>16. CASE UNCHANGED candVars
  BY <1>a, <1>b, <1>16 DEF candVars
<1> QED
  BY <1>1, <1>2, <1>3, <1>4, <1>5, <1>6, <1>7, <1>8, <1>9, <1>10, <1>11, <1>12, <1>13, <1>14, <1>15, <1>16
  DEF CandNext

\* The page of a candidate keeps its types: the stage it shows is one of the application's
\* or none, and an answer loads a candidate again, for any two of them whose calls overlap.
THEOREM CandTypes == CandidatePageSpec => []CandTypeOK
BY CandTypeInit, CandTypeNext, PTL DEF CandidatePageSpec

-----------------------------------------------------------------------------
(**************************************************************************)
(* The pages together. A behaviour of MCHiringPages moves one module at a  *)
(* time and leaves the others where they are, so that every module keeps   *)
(* its own invariant.                                                      *)
(**************************************************************************)

\* The invariant of every module.
HiringPagesInv ==
    /\ ApplyInv /\ ErasureInv /\ CountsFit /\ CareersTypeOK /\ PortalInv /\ LinkInv
    /\ PanelInv /\ IvInv /\ PoolTypeOK /\ CandTypeOK /\ BoardTypeOK

LEMMA HiringPagesStart == MCInit => HiringPagesInv
BY ApplyStarts, ErasureStarts, CountsStart, CareersTypeInit, PortalStarts, LinkStarts, PanelInitInv, IvStarts,
   PoolTypeInit, CandTypeInit, BoardTypeInit
DEF MCInit, HiringPagesInv

\* A step is one of the module on the scene, and leaves the others alone; the bounds of
\* three modules only take steps away.
LEMMA OnePageMoves ==
    [MCNext]_MCVars =>
        /\ [ApplyNext]_applyVars /\ [ErasureNext]_erasureVars /\ [CareersNext]_careersVars
        /\ [PortalNext]_portalVars /\ [PanelNext]_panelVars /\ [IvNext]_ivVars /\ [PoolNext]_poolVars
        /\ [CandNext]_candVars /\ [BoardNext]_boardVars
BY DEF MCNext, MCVars, ApplyBounded, PanelBounded, RoundBounded

LEMMA HiringPagesStep == HiringPagesInv /\ [MCNext]_MCVars => HiringPagesInv'
<1> SUFFICES ASSUME HiringPagesInv, [MCNext]_MCVars PROVE HiringPagesInv'
  OBVIOUS
<1>1. ApplyInv' /\ ErasureInv' /\ CountsFit' /\ CareersTypeOK' /\ PortalInv' /\ LinkInv'
  BY OnePageMoves, ApplyInvStep, ErasureStep, CountsStep, CareersTypeNext, PortalStep, LinkStep DEF HiringPagesInv
<1>2. PanelInv' /\ IvInv' /\ PoolTypeOK' /\ CandTypeOK' /\ BoardTypeOK'
  BY OnePageMoves, PanelStep, IvInvStep, PoolTypeNext, CandTypeNext, BoardTypeNext DEF HiringPagesInv
<1> QED
  BY <1>1, <1>2 DEF HiringPagesInv

\* Every variable of the pages of hiring keeps its type, on whatever page the behaviour
\* is and for any number of candidates, panelists, tabs and calls.
THEOREM HiringPagesTypes == MCSpec => []HiringPagesTypeOK
<1>1. HiringPagesInv => HiringPagesTypeOK
  <2> SUFFICES ASSUME HiringPagesInv PROVE HiringPagesTypeOK
    OBVIOUS
  <2>1. ApplyTypeOK /\ PanelTypeOK /\ IvTypeOK
    BY DEF HiringPagesInv, ApplyInv, PanelInv, IvInv
  <2>2. ErasureTypeOK /\ PortalTypeOK
    BY ErasureTyped, PortalTyped DEF HiringPagesInv
  <2> QED
    BY <2>1, <2>2 DEF HiringPagesInv, HiringPagesTypeOK
<1> QED
  BY HiringPagesStart, HiringPagesStep, <1>1, PTL DEF MCSpec
=============================================================================
