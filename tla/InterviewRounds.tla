--------------------------- MODULE InterviewRounds ---------------------------
(***************************************************************************)
(* The interview round of a candidate as the recruiters see and run it:   *)
(* frontend/src/components/Candidates/tabs/InterviewsTab.jsx and           *)
(* components/Interviews/ScheduleInterviewModal.jsx over                   *)
(* backend/services/interview_service.py, InterviewService, and the        *)
(* calendar endpoint of backend/routers/interviews.py.                     *)
(*                                                                         *)
(* Recruiters work in tabs of their own, each with a copy of the round    *)
(* that its last read brought.  Meanwhile the panelists are put on record *)
(* one by one, every statement committed by itself, and their feedback    *)
(* comes in as PanelFeedback has it: a mark that stays, and a scorecard   *)
(* that a later draft takes away again.                                   *)
(***************************************************************************)
EXTENDS Naturals

CONSTANTS
    IvTab,
    SchedulesIn    \* bound: the tabs where a round is scheduled

ASSUME IvAssumption == SchedulesIn \subseteq IvTab

VARIABLES
    round,     \* the interviews row, its panel and their scorecards, and its last debrief
    ivpage,    \* [IvTab -> the state of the tab: the copy of the round, its card, the modal]
    ivcall     \* [IvTab -> its call that writes]

ivVars == <<round, ivpage, ivcall>>

\* What a read brings: how far the round is, whether it was decided (passed or rejected),
\* and whether every panelist on record is marked as having handed in feedback, as is so of
\* none at all.  The page cannot tell whether the panel was all on record by then.
RoundSeen == [status : {"none", "scheduled", "completed"}, decided : BOOLEAN, fed : BOOLEAN,
              panel : BOOLEAN]
NoRoundSeen == [status |-> "none", decided |-> FALSE, fed |-> FALSE, panel |-> FALSE]
CardAsk == {"complete", "decide", "invites", "debrief"}
\* What a debrief was drafted from: every panelist's scorecard, fewer although everybody is
\* marked, or fewer with marks missing; in a hurry, asked before the panel was on record.
Drafted == {"none", "whole", "short", "early", "hurried"}

IvTypeOK ==
    /\ round \in [row : RoundSeen, cards : BOOLEAN, debrief : Drafted]
    /\ ivpage \in [IvTab ->
         [loading : BOOLEAN, seen : RoundSeen, modal : BOOLEAN,
          plan : {"blank", "panel", "asked", "slots", "full"}, scheduling : BOOLEAN]]
    /\ ivcall \in [IvTab -> CardAsk \cup {"none", "create", "panel", "event", "calendar", "hurry", "draft"}]

IvInit ==
    /\ round = [row |-> NoRoundSeen, cards |-> FALSE, debrief |-> "none"]
    /\ ivpage = [t \in IvTab |-> [loading |-> FALSE, seen |-> NoRoundSeen, modal |-> FALSE,
                                   plan |-> "blank", scheduling |-> FALSE]]
    /\ ivcall = [t \in IvTab |-> "none"]

-----------------------------------------------------------------------------
\* The tab reads its rounds: when it opens and after what it did.  Meanwhile it shows a
\* skeleton, and a modal that was open comes back blank.
Reading(p) == [p EXCEPT !.loading = TRUE, !.plan = "blank", !.scheduling = FALSE]

LoadRounds(t) ==
    /\ ~ivpage[t].loading
    /\ ivpage' = [ivpage EXCEPT ![t] = Reading(@)]
    /\ UNCHANGED <<round, ivcall>>

\* The copy is old as soon as the round changes; a failed read shows the copy there was.
RoundsLoaded(t, ok) ==
    /\ ivpage[t].loading
    /\ ivpage' = [ivpage EXCEPT ![t].seen = IF ok THEN round.row ELSE @, ![t].loading = FALSE]
    /\ UNCHANGED <<round, ivcall>>

TabShown(t) == ~ivpage[t].loading

-----------------------------------------------------------------------------
\* The schedule modal.

ModalSets(t, set) == ivpage' = [ivpage EXCEPT ![t] = set] /\ UNCHANGED <<round, ivcall>>
ModalShown(t) == TabShown(t) /\ ivpage[t].modal
Plans(t, from, to) == ModalShown(t) /\ ivpage[t].plan = from /\ ModalSets(t, [ivpage[t] EXCEPT !.plan = to])

\* Opening it drops the slots and leaves the rest of the form, and a call that is on its way.
OpenSchedule(t) ==
    /\ t \in SchedulesIn /\ TabShown(t) /\ ~ivpage[t].modal
    /\ ModalSets(t, [ivpage[t] EXCEPT !.modal = TRUE,
                                     !.plan = IF @ \in {"asked", "slots"} THEN "panel" ELSE @])
CloseSchedule(t) == ModalShown(t) /\ ModalSets(t, [ivpage[t] EXCEPT !.modal = FALSE])

AddPanelMember(t) == Plans(t, "blank", "panel")
\* The last member removed: without a panel nothing can be submitted.
RemovePanelMember(t) ==
    \E from \in {"panel", "asked", "slots", "full"} : Plans(t, from, "blank")
FetchAvailability(t) == Plans(t, "panel", "asked")
AvailabilityAnswered(t, ok) == Plans(t, "asked", IF ok THEN "slots" ELSE "panel")
PickSlot(t) == Plans(t, "slots", "full")
\* A time typed in by hand.
SetScheduledAt(t) == \E from \in {"panel", "asked", "slots"} : Plans(t, from, "full")

IvSends(t, ask) ==
    /\ ivcall[t] = "none"
    /\ ivcall' = [ivcall EXCEPT ![t] = ask]
    /\ UNCHANGED round

\* Without a time or a panel the form only says so.
SubmitSchedule(t) ==
    /\ ModalShown(t) /\ ~ivpage[t].scheduling /\ ivpage[t].plan = "full"
    /\ IvSends(t, "create")
    /\ ivpage' = [ivpage EXCEPT ![t].scheduling = TRUE]

-----------------------------------------------------------------------------
\* The card of the round.

CardShown(t) == TabShown(t) /\ ivpage[t].seen.status # "none"
BugCanAct(t, ask) ==
    CASE ask = "invites"  -> ~ivpage[t].seen.decided
      [] ask = "complete" -> ivpage[t].seen.status # "completed"
      [] ask = "decide"   -> ivpage[t].seen.status = "completed" /\ ~ivpage[t].seen.decided
      [] ask = "debrief"  -> ivpage[t].seen.status = "completed"
CanAct(t, ask) ==
    CASE ask = "invites"  -> ~ivpage[t].seen.decided
      [] ask = "complete" -> ivpage[t].seen.status # "completed"
      [] ask = "decide"   -> ivpage[t].seen.status = "completed" /\ ~ivpage[t].seen.decided
      [] ask = "debrief"  -> ivpage[t].seen.status = "completed" /\ ivpage[t].seen.fed
\* A debrief asked from a copy older than the panel is told apart from the others.
Act(t, ask) ==
    /\ CardShown(t) /\ CanAct(t, ask)
    /\ IvSends(t, IF ask = "debrief" /\ ~ivpage[t].seen.panel THEN "hurry" ELSE ask)
    /\ UNCHANGED ivpage

-----------------------------------------------------------------------------
\* The server, and the answer with it.  One round is followed here: a second one made
\* meanwhile is another row.

AfterWrite(row, ask) ==
    CASE ask = "calendar" -> [row EXCEPT !.status = "scheduled"]   \* whatever happened to it meanwhile
      [] ask \in {"complete", "draft"} -> [row EXCEPT !.status = "completed"]
      [] ask = "decide" -> [row EXCEPT !.decided = TRUE]           \* update_interview checks nothing
      [] OTHER -> row

\* A call that fails may have been written; the page knows only that it failed.
Written(t, done) == round' = [round EXCEPT !.row = IF done THEN AfterWrite(@, ivcall[t]) ELSE @]

\* create_interview: the row, then the panelists one by one, then the event.  Until the last
\* panelist is on record the marks count for those who are; nobody has marked the last one.
CreateRound(t) ==
    /\ ivcall[t] = "create"
    /\ \/ /\ round.row.status = "none"
          /\ round' = [round EXCEPT !.row.status = "scheduled", !.row.fed = TRUE]
          /\ ivcall' = [ivcall EXCEPT ![t] = "panel"]
       \/ /\ round.row.status # "none"
          /\ ivcall' = [ivcall EXCEPT ![t] = "event"]
          /\ UNCHANGED round
    /\ UNCHANGED ivpage
\* This comes too when the page no longer waits for it, or never.
PanelOnRecord ==
    /\ round.row.status # "none" /\ ~round.row.panel
    /\ round' = [round EXCEPT !.row.panel = TRUE, !.row.fed = FALSE]
    /\ ivcall' = [t \in IvTab |-> IF ivcall[t] = "panel" THEN "event" ELSE ivcall[t]]
    /\ UNCHANGED ivpage

\* The calendar is asked for after the round was made, or not at all.  A failure of either
\* is "Please try again"; success closes the modal.
ScheduleServed(t, done, ok) ==
    /\ ivcall[t] \in {"create", "panel", "event", "calendar"} /\ (ok => done)
    /\ ok => ivcall[t] \in {"event", "calendar"}
    /\ Written(t, done)
    /\ \/ ok /\ ivcall[t] = "event" /\ ivcall' = [ivcall EXCEPT ![t] = "calendar"] /\ UNCHANGED ivpage
       \/ /\ ivcall' = [ivcall EXCEPT ![t] = "none"]
          /\ ivpage' = [ivpage EXCEPT ![t] = IF ok THEN [Reading(@) EXCEPT !.modal = FALSE]
                                            ELSE [@ EXCEPT !.scheduling = FALSE]]

\* A write of the card; the card reads the rounds again.
CardServed(t, done, ok) ==
    /\ ivcall[t] \in {"complete", "decide", "invites"} /\ (ok => done)
    /\ Written(t, done)
    /\ ivcall' = [ivcall EXCEPT ![t] = "none"]
    /\ ivpage' = [ivpage EXCEPT ![t] = IF ok THEN Reading(@) ELSE @]

\* generate_debrief reads the scorecards that are submitted ones now, whoever is marked;
\* the text drafted from them is stored later, and the page shows it.
ReadScorecards(t) ==
    /\ ivcall[t] \in {"debrief", "hurry"}
    /\ round' = [round EXCEPT !.debrief =
                    IF round.cards THEN "whole"
                    ELSE IF round.row.panel /\ round.row.fed THEN "short"
                    ELSE IF ivcall[t] = "hurry" THEN "hurried" ELSE "early"]
    /\ ivcall' = [ivcall EXCEPT ![t] = "draft"]
    /\ UNCHANGED ivpage
DebriefServed(t, done) ==
    /\ ivcall[t] = "draft"
    /\ Written(t, done)
    /\ ivcall' = [ivcall EXCEPT ![t] = "none"]
    /\ UNCHANGED ivpage

\* The panelists hand in feedback, and overwrite it with drafts.  A mark is never taken
\* back, but a panelist put on record comes without one.
PanelFeeds ==
    /\ round.row.status # "none"
    /\ \E fed \in BOOLEAN, cards \in BOOLEAN :
         /\ round.row.panel /\ round.row.fed => fed
         /\ cards => round.row.panel
         /\ round' = [round EXCEPT !.row.fed = fed, !.cards = cards]
    /\ UNCHANGED <<ivpage, ivcall>>

-----------------------------------------------------------------------------
IvNext ==
    \/ PanelOnRecord \/ PanelFeeds
    \/ \E t \in IvTab :
        \/ LoadRounds(t) \/ OpenSchedule(t) \/ CloseSchedule(t)
        \/ AddPanelMember(t) \/ RemovePanelMember(t) \/ FetchAvailability(t)
        \/ PickSlot(t) \/ SetScheduledAt(t) \/ SubmitSchedule(t)
        \/ \E ask \in CardAsk : Act(t, ask)
        \/ CreateRound(t) \/ ReadScorecards(t)
        \/ \E done \in BOOLEAN : DebriefServed(t, done)
        \/ \E ok \in BOOLEAN :
             \/ RoundsLoaded(t, ok) \/ AvailabilityAnswered(t, ok)
             \/ \E done \in BOOLEAN : ScheduleServed(t, done, ok) \/ CardServed(t, done, ok)

IvSpec == IvInit /\ [][IvNext]_ivVars

\* However old the copy a tab offers the debrief from, if the panel was on record when it
\* was read, no debrief is drafted before everybody on it is marked as having handed in
\* feedback (InterviewsTab.jsx, canDebrief and "Generate Debrief").  It may still be drafted
\* from fewer scorecards than marks ("short").
NoEarlyDebrief == round.debrief # "early"
=============================================================================
