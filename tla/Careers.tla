------------------------------- MODULE Careers -------------------------------
(***************************************************************************)
(* The public career page of one company and the application it starts:   *)
(* frontend/src/components/Careers/CareerPage.jsx and the apply endpoint   *)
(* of backend/routers/careers.py.                                          *)
(*                                                                         *)
(* One applicant works in several tabs.  The answers of a page's reads     *)
(* arrive in any order and are stored as they come; an apply call reads    *)
(* and writes its rows in separate statements.                             *)
(***************************************************************************)
EXTENDS Naturals, FiniteSets

CONSTANTS
    Opening,      \* the open positions
    Fit,          \* the filters one can set
    AllRoles,     \* the filter that selects every position
    CareerTab,
    MaxCareerCalls,  \* bound: reads on their way in a tab
    NoOpening

ASSUME CareersAssumption ==
    AllRoles \in Fit /\ NoOpening \notin Opening /\ MaxCareerCalls \in Nat

VARIABLES
    rows,     \* [Opening -> number of candidate_applications rows of the applicant]
    career,   \* [CareerTab -> the page's state]
    reads,    \* [CareerTab -> its reads on their way]
    start     \* [CareerTab -> its apply call]

careersVars == <<rows, career, reads, start>>

Route == Opening \cup {NoOpening}
NoStart == [at |-> "idle", to |-> NoOpening]
Read == [kind : {"org"}] \cup [kind : {"fit"}, fit : Fit, initial : BOOLEAN]
          \cup [kind : {"position"}, to : Opening]
Closed == [open |-> FALSE, route |-> NoOpening, org |-> FALSE, loading |-> TRUE, error |-> FALSE,
           fit |-> AllRoles, active |-> NoOpening, loadingPos |-> FALSE, modal |-> FALSE]

CareersTypeOK ==
    /\ rows \in [Opening -> 0..2]
    /\ career \in [CareerTab ->
         [open : BOOLEAN, route : Route, org : BOOLEAN, loading : BOOLEAN, error : BOOLEAN,
          fit : Fit, active : Route, loadingPos : BOOLEAN, modal : BOOLEAN]]
    /\ reads \in [CareerTab -> SUBSET Read]
    /\ start \in [CareerTab -> [at : {"idle", "sent", "insert", "found", "ok", "failed"}, to : Route]]

CareersInit ==
    /\ rows = [p \in Opening |-> 0]
    /\ career = [t \in CareerTab |-> Closed]
    /\ reads = [t \in CareerTab |-> {}]
    /\ start = [t \in CareerTab |-> NoStart]

-----------------------------------------------------------------------------
\* The page's effects send its reads.

OrgRead == [kind |-> "org"]
FitRead(f, initial) == [kind |-> "fit", fit |-> f, initial |-> initial]
PositionRead(p) == [kind |-> "position", to |-> p]
RouteReads(p) == IF p = NoOpening THEN {} ELSE {PositionRead(p)}
Reads(t, rs) == Cardinality(reads[t] \cup rs) <= MaxCareerCalls /\ reads' = [reads EXCEPT ![t] = @ \cup rs]

\* A link to the list or to a position is opened in a tab.
OpenCareer(t, p) ==
    /\ ~career[t].open /\ start[t] = NoStart
    /\ career' = [career EXCEPT ![t] = [Closed EXCEPT !.open = TRUE, !.route = p, !.loadingPos = p # NoOpening]]
    /\ Reads(t, {OrgRead} \cup RouteReads(p))
    /\ UNCHANGED <<rows, start>>

\* Another role's card, the breadcrumb, or the browser's history; the modal stays as it is.
GoToRoute(t, p) ==
    /\ career[t].open /\ p # career[t].route
    /\ career' = [career EXCEPT ![t].route = p,
                                ![t].active = IF p = NoOpening THEN NoOpening ELSE @,
                                ![t].loadingPos = @ \/ p # NoOpening]
    /\ Reads(t, RouteReads(p))
    /\ UNCHANGED <<rows, start>>

PageShown(t) == career[t].open /\ ~career[t].loading /\ ~career[t].error /\ career[t].org

SetFitFilters(t, f) ==
    /\ PageShown(t) /\ career[t].route = NoOpening /\ f # career[t].fit
    /\ career' = [career EXCEPT ![t].fit = f]
    /\ Reads(t, {FitRead(f, FALSE)})
    /\ UNCHANGED <<rows, start>>

CloseCareer(t) ==
    /\ career[t].open
    /\ career' = [career EXCEPT ![t] = Closed]
    /\ reads' = [reads EXCEPT ![t] = {}]
    /\ UNCHANGED <<rows, start>>

-----------------------------------------------------------------------------
\* Their answers, in any order.

OrgAnswered(t, ok) ==
    /\ OrgRead \in reads[t]
    /\ career' = [career EXCEPT ![t] = IF ok THEN [@ EXCEPT !.org = TRUE]
                                       ELSE [@ EXCEPT !.error = TRUE, !.loading = FALSE]]
    /\ reads' = [reads EXCEPT ![t] =
         (@ \ {OrgRead}) \cup (IF ok THEN {FitRead(career[t].fit, TRUE)} ELSE {})]
    /\ UNCHANGED <<rows, start>>

\* The list itself is not kept: nothing but what is shown depends on it.
FitAnswered(t, r) ==
    /\ r.kind = "fit"
    /\ career' = [career EXCEPT ![t].loading = @ /\ ~r.initial]
    /\ reads' = [reads EXCEPT ![t] = @ \ {r}]
    /\ UNCHANGED <<rows, start>>

\* A late answer about another position replaces the one shown.
PositionAnswered(t, r, ok) ==
    /\ r.kind = "position"
    /\ career' = [career EXCEPT ![t] =
         IF ok THEN [@ EXCEPT !.active = r.to, !.org = TRUE, !.loadingPos = FALSE]
         ELSE [@ EXCEPT !.loadingPos = FALSE]]
    /\ reads' = [reads EXCEPT ![t] = @ \ {r}]
    /\ UNCHANGED <<rows, start>>

-----------------------------------------------------------------------------
\* Applying.

Applying(t) == start[t] # NoStart
ApplyShown(t) ==
    PageShown(t) /\ career[t].route # NoOpening /\ ~career[t].loadingPos /\ career[t].active # NoOpening

HandleApplyClick(t) ==
    /\ ApplyShown(t) /\ ~Applying(t) /\ ~career[t].modal
    /\ career' = [career EXCEPT ![t].modal = TRUE]
    /\ UNCHANGED <<rows, reads, start>>

\* The cross works at any time, 'Cancel' while nothing is sent.
CloseApplyModal(t) ==
    /\ PageShown(t) /\ career[t].modal
    /\ career' = [career EXCEPT ![t].modal = FALSE]
    /\ UNCHANGED <<rows, reads, start>>

\* The call goes to the position of the address, whichever is shown.
SubmitApplication(t) ==
    /\ PageShown(t) /\ career[t].modal /\ ~Applying(t)
    /\ start' = [start EXCEPT ![t] = [at |-> IF career[t].route = NoOpening THEN "failed" ELSE "sent",
                                      to |-> career[t].route]]
    /\ UNCHANGED <<rows, career, reads>>

\* start_application: the row is looked up, and made where there is none.
FindApplication(t) ==
    /\ start[t].at = "sent"
    /\ start' = [start EXCEPT ![t].at = IF rows[start[t].to] > 0 THEN "found" ELSE "insert"]
    /\ UNCHANGED <<rows, career, reads>>

\* ON CONFLICT (candidate_id, position_id): a row made meanwhile is taken.
RowsAfterInsert(p) == 1
InsertApplication(t) ==
    /\ start[t].at = "insert"
    /\ rows' = [rows EXCEPT ![start[t].to] = RowsAfterInsert(start[t].to)]
    /\ start' = [start EXCEPT ![t].at = "found"]
    /\ UNCHANGED <<career, reads>>

AnswerStart(t, ok) ==
    /\ start[t].at = "found" \/ (~ok /\ start[t].at = "sent")
    /\ start' = [start EXCEPT ![t].at = IF ok THEN "ok" ELSE "failed"]
    /\ UNCHANGED <<rows, career, reads>>

\* The tab goes on to the application chat, or the error is shown; an answer to a page
\* that was left is dropped.
StartAnswered(t) ==
    /\ start[t].at \in {"ok", "failed"}
    /\ career' = [career EXCEPT ![t] = IF start[t].at = "ok" THEN Closed ELSE @]
    /\ reads' = [reads EXCEPT ![t] = IF start[t].at = "ok" THEN {} ELSE @]
    /\ start' = [start EXCEPT ![t] = NoStart]
    /\ UNCHANGED rows

-----------------------------------------------------------------------------
CareersNext ==
    \E t \in CareerTab :
        \/ \E p \in Route : OpenCareer(t, p) \/ GoToRoute(t, p)
        \/ \E f \in Fit : SetFitFilters(t, f)
        \/ CloseCareer(t)
        \/ \E ok \in BOOLEAN : OrgAnswered(t, ok) \/ AnswerStart(t, ok)
        \/ \E r \in reads[t] : FitAnswered(t, r) \/ \E ok \in BOOLEAN : PositionAnswered(t, r, ok)
        \/ HandleApplyClick(t) \/ CloseApplyModal(t) \/ SubmitApplication(t)
        \/ FindApplication(t) \/ InsertApplication(t) \/ StartAnswered(t)

CareersSpec == CareersInit /\ [][CareersNext]_careersVars
=============================================================================
