------------------------------ MODULE HireDesk ------------------------------
(***************************************************************************)
(* One hire request in the tabs of several people: the detail page with   *)
(* its actions (components/HireRequests/HireRequestDetailPage), the form  *)
(* that files or edits it (HireRequestForm) and the filtered list         *)
(* (HireRequestListPage).  A tab shows what it last loaded; the request   *)
(* goes on without it.  HireRequests models what happens inside the       *)
(* server's calls; here a call is served in one step, and a tab has one   *)
(* call at a time: one whose page was left holds up the next.             *)
(***************************************************************************)
EXTENDS Naturals, FiniteSets

CONSTANTS
    Tab,         \* one browser tab per person
    DeskRole,    \* [Tab -> role of its user]
    Filer,       \* the tab of the requester
    ListFilter,  \* the filters of the list
    NoTab

ASSUME DeskAssumption ==
    /\ NoTab \notin Tab /\ Filer \in Tab /\ "none" \notin ListFilter
    /\ DeskRole \in [Tab -> {"team_lead", "dept_admin", "org_head", "hr"}]

VARIABLES
    hreq,      \* the row of hire_requests; its fields are not told apart
    desk,      \* [Tab -> the page it shows]
    deskCall,  \* [Tab -> its call that changes the request, and whether its page is still up]
    shelf,     \* [Tab -> the list page: filter, what it shows]
    listCalls  \* list calls whose answer will be used

deskVars == <<hreq, desk, deskCall, shelf, listCalls>>

DeskStatus == {"pending", "under_review", "approved", "approved_modified", "rejected",
               "accepted", "fulfilled", "cancelled"}
DeskOp == {"approve", "reject", "accept", "cancel", "update"}

DeskTypeOK ==
    /\ hreq \in [status : DeskStatus, by : Tab \cup {NoTab}]
    /\ desk \in [Tab -> [at : {"away", "list", "detail", "form", "chat"},
                         view : DeskStatus \cup {"none", "loading"}, busy : BOOLEAN,
                         panel : {"none", "approve", "reject", "cancel", "invalid"}]]
    /\ deskCall \in [Tab -> [op : DeskOp \cup {"none"}, at : {"sent", "ok", "refused"}, heard : BOOLEAN]]
    /\ shelf \in [Tab -> [filter : ListFilter \cup {"none"}, shows : ListFilter \cup {"none"},
                          is : {"idle", "loading", "failed"}]]
    /\ listCalls \subseteq [tab : Tab, filter : ListFilter]

AtNoPage == [at |-> "away", view |-> "none", busy |-> FALSE, panel |-> "none"]
NoDeskCall == [op |-> "none", at |-> "sent", heard |-> TRUE]
NoShelf == [filter |-> "none", shows |-> "none", is |-> "idle"]

DeskInit ==
    /\ hreq = [status |-> "pending", by |-> NoTab]
    /\ desk = [b \in Tab |-> AtNoPage] /\ deskCall = [b \in Tab |-> NoDeskCall]
    /\ shelf = [b \in Tab |-> NoShelf] /\ listCalls = {}

-----------------------------------------------------------------------------
\* What the pages offer: from the request as the tab last loaded it.

DeskAdmin(b) == DeskRole[b] \in {"org_head", "dept_admin"}
DeskRecruiter(b) == DeskRole[b] \in {"hr", "org_head"}
OnDetail(b) == desk[b].at = "detail" /\ desk[b].view \notin {"none", "loading"}

OfferedEdit(b) == OnDetail(b) /\ (b = Filer \/ DeskAdmin(b)) /\ desk[b].view = "pending"
OfferedCancel(b) ==
    /\ OnDetail(b) /\ (b = Filer \/ DeskAdmin(b)) /\ ~desk[b].busy
    /\ desk[b].view \notin {"cancelled", "fulfilled", "rejected"}
OfferedPickup(b) ==
    OnDetail(b) /\ DeskRecruiter(b) /\ ~desk[b].busy /\ desk[b].view \in {"approved", "approved_modified"}
OfferedResume(b) ==
    OnDetail(b) /\ DeskRecruiter(b) /\ desk[b].view = "accepted"
OfferedDecision(b) == OnDetail(b) /\ DeskAdmin(b) /\ desk[b].view = "pending" /\ ~desk[b].busy

-----------------------------------------------------------------------------
\* The list's effect is cleaned up: the answer of its call will be ignored.
BugSilenced(b) == listCalls
Silenced(b) == {f \in listCalls : f.tab # b}

\* Another page is shown; the call of the page before goes on.
Opens(b, page) ==
    /\ desk' = [desk EXCEPT ![b] = page]
    /\ deskCall' = [deskCall EXCEPT ![b].heard = deskCall[b].op = "none"]
    /\ shelf' = [shelf EXCEPT ![b] = NoShelf]
    /\ listCalls' = Silenced(b)
    /\ UNCHANGED hreq

LoadingPage(page) == [AtNoPage EXCEPT !.at = page, !.view = "loading"]

\* The detail page.

\* It is opened, and loads.
OpenDetail(b) == desk[b].at \in {"away", "list", "form"} /\ Opens(b, LoadingPage("detail"))

DetailArrives(b) ==
    /\ desk[b].at = "detail" /\ desk[b].view = "loading"
    /\ desk' = [desk EXCEPT ![b].view = hreq.status]
    /\ UNCHANGED <<hreq, deskCall, shelf, listCalls>>

DetailFails(b) ==
    /\ desk[b].at = "detail" /\ desk[b].view = "loading"
    /\ desk' = [desk EXCEPT ![b].view = "none"]
    /\ UNCHANGED <<hreq, deskCall, shelf, listCalls>>

\* The inline panels of Approve and Reject, and the modal of Cancel.
OpenDeskPanel(b, p) ==
    /\ IF p = "cancel" THEN OfferedCancel(b)
       ELSE OfferedDecision(b) /\ desk[b].panel = "none"
    /\ desk' = [desk EXCEPT ![b].panel = p]
    /\ UNCHANGED <<hreq, deskCall, shelf, listCalls>>

ClosePanel(b) ==
    /\ desk[b].panel \in {"approve", "reject", "cancel"} /\ ~desk[b].busy
    /\ desk' = [desk EXCEPT ![b].panel = "none"]
    /\ UNCHANGED <<hreq, deskCall, shelf, listCalls>>

DeskSends(b, op) ==
    /\ deskCall[b].op = "none"
    /\ deskCall' = [deskCall EXCEPT ![b] = [NoDeskCall EXCEPT !.op = op]]
    /\ desk' = [desk EXCEPT ![b].busy = TRUE]
    /\ UNCHANGED <<hreq, shelf, listCalls>>

ConfirmPanel(b) ==
    /\ \/ desk[b].panel \in {"approve", "reject"} /\ OfferedDecision(b)
       \/ desk[b].panel = "cancel" /\ ~desk[b].busy
    /\ DeskSends(b, desk[b].panel)

DeskPickup(b) == OfferedPickup(b) /\ DeskSends(b, "accept")

ResumeChat(b) ==
    OfferedResume(b) /\ Opens(b, [AtNoPage EXCEPT !.at = "chat"])

-----------------------------------------------------------------------------
\* The form.

OpenHireForm(b) == OfferedEdit(b) /\ Opens(b, LoadingPage("form"))

FormArrives(b) ==
    /\ desk[b].at = "form" /\ desk[b].view = "loading"
    /\ desk' = [desk EXCEPT ![b].view = hreq.status]
    /\ UNCHANGED <<hreq, deskCall, shelf, listCalls>>

\* The fields are edited, also while a save is on its way: validate passes them or not.
FillForm(b) ==
    /\ desk[b].at = "form" /\ desk[b].view # "loading"
    /\ desk' = [desk EXCEPT ![b].panel = IF @ = "invalid" THEN "none" ELSE "invalid"]
    /\ UNCHANGED <<hreq, deskCall, shelf, listCalls>>

\* The whole form is sent, changed fields or not, once validate finds no error in it.
SubmitForm(b) ==
    /\ desk[b].at = "form" /\ desk[b].view # "loading" /\ ~desk[b].busy
    /\ desk[b].panel # "invalid"
    /\ DeskSends(b, "update")

-----------------------------------------------------------------------------
\* The calls, served by services/hire_requests.

\* From which statuses the server lets a call through.
Servable(op) == CASE op = "accept" -> {"approved", "approved_modified"}
                  [] op = "cancel" -> DeskStatus \ {"cancelled", "fulfilled", "rejected"}
                  [] OTHER -> {"pending"}

DeskBecomes(b, op) ==
    CASE op = "update"  -> hreq
      [] op = "approve" -> [hreq EXCEPT !.status = "approved"]
      [] op = "reject"  -> [hreq EXCEPT !.status = "rejected"]
      [] op = "accept"  -> [hreq EXCEPT !.status = "accepted", !.by = b]
      [] op = "cancel"  -> [hreq EXCEPT !.status = "cancelled"]

ServeDesk(b) ==
    /\ deskCall[b].op # "none" /\ deskCall[b].at = "sent"
    /\ IF hreq.status \in Servable(deskCall[b].op)
       THEN /\ hreq' = DeskBecomes(b, deskCall[b].op)
            /\ deskCall' = [deskCall EXCEPT ![b].at = "ok"]
       ELSE /\ deskCall' = [deskCall EXCEPT ![b].at = "refused"]
            /\ UNCHANGED hreq
    /\ UNCHANGED <<desk, shelf, listCalls>>

\* The answer arrives.  A decision shows the request it returns; a cancellation loads
\* it again.
DeskTaken(b) ==
    CASE deskCall[b].op \in {"approve", "reject"} ->
            [desk[b] EXCEPT !.view = IF deskCall[b].op = "reject" THEN "rejected" ELSE "approved",
                            !.busy = FALSE, !.panel = "none"]
      [] OTHER -> [desk[b] EXCEPT !.view = "loading", !.busy = FALSE, !.panel = "none"]

AnswerOk(b) == deskCall[b].at = "ok"

DeskAnswered(b) ==
    /\ deskCall[b].op \in {"approve", "reject", "cancel"} /\ AnswerOk(b)
    /\ desk' = IF deskCall[b].heard THEN [desk EXCEPT ![b] = DeskTaken(b)] ELSE desk
    /\ deskCall' = [deskCall EXCEPT ![b] = NoDeskCall]
    /\ UNCHANGED <<hreq, shelf, listCalls>>

\* A pickup goes to the chat and a saved form to the detail page, from wherever the
\* user has gone meanwhile.
DeskGoes(b) ==
    /\ deskCall[b].op \in {"accept", "update"} /\ AnswerOk(b)
    /\ desk' = [desk EXCEPT ![b] = IF deskCall[b].op = "accept" THEN [AtNoPage EXCEPT !.at = "chat"]
                                   ELSE LoadingPage("detail")]
    /\ deskCall' = [deskCall EXCEPT ![b] = NoDeskCall]
    /\ shelf' = [shelf EXCEPT ![b] = NoShelf]
    /\ listCalls' = Silenced(b)
    /\ UNCHANGED hreq

\* A refusal or a lost answer shows an error; the cancel modal closes with it.
DeskRefused(b) ==
    /\ deskCall[b].op # "none"
    /\ desk' = IF deskCall[b].heard
               THEN [desk EXCEPT ![b].busy = FALSE,
                                 ![b].panel = IF @ = "cancel" THEN "none" ELSE @]
               ELSE desk
    /\ deskCall' = [deskCall EXCEPT ![b] = NoDeskCall]
    /\ UNCHANGED <<hreq, shelf, listCalls>>

\* The user leaves; an unmounted page no longer shows its answers.
LeaveDesk(b) == desk[b].at # "away" /\ Opens(b, AtNoPage)

\* What happens to the request elsewhere: the review of a modified request, and
\* the position that fulfils it.
HappensElsewhere ==
    /\ \/ hreq.status = "pending" /\ hreq' = [hreq EXCEPT !.status = "under_review"]
       \/ hreq.status = "under_review" /\ hreq' \in
             {[hreq EXCEPT !.status = s] : s \in {"pending", "approved_modified", "rejected"}}
       \/ hreq.status = "accepted" /\ hreq' = [hreq EXCEPT !.status = "fulfilled"]
    /\ UNCHANGED <<desk, deskCall, shelf, listCalls>>

-----------------------------------------------------------------------------
\* The list: one call per chosen filter.  It shows the rows of the filter whose
\* answer came last.

PickFilter(b, f) ==
    /\ desk[b].at \in {"away", "list"} /\ shelf[b].filter # f
    /\ desk' = [desk EXCEPT ![b].at = "list"]
    /\ shelf' = [shelf EXCEPT ![b].filter = f, ![b].is = "loading"]
    /\ listCalls' = Silenced(b) \cup {[tab |-> b, filter |-> f]}
    /\ UNCHANGED <<hreq, deskCall>>

\* An error leaves the list of the earlier filter under its banner.
ListArrives(f) ==
    /\ listCalls' = listCalls \ {f}
    /\ shelf' \in {[shelf EXCEPT ![f.tab].shows = f.filter, ![f.tab].is = "idle"],
                   [shelf EXCEPT ![f.tab].is = "failed"]}
    /\ UNCHANGED <<hreq, desk, deskCall>>

DeskNext ==
    \/ \E b \in Tab :
          \/ OpenDetail(b) \/ DetailArrives(b) \/ DetailFails(b) \/ ClosePanel(b) \/ ConfirmPanel(b)
          \/ DeskPickup(b) \/ ResumeChat(b) \/ OpenHireForm(b) \/ FormArrives(b)
          \/ FillForm(b) \/ SubmitForm(b) \/ ServeDesk(b) 
          \/ DeskAnswered(b) \/ DeskGoes(b) \/ DeskRefused(b) \/ LeaveDesk(b)
          \/ (\E p \in {"approve", "reject", "cancel"} : OpenDeskPanel(b, p))
          \/ \E f \in ListFilter : PickFilter(b, f)
    \/ \E f \in listCalls : ListArrives(f)
    \/ HappensElsewhere

DeskSpec == DeskInit /\ [][DeskNext]_deskVars

\* A list that has arrived is the list of the chosen filter, in whatever order
\* the answers of earlier filters come.
ListShowsFilter ==
    \A b \in Tab : shelf[b].is = "idle" => shelf[b].shows = shelf[b].filter
=============================================================================
