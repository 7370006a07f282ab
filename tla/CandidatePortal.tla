--------------------------- MODULE CandidatePortal ---------------------------
(***************************************************************************)
(* The pages a candidate uses after applying: setting a password with the *)
(* mailed link, signing in, the dashboard, the written test and the       *)
(* status page (frontend/src/pages/CandidatePortal, components/Status),   *)
(* with their endpoints (backend/routers/candidate_portal.py,             *)
(* pre_evaluations.py).                                                    *)
(*                                                                         *)
(* One candidate with one setup link and one test, in several tabs; the   *)
(* tabs share localStorage, where the token is kept.                      *)
(***************************************************************************)
EXTENDS Naturals

CONSTANTS PortalTab

VARIABLES
    portal,   \* what the server keeps of the candidate
    pToken,   \* localStorage 'candidate_token'
    ptab,     \* [PortalTab -> the page shown and the state of its form]
    pcall     \* [PortalTab -> its call on its way]

portalVars == <<portal, pToken, ptab, pcall>>

PPlace == {"closed", "setpw", "login", "dash", "test", "status"}
NoPCall == [kind |-> "none", at |-> "idle", arg |-> FALSE]

PortalTypeOK ==
    /\ portal \in [used : BOOLEAN, sets : 0..2, submitted : 0..2, pool : {"unset", "in", "out"}]
    /\ pToken \in BOOLEAN
    /\ ptab \in [PortalTab -> [place : PPlace, form : {"loading", "idle", "busy", "error", "done"}]]
    /\ pcall \in [PortalTab ->
         [kind : {"none", "setpw", "login", "timeline", "optin", "load", "submit"},
          at : {"idle", "sent", "checked", "ok", "denied", "failed"}, arg : BOOLEAN]]

PortalInit ==
    /\ portal = [used |-> FALSE, sets |-> 0, submitted |-> 0, pool |-> "unset"]
    /\ pToken = FALSE
    /\ ptab = [t \in PortalTab |-> [place |-> "closed", form |-> "idle"]]
    /\ pcall = [t \in PortalTab |-> NoPCall]

-----------------------------------------------------------------------------
\* Pages open, by a link or by a navigation; the answers of the page left are dropped.

Shows(t, place, form, kind) ==
    /\ ptab' = [ptab EXCEPT ![t] = [place |-> place, form |-> form]]
    /\ pcall' = [pcall EXCEPT ![t] = IF kind = "none" THEN NoPCall
                                     ELSE [NoPCall EXCEPT !.kind = kind, !.at = "sent"]]
OpenForm(t, place) == place \in {"setpw", "login"} /\ Shows(t, place, "idle", "none")
\* The dashboard without a token is the sign-in page.
OpenDash(t) ==
    IF pToken THEN Shows(t, "dash", "loading", "timeline") ELSE Shows(t, "login", "idle", "none")
OpenLoaded(t, place) == place \in {"test", "status"} /\ Shows(t, place, "loading", "load")

OpenPortal(t) ==
    /\ pcall[t] = NoPCall
    /\ \/ \E place \in PPlace : OpenForm(t, place) \/ OpenLoaded(t, place)
       \/ OpenDash(t)
    /\ UNCHANGED <<portal, pToken>>

\* A form that does not pass the page's own check says so and sends nothing.
PortalRefuses(t) ==
    /\ ptab[t].place \in {"setpw", "login"} /\ ptab[t].form \in {"idle", "error"}
    /\ ptab' = [ptab EXCEPT ![t].form = "error"]
    /\ UNCHANGED <<portal, pToken, pcall>>

PortalSends(t, kind, at, arg) ==
    /\ pcall[t] = NoPCall
    /\ pcall' = [pcall EXCEPT ![t] = [kind |-> kind, at |-> at, arg |-> arg]]
    /\ ptab' = [ptab EXCEPT ![t].form = "busy"]
    /\ UNCHANGED <<portal, pToken>>

FormOpen(t, place) == ptab[t].place = place /\ ptab[t].form \in {"idle", "error"}
\* The page checks the length of the password, not that it is more than digits (arg).
SubmitSetup(t, digits) == FormOpen(t, "setpw") /\ PortalSends(t, "setpw", "sent", digits)
SubmitLogin(t) == FormOpen(t, "login") /\ PortalSends(t, "login", "sent", FALSE)
\* The token is attached when the call is sent: another tab may have removed it.
OptIn(t, in) == FormOpen(t, "dash") /\ PortalSends(t, "optin", IF pToken THEN "sent" ELSE "denied", in)
SubmitTest(t) == FormOpen(t, "test") /\ PortalSends(t, "submit", "sent", FALSE)

LogOutPortal(t) ==
    /\ ptab[t].place = "dash" /\ ptab[t].form # "loading"
    /\ pToken' = FALSE
    /\ Shows(t, "login", "idle", "none")
    /\ UNCHANGED portal

-----------------------------------------------------------------------------
\* The server.

Serves(t, at) == pcall' = [pcall EXCEPT ![t].at = at] /\ UNCHANGED <<pToken, ptab>>
PCalled(t, kind, at) == pcall[t].kind = kind /\ pcall[t].at = at

\* The key of the link is stored first, and only once; the password is checked then.
LinkUnused == ~portal.used
ConsumeLink(t) ==
    /\ PCalled(t, "setpw", "sent")
    /\ portal' = [portal EXCEPT !.used = TRUE]
    /\ Serves(t, IF LinkUnused THEN "checked" ELSE "failed")
StorePassword(t) ==
    /\ PCalled(t, "setpw", "checked")
    /\ portal' = IF pcall[t].arg THEN portal ELSE [portal EXCEPT !.sets = @ + 1]
    /\ Serves(t, IF pcall[t].arg THEN "failed" ELSE "ok")

ServeLogin(t) ==
    /\ PCalled(t, "login", "sent")
    /\ Serves(t, IF portal.sets > 0 THEN "ok" ELSE "failed")
    /\ UNCHANGED portal

\* The token may have expired.
ServePortal(t, valid) ==
    /\ PCalled(t, "timeline", "sent") \/ PCalled(t, "optin", "sent")
    /\ portal' = IF pcall[t].kind = "optin" /\ valid
                 THEN [portal EXCEPT !.pool = IF pcall[t].arg THEN "in" ELSE "out"] ELSE portal
    /\ Serves(t, IF valid THEN "ok" ELSE "denied")

\* The test is given out while it is pending; the status page is read alike.
ServeOpen(t) ==
    /\ PCalled(t, "load", "sent")
    /\ Serves(t, IF ptab[t].place = "test" /\ portal.submitted > 0 THEN "failed" ELSE "ok")
    /\ UNCHANGED portal

\* submit_evaluation: the status is read first and the answers written then.
CheckPending(t) ==
    /\ PCalled(t, "submit", "sent")
    /\ Serves(t, IF portal.submitted > 0 THEN "failed" ELSE "checked")
    /\ UNCHANGED portal
StoreAnswers(t) ==
    /\ PCalled(t, "submit", "checked") /\ portal.submitted < 2
    /\ portal' = [portal EXCEPT !.submitted = @ + 1]
    /\ Serves(t, "ok")

\* A call is lost on its way there or back.
PortalFails(t) ==
    /\ pcall[t].at \in {"sent", "checked", "ok"}
    /\ Serves(t, "failed")
    /\ UNCHANGED portal

-----------------------------------------------------------------------------
\* The answers.

BugFormAfter(t) == IF pcall[t].kind = "submit" THEN "done" ELSE "idle"
FormAfter(t) ==
    IF pcall[t].kind = "submit" /\ pcall[t].at = "ok" THEN "done"
    ELSE IF pcall[t].at = "ok" \/ pcall[t].kind \in {"optin", "timeline"} THEN "idle"
    ELSE "error"

PortalAnswered(t) ==
    /\ pcall[t].at \in {"ok", "denied", "failed"}
    /\ CASE pcall[t].kind = "setpw" /\ pcall[t].at = "ok" ->
              Shows(t, "login", "idle", "none") /\ UNCHANGED pToken
         [] pcall[t].kind = "login" /\ pcall[t].at = "ok" ->
              Shows(t, "dash", "loading", "timeline") /\ pToken' = TRUE
         [] pcall[t].kind = "timeline" /\ pcall[t].at = "denied" ->
              Shows(t, "login", "idle", "none") /\ pToken' = FALSE
         [] pcall[t].kind = "load" /\ pcall[t].at # "ok" ->
              Shows(t, "closed", "idle", "none") /\ UNCHANGED pToken
         [] OTHER ->
              Shows(t, ptab[t].place, FormAfter(t), "none") /\ UNCHANGED pToken
    /\ UNCHANGED portal

-----------------------------------------------------------------------------
PortalNext ==
    \E t \in PortalTab :
        \/ OpenPortal(t) \/ PortalRefuses(t)
        \/ \E b \in BOOLEAN : SubmitSetup(t, b) \/ OptIn(t, b) \/ ServePortal(t, b)
        \/ SubmitLogin(t) \/ SubmitTest(t) \/ LogOutPortal(t)
        \/ ConsumeLink(t) \/ StorePassword(t) \/ ServeLogin(t) \/ ServeOpen(t)
        \/ CheckPending(t) \/ StoreAnswers(t) \/ PortalFails(t) \/ PortalAnswered(t)

PortalSpec == PortalInit /\ [][PortalNext]_portalVars

\* A page that says "Assessment submitted" is right, retries and lost answers included
\* (PreEvaluationPage.jsx, handleSubmit).
DoneIsStored ==
    \A t \in PortalTab : (ptab[t].place = "test" /\ ptab[t].form = "done") => portal.submitted > 0
=============================================================================
