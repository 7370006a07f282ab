------------------------ MODULE CandidatePages_proofs ------------------------
(**************************************************************************)
(* The candidate's pages: the portal, the deletion of one's data, and the  *)
(* chat in which a candidate applies, and the career page it starts from.  *)
(**************************************************************************)
EXTENDS CandidatePortal, Erasure, ApplyChat, Careers, TLAPS

-----------------------------------------------------------------------------
(**************************************************************************)
(* The candidate portal. A page that says "Assessment submitted" is right, *)
(* for any number of tabs. What the server has stored stays stored, and a  *)
(* submission that was answered well was stored: that is the invariant.    *)
(**************************************************************************)

PForm == {"loading", "idle", "busy", "error", "done"}
PKind == {"none", "setpw", "login", "timeline", "optin", "load", "submit"}
PAt   == {"idle", "sent", "checked", "ok", "denied", "failed"}
PPage == [place : PPlace, form : PForm]
PCall == [kind : PKind, at : PAt, arg : BOOLEAN]

PortalParts ==
    /\ portal \in [used : BOOLEAN, sets : Nat, submitted : Nat, pool : {"unset", "in", "out"}]
    /\ ptab \in [PortalTab -> PPage]
    /\ pcall \in [PortalTab -> PCall]

\* An answered submission is stored (pre_evaluations.py, submit_evaluation).
AnsweredIsStored ==
    \A t \in PortalTab : PCalled(t, "submit", "ok") => portal.submitted > 0

PortalInv == PortalParts /\ AnsweredIsStored /\ DoneIsStored

LEMMA PortalStarts == PortalInit => PortalInv
BY DEF PortalInit, PortalInv, PortalParts, AnsweredIsStored, DoneIsStored, PPage, PCall, PForm, PKind,
       PAt, PPlace, NoPCall, PCalled

\* The count of stored tests never goes down.
LEMMA StoredStays ==
    ASSUME PortalParts, PortalNext
    PROVE  /\ portal' \in [used : BOOLEAN, sets : Nat, submitted : Nat, pool : {"unset", "in", "out"}]
           /\ portal.submitted > 0 => portal'.submitted > 0
<1> PICK t \in PortalTab :
        \/ UNCHANGED portal
        \/ ConsumeLink(t) \/ StorePassword(t) \/ StoreAnswers(t)
        \/ \E b \in BOOLEAN : ServePortal(t, b)
  BY DEF PortalNext, OpenPortal, PortalRefuses, SubmitSetup, OptIn, PortalSends, SubmitLogin, SubmitTest,
         LogOutPortal, ServeLogin, ServeOpen, CheckPending, PortalFails, PortalAnswered
<1>1. CASE UNCHANGED portal
  BY <1>1 DEF PortalParts
<1>2. CASE ConsumeLink(t) \/ StorePassword(t) \/ StoreAnswers(t)
  <2>1. CASE ConsumeLink(t)
    BY <2>1 DEF PortalParts, ConsumeLink
  <2>2. CASE StorePassword(t)
    <3>1. portal' = portal \/ portal' = [portal EXCEPT !.sets = portal.sets + 1]
      BY <2>2 DEF StorePassword
    <3> QED
      BY <3>1 DEF PortalParts
  <2>3. CASE StoreAnswers(t)
    BY <2>3 DEF PortalParts, StoreAnswers
  <2> QED
    BY <1>2, <2>1, <2>2, <2>3
<1>3. ASSUME NEW b \in BOOLEAN, ServePortal(t, b)
      PROVE  portal' = portal \/ \E in \in {"in", "out"} : portal' = [portal EXCEPT !.pool = in]
  BY <1>3 DEF ServePortal
<1> QED
  BY <1>1, <1>2, <1>3 DEF PortalParts

\* A page that is shown anew is not a submitted test, and its call is a new one.
LEMMA ShownAnew ==
    ASSUME PortalInv, NEW t \in PortalTab, NEW place \in PPlace, NEW form \in PForm \ {"done"},
           NEW kind \in PKind \ {"submit"}, Shows(t, place, form, kind),
           portal' = portal
    PROVE  PortalInv'
<1>1. ptab' \in [PortalTab -> PPage] /\ ptab'[t].form # "done" /\ \A u \in PortalTab \ {t} : ptab'[u] = ptab[u]
  BY DEF Shows, PortalInv, PortalParts, PPage
<1>2. pcall' \in [PortalTab -> PCall] /\ pcall'[t].kind # "submit" /\ \A u \in PortalTab \ {t} : pcall'[u] = pcall[u]
  <2>1. NoPCall \in PCall /\ [NoPCall EXCEPT !.kind = kind, !.at = "sent"] \in PCall
    BY DEF NoPCall, PCall, PKind, PAt
  <2>2. \E c \in PCall : c.kind # "submit" /\ pcall' = [pcall EXCEPT ![t] = c]
    BY <2>1 DEF Shows, NoPCall
  <2> QED
    BY <2>2 DEF PortalInv, PortalParts
<1> QED
  BY <1>1, <1>2 DEF PortalInv, PortalParts, AnsweredIsStored, DoneIsStored, PCalled

\* The server's steps move a call on, and to "ok" a submission only when it is stored.
LEMMA ServedOn ==
    ASSUME PortalInv, NEW t \in PortalTab, NEW at \in PAt, Serves(t, at),
           portal' \in [used : BOOLEAN, sets : Nat, submitted : Nat, pool : {"unset", "in", "out"}],
           portal.submitted > 0 => portal'.submitted > 0,
           pcall[t].kind = "submit" /\ at = "ok" => portal'.submitted > 0
    PROVE  PortalInv'
<1>1. pcall' = [pcall EXCEPT ![t] = [pcall[t] EXCEPT !.at = at]]
  BY DEF Serves, PortalInv, PortalParts
<1>2. PortalParts'
  BY <1>1 DEF Serves, PortalInv, PortalParts, PCall
<1>3. ASSUME NEW u \in PortalTab, PCalled(u, "submit", "ok")' PROVE portal'.submitted > 0
  <2>1. CASE u = t
    BY <1>1, <1>3, <2>1 DEF PortalInv, PortalParts, PCalled, PCall
  <2>2. CASE u # t
    BY <1>1, <1>3, <2>2 DEF PortalInv, PortalParts, PCalled, AnsweredIsStored
  <2> QED
    BY <2>1, <2>2
<1>4. DoneIsStored'
  BY DEF Serves, PortalInv, DoneIsStored
<1> QED
  BY <1>2, <1>3, <1>4 DEF PortalInv, AnsweredIsStored

\* A form that sends, refuses or is answered, on the page it was on.
LEMMA FormMoves ==
    ASSUME PortalInv, NEW t \in PortalTab, NEW form \in PForm, NEW c \in PCall,
           ptab' = [ptab EXCEPT ![t].form = form], pcall' = [pcall EXCEPT ![t] = c],
           portal' = portal, ~(c.kind = "submit" /\ c.at = "ok"),
           form = "done" => portal.submitted > 0
    PROVE  PortalInv'
<1>1. PortalParts'
  BY DEF PortalInv, PortalParts, PPage
<1>2. AnsweredIsStored'
  BY DEF PortalInv, PortalParts, AnsweredIsStored, PCalled
<1>3. DoneIsStored'
  BY DEF PortalInv, PortalParts, DoneIsStored, PPage
<1> QED
  BY <1>1, <1>2, <1>3 DEF PortalInv

LEMMA PortalStep == PortalInv /\ [PortalNext]_portalVars => PortalInv'
<1> SUFFICES ASSUME PortalInv, [PortalNext]_portalVars PROVE PortalInv'
  OBVIOUS
<1>1. CASE UNCHANGED portalVars
  BY <1>1 DEF portalVars, PortalInv, PortalParts, AnsweredIsStored, DoneIsStored, PCalled
<1>2. CASE PortalNext
  <2> USE <1>2
  <2>0. PICK t \in PortalTab :
        \/ OpenPortal(t) \/ PortalRefuses(t)
        \/ \E b \in BOOLEAN : SubmitSetup(t, b) \/ OptIn(t, b) \/ ServePortal(t, b)
        \/ SubmitLogin(t) \/ SubmitTest(t) \/ LogOutPortal(t)
        \/ ConsumeLink(t) \/ StorePassword(t) \/ ServeLogin(t) \/ ServeOpen(t)
        \/ CheckPending(t) \/ StoreAnswers(t) \/ PortalFails(t) \/ PortalAnswered(t)
    BY DEF PortalNext
  <2>stay. /\ portal' \in [used : BOOLEAN, sets : Nat, submitted : Nat, pool : {"unset", "in", "out"}]
           /\ portal.submitted > 0 => portal'.submitted > 0
    BY StoredStays DEF PortalInv
  <2>1. CASE OpenPortal(t)
    <3>1. \E place \in PPlace, form \in PForm \ {"done"}, kind \in PKind \ {"submit"} :
             Shows(t, place, form, kind)
      BY <2>1 DEF OpenPortal, OpenForm, OpenDash, OpenLoaded, PPlace, PForm, PKind
    <3> QED
      BY <2>1, <3>1, ShownAnew DEF OpenPortal
  <2>2. CASE PortalRefuses(t)
    <3>1. pcall' = [pcall EXCEPT ![t] = pcall[t]] /\ pcall[t] \in PCall
      BY <2>2 DEF PortalRefuses, PortalInv, PortalParts
    <3>2. ptab' = [ptab EXCEPT ![t].form = "error"] /\ portal' = portal
      BY <2>2 DEF PortalRefuses
    <3>3. PortalParts' /\ AnsweredIsStored'
      BY <2>2, <3>1, <3>2 DEF PortalRefuses, PortalInv, PortalParts, AnsweredIsStored, PCalled, PPage, PForm
    <3>4. DoneIsStored'
      BY <3>2 DEF PortalInv, PortalParts, DoneIsStored, PPage
    <3> QED
      BY <3>3, <3>4 DEF PortalInv
  <2>3. ASSUME NEW b \in BOOLEAN, SubmitSetup(t, b) \/ OptIn(t, b) \/ SubmitLogin(t) \/ SubmitTest(t)
        PROVE  PortalInv'
    <3>1. \E kind \in PKind, at \in {"sent", "denied"}, arg \in BOOLEAN : PortalSends(t, kind, at, arg)
      BY <2>3 DEF SubmitSetup, OptIn, SubmitLogin, SubmitTest, PKind
    <3>2. PICK kind \in PKind, at \in {"sent", "denied"}, arg \in BOOLEAN : PortalSends(t, kind, at, arg)
      BY <3>1
    <3>3. [kind |-> kind, at |-> at, arg |-> arg] \in PCall /\ "busy" \in PForm
      BY DEF PCall, PAt, PForm
    <3> QED
      BY <3>2, <3>3, FormMoves DEF PortalSends
  <2>4. CASE LogOutPortal(t)
    BY <2>4, ShownAnew DEF LogOutPortal, PPlace, PForm, PKind
  <2>5. ASSUME NEW b \in BOOLEAN, ServePortal(t, b) PROVE PortalInv'
    <3>1. \E at \in PAt : Serves(t, at) /\ pcall[t].kind # "submit"
      BY <2>5 DEF ServePortal, PCalled, PAt
    <3> QED
      BY <2>stay, <3>1, ServedOn
  <2>6. CASE ConsumeLink(t) \/ StorePassword(t) \/ ServeLogin(t) \/ ServeOpen(t)
    <3>1. \E at \in PAt : Serves(t, at) /\ pcall[t].kind # "submit"
      BY <2>6 DEF ConsumeLink, StorePassword, ServeLogin, ServeOpen, PCalled, PAt
    <3> QED
      BY <2>stay, <3>1, ServedOn
  <2>7. CASE CheckPending(t) \/ PortalFails(t)
    <3>1. \E at \in PAt \ {"ok"} : Serves(t, at)
      BY <2>7 DEF CheckPending, PortalFails, PAt
    <3> QED
      BY <2>stay, <3>1, ServedOn
  <2>8. CASE StoreAnswers(t)
    <3>1. portal'.submitted > 0 /\ Serves(t, "ok") /\ "ok" \in PAt
      BY <2>8 DEF StoreAnswers, PortalInv, PortalParts, PAt
    <3> QED
      BY <2>stay, <3>1, ServedOn
  <2>9. CASE PortalAnswered(t)
    <3>1. CASE \E place \in PPlace, form \in PForm \ {"done"}, kind \in PKind \ {"submit"} :
                 Shows(t, place, form, kind)
      BY <2>9, <3>1, ShownAnew DEF PortalAnswered
    <3>2. CASE Shows(t, ptab[t].place, FormAfter(t), "none")
      <4>1. FormAfter(t) \in PForm /\ (FormAfter(t) = "done" => PCalled(t, "submit", "ok"))
        BY DEF FormAfter, PForm, PCalled
      <4>2. ptab' = [ptab EXCEPT ![t].form = FormAfter(t)] /\ pcall' = [pcall EXCEPT ![t] = NoPCall]
        BY <3>2 DEF Shows, PortalInv, PortalParts, PPage
      <4>3. NoPCall \in PCall /\ NoPCall.kind # "submit"
        BY DEF NoPCall, PCall, PKind, PAt
      <4> QED
        BY <2>9, <4>1, <4>2, <4>3, FormMoves DEF PortalAnswered, PortalInv, AnsweredIsStored
    <3> QED
      BY <2>9, <3>1, <3>2 DEF PortalAnswered, PPlace, PForm, PKind
  <2> QED
    BY <2>0, <2>1, <2>2, <2>3, <2>4, <2>5, <2>6, <2>7, <2>8, <2>9
<1> QED
  BY <1>1, <1>2

\* Whoever reads "Assessment submitted" has a test stored: lost answers, retries and
\* second tabs never make the page say so too early (PreEvaluationPage.jsx, handleSubmit).
THEOREM SubmittedIsTrue == PortalSpec => []DoneIsStored
<1>1. PortalInv => DoneIsStored
  BY DEF PortalInv
<1> QED
  BY PortalStarts, PortalStep, <1>1, PTL DEF PortalSpec

\* The link is taken by one call, and by it the only password is stored.
SettingUp(t) == PCalled(t, "setpw", "checked")
LinkInv ==
    /\ portal.sets \in {0, 1} /\ portal.submitted \in 0..2 /\ pToken \in BOOLEAN
    /\ portal.sets = 1 => portal.used
    /\ \A t \in PortalTab : SettingUp(t) => portal.used /\ portal.sets = 0
    /\ \A t, u \in PortalTab : SettingUp(t) /\ SettingUp(u) => t = u

LEMMA LinkStarts == PortalInit => LinkInv
<1> SUFFICES ASSUME PortalInit PROVE LinkInv
  OBVIOUS
<1>1. \A t \in PortalTab : ~SettingUp(t)
  BY DEF PortalInit, SettingUp, PCalled, NoPCall
<1>2. portal.sets = 0 /\ portal.submitted = 0 /\ pToken = FALSE
  BY DEF PortalInit
<1>3. portal.sets \in {0, 1} /\ portal.submitted \in 0..2 /\ pToken \in BOOLEAN /\ portal.sets # 1
  <2>1. portal.sets \in {0, 1} /\ portal.submitted \in 0..2 /\ portal.sets # 1
    <3> DEFINE m == portal.sets
               n == portal.submitted
    <3>1. m = 0 /\ n = 0
      BY <1>2
    <3> HIDE DEF m, n
    <3>2. m \in {0, 1} /\ n \in 0..2 /\ m # 1
      BY <3>1
    <3> QED
      BY <3>2 DEF m, n
  <2> QED
    BY <1>2, <2>1
<1> QED
  BY <1>1, <1>3 DEF LinkInv

\* A step by which no call gets to the password.
LEMMA LinkKept ==
    ASSUME LinkInv, portal'.used = portal.used, portal'.sets = portal.sets, portal'.submitted \in 0..2,
           pToken' \in BOOLEAN, \A u \in PortalTab : SettingUp(u)' => SettingUp(u)
    PROVE  LinkInv'
BY DEF LinkInv

LEMMA ShowsSets ==
    ASSUME PortalParts, NEW t \in PortalTab, NEW place, NEW form, NEW kind, Shows(t, place, form, kind)
    PROVE  \A u \in PortalTab : SettingUp(u)' => SettingUp(u)
<1>1. \E c : c.at # "checked" /\ pcall' = [pcall EXCEPT ![t] = c]
  <2>1. NoPCall.at # "checked" /\ [NoPCall EXCEPT !.kind = kind, !.at = "sent"].at # "checked"
    BY DEF NoPCall
  <2>2. \/ pcall' = [pcall EXCEPT ![t] = NoPCall]
        \/ pcall' = [pcall EXCEPT ![t] = [NoPCall EXCEPT !.kind = kind, !.at = "sent"]]
    BY DEF Shows
  <2> QED
    BY <2>1, <2>2
<1> QED
  BY <1>1 DEF PortalParts, SettingUp, PCalled

LEMMA ServesSets ==
    ASSUME PortalParts, NEW t \in PortalTab, NEW at, Serves(t, at), pcall[t].kind # "setpw" \/ at # "checked"
    PROVE  \A u \in PortalTab : SettingUp(u)' => SettingUp(u)
<1>1. pcall' = [pcall EXCEPT ![t] = [pcall[t] EXCEPT !.at = at]]
  BY DEF Serves, PortalParts
<1>2. [pcall[t] EXCEPT !.at = at].kind = pcall[t].kind /\ [pcall[t] EXCEPT !.at = at].at = at
  BY DEF PortalParts, PCall
<1> QED
  BY <1>1, <1>2 DEF PortalParts, SettingUp, PCalled

LEMMA LinkStep == PortalInv /\ LinkInv /\ [PortalNext]_portalVars => LinkInv'
<1> SUFFICES ASSUME PortalInv, LinkInv, [PortalNext]_portalVars PROVE LinkInv'
  OBVIOUS
<1>p. PortalParts
  BY DEF PortalInv
<1>s. portal.submitted \in 0..2 /\ pToken \in BOOLEAN
  BY DEF LinkInv
<1>1. CASE UNCHANGED portalVars
  BY <1>1, <1>s, LinkKept DEF portalVars, SettingUp, PCalled
<1>2. CASE PortalNext
  <2>0. PICK t \in PortalTab :
        \/ OpenPortal(t) \/ PortalRefuses(t)
        \/ \E b \in BOOLEAN : SubmitSetup(t, b) \/ OptIn(t, b) \/ ServePortal(t, b)
        \/ SubmitLogin(t) \/ SubmitTest(t) \/ LogOutPortal(t)
        \/ ConsumeLink(t) \/ StorePassword(t) \/ ServeLogin(t) \/ ServeOpen(t)
        \/ CheckPending(t) \/ StoreAnswers(t) \/ PortalFails(t) \/ PortalAnswered(t)
    BY <1>2 DEF PortalNext
  <2>1. CASE OpenPortal(t)
    BY <1>p, <1>s, <2>1, ShowsSets, LinkKept DEF OpenPortal, OpenForm, OpenDash, OpenLoaded
  <2>2. CASE PortalRefuses(t)
    BY <1>s, <2>2, LinkKept DEF PortalRefuses, SettingUp, PCalled
  <2>3. ASSUME NEW b \in BOOLEAN, SubmitSetup(t, b) \/ OptIn(t, b) \/ SubmitLogin(t) \/ SubmitTest(t)
        PROVE  LinkInv'
    <3>1. PICK kind \in PKind, at \in {"sent", "denied"}, arg \in BOOLEAN : PortalSends(t, kind, at, arg)
      BY <2>3 DEF SubmitSetup, OptIn, SubmitLogin, SubmitTest, PKind
    <3>2. \A u \in PortalTab : SettingUp(u)' => SettingUp(u)
      BY <1>p, <3>1 DEF PortalSends, PortalParts, SettingUp, PCalled
    <3> QED
      BY <1>s, <3>1, <3>2, LinkKept DEF PortalSends
  <2>4. CASE LogOutPortal(t)
    BY <1>p, <1>s, <2>4, ShowsSets, LinkKept DEF LogOutPortal
  <2>5. ASSUME NEW b \in BOOLEAN, ServePortal(t, b) PROVE LinkInv'
    <3>1. portal' = portal \/ \E in \in {"in", "out"} : portal' = [portal EXCEPT !.pool = in]
      BY <2>5 DEF ServePortal
    <3>2. portal'.used = portal.used /\ portal'.sets = portal.sets /\ portal'.submitted = portal.submitted
      BY <1>p, <3>1 DEF PortalParts
    <3>3. (\A u \in PortalTab : SettingUp(u)' => SettingUp(u)) /\ pToken' = pToken
      BY <1>p, <2>5, ServesSets DEF ServePortal, Serves
    <3> QED
      BY <1>s, <3>2, <3>3, LinkKept
  <2>6. CASE ServeLogin(t) \/ ServeOpen(t) \/ CheckPending(t) \/ PortalFails(t)
    <3>1. PICK at : Serves(t, at) /\ (pcall[t].kind # "setpw" \/ at # "checked")
      BY <2>6 DEF ServeLogin, ServeOpen, CheckPending, PortalFails, PCalled
    <3>2. (\A u \in PortalTab : SettingUp(u)' => SettingUp(u)) /\ pToken' = pToken
      BY <1>p, <3>1, ServesSets DEF Serves
    <3> QED
      BY <1>s, <2>6, <3>2, LinkKept DEF ServeLogin, ServeOpen, CheckPending, PortalFails
  <2>7. CASE StoreAnswers(t)
    <3>1. portal' = [portal EXCEPT !.submitted = portal.submitted + 1] /\ portal.submitted < 2 /\ Serves(t, "ok")
      BY <2>7 DEF StoreAnswers
    <3>2. portal'.used = portal.used /\ portal'.sets = portal.sets /\ portal'.submitted \in 0..2
      BY <1>p, <1>s, <3>1 DEF PortalParts
    <3>3. (\A u \in PortalTab : SettingUp(u)' => SettingUp(u)) /\ pToken' = pToken
      BY <1>p, <3>1, ServesSets DEF Serves
    <3> QED
      BY <1>s, <3>2, <3>3, LinkKept
  <2>8. CASE ConsumeLink(t)
    <3>1. portal'.used /\ portal'.sets = portal.sets /\ portal'.submitted = portal.submitted /\ pToken' = pToken
      BY <1>p, <2>8 DEF ConsumeLink, Serves, PortalParts
    <3>2. CASE portal.used
      <4>1. Serves(t, "failed")
        BY <2>8, <3>2 DEF ConsumeLink, LinkUnused
      <4>2. \A u \in PortalTab : SettingUp(u)' => SettingUp(u)
        BY <1>p, <4>1, ServesSets
      <4> QED
        BY <1>s, <3>1, <3>2, <4>2 DEF LinkInv
    <3>3. CASE ~portal.used
      <4>1. portal.sets = 0 /\ \A u \in PortalTab : ~SettingUp(u)
        BY <3>3 DEF LinkInv
      <4>2. \A u \in PortalTab : SettingUp(u)' => u = t
        BY <1>p, <2>8, <4>1 DEF ConsumeLink, Serves, PortalParts, SettingUp, PCalled
      <4> QED
        BY <1>s, <3>1, <4>1, <4>2 DEF LinkInv
    <3> QED
      BY <3>2, <3>3
  <2>9. CASE StorePassword(t)
    <3>1. SettingUp(t) /\ portal.used /\ portal.sets = 0 /\ \A u \in PortalTab : SettingUp(u) => u = t
      BY <2>9 DEF StorePassword, LinkInv, SettingUp
    <3>2. portal' = portal \/ portal' = [portal EXCEPT !.sets = portal.sets + 1]
      BY <2>9 DEF StorePassword
    <3>3. portal'.used /\ portal'.sets \in {0, 1} /\ portal'.submitted = portal.submitted
      BY <1>p, <3>1, <3>2 DEF PortalParts
    <3>4. \A u \in PortalTab : ~SettingUp(u)'
      <4>1. PICK at \in {"failed", "ok"} : Serves(t, at)
        BY <2>9 DEF StorePassword
      <4>2. pcall' = [pcall EXCEPT ![t] = [pcall[t] EXCEPT !.at = at]]
        BY <1>p, <4>1 DEF Serves, PortalParts
      <4> QED
        BY <1>p, <3>1, <4>2 DEF PortalParts, PCall, SettingUp, PCalled
    <3> QED
      BY <1>s, <2>9, <3>3, <3>4 DEF StorePassword, Serves, LinkInv
  <2>10. CASE PortalAnswered(t)
    <3>1. (\E place, form, kind : Shows(t, place, form, kind)) /\ pToken' \in {pToken, TRUE, FALSE} /\ portal' = portal
      BY <2>10 DEF PortalAnswered
    <3> QED
      BY <1>p, <1>s, <3>1, ShowsSets, LinkKept
  <2> QED
    BY <2>0, <2>1, <2>2, <2>3, <2>4, <2>5, <2>6, <2>7, <2>8, <2>9, <2>10
<1> QED
  BY <1>1, <1>2

LEMMA PortalTyped == PortalInv /\ LinkInv => PortalTypeOK /\ portal.sets <= 1
<1> SUFFICES ASSUME PortalInv, LinkInv PROVE PortalTypeOK /\ portal.sets <= 1
  OBVIOUS
<1>1. portal.sets \in 0..2 /\ portal.sets <= 1
  BY DEF LinkInv
<1>2. portal \in [used : BOOLEAN, sets : 0..2, submitted : 0..2, pool : {"unset", "in", "out"}]
  BY <1>1 DEF PortalInv, PortalParts, LinkInv
<1> QED
  BY <1>1, <1>2 DEF PortalInv, PortalParts, LinkInv, PortalTypeOK, PPage, PCall, PForm, PKind, PAt

\* A setup link stores one password, however many tabs send it at the same time
\* (candidate_portal.py, set_password): the portal keeps its type, which counts them.
THEOREM PortalTypes == PortalSpec => [](PortalTypeOK /\ portal.sets <= 1)
BY PortalStarts, PortalStep, LinkStarts, LinkStep, PortalTyped, PTL DEF PortalSpec

-----------------------------------------------------------------------------
(**************************************************************************)
(* The erasure. The page that confirms a deletion is right, for any number *)
(* of records, pages and desks. verify_deletion writes the rows it has     *)
(* read without looking again, so the invariant has to say that nothing    *)
(* takes them back: a row that was verified stays so or is completed,      *)
(* since the only statement that writes "pending" writes rows of a token   *)
(* nobody else has.                                                        *)
(**************************************************************************)

ErTok     == ETok \cup {NoTok}
ErPage    == [step : {"form", "sending", "sent", "verifying", "done", "error"}, tok : ErTok]
ErCall    == [kind : {"none", "request", "verify"}, at : {"idle", "sent", "read", "ok", "failed"},
              tok : ErTok, cands : SUBSET Cand]
Confirmed == {"verified", "completed"}
Held(k)   == \E c \in Cand : reqRow[<<c, k>>] \in Confirmed

ErasureParts ==
    /\ reqRow \in [ReqKey -> ReqStatus]
    /\ visit \in [Visitor -> ErPage]
    /\ ask \in [Visitor -> ErCall]
    /\ pick \in [ErDesk -> ReqKey \cup {NoRow}]
    /\ wipe \in [ErDesk -> {"idle", "sent", "read", "ok", "failed"}]

\* What a page (p) and its call (a) say about one another and about the rows.
PageFits(p, a) ==
    /\ a.kind = "none" <=> a.at = "idle"
    /\ a.kind = "request" => p.step = "sending"
    /\ a.kind = "verify" => p.step = "verifying" /\ p.tok # NoTok /\ (a.at # "failed" => a.tok = p.tok)
    /\ a.kind = "verify" /\ a.at = "read" => a.cands # {}
    /\ a.kind = "verify" /\ a.at = "ok" => Held(a.tok)
    /\ p.step = "done" => p.tok # NoTok /\ Held(p.tok)
PagesFit == \A v \in Visitor : PageFits(visit[v], ask[v])

\* A request about to be written has a token nobody else knows (request_deletion, uuid4).
Writing(v) == ask[v].kind = "request" /\ ask[v].at = "read"
FreshToken ==
    \A v \in Visitor : Writing(v) =>
        /\ ask[v].tok # NoTok
        /\ \A c \in Cand : reqRow[<<c, ask[v].tok>>] = "none"
        /\ \A u \in Visitor : visit[u].tok # ask[v].tok /\ (u # v => ask[u].tok # ask[v].tok)

\* A desk's call is about a row, and what it has read as verified is not taken back
\* (process_deletion).
DesksFit ==
    \A d \in ErDesk :
        /\ wipe[d] # "idle" => pick[d] \in ReqKey
        /\ wipe[d] = "read" => reqRow[pick[d]] \in Confirmed

ErasureInv == ErasureParts /\ PagesFit /\ FreshToken /\ DesksFit

LEMMA ErasureStarts == ErasureInit => ErasureInv
<1> SUFFICES ASSUME ErasureInit PROVE ErasureInv
  OBVIOUS
<1>1. ErasureParts
  BY DEF ErasureInit, ErasureParts, ReqStatus, AskIdle, ErPage, ErCall, ErTok
<1>2. PagesFit
  BY DEF ErasureInit, PagesFit, PageFits, AskIdle
<1>3. FreshToken /\ DesksFit
  BY DEF ErasureInit, FreshToken, Writing, DesksFit, AskIdle
<1> QED
  BY <1>1, <1>2, <1>3 DEF ErasureInv

\* A step of one page that leaves the rows alone.  A token that comes to the page or to
\* its call is its own, or one that nobody uses.
LEMMA PageStep ==
    ASSUME ErasureInv, NEW v \in Visitor, NEW p \in ErPage, NEW a \in ErCall,
           visit' = [visit EXCEPT ![v] = p], ask' = [ask EXCEPT ![v] = a],
           UNCHANGED <<reqRow, pick, wipe>>,
           PageFits(p, a),
           p.tok \in {NoTok, visit[v].tok, ask[v].tok},
           a.tok \in {NoTok, visit[v].tok, ask[v].tok} \/ a.tok \in ETok \ TokUsed,
           a.kind = "request" /\ a.at = "read" => a.tok \in ETok \ TokUsed /\ p.tok = visit[v].tok
    PROVE  ErasureInv'
<1>1. ErasureParts'
  BY DEF ErasureInv, ErasureParts
<1>2. ASSUME NEW u \in Visitor PROVE PageFits(visit[u], ask[u])'
  <2>1. CASE u = v
    <3>1. visit'[u] = p /\ ask'[u] = a
      BY <2>1 DEF ErasureInv, ErasureParts
    <3> QED
      BY <3>1 DEF PageFits, Held
  <2>2. CASE u # v
    <3>1. visit'[u] = visit[u] /\ ask'[u] = ask[u] /\ PageFits(visit[u], ask[u])
      BY <2>2 DEF ErasureInv, ErasureParts, PagesFit
    <3> QED
      BY <3>1 DEF PageFits, Held
  <2> QED
    BY <2>1, <2>2
<1>3. ASSUME NEW u \in Visitor, Writing(u)'
      PROVE  /\ ask'[u].tok # NoTok
             /\ \A c \in Cand : reqRow'[<<c, ask'[u].tok>>] = "none"
             /\ \A w \in Visitor : visit'[w].tok # ask'[u].tok /\ (w # u => ask'[w].tok # ask'[u].tok)
  <2>1. CASE u = v
    <3>1. ask'[u] = a /\ a.tok \in ETok \ TokUsed /\ visit'[v].tok = visit[v].tok
      BY <1>3, <2>1 DEF ErasureInv, ErasureParts, Writing
    <3>2. a.tok # NoTok
      BY <3>1, ErasureAssumption
    <3>3. \A c \in Cand : reqRow[<<c, a.tok>>] = "none"
      BY <3>1 DEF TokUsed, ReqKey
    <3>4. \A w \in Visitor : visit[w].tok # a.tok /\ ask[w].tok # a.tok
      BY <3>1 DEF TokUsed
    <3>5. \A w \in Visitor : w # u => visit'[w] = visit[w] /\ ask'[w] = ask[w]
      BY <2>1 DEF ErasureInv, ErasureParts
    <3> QED
      BY <2>1, <3>1, <3>2, <3>3, <3>4, <3>5
  <2>2. CASE u # v
    <3>1. ask'[u] = ask[u] /\ Writing(u)
      BY <1>3, <2>2 DEF ErasureInv, ErasureParts, Writing
    <3>2. /\ ask[u].tok # NoTok
          /\ \A c \in Cand : reqRow[<<c, ask[u].tok>>] = "none"
          /\ \A w \in Visitor : visit[w].tok # ask[u].tok /\ (w # u => ask[w].tok # ask[u].tok)
      BY <3>1 DEF ErasureInv, FreshToken
    <3>3. p.tok # ask[u].tok
      BY <2>2, <3>2
    <3>4. a.tok # ask[u].tok
      BY <2>2, <3>2 DEF TokUsed
    <3>5. visit'[v] = p /\ ask'[v] = a
      BY DEF ErasureInv, ErasureParts
    <3>6. \A w \in Visitor : w # v => visit'[w] = visit[w] /\ ask'[w] = ask[w]
      BY DEF ErasureInv, ErasureParts
    <3>7. ASSUME NEW w \in Visitor PROVE visit'[w].tok # ask[u].tok /\ (w # u => ask'[w].tok # ask[u].tok)
      BY <3>2, <3>3, <3>4, <3>5, <3>6
    <3> QED
      BY <3>1, <3>2, <3>7
  <2> QED
    BY <2>1, <2>2
<1>4. DesksFit'
  BY DEF ErasureInv, DesksFit
<1> QED
  BY <1>1, <1>2, <1>3, <1>4 DEF ErasureInv, PagesFit, FreshToken

\* The public page's own steps, and the reads and failures of its calls.
LEMMA VisitorStep ==
    ASSUME ErasureInv, NEW v \in Visitor,
           \/ RequestErasure(v) \/ VerifyErasure(v) \/ TryAgain(v) \/ Revisit(v) \/ AskAnswered(v)
           \/ \E k \in ETok : ReadRequests(v, k)
           \/ UnknownAddress(v) \/ ReadPending(v) \/ AskFails(v)
    PROVE  ErasureInv'
<1> DEFINE page == visit[v]
           call == ask[v]
<1>0. /\ page \in ErPage /\ call \in ErCall /\ PageFits(page, call)
      /\ visit = [visit EXCEPT ![v] = page] /\ ask = [ask EXCEPT ![v] = call]
  BY DEF ErasureInv, ErasureParts, PagesFit
<1>1. CASE RequestErasure(v)
  <2> DEFINE p == [page EXCEPT !.step = "sending"]
             a == [AskIdle EXCEPT !.kind = "request", !.at = "sent"]
  <2>1. visit' = [visit EXCEPT ![v] = p] /\ ask' = [ask EXCEPT ![v] = a] /\ UNCHANGED <<reqRow, pick, wipe>>
    BY <1>1 DEF RequestErasure, ErasureInv, ErasureParts
  <2>2. p \in ErPage /\ a \in ErCall /\ PageFits(p, a)
    BY <1>0 DEF ErPage, ErCall, ErTok, PageFits, AskIdle
  <2>3. p.tok = page.tok /\ a.tok = NoTok /\ a.at = "sent"
    BY <1>0 DEF ErPage, AskIdle
  <2> HIDE DEF p, a
  <2> QED
    BY <2>1, <2>2, <2>3, PageStep
<1>2. CASE VerifyErasure(v)
  <2> DEFINE p == [page EXCEPT !.step = "verifying"]
             a == [AskIdle EXCEPT !.kind = "verify", !.at = "sent", !.tok = page.tok]
  <2>1. visit' = [visit EXCEPT ![v] = p] /\ ask' = [ask EXCEPT ![v] = a] /\ UNCHANGED <<reqRow, pick, wipe>>
    BY <1>2 DEF VerifyErasure, ErasureInv, ErasureParts
  <2>2. p \in ErPage /\ a \in ErCall /\ PageFits(p, a)
    BY <1>0, <1>2 DEF VerifyErasure, ErPage, ErCall, ErTok, PageFits, AskIdle
  <2>3. p.tok = page.tok /\ a.tok = page.tok /\ a.at = "sent"
    BY <1>0 DEF ErPage, AskIdle
  <2> HIDE DEF p, a
  <2> QED
    BY <2>1, <2>2, <2>3, PageStep
<1>3. CASE TryAgain(v)
  <2> DEFINE p == [page EXCEPT !.step = "form"]
  <2>1. visit' = [visit EXCEPT ![v] = p] /\ ask' = [ask EXCEPT ![v] = call] /\ UNCHANGED <<reqRow, pick, wipe>>
    BY <1>0, <1>3 DEF TryAgain
  <2>2. page.step = "error"
    BY <1>3 DEF TryAgain
  <2>3. p \in ErPage /\ PageFits(p, call)
    BY <1>0, <2>2 DEF ErPage, PageFits
  <2>4. p.tok = page.tok /\ ~(call.kind = "request" /\ call.at = "read")
    BY <1>0, <2>2 DEF ErPage, PageFits
  <2> HIDE DEF p
  <2> QED
    BY <1>0, <2>1, <2>3, <2>4, PageStep
<1>4. CASE Revisit(v)
  <2> DEFINE p == [step |-> "form", tok |-> NoTok]
  <2>1. visit' = [visit EXCEPT ![v] = p] /\ ask' = [ask EXCEPT ![v] = call] /\ UNCHANGED <<reqRow, pick, wipe>>
    BY <1>0, <1>4 DEF Revisit
  <2>2. call.kind = "none" /\ call.at = "idle"
    BY <1>0, <1>4 DEF Revisit, PageFits
  <2>3. p \in ErPage /\ PageFits(p, call)
    BY <2>2 DEF ErPage, ErTok, PageFits
  <2> QED
    BY <1>0, <2>1, <2>2, <2>3, PageStep
<1>5. CASE AskAnswered(v)
  <2> DEFINE p == [step |-> StepAfterAsk(v),
                   tok |-> IF call.kind = "request" /\ call.at = "ok" /\ call.tok # NoTok
                           THEN call.tok ELSE page.tok]
  <2>1. visit' = [visit EXCEPT ![v] = p] /\ ask' = [ask EXCEPT ![v] = AskIdle] /\ UNCHANGED <<reqRow, pick, wipe>>
    BY <1>5 DEF AskAnswered, ErasureInv, ErasureParts
  <2>2. AskIdle \in ErCall /\ AskIdle.kind = "none" /\ AskIdle.at = "idle" /\ AskIdle.tok = NoTok
    BY DEF AskIdle, ErCall, ErTok
  <2>3. p.step \in {"error", "sent", "done"} /\ p.tok \in {page.tok, call.tok} /\ p \in ErPage
    BY <1>0 DEF StepAfterAsk, ErPage, ErCall
  <2>4. ASSUME p.step = "done" PROVE p.tok # NoTok /\ Held(p.tok)
    <3>1. call.kind = "verify" /\ call.at = "ok"
      BY <1>0, <1>5, <2>4 DEF AskAnswered, StepAfterAsk, ErCall, PageFits
    <3> QED
      BY <1>0, <3>1 DEF PageFits
  <2>5. PageFits(p, AskIdle)
    BY <2>2, <2>4 DEF PageFits
  <2> HIDE DEF p
  <2> QED
    BY <2>1, <2>2, <2>3, <2>5, PageStep
<1>6. ASSUME NEW k \in ETok, ReadRequests(v, k) PROVE ErasureInv'
  <2> DEFINE a == [call EXCEPT !.at = "read", !.tok = k, !.cands = {c \in Cand : ~OpenFor(c)}]
  <2>1. visit' = [visit EXCEPT ![v] = page] /\ ask' = [ask EXCEPT ![v] = a] /\ UNCHANGED <<reqRow, pick, wipe>>
    BY <1>0, <1>6 DEF ReadRequests, ErasureInv, ErasureParts
  <2>2. a \in ErCall /\ PageFits(page, a) /\ a.tok = k /\ k \notin TokUsed
    BY <1>0, <1>6 DEF ReadRequests, ErCall, ErTok, PageFits
  <2> HIDE DEF a
  <2> QED
    BY <1>0, <2>1, <2>2, PageStep
<1>7. CASE UnknownAddress(v)
  <2> DEFINE a == [call EXCEPT !.at = "ok"]
  <2>1. visit' = [visit EXCEPT ![v] = page] /\ ask' = [ask EXCEPT ![v] = a] /\ UNCHANGED <<reqRow, pick, wipe>>
    BY <1>0, <1>7 DEF UnknownAddress, ErasureInv, ErasureParts
  <2>2. a \in ErCall /\ PageFits(page, a) /\ a.tok = call.tok /\ a.at = "ok"
    BY <1>0, <1>7 DEF UnknownAddress, ErCall, PageFits
  <2> HIDE DEF a
  <2> QED
    BY <1>0, <2>1, <2>2, PageStep
<1>8. CASE ReadPending(v)
  <2> DEFINE found == {c \in Cand : reqRow[<<c, call.tok>>] = "pending"}
             a == IF found = {} THEN [call EXCEPT !.at = "failed"]
                  ELSE [call EXCEPT !.at = "read", !.cands = found]
  <2>1. visit' = [visit EXCEPT ![v] = page] /\ ask' = [ask EXCEPT ![v] = a] /\ UNCHANGED <<reqRow, pick, wipe>>
    BY <1>0, <1>8 DEF ReadPending, ErasureInv, ErasureParts
  <2>2. a \in ErCall /\ a.kind = "verify" /\ a.at \in {"failed", "read"} /\ a.tok = call.tok
          /\ (a.at = "read" => a.cands # {})
    BY <1>0, <1>8 DEF ReadPending, ErCall
  <2>3. call.kind = "verify" /\ call.at = "sent"
    BY <1>8 DEF ReadPending
  <2> HIDE DEF a
  <2>4. PageFits(page, a)
    BY <1>0, <2>2, <2>3 DEF PageFits
  <2> QED
    BY <1>0, <2>1, <2>2, <2>4, PageStep
<1>9. CASE AskFails(v)
  <2> DEFINE a == [AskIdle EXCEPT !.kind = call.kind, !.at = "failed"]
  <2>1. visit' = [visit EXCEPT ![v] = page] /\ ask' = [ask EXCEPT ![v] = a] /\ UNCHANGED <<reqRow, pick, wipe>>
    BY <1>0, <1>9 DEF AskFails, ErasureInv, ErasureParts
  <2>2. a \in ErCall /\ PageFits(page, a) /\ a.tok = NoTok /\ a.at = "failed"
    BY <1>0, <1>9 DEF AskFails, ErCall, ErTok, AskIdle, PageFits
  <2> HIDE DEF a
  <2> QED
    BY <1>0, <2>1, <2>2, PageStep
<1> QED
  BY <1>1, <1>2, <1>3, <1>4, <1>5, <1>6, <1>7, <1>8, <1>9

\* A step that changes rows keeps what was confirmed, and the pages that rely on it.
LEMMA FitKept ==
    ASSUME NEW p \in ErPage, NEW a \in ErCall, PageFits(p, a),
           \A r \in ReqKey : reqRow[r] \in Confirmed => reqRow'[r] \in Confirmed
    PROVE  PageFits(p, a)'
<1>1. ASSUME NEW k \in ETok, Held(k) PROVE Held(k)'
  BY <1>1 DEF Held, ReqKey
<1>2. a.kind = "verify" /\ a.at = "ok" => a.tok \in ETok /\ Held(a.tok)
  BY DEF PageFits, ErPage, ErTok
<1>3. p.step = "done" => p.tok \in ETok /\ Held(p.tok)
  BY DEF PageFits, ErPage, ErTok
<1>4. (a.kind = "verify" /\ a.at = "ok" => Held(a.tok)') /\ (p.step = "done" => Held(p.tok)')
  BY <1>1, <1>2, <1>3
<1> QED
  BY <1>4 DEF PageFits

\* request_deletion and verify_deletion write their rows.
LEMMA WriteStep ==
    ASSUME ErasureInv, NEW v \in Visitor, WriteRequests(v)
    PROVE  ErasureInv'
<1> DEFINE new == IF ask[v].kind = "request" THEN "pending" ELSE "verified"
           a == [ask[v] EXCEPT !.at = "ok", !.cands = {}]
           mine(r) == r[1] \in ask[v].cands /\ r[2] = ask[v].tok
<1>0. /\ ask[v].at = "read" /\ ask[v].kind \in {"request", "verify"}
      /\ ask[v] \in ErCall /\ visit[v] \in ErPage /\ PageFits(visit[v], ask[v])
  BY DEF WriteRequests, ErasureInv, ErasureParts, PagesFit, PageFits, ErCall
<1>1. /\ ask' = [ask EXCEPT ![v] = a] /\ a \in ErCall
      /\ a.kind = ask[v].kind /\ a.tok = ask[v].tok /\ a.at = "ok"
  BY <1>0 DEF WriteRequests, ErasureInv, ErasureParts, ErCall
<1>2. \A r \in ReqKey : reqRow'[r] = IF mine(r) THEN new ELSE reqRow[r]
  BY DEF WriteRequests
<1>3. reqRow' \in [ReqKey -> ReqStatus]
  BY DEF WriteRequests, ErasureInv, ErasureParts, ReqStatus
<1>4. UNCHANGED <<visit, pick, wipe>>
  BY DEF WriteRequests
<1> HIDE DEF a
<1>5. ASSUME NEW r \in ReqKey, reqRow[r] \in Confirmed PROVE reqRow'[r] \in Confirmed
  <2>1. CASE mine(r) /\ new = "pending"
    <3>1. Writing(v) /\ r = <<r[1], ask[v].tok>> /\ r[1] \in Cand
      BY <1>0, <2>1 DEF Writing, ReqKey
    <3>2. reqRow[r] = "none"
      BY <3>1 DEF ErasureInv, FreshToken
    <3> QED
      BY <1>5, <3>2 DEF Confirmed
  <2> QED
    BY <1>2, <1>5, <2>1 DEF Confirmed
<1>6. ErasureParts'
  BY <1>1, <1>3, <1>4 DEF ErasureInv, ErasureParts
<1>7. ASSUME NEW u \in Visitor PROVE PageFits(visit[u], ask[u])'
  <2>1. CASE u = v
    <3>1. PICK p \in ErPage, b \in ErCall : p = visit[v] /\ b = ask[v]
      BY <1>0
    <3>2. PICK c \in ErCall : c = a
      BY <1>1
    <3>3. PageFits(p, b)'
      BY <1>0, <1>5, <3>1, FitKept
    <3>4. c.kind = "verify" => Held(c.tok)'
      <4>1. SUFFICES ASSUME c.kind = "verify" PROVE Held(c.tok)'
        OBVIOUS
      <4>2. PICK d \in Cand : d \in ask[v].cands
        BY <1>0, <1>1, <3>2, <4>1 DEF PageFits, ErCall
      <4>3. c.tok \in ETok /\ c.tok = ask[v].tok /\ new = "verified"
        BY <1>0, <1>1, <3>2, <4>1 DEF PageFits, ErPage, ErTok
      <4>4. reqRow'[<<d, c.tok>>] = "verified"
        BY <1>2, <4>2, <4>3 DEF ReqKey
      <4> QED
        BY <4>4 DEF Held, Confirmed
    <3>5. PageFits(p, c)'
      BY <1>0, <1>1, <3>1, <3>2, <3>3, <3>4 DEF PageFits
    <3>6. visit'[u] = p /\ ask'[u] = c
      BY <1>1, <1>4, <2>1, <3>1, <3>2 DEF ErasureInv, ErasureParts
    <3> QED
      BY <3>5, <3>6
  <2>2. CASE u # v
    <3>1. PICK p \in ErPage, b \in ErCall : p = visit[u] /\ b = ask[u]
      BY DEF ErasureInv, ErasureParts
    <3>2. PageFits(p, b)'
      BY <1>5, <3>1, FitKept DEF ErasureInv, PagesFit
    <3>3. visit'[u] = p /\ ask'[u] = b
      BY <1>1, <1>4, <2>2, <3>1 DEF ErasureInv, ErasureParts
    <3> QED
      BY <3>2, <3>3
  <2> QED
    BY <2>1, <2>2
<1>8. ASSUME NEW u \in Visitor, Writing(u)'
      PROVE  /\ ask'[u].tok # NoTok
             /\ \A c \in Cand : reqRow'[<<c, ask'[u].tok>>] = "none"
             /\ \A w \in Visitor : visit'[w].tok # ask'[u].tok /\ (w # u => ask'[w].tok # ask'[u].tok)
  <2>1. u # v
    BY <1>1, <1>8 DEF Writing, ErasureInv, ErasureParts
  <2>2. ask'[u] = ask[u] /\ Writing(u)
    BY <1>1, <1>8, <2>1 DEF Writing, ErasureInv, ErasureParts
  <2>3. /\ ask[u].tok # NoTok
        /\ \A c \in Cand : reqRow[<<c, ask[u].tok>>] = "none"
        /\ \A w \in Visitor : visit[w].tok # ask[u].tok /\ (w # u => ask[w].tok # ask[u].tok)
    BY <2>2 DEF ErasureInv, FreshToken
  <2>4. ask[u].tok \in ETok
    BY <2>3 DEF ErasureInv, ErasureParts, ErCall, ErTok
  <2>5. ASSUME NEW c \in Cand PROVE reqRow'[<<c, ask[u].tok>>] = "none"
    <3>1. <<c, ask[u].tok>> \in ReqKey /\ ~mine(<<c, ask[u].tok>>)
      BY <2>1, <2>3, <2>4 DEF ReqKey
    <3> QED
      BY <1>2, <2>3, <3>1
  <2>6. ASSUME NEW w \in Visitor PROVE ask'[w].tok = ask[w].tok
    <3>1. CASE w = v
      BY <1>1, <3>1 DEF ErasureInv, ErasureParts
    <3>2. CASE w # v
      BY <1>1, <3>2 DEF ErasureInv, ErasureParts
    <3> QED
      BY <3>1, <3>2
  <2> QED
    BY <1>4, <2>2, <2>3, <2>5, <2>6
<1>9. DesksFit'
  BY <1>4, <1>5 DEF ErasureInv, DesksFit
<1> QED
  BY <1>6, <1>7, <1>8, <1>9 DEF ErasureInv, PagesFit, FreshToken

\* The privacy tab and process_deletion.
LEMMA DeskStep ==
    ASSUME ErasureInv, NEW d \in ErDesk,
           \/ ListRequests(d) \/ CloseConfirm(d) \/ HandleProcess(d)
           \/ \E r \in ReqKey : OfferProcess(d, r)
           \/ ReadForErasure(d) \/ Erase(d) \/ WipeFails(d) \/ WipeAnswered(d)
    PROVE  ErasureInv'
<1>0. UNCHANGED <<visit, ask>>
  BY DEF ListRequests, CloseConfirm, HandleProcess, OfferProcess, ReadForErasure, Erase, WipeFails, WipeAnswered
<1>1. \/ UNCHANGED reqRow
      \/ wipe[d] = "read" /\ reqRow' = [reqRow EXCEPT ![pick[d]] = "completed"]
  BY DEF ListRequests, CloseConfirm, HandleProcess, OfferProcess, ReadForErasure, Erase, WipeFails, WipeAnswered
<1>2. wipe[d] = "read" => pick[d] \in ReqKey /\ reqRow[pick[d]] \in Confirmed
  BY DEF ErasureInv, DesksFit
<1>3. reqRow' \in [ReqKey -> ReqStatus]
  BY <1>1, <1>2 DEF ErasureInv, ErasureParts, ReqStatus
<1>4. \A r \in ReqKey : reqRow[r] \in Confirmed => reqRow'[r] \in Confirmed
  BY <1>1, <1>2 DEF ErasureInv, ErasureParts, Confirmed
<1>5. \A r \in ReqKey : reqRow[r] = "none" => reqRow'[r] = "none"
  BY <1>1, <1>2 DEF ErasureInv, ErasureParts, Confirmed
<1>6. /\ pick' \in [ErDesk -> ReqKey \cup {NoRow}]
      /\ wipe' \in [ErDesk -> {"idle", "sent", "read", "ok", "failed"}]
  <2>1. \E r \in ReqKey \cup {NoRow} : pick' = [pick EXCEPT ![d] = r]
    <3>1. CASE \E r \in ReqKey : OfferProcess(d, r)
      BY <3>1 DEF OfferProcess
    <3>2. CASE CloseConfirm(d) \/ WipeAnswered(d)
      BY <3>2 DEF CloseConfirm, WipeAnswered
    <3>3. CASE UNCHANGED pick
      BY <3>3 DEF ErasureInv, ErasureParts
    <3> QED
      BY <3>1, <3>2, <3>3 DEF ListRequests, HandleProcess, ReadForErasure, Erase, WipeFails
  <2>2. \E x \in {"idle", "sent", "read", "ok", "failed"} : wipe' = [wipe EXCEPT ![d] = x]
    <3>1. CASE UNCHANGED wipe
      BY <3>1 DEF ErasureInv, ErasureParts
    <3>2. CASE HandleProcess(d) \/ ReadForErasure(d) \/ Erase(d) \/ WipeFails(d) \/ WipeAnswered(d)
      BY <3>2 DEF HandleProcess, ReadForErasure, Erase, WipeFails, WipeAnswered
    <3> QED
      BY <3>1, <3>2 DEF ListRequests, CloseConfirm, OfferProcess
  <2> QED
    BY <2>1, <2>2 DEF ErasureInv, ErasureParts
<1>7. ASSUME NEW v \in Visitor PROVE PageFits(visit[v], ask[v])'
  <2>1. PICK p \in ErPage, a \in ErCall : p = visit[v] /\ a = ask[v]
    BY DEF ErasureInv, ErasureParts
  <2>2. PageFits(p, a)'
    BY <1>4, <2>1, FitKept DEF ErasureInv, PagesFit
  <2> QED
    BY <1>0, <2>1, <2>2
<1>8. FreshToken'
  <2> SUFFICES ASSUME NEW v \in Visitor, Writing(v)'
               PROVE  /\ ask[v].tok # NoTok
                      /\ \A c \in Cand : reqRow'[<<c, ask[v].tok>>] = "none"
                      /\ \A u \in Visitor : visit[u].tok # ask[v].tok /\ (u # v => ask[u].tok # ask[v].tok)
    BY <1>0 DEF FreshToken
  <2>1. /\ ask[v].tok # NoTok
        /\ \A c \in Cand : reqRow[<<c, ask[v].tok>>] = "none"
        /\ \A u \in Visitor : visit[u].tok # ask[v].tok /\ (u # v => ask[u].tok # ask[v].tok)
    BY <1>0 DEF ErasureInv, FreshToken, Writing
  <2>2. ask[v].tok \in ETok
    BY <2>1 DEF ErasureInv, ErasureParts, ErCall, ErTok
  <2> QED
    BY <1>5, <2>1, <2>2 DEF ReqKey
<1>9. ASSUME NEW e \in ErDesk
      PROVE  /\ wipe'[e] # "idle" => pick'[e] \in ReqKey
             /\ wipe'[e] = "read" => reqRow'[pick'[e]] \in Confirmed
  <2>0. /\ wipe[e] # "idle" => pick[e] \in ReqKey
        /\ wipe[e] = "read" => reqRow[pick[e]] \in Confirmed
    BY DEF ErasureInv, DesksFit
  <2>1. CASE e # d
    <3>1. wipe'[e] = wipe[e] /\ pick'[e] = pick[e]
      BY <2>1 DEF ListRequests, CloseConfirm, HandleProcess, OfferProcess, ReadForErasure, Erase,
            WipeFails, WipeAnswered, ErasureInv, ErasureParts
    <3> QED
      BY <1>4, <2>0, <3>1
  <2>2. CASE e = d
    <3>1. CASE ListRequests(d)
      BY <2>0, <3>1 DEF ListRequests
    <3>2. CASE CloseConfirm(d)
      BY <2>2, <3>2 DEF CloseConfirm
    <3>3. CASE \E r \in ReqKey : OfferProcess(d, r)
      <4>1. NoRow \notin ReqKey
        BY ErasureAssumption DEF ReqKey
      <4>2. wipe[d] = "idle" /\ wipe' = wipe
        BY <2>0, <2>2, <3>3, <4>1 DEF OfferProcess
      <4> QED
        BY <2>2, <4>2
    <3>4. CASE HandleProcess(d)
      <4>1. pick[d] \in ReqKey /\ UNCHANGED <<reqRow, pick>> /\ wipe'[d] = "sent"
        BY <3>4 DEF HandleProcess, ErasureInv, ErasureParts
      <4> QED
        BY <2>2, <4>1
    <3>5. CASE ReadForErasure(d)
      <4>1. /\ wipe[d] = "sent" /\ UNCHANGED <<reqRow, pick>>
            /\ wipe'[d] = "read" => reqRow[pick[d]] = "verified"
        BY <3>5 DEF ReadForErasure, ErasureInv, ErasureParts
      <4> QED
        BY <2>0, <2>2, <4>1 DEF Confirmed
    <3>6. CASE Erase(d) \/ WipeFails(d)
      <4>1. wipe[d] # "idle" /\ UNCHANGED pick /\ wipe'[d] \in {"ok", "failed"}
        BY <3>6 DEF Erase, WipeFails, ErasureInv, ErasureParts
      <4> QED
        BY <2>0, <2>2, <4>1
    <3>7. CASE WipeAnswered(d)
      BY <2>2, <3>7 DEF WipeAnswered, ErasureInv, ErasureParts
    <3> QED
      BY <3>1, <3>2, <3>3, <3>4, <3>5, <3>6, <3>7
  <2> QED
    BY <2>1, <2>2
<1> QED
  BY <1>0, <1>3, <1>6, <1>7, <1>8, <1>9 DEF ErasureInv, ErasureParts, PagesFit, DesksFit

LEMMA ErasureStep == ErasureInv /\ [ErasureNext]_erasureVars => ErasureInv'
<1> SUFFICES ASSUME ErasureInv, [ErasureNext]_erasureVars PROVE ErasureInv'
  OBVIOUS
<1>1. CASE UNCHANGED erasureVars
  BY <1>1 DEF erasureVars, ErasureInv, ErasureParts, PagesFit, PageFits, Held, FreshToken, Writing, DesksFit
<1>2. CASE ErasureNext
  BY <1>2, VisitorStep, WriteStep, DeskStep DEF ErasureNext
<1> QED
  BY <1>1, <1>2

\* For any number of records, pages and desks: a page that confirms the deletion is about a
\* request that was verified and is carried out or will be offered to a desk
\* (DeleteMyDataPage.jsx, handleVerify; gdpr_service.py, verify_deletion).
THEOREM ConfirmedIsTrue == ErasureSpec => []DoneIsVerified
<1>1. ErasureInv => DoneIsVerified
  BY DEF ErasureInv, PagesFit, PageFits, Held, Confirmed, DoneIsVerified
<1> QED
  BY ErasureStarts, ErasureStep, <1>1, PTL DEF ErasureSpec

\* What the other variables hold: the counts of erasures, and the desks' lists.
CountsFit == wiped \in [ReqKey -> 0..2] /\ erList \in [ErDesk -> [ReqKey -> ReqStatus]]

LEMMA CountsStart == ErasureInit => CountsFit
<1> SUFFICES ASSUME ErasureInit PROVE CountsFit
  OBVIOUS
<1>1. 0 \in 0..2
  OBVIOUS
<1> QED
  BY <1>1 DEF ErasureInit, CountsFit, ReqStatus

LEMMA CountsStep == ErasureInv /\ CountsFit /\ [ErasureNext]_erasureVars => CountsFit'
<1> SUFFICES ASSUME ErasureInv, CountsFit, [ErasureNext]_erasureVars PROVE CountsFit'
  OBVIOUS
<1>r. reqRow \in [ReqKey -> ReqStatus]
  BY DEF ErasureInv, ErasureParts
<1>1. CASE UNCHANGED <<wiped, erList>>
  BY <1>1 DEF CountsFit
<1>2. ASSUME NEW d \in ErDesk, ListRequests(d) \/ WipeAnswered(d) PROVE CountsFit'
  <2>1. erList' \in {[erList EXCEPT ![d] = reqRow], [erList EXCEPT ![d] = erList[d]]} /\ wiped' = wiped
    BY <1>2 DEF ListRequests, WipeAnswered
  <2> QED
    BY <1>r, <2>1 DEF CountsFit
<1>3. ASSUME NEW d \in ErDesk, Erase(d) PROVE CountsFit'
  <2>1. pick[d] \in ReqKey
    BY <1>3 DEF ErasureInv, DesksFit, Erase
  <2>2. wiped[pick[d]] + 1 \in 0..2
    BY <1>3, <2>1 DEF Erase, CountsFit
  <2>3. wiped' = [wiped EXCEPT ![pick[d]] = wiped[pick[d]] + 1] /\ erList' = erList
    BY <1>3 DEF Erase
  <2> QED
    BY <2>2, <2>3 DEF CountsFit
<1> QED
  BY <1>1, <1>2, <1>3
  DEF ErasureNext, erasureVars, RequestErasure, VerifyErasure, TryAgain, Revisit, AskAnswered, ReadRequests,
      UnknownAddress, ReadPending, WriteRequests, AskFails, CloseConfirm, HandleProcess, OfferProcess,
      ReadForErasure, WipeFails

LEMMA ErasureTyped == ErasureInv /\ CountsFit => ErasureTypeOK
BY DEF ErasureInv, ErasureParts, CountsFit, ErasureTypeOK, ErPage, ErCall, ErTok

\* The requests, the pages and the desks keep their types: a desk that erases has a row
\* in its confirmation (PrivacyTab.jsx, handleProcess).
THEOREM ErasureTypes == ErasureSpec => []ErasureTypeOK
BY ErasureStarts, ErasureStep, CountsStart, CountsStep, ErasureTyped, PTL DEF ErasureSpec

-----------------------------------------------------------------------------
(**************************************************************************)
(* One desk. The check of process_deletion and its transaction are apart,  *)
(* so two desks may both erase; one alone may not, although verifications  *)
(* also read a row and write it later: only the page that asked has the    *)
(* token, and it has one call at a time, so what its call has read as      *)
(* pending still is when the call writes.                                  *)
(**************************************************************************)

\* The privacy tab is open once (PrivacyTab.jsx).
OneDesk == \A d, e \in ErDesk : d = e

\* A token is known to one page (request_deletion answers it to the page that asked).
Holds(v, k) == k \in {visit[v].tok, ask[v].tok}
OwnTokens == \A u, v \in Visitor : \A k \in ETok : Holds(u, k) /\ Holds(v, k) => u = v

\* What a call has read and is about to rely on, and what was erased.
Verifying(v) == ask[v].kind = "verify" /\ ask[v].at = "read"
ReadsHold ==
    /\ \A v \in Visitor : Verifying(v) => \A c \in ask[v].cands : reqRow[<<c, ask[v].tok>>] = "pending"
    /\ \A d \in ErDesk : wipe[d] = "read" => reqRow[pick[d]] = "verified"
    /\ \A r \in ReqKey : wiped[r] = 0 \/ (wiped[r] = 1 /\ reqRow[r] = "completed")

OnceInv == ErasureInv /\ CountsFit /\ OwnTokens /\ ReadsHold

LEMMA OnceStarts == ErasureInit => OnceInv
<1> SUFFICES ASSUME ErasureInit PROVE OnceInv
  OBVIOUS
<1>1. ErasureInv /\ CountsFit
  BY ErasureStarts, CountsStart
<1>2. OwnTokens
  BY ErasureAssumption DEF ErasureInit, OwnTokens, Holds, AskIdle
<1>3. ReadsHold
  BY DEF ErasureInit, ReadsHold, Verifying, AskIdle
<1> QED
  BY <1>1, <1>2, <1>3 DEF OnceInv

\* What a step of a page does to the tokens, and to what the pages and desks have read.
VisitorMoves(v) ==
    \/ RequestErasure(v) \/ VerifyErasure(v) \/ TryAgain(v) \/ Revisit(v) \/ AskAnswered(v)
    \/ \E k \in ETok : ReadRequests(v, k)
    \/ UnknownAddress(v) \/ ReadPending(v) \/ WriteRequests(v) \/ AskFails(v)

LEMMA VisitorChanges ==
    ASSUME ErasureInv, NEW v \in Visitor, VisitorMoves(v)
    PROVE  /\ \A u \in Visitor \ {v} : visit'[u] = visit[u] /\ ask'[u] = ask[u]
           /\ visit'[v].tok \in {NoTok, visit[v].tok, ask[v].tok}
           /\ ask'[v].tok \in {NoTok, visit[v].tok, ask[v].tok} \/ ask'[v].tok \notin TokUsed
           /\ Verifying(v)' => ask'[v] = ask[v] \/ ReadPending(v)
           /\ UNCHANGED <<wiped, pick, wipe>> /\ (UNCHANGED reqRow \/ WriteRequests(v))
<1> DEFINE Goal ==
             /\ \A u \in Visitor \ {v} : visit'[u] = visit[u] /\ ask'[u] = ask[u]
             /\ visit'[v].tok \in {NoTok, visit[v].tok, ask[v].tok}
             /\ ask'[v].tok \in {NoTok, visit[v].tok, ask[v].tok} \/ ask'[v].tok \notin TokUsed
             /\ Verifying(v)' => ask'[v] = ask[v] \/ ReadPending(v)
             /\ UNCHANGED <<wiped, pick, wipe>> /\ (UNCHANGED reqRow \/ WriteRequests(v))
<1>0. /\ visit[v] \in ErPage /\ ask[v] \in ErCall
      /\ visit \in [Visitor -> ErPage] /\ ask \in [Visitor -> ErCall]
  BY DEF ErasureInv, ErasureParts
<1>1. CASE RequestErasure(v)
  BY <1>0, <1>1 DEF RequestErasure, AskIdle, Verifying, ErPage, ErCall
<1>2. CASE VerifyErasure(v)
  BY <1>0, <1>2 DEF VerifyErasure, AskIdle, Verifying, ErPage, ErCall
<1>3. CASE TryAgain(v)
  BY <1>0, <1>3 DEF TryAgain, Verifying, ErPage, ErCall
<1>4. CASE Revisit(v)
  BY <1>0, <1>4 DEF Revisit, Verifying, ErPage, ErCall
<1>5. CASE AskAnswered(v)
  BY <1>0, <1>5 DEF AskAnswered, AskIdle, Verifying, ErPage, ErCall
<1>6. CASE \E k \in ETok : ReadRequests(v, k)
  BY <1>0, <1>6 DEF ReadRequests, Verifying, ErPage, ErCall
<1>7. CASE UnknownAddress(v)
  BY <1>0, <1>7 DEF UnknownAddress, Verifying, ErPage, ErCall
<1>8. CASE ReadPending(v)
  BY <1>0, <1>8 DEF ReadPending, Verifying, ErPage, ErCall
<1>9. CASE WriteRequests(v)
  BY <1>0, <1>9 DEF WriteRequests, Verifying, ErPage, ErCall
<1>10. CASE AskFails(v)
  BY <1>0, <1>10 DEF AskFails, AskIdle, Verifying, ErPage, ErCall
<1> QED
  BY <1>1, <1>2, <1>3, <1>4, <1>5, <1>6, <1>7, <1>8, <1>9, <1>10 DEF VisitorMoves

\* A page or its call has a token from one another, or one that nobody has.
LEMMA TokensStep ==
    ASSUME ErasureInv, OwnTokens, [ErasureNext]_erasureVars
    PROVE  OwnTokens'
<1> USE DEF ErasureInv, ErasureParts
<1>1. CASE UNCHANGED <<visit, ask>>
  BY <1>1 DEF OwnTokens, Holds
<1>2. ASSUME NEW v \in Visitor,
             \A u \in Visitor \ {v} : visit'[u] = visit[u] /\ ask'[u] = ask[u],
             visit'[v].tok \in {NoTok, visit[v].tok, ask[v].tok},
             ask'[v].tok \in {NoTok, visit[v].tok, ask[v].tok} \/ ask'[v].tok \notin TokUsed
      PROVE  OwnTokens'
  <2> SUFFICES ASSUME NEW u \in Visitor, NEW w \in Visitor, NEW k \in ETok, Holds(u, k)', Holds(w, k)', u # w
               PROVE  FALSE
    BY DEF OwnTokens
  <2>1. PICK x \in Visitor : x \in {u, w} /\ x # v /\ Holds(x, k)
    <3>1. CASE u # v
      BY <1>2, <3>1 DEF Holds
    <3>2. CASE w # v
      BY <1>2, <3>2 DEF Holds
    <3> QED
      BY <3>1, <3>2
  <2>2. ~Holds(v, k) /\ k \in TokUsed
    BY <2>1 DEF OwnTokens, Holds, TokUsed
  <2>3. ~Holds(v, k)'
    BY <1>2, <2>2, ErasureAssumption DEF Holds
  <2>4. ASSUME NEW y \in {u, w}, y # v PROVE Holds(y, k)
    BY <1>2, <2>4 DEF Holds
  <2> QED
    BY <2>3, <2>4 DEF OwnTokens
<1>3. ASSUME NEW v \in Visitor, VisitorMoves(v) PROVE OwnTokens'
  <2>1. /\ \A u \in Visitor \ {v} : visit'[u] = visit[u] /\ ask'[u] = ask[u]
        /\ visit'[v].tok \in {NoTok, visit[v].tok, ask[v].tok}
        /\ ask'[v].tok \in {NoTok, visit[v].tok, ask[v].tok} \/ ask'[v].tok \notin TokUsed
    BY <1>3, VisitorChanges
  <2> HIDE DEF ErasureInv, ErasureParts
  <2> QED
    BY <1>2, <2>1
<1> QED
  BY <1>1, <1>3 DEF ErasureNext, VisitorMoves, erasureVars, ListRequests, CloseConfirm, HandleProcess, OfferProcess,
     ReadForErasure, Erase, WipeFails, WipeAnswered

\* The rows that a call writes were new or pending until then.
LEMMA WrittenRows ==
    ASSUME ErasureInv, ReadsHold, NEW v \in Visitor, WriteRequests(v), NEW r \in ReqKey
    PROVE  reqRow'[r] # reqRow[r] => r[2] = ask[v].tok /\ reqRow[r] \in {"none", "pending"}
<1> SUFFICES ASSUME reqRow'[r] # reqRow[r] PROVE r[2] = ask[v].tok /\ reqRow[r] \in {"none", "pending"}
  OBVIOUS
<1>1. r[1] \in ask[v].cands /\ r[2] = ask[v].tok /\ r = <<r[1], ask[v].tok>> /\ r[1] \in Cand
  BY DEF WriteRequests, ReqKey
<1>2. Writing(v) \/ Verifying(v)
  BY DEF WriteRequests, Writing, Verifying, ErasureInv, ErasureParts, ErCall, PagesFit, PageFits
<1>3. CASE Writing(v)
  BY <1>1, <1>3 DEF ErasureInv, FreshToken
<1>4. CASE Verifying(v)
  BY <1>1, <1>4 DEF ReadsHold
<1> QED
  BY <1>1, <1>2, <1>3, <1>4

\* The pages' steps: a call that has read pending rows finds them pending.
LEMMA VisitorsHold ==
    ASSUME OnceInv, NEW v \in Visitor, VisitorMoves(v)
    PROVE  ReadsHold'
<1> USE DEF OnceInv, ErasureInv, ErasureParts
<1>0. /\ UNCHANGED <<wiped, pick, wipe>> /\ (UNCHANGED reqRow \/ WriteRequests(v))
      /\ \A u \in Visitor \ {v} : ask'[u] = ask[u]
      /\ Verifying(v)' => ask'[v] = ask[v] \/ ReadPending(v)
  BY VisitorChanges
<1>1. CASE WriteRequests(v)
  <2>1. ASSUME NEW r \in ReqKey, reqRow[r] \in {"verified", "completed"} PROVE reqRow'[r] = reqRow[r]
    BY <1>1, <2>1, WrittenRows
  <2>2. ASSUME NEW u \in Visitor, Verifying(u)', NEW c \in ask'[u].cands
        PROVE  reqRow'[<<c, ask'[u].tok>>] = "pending"
    <3>1. u # v
      BY <1>1, <2>2 DEF WriteRequests, Verifying
    <3>2. ask'[u] = ask[u]
      BY <1>1, <3>1 DEF WriteRequests
    <3>3. Verifying(u) /\ ask[u].tok \in ETok /\ c \in Cand
      BY <2>2, <3>2 DEF Verifying, PagesFit, PageFits, ErCall, ErTok
    <3>4. reqRow[<<c, ask[u].tok>>] = "pending" /\ <<c, ask[u].tok>> \in ReqKey
      BY <2>2, <3>2, <3>3 DEF ReadsHold, ReqKey
    <3>5. ask[u].tok # ask[v].tok
      BY <3>1, <3>3 DEF OwnTokens, Holds
    <3>6. <<c, ask[u].tok>>[2] # ask[v].tok
      BY <3>5
    <3>7. reqRow'[<<c, ask[u].tok>>] = reqRow[<<c, ask[u].tok>>]
      BY <1>1, <3>4, <3>6, WrittenRows
    <3> QED
      BY <3>2, <3>4, <3>7
  <2> QED
    BY <1>0, <2>1, <2>2 DEF ReadsHold, DesksFit
<1>2. CASE ~WriteRequests(v)
  <2>1. UNCHANGED reqRow
    BY <1>0, <1>2
  <2>2. ASSUME NEW u \in Visitor, Verifying(u)', NEW c \in ask'[u].cands
        PROVE  reqRow[<<c, ask'[u].tok>>] = "pending"
    <3>1. CASE ask'[u] = ask[u]
      BY <2>2, <3>1 DEF Verifying, ReadsHold
    <3>2. CASE u = v /\ ReadPending(v)
      BY <2>2, <3>2 DEF ReadPending, Verifying, ErCall
    <3> QED
      BY <1>0, <2>2, <3>1, <3>2
  <2> QED
    BY <1>0, <2>1, <2>2 DEF ReadsHold
<1> QED
  BY <1>1, <1>2

\* The desk's steps.
DeskMoves(d) ==
    \/ ListRequests(d) \/ CloseConfirm(d) \/ HandleProcess(d)
    \/ \E r \in ReqKey : OfferProcess(d, r)
    \/ ReadForErasure(d) \/ Erase(d) \/ WipeFails(d) \/ WipeAnswered(d)

\* The row that the desk's call has read as verified has not been erased.
LEMMA DeskHolds ==
    ASSUME OneDesk, OnceInv, NEW d \in ErDesk, DeskMoves(d)
    PROVE  ReadsHold'
<1> USE DEF OnceInv, ErasureInv, ErasureParts
<1>0. UNCHANGED <<visit, ask>> /\ \A e \in ErDesk : e = d
  BY DEF OneDesk, DeskMoves, ListRequests, CloseConfirm, HandleProcess, OfferProcess, ReadForErasure, Erase, WipeFails,
         WipeAnswered
<1>1. CASE Erase(d)
  <2>1. /\ pick[d] \in ReqKey /\ reqRow[pick[d]] = "verified" /\ wiped[pick[d]] = 0
        /\ pick' = pick /\ wipe'[d] = "ok"
        /\ reqRow' = [reqRow EXCEPT ![pick[d]] = "completed"]
        /\ wiped' = [wiped EXCEPT ![pick[d]] = wiped[pick[d]] + 1]
    BY <1>1 DEF Erase, DesksFit, ReadsHold
  <2>2. ASSUME NEW r \in ReqKey PROVE wiped'[r] = 0 \/ (wiped'[r] = 1 /\ reqRow'[r] = "completed")
    BY <2>1 DEF ReadsHold, CountsFit
  <2>3. ASSUME NEW u \in Visitor, Verifying(u)', NEW c \in ask'[u].cands
        PROVE  reqRow'[<<c, ask'[u].tok>>] = "pending"
    <3>1. reqRow[<<c, ask[u].tok>>] = "pending"
      BY <1>0, <2>3 DEF Verifying, ReadsHold
    <3>2. <<c, ask[u].tok>> # pick[d]
      BY <2>1, <3>1
    <3> QED
      BY <1>0, <2>1, <3>1, <3>2
  <2> QED
    BY <1>0, <2>1, <2>2, <2>3 DEF ReadsHold
<1>2. CASE ~Erase(d)
  <2>1. UNCHANGED <<reqRow, wiped>>
    BY <1>2 DEF DeskMoves, ListRequests, CloseConfirm, HandleProcess, OfferProcess, ReadForErasure, WipeFails,
                WipeAnswered
  <2>2. ASSUME wipe'[d] = "read" PROVE reqRow[pick'[d]] = "verified"
    <3>1. CASE ReadForErasure(d)
      BY <2>2, <3>1 DEF ReadForErasure
    <3>2. CASE ~ReadForErasure(d)
      <4>1. wipe[d] = "read" /\ pick' = pick
        <5>1. NoRow \notin ReqKey
          BY ErasureAssumption DEF ReqKey
        <5> QED
          BY <1>2, <2>2, <3>2, <5>1 DEF DeskMoves, ListRequests, CloseConfirm, HandleProcess, OfferProcess, WipeFails,
             WipeAnswered, DesksFit
      <4> QED
        BY <4>1 DEF ReadsHold
    <3> QED
      BY <3>1, <3>2
  <2> QED
    BY <1>0, <2>1, <2>2 DEF ReadsHold, Verifying
<1> QED
  BY <1>1, <1>2

LEMMA OnceStep == OneDesk /\ OnceInv /\ [ErasureNext]_erasureVars => OnceInv'
<1> SUFFICES ASSUME OneDesk, OnceInv, [ErasureNext]_erasureVars PROVE OnceInv'
  OBVIOUS
<1>1. ErasureInv' /\ CountsFit' /\ OwnTokens'
  BY ErasureStep, CountsStep, TokensStep DEF OnceInv
<1>2. ASSUME UNCHANGED erasureVars PROVE ReadsHold'
  <2>1. UNCHANGED <<reqRow, wiped, ask, pick, wipe>>
    BY <1>2 DEF erasureVars
  <2> QED
    BY <2>1 DEF OnceInv, ReadsHold, Verifying
<1>3. ASSUME ErasureNext PROVE ReadsHold'
  <2>1. \/ \E v \in Visitor : VisitorMoves(v)
        \/ \E d \in ErDesk : DeskMoves(d)
    BY <1>3 DEF ErasureNext, VisitorMoves, DeskMoves
  <2> QED
    BY <2>1, VisitorsHold, DeskHolds
<1>4. ReadsHold'
  BY <1>2, <1>3
<1> QED
  BY <1>1, <1>4 DEF OnceInv

\* One desk erases a request once, for any number of records, requests and pages, also when
\* calls fail and are repeated (gdpr_service.py, process_deletion).  What is repeated was
\* not served: a verification that its page gave up does not write later.
THEOREM OneDeskErasesOnce ==
    ASSUME OneDesk
    PROVE  ErasureSpec => []ErasedOnce
<1>1. OnceInv => ErasedOnce
  BY DEF OnceInv, ReadsHold, ErasedOnce
<1> QED
  BY OneDesk, OnceStarts, OnceStep, <1>1, PTL DEF ErasureSpec

-----------------------------------------------------------------------------
(**************************************************************************)
(* The application chat. What is behind the upload is reached through it:  *)
(* the conversation gets there only by the step of the upload, and a call  *)
(* that carries a step behind it was made when the resume was stored.      *)
(**************************************************************************)

ApplyPage ==
    [state : {"closed", "loading", "consent", "valid", "expired", "completed", "declined"},
     step : ChatStep, resume : BOOLEAN, video : BOOLEAN]
ApplyCall ==
    [kind : {"none", "load", "consent", "init", "message", "resume", "video"},
     at : {"idle", "sent", "read", "saved", "answered", "failed"},
     step : ChatStep, n : 0..Questions + 1, no : BOOLEAN]

ChatRow == [made : BOOLEAN, step : ChatStep, n : 0..Questions, said : BOOLEAN]
Appl == [applied : BOOLEAN, byChat : BOOLEAN, resume : BOOLEAN, consent : BOOLEAN]

\* The types, by the variables they are about.
LEMMA ApplyParts ==
    ApplyTypeOK <=> /\ appl \in Appl /\ chatRow \in ChatRow
                    /\ apage \in [ApplyTab -> ApplyPage]
                    /\ acall \in [ApplyTab -> [Slot -> ApplyCall]]
BY DEF ApplyTypeOK, ApplyPage, ApplyCall, ChatRow, Appl

\* A call carries a step behind the upload, or a video, only if the resume is stored, and
\* has asked no more questions than there are.
Sound(q, stored) ==
    /\ q.step \in PastUpload \/ q.kind = "video" => stored
    /\ q.kind = "resume" /\ q.no => stored
    /\ q.kind \in {"init", "message", "resume"} => q.n <= Questions

ApplyInv ==
    /\ ApplyTypeOK
    /\ chatRow.step \in PastUpload => appl.resume
    /\ appl.byChat => appl.resume
    /\ \A t \in ApplyTab : apage[t].step \in PastUpload => appl.resume
    /\ \A t \in ApplyTab, s \in Slot : Sound(acall[t][s], appl.resume)

\* No profile question is a step of the conversation's own.
LEMMA ProfileSteps ==
    /\ Len(Profile) \in Nat \ {0} /\ DOMAIN Profile = 1..Len(Profile) /\ Head(Profile) = Profile[1]
    /\ \A i \in 1..Len(Profile) :
         /\ Profile[i] \in ChatStep \ PastUpload
         /\ Profile[i] \notin {"none", "greeting", "interest", "resume_upload", "declined"}
<1> DEFINE Other == STRING \ {"none", "greeting", "interest", "resume_upload",
                              "screening_questions", "completion", "declined"}
<1>1. Profile \in Seq(Other) /\ Profile # <<>>
  BY ApplyAssumption DEF ApplyAssumption
<1>2. /\ Len(Profile) \in Nat \ {0} /\ DOMAIN Profile = 1..Len(Profile) /\ Head(Profile) = Profile[1]
      /\ \A i \in 1..Len(Profile) : Profile[i] \in Other
  <2> HIDE DEF Other
  <2> QED
    BY <1>1
<1> QED
  BY <1>2 DEF ChatStep, PastUpload

\* The conversation gets behind the upload only from behind it.
LEMMA StepAfterUpload ==
    ASSUME chatRow \in ChatRow, NEW no \in BOOLEAN
    PROVE  /\ StepAfter(no) \in ChatStep
           /\ StepAfter(no) \in PastUpload => chatRow.step \in PastUpload
           /\ chatRow.step = "none" => StepAfter(no) = "interest"
           /\ AskedAfter \in 0..Questions
<1>1. chatRow.step \in ChatStep /\ chatRow.n \in 0..Questions /\ Questions \in Nat
  BY ApplyAssumption DEF ChatRow, ApplyAssumption
<1>2. AskedAfter \in 0..Questions
  BY <1>1 DEF AskedAfter
<1>3. CASE \E i \in DOMAIN Profile : Profile[i] = chatRow.step
  <2> DEFINE i == CHOOSE i \in DOMAIN Profile : Profile[i] = chatRow.step
  <2>1. i \in 1..Len(Profile) /\ Profile[i] = chatRow.step
    BY <1>3, ProfileSteps
  <2>2. chatRow.step \notin {"interest", "none", "resume_upload", "screening_questions", "completion"}
    BY <2>1, ProfileSteps DEF PastUpload
  <2>3. StepAfter(no) = IF i = Len(Profile) THEN "resume_upload" ELSE Profile[i + 1]
    BY <1>3, <2>2 DEF StepAfter
  <2> HIDE DEF i
  <2>4. i # Len(Profile) => i + 1 \in 1..Len(Profile)
    <3>1. Len(Profile) \in Nat
      BY ProfileSteps
    <3> QED
      BY <2>1, <3>1
  <2>5. StepAfter(no) \in ChatStep \ PastUpload
    BY <2>3, <2>4, ProfileSteps DEF ChatStep, PastUpload
  <2> QED
    BY <1>2, <2>2, <2>5
<1>4. CASE ~\E i \in DOMAIN Profile : Profile[i] = chatRow.step
  <2>1. 1 \in 1..Len(Profile)
    BY ProfileSteps
  <2> QED
    BY <1>1, <1>2, <1>4, <2>1, ProfileSteps DEF StepAfter, PastUpload, ChatStep
<1> QED
  BY <1>3, <1>4

-----------------------------------------------------------------------------
LEMMA ApplyStarts == ApplyInit => ApplyInv
<1> SUFFICES ASSUME ApplyInit PROVE ApplyInv
  OBVIOUS
<1>1. NoApplyCall \in ApplyCall /\ Questions \in Nat
  BY ApplyAssumption DEF ApplyAssumption, NoApplyCall, ApplyCall, ChatStep
<1>2. ApplyTypeOK
  BY <1>1, ApplyParts DEF ApplyInit, ApplyPage, ChatRow, Appl, ChatStep
<1> QED
  BY <1>2 DEF ApplyInit, ApplyInv, Sound, NoApplyCall, PastUpload

\* What a step makes of one call.
CallWritten(t, s, q) ==
    /\ acall' = [acall EXCEPT ![t][s] = q]
    /\ q \in ApplyCall
    /\ Sound(q, appl'.resume)

\* The steps of a page, of the server and of the answers, by the call they change.
LEMMA CallSteps ==
    ASSUME ApplyInv, ApplyNext
    PROVE  UNCHANGED acall \/ \E t \in ApplyTab, s \in Slot, q \in ApplyCall : CallWritten(t, s, q)
<1> USE DEF Slot
<1>0. /\ Questions \in Nat /\ appl \in Appl /\ chatRow \in ChatRow
      /\ acall \in [ApplyTab -> [Slot -> ApplyCall]]
  BY ApplyAssumption, ApplyParts DEF ApplyAssumption, ApplyInv
<1>1. NoApplyCall \in ApplyCall /\ "none" \in ChatStep /\ "completion" \in ChatStep /\ "screening_questions" \in ChatStep
  BY <1>0 DEF NoApplyCall, ApplyCall, ChatStep
<1>2. \A t \in ApplyTab, s \in Slot : acall[t][s] \in ApplyCall /\ Sound(acall[t][s], appl.resume)
  BY <1>0 DEF ApplyInv
<1>3. ASSUME NEW t \in ApplyTab, NEW s \in Slot, NEW kind \in {"load", "consent", "message", "resume", "video"},
             NEW no \in BOOLEAN, kind = "resume" => ~no, kind = "video" => appl'.resume, Asks(t, s, kind, no)
      PROVE  \E q \in ApplyCall : CallWritten(t, s, q)
  <2> DEFINE q == [NoApplyCall EXCEPT !.kind = kind, !.at = "sent", !.no = no]
  <2>1. q \in ApplyCall
    BY <1>0, <1>1 DEF NoApplyCall, ApplyCall
  <2>2. Sound(q, appl'.resume)
    <3>1. q.kind = kind /\ q.step = "none" /\ q.no = no /\ q.n = 0
      BY DEF NoApplyCall
    <3> QED
      BY <1>0, <1>3, <3>1 DEF Sound, PastUpload
  <2> QED
    BY <1>3, <2>1, <2>2 DEF Asks, CallWritten
<1>4. ASSUME NEW t \in ApplyTab, NEW s \in Slot, CallOver(t, s)
      PROVE  \E q \in ApplyCall : CallWritten(t, s, q)
  <2>1. Sound(NoApplyCall, appl'.resume)
    BY <1>0 DEF Sound, NoApplyCall, PastUpload
  <2> QED
    BY <1>1, <1>4, <2>1 DEF CallOver, CallWritten
<1>5. ASSUME NEW t \in ApplyTab, NEW s \in Slot, NEW at \in {"saved", "answered"}, Answers(t, s, at),
             appl.resume => appl'.resume
      PROVE  \E q \in ApplyCall : CallWritten(t, s, q)
  <2> DEFINE q == [acall[t][s] EXCEPT !.at = at]
  <2>1. q \in ApplyCall
    BY <1>2 DEF ApplyCall
  <2>2. Sound(q, appl'.resume)
    BY <1>2, <1>5 DEF Sound, ApplyCall
  <2>3. acall' = [acall EXCEPT ![t][s] = q]
    BY <1>0, <1>5 DEF Answers
  <2> QED
    BY <2>1, <2>2, <2>3 DEF CallWritten
<1>6. ASSUME NEW t \in ApplyTab, ServeContext(t) PROVE \E q \in ApplyCall : CallWritten(t, "open", q)
  <2> DEFINE n == IF chatRow.said THEN 1 ELSE 0
             q == [acall[t]["open"] EXCEPT !.at = "answered", !.step = chatRow.step, !.n = n, !.no = appl.applied]
  <2>1. chatRow.step \in ChatStep /\ appl.applied \in BOOLEAN /\ n \in 0..Questions + 1
    BY <1>0 DEF ChatRow, Appl
  <2>2. acall[t]["open"] \in ApplyCall /\ acall[t]["open"].kind = "load"
    BY <1>2, <1>6 DEF ServeContext, AtCall
  <2>3. acall' = [acall EXCEPT ![t]["open"] = q] /\ appl' = appl
    BY <1>0, <1>6 DEF ServeContext
  <2> HIDE DEF n
  <2>4. q \in ApplyCall /\ q.kind = "load" /\ q.step = chatRow.step
    BY <2>1, <2>2 DEF ApplyCall
  <2> HIDE DEF q
  <2>5. Sound(q, appl'.resume)
    BY <2>3, <2>4 DEF Sound, ApplyInv
  <2> QED
    BY <2>3, <2>4, <2>5 DEF CallWritten
<1>7. ASSUME NEW t \in ApplyTab, NEW s \in Slot, ReadSession(t, s) PROVE \E q \in ApplyCall : CallWritten(t, s, q)
  <2> DEFINE a == StepAfter(acall[t][s].no)
             q == [acall[t][s] EXCEPT !.at = "read", !.step = a, !.n = AskedAfter, !.no = FALSE]
  <2>1. acall[t][s] \in ApplyCall /\ acall[t][s].no \in BOOLEAN
    BY <1>2 DEF ApplyCall
  <2>2. a \in ChatStep /\ AskedAfter \in 0..Questions /\ (a \in PastUpload => appl.resume)
    BY <1>0, <2>1, StepAfterUpload DEF ApplyInv
  <2>3. acall' = [acall EXCEPT ![t][s] = q] /\ appl' = appl
    BY <1>0, <1>7 DEF ReadSession
  <2> HIDE DEF a
  <2>4. AskedAfter \in 0..Questions + 1
    BY <1>0, <2>2
  <2>5. q \in ApplyCall /\ q.step = a /\ q.n = AskedAfter /\ q.no = FALSE /\ q.kind # "video"
    BY <1>7, <2>1, <2>2, <2>4 DEF ApplyCall, ReadSession, AtCall
  <2> HIDE DEF q
  <2> QED
    <3>1. q.n <= Questions /\ (q.step \in PastUpload => appl'.resume)
      BY <1>0, <2>2, <2>3, <2>5
    <3>2. Sound(q, appl'.resume)
      BY <2>5, <3>1 DEF Sound
    <3> QED
      BY <2>3, <2>5, <3>2 DEF CallWritten
<1>8. ASSUME NEW t \in ApplyTab, StoreResume(t) PROVE \E q \in ApplyCall : CallWritten(t, "file", q)
  <2> DEFINE q == [acall[t]["file"] EXCEPT !.no = TRUE]
  <2>1. acall' = [acall EXCEPT ![t]["file"] = q] /\ appl'.resume
    BY <1>0, <1>8 DEF StoreResume, Appl
  <2>2. /\ q \in ApplyCall /\ q.kind = acall[t]["file"].kind /\ q.n = acall[t]["file"].n
        /\ q.kind = "resume"
    BY <1>2, <1>8 DEF ApplyCall, StoreResume, AtCall
  <2> QED
    BY <1>2, <2>1, <2>2 DEF CallWritten, Sound
<1>9. ASSUME NEW t \in ApplyTab, AdvanceResume(t) PROVE \E q \in ApplyCall : CallWritten(t, "file", q)
  <2> DEFINE step == IF Questions > 0 THEN "screening_questions" ELSE "completion"
             n == IF Questions > 0 THEN 1 ELSE 0
             q == [acall[t]["file"] EXCEPT !.at = "read", !.no = FALSE, !.step = step, !.n = n]
  <2>1. acall' = [acall EXCEPT ![t]["file"] = q] /\ appl' = appl
    BY <1>0, <1>9 DEF AdvanceResume
  <2>2. step \in ChatStep /\ n \in 0..Questions
    BY <1>0, <1>1
  <2>3. appl.resume
    BY <1>2, <1>9 DEF AdvanceResume, AtCall, Sound
  <2> HIDE DEF step, n
  <2>4. acall[t]["file"] \in ApplyCall /\ n \in 0..Questions + 1
    BY <1>0, <1>2, <2>2
  <2>5. q \in ApplyCall /\ q.n = n /\ q.no = FALSE
    BY <2>2, <2>4 DEF ApplyCall
  <2> HIDE DEF q
  <2> QED
    <3>1. q.n <= Questions /\ appl'.resume
      BY <1>0, <2>1, <2>2, <2>3, <2>5
    <3>2. Sound(q, appl'.resume)
      BY <3>1 DEF Sound
    <3> QED
      BY <2>1, <2>5, <3>2 DEF CallWritten
<1>10. ASSUME NEW t \in ApplyTab, ServeVideo(t) PROVE \E q \in ApplyCall : CallWritten(t, "file", q)
  <2> DEFINE q == [acall[t]["file"] EXCEPT !.at = "answered", !.step = "completion"]
  <2>1. acall' = [acall EXCEPT ![t]["file"] = q] /\ appl' = appl
    BY <1>0, <1>10 DEF ServeVideo
  <2>2. q \in ApplyCall /\ q.kind = "video" /\ appl.resume
    BY <1>1, <1>2, <1>10 DEF ApplyCall, ServeVideo, AtCall, Sound
  <2> QED
    BY <2>1, <2>2 DEF CallWritten, Sound
<1>11. ASSUME NEW t \in ApplyTab, NEW s \in Slot, CallFails(t, s) PROVE \E q \in ApplyCall : CallWritten(t, s, q)
  <2> DEFINE q == [NoApplyCall EXCEPT !.kind = acall[t][s].kind, !.at = "failed"]
  <2>1. acall' = [acall EXCEPT ![t][s] = q]
    BY <1>11 DEF CallFails
  <2>2. /\ q \in ApplyCall /\ q.step = "none" /\ q.n = 0 /\ q.no = FALSE
        /\ q.kind = acall[t][s].kind /\ appl' = appl
    BY <1>1, <1>2, <1>11 DEF ApplyCall, NoApplyCall, CallFails
  <2> HIDE DEF q
  <2> QED
    <3>1. Sound(q, appl'.resume)
      BY <1>0, <1>2, <2>2 DEF Sound, PastUpload
    <3> QED
      BY <2>1, <2>2, <3>1 DEF CallWritten
<1>12. ASSUME NEW t \in ApplyTab, ConsentAnswered(t) PROVE \E q \in ApplyCall : CallWritten(t, "open", q)
  <2> DEFINE q == [NoApplyCall EXCEPT !.kind = "init", !.at = "sent"]
  <2>1. acall' = [acall EXCEPT ![t]["open"] = q]
    BY <1>12 DEF ConsentAnswered
  <2>2. q \in ApplyCall /\ q.step = "none" /\ q.n = 0 /\ q.no = FALSE /\ q.kind = "init"
    BY <1>1 DEF ApplyCall, NoApplyCall
  <2> HIDE DEF q
  <2> QED
    <3>1. Sound(q, appl'.resume)
      BY <1>0, <2>2 DEF Sound, PastUpload
    <3> QED
      BY <2>1, <2>2, <3>1 DEF CallWritten
<1>13. ASSUME NEW t \in ApplyTab,
              OpenApply(t) \/ AgreeToConsent(t) \/ UploadResume(t) \/ \E no \in BOOLEAN : SendReply(t, no)
       PROVE  \E s \in Slot, q \in ApplyCall : CallWritten(t, s, q)
  BY <1>3, <1>13 DEF OpenApply, AgreeToConsent, UploadResume, SendReply
<1>14. ASSUME NEW t \in ApplyTab, UploadVideo(t) PROVE \E q \in ApplyCall : CallWritten(t, "file", q)
  <2>1. appl'.resume
    BY <1>14 DEF UploadVideo, VideoOffered, ApplyInv, PastUpload
  <2> QED
    BY <1>3, <1>14, <2>1 DEF UploadVideo
<1>15. ASSUME NEW t \in ApplyTab, ServeConsent(t) \/ AnswerResume(t)
       PROVE  \E s \in Slot, q \in ApplyCall : CallWritten(t, s, q)
  <2>1. appl.resume => appl'.resume
    BY <1>0, <1>15 DEF ServeConsent, AnswerResume, Appl
  <2> QED
    BY <1>5, <1>15, <2>1 DEF ServeConsent, AnswerResume
<1>16. ASSUME NEW t \in ApplyTab, NEW s \in Slot,
              SaveReply(t, s) \/ \E completes \in BOOLEAN : AnswerMessage(t, s, completes)
       PROVE  \E q \in ApplyCall : CallWritten(t, s, q)
  <2>1. appl.resume => appl'.resume
    BY <1>0, <1>16 DEF SaveReply, AnswerMessage, Appl
  <2> QED
    BY <1>5, <1>16, <2>1 DEF SaveReply, AnswerMessage
<1>17. ASSUME NEW t \in ApplyTab,
              \/ ContextAnswered(t) \/ GreetingAnswered(t) \/ ReplyAnswered(t)
              \/ ResumeAnswered(t) \/ VideoAnswered(t)
       PROVE  \E s \in Slot, q \in ApplyCall : CallWritten(t, s, q)
  BY <1>4, <1>17 DEF ContextAnswered, GreetingAnswered, ReplyAnswered, ResumeAnswered, VideoAnswered
<1>18. CASE UNCHANGED acall
  BY <1>18
<1> QED
  BY <1>6, <1>7, <1>8, <1>9, <1>10, <1>11, <1>12, <1>13, <1>14, <1>15, <1>16, <1>17, <1>18
  DEF ApplyNext, CompleteByLink, DeclineConsent, SkipVideo

\* What a step does to the row of the application: a stored resume stays stored, and
\* the conversation completes it only with one.
LEMMA ApplSteps ==
    ASSUME ApplyInv, ApplyNext
    PROVE  /\ appl' \in Appl
           /\ appl.resume => appl'.resume
           /\ appl'.byChat => appl'.resume
<1>1. /\ appl \in Appl /\ (appl.byChat => appl.resume)
      /\ \A t \in ApplyTab, s \in Slot : Sound(acall[t][s], appl.resume)
  BY ApplyParts DEF ApplyInv
<1>2. CASE UNCHANGED appl
  BY <1>1, <1>2
<1>3. ASSUME NEW t \in ApplyTab, ServeConsent(t) \/ StoreResume(t)
      PROVE  appl' \in Appl /\ (appl.resume => appl'.resume) /\ (appl'.byChat => appl'.resume)
  BY <1>1, <1>3 DEF ServeConsent, StoreResume, Appl
<1>4. ASSUME NEW t \in ApplyTab, NEW s \in Slot, NEW completes \in BOOLEAN, AnswerMessage(t, s, completes)
      PROVE  appl' \in Appl /\ (appl.resume => appl'.resume) /\ (appl'.byChat => appl'.resume)
  <2>1. acall[t][s].step = "completion" => appl.resume
    BY <1>1 DEF Sound, PastUpload
  <2>2. CASE acall[t][s].step = "completion" /\ completes
    <3>1. appl' = [appl EXCEPT !.applied = TRUE, !.byChat = TRUE]
      BY <1>4, <2>2 DEF AnswerMessage
    <3> QED
      BY <1>1, <2>1, <2>2, <3>1 DEF Appl
  <2>3. CASE ~(acall[t][s].step = "completion" /\ completes)
    BY <1>1, <1>4, <2>3 DEF AnswerMessage
  <2> QED
    BY <2>2, <2>3
<1>5. CASE CompleteByLink
  BY <1>1, <1>5 DEF CompleteByLink, Appl
<1> QED
  BY <1>2, <1>3, <1>4, <1>5
  DEF ApplyNext, OpenApply, AgreeToConsent, DeclineConsent, SendReply, UploadResume, UploadVideo, SkipVideo,
      ServeContext, ReadSession, SaveReply, CallFails, AdvanceResume, AnswerResume, ServeVideo,
      ContextAnswered, ConsentAnswered, GreetingAnswered, ReplyAnswered, ResumeAnswered, VideoAnswered

\* The session is behind the upload only with the resume stored.
LEMMA ChatRowSteps ==
    ASSUME ApplyInv, ApplyNext
    PROVE  /\ chatRow' \in ChatRow
           /\ chatRow'.step \in PastUpload => appl.resume
<1>1. /\ chatRow \in ChatRow /\ (chatRow.step \in PastUpload => appl.resume)
      /\ \A t \in ApplyTab, s \in Slot : acall[t][s] \in ApplyCall /\ Sound(acall[t][s], appl.resume)
  BY ApplyParts DEF ApplyInv
<1>2. CASE UNCHANGED chatRow
  BY <1>1, <1>2
<1>3. ASSUME NEW t \in ApplyTab, NEW s \in Slot, ReadSession(t, s)
      PROVE  chatRow' \in ChatRow /\ (chatRow'.step \in PastUpload => appl.resume)
  <2>1. acall[t][s].no \in BOOLEAN
    BY <1>1 DEF ApplyCall
  <2>2. chatRow.step = "none" => StepAfter(acall[t][s].no) = "interest"
    BY <1>1, <2>1, StepAfterUpload
  <2>3. chatRow' = IF chatRow.step = "none"
                   THEN [chatRow EXCEPT !.made = TRUE, !.step = "interest", !.said = TRUE] ELSE chatRow
    BY <1>3, <2>2 DEF ReadSession
  <2>4. "interest" \in ChatStep
    BY DEF ChatStep
  <2> QED
    BY <1>1, <2>3, <2>4 DEF ChatRow, PastUpload
<1>4. ASSUME NEW t \in ApplyTab, NEW s \in Slot, SaveReply(t, s)
      PROVE  chatRow' \in ChatRow /\ (chatRow'.step \in PastUpload => appl.resume)
  <2> DEFINE q == acall[t][s]
  <2>1. q \in ApplyCall /\ q.n <= Questions /\ (q.step \in PastUpload => appl.resume) /\ Questions \in Nat
    BY <1>1, <1>4, ApplyAssumption DEF SaveReply, AtCall, Sound, ApplyAssumption
  <2>2. q.step \in ChatStep /\ q.n \in 0..Questions
    BY <2>1 DEF ApplyCall
  <2>3. chatRow' = chatRow \/ chatRow' = [chatRow EXCEPT !.step = q.step, !.n = q.n, !.said = TRUE]
    BY <1>4 DEF SaveReply, Persists
  <2> HIDE DEF q
  <2> QED
    BY <1>1, <2>1, <2>2, <2>3 DEF ChatRow
<1>5. ASSUME NEW t \in ApplyTab, AdvanceResume(t)
      PROVE  chatRow' \in ChatRow /\ (chatRow'.step \in PastUpload => appl.resume)
  BY <1>1, <1>5 DEF AdvanceResume, ChatRow
<1> QED
  BY <1>2, <1>3, <1>4, <1>5
  DEF ApplyNext, OpenApply, AgreeToConsent, DeclineConsent, SendReply, UploadResume, UploadVideo, SkipVideo,
      ServeContext, ServeConsent, CallFails, AnswerMessage, CompleteByLink, StoreResume, AnswerResume, ServeVideo,
      ContextAnswered, ConsentAnswered, GreetingAnswered, ReplyAnswered, ResumeAnswered, VideoAnswered

\* What a step does to the pages' types.
LEMMA ApplyPageSteps ==
    ASSUME ApplyInv, ApplyNext
    PROVE  apage' \in [ApplyTab -> ApplyPage]
<1>1. apage \in [ApplyTab -> ApplyPage] /\ acall \in [ApplyTab -> [Slot -> ApplyCall]]
  BY ApplyParts DEF ApplyInv
<1>2. CASE UNCHANGED apage
  BY <1>1, <1>2
<1>3. ASSUME NEW t \in ApplyTab,
             \/ OpenApply(t) \/ DeclineConsent(t) \/ UploadVideo(t) \/ SkipVideo(t) \/ ConsentAnswered(t)
      PROVE  apage' \in [ApplyTab -> ApplyPage]
  <2>1. apage[t] \in ApplyPage /\ "greeting" \in ChatStep
    BY <1>1 DEF ChatStep
  <2>2. \E p \in ApplyPage : apage' = [apage EXCEPT ![t] = p]
    <3>1. [state |-> "loading", step |-> "greeting", resume |-> TRUE, video |-> TRUE] \in ApplyPage
      BY <2>1 DEF ApplyPage
    <3>2. /\ [apage[t] EXCEPT !.state = "declined"] \in ApplyPage
          /\ [apage[t] EXCEPT !.state = "valid"] \in ApplyPage
          /\ [apage[t] EXCEPT !.video = FALSE] \in ApplyPage
      BY <2>1 DEF ApplyPage
    <3> QED
      BY <1>1, <1>3, <3>1, <3>2 DEF OpenApply, DeclineConsent, UploadVideo, SkipVideo, ConsentAnswered
  <2> QED
    BY <1>1, <2>2
<1>4. ASSUME NEW t \in ApplyTab,
             \/ ContextAnswered(t) \/ GreetingAnswered(t) \/ ReplyAnswered(t) \/ ResumeAnswered(t)
             \/ VideoAnswered(t)
      PROVE  apage' \in [ApplyTab -> ApplyPage]
  <2>1. /\ apage[t] \in ApplyPage /\ acall[t]["open"].step \in ChatStep
        /\ acall[t]["chat"].step \in ChatStep /\ acall[t]["file"].step \in ChatStep
    BY <1>1 DEF Slot, ApplyCall
  <2>2. \A step \in ChatStep :
          /\ [apage[t] EXCEPT !.step = step] \in ApplyPage
          /\ [apage[t] EXCEPT !.step = step, !.state = "completed"] \in ApplyPage
          /\ [apage[t] EXCEPT !.state = "valid", !.step = step] \in ApplyPage
          /\ [apage[t] EXCEPT !.resume = FALSE, !.step = step] \in ApplyPage
    BY <2>1 DEF ApplyPage
  <2>3. /\ [apage[t] EXCEPT !.state = "expired"] \in ApplyPage
        /\ [apage[t] EXCEPT !.state = "completed"] \in ApplyPage
        /\ [apage[t] EXCEPT !.state = "consent"] \in ApplyPage
        /\ apage[t].step \in ChatStep
    BY <2>1 DEF ApplyPage
  <2>4. \E p \in ApplyPage : apage' = [apage EXCEPT ![t] = p]
    <3>1. CASE ContextAnswered(t)
      <4> DEFINE a == acall[t]["open"]
                 p == CASE a.at = "failed"                     -> [apage[t] EXCEPT !.state = "expired"]
                        [] a.at # "failed" /\ a.no             -> [apage[t] EXCEPT !.state = "completed"]
                        [] a.at # "failed" /\ ~a.no /\ a.n > 0 ->
                             [apage[t] EXCEPT !.state = "valid", !.step = a.step]
                        [] OTHER                               -> [apage[t] EXCEPT !.state = "consent"]
      <4>1. apage' = [apage EXCEPT ![t] = p]
        BY <1>1, <3>1 DEF ContextAnswered
      <4>2. p \in ApplyPage
        BY <2>1, <2>2, <2>3
      <4> QED
        BY <4>1, <4>2
    <3>2. CASE GreetingAnswered(t)
      <4>1. apage' = [apage EXCEPT ![t] = [apage[t] EXCEPT !.step =
                        IF acall[t]["open"].at = "answered" THEN acall[t]["open"].step ELSE apage[t].step]]
        BY <1>1, <3>2 DEF GreetingAnswered
      <4> QED
        BY <2>1, <2>2, <2>3, <4>1
    <3>3. CASE ReplyAnswered(t)
      <4> DEFINE a == acall[t]["chat"]
      <4>1. \/ apage' = [apage EXCEPT ![t] = apage[t]]
            \/ apage' = [apage EXCEPT ![t] = [apage[t] EXCEPT !.step = a.step, !.state = "completed"]]
            \/ apage' = [apage EXCEPT ![t] = [apage[t] EXCEPT !.step = a.step]]
        BY <1>1, <3>3 DEF ReplyAnswered
      <4> QED
        BY <2>1, <2>2, <4>1
    <3>4. CASE ResumeAnswered(t)
      <4> DEFINE a == acall[t]["file"]
      <4>1. \/ apage' = [apage EXCEPT ![t] = apage[t]]
            \/ apage' = [apage EXCEPT ![t] = [apage[t] EXCEPT !.resume = FALSE, !.step = a.step]]
        BY <1>1, <3>4 DEF ResumeAnswered
      <4> QED
        BY <2>1, <2>2, <4>1
    <3>5. CASE VideoAnswered(t)
      <4> DEFINE a == acall[t]["file"]
      <4>1. \/ apage' = [apage EXCEPT ![t] = apage[t]]
            \/ apage' = [apage EXCEPT ![t] = [apage[t] EXCEPT !.step = a.step]]
        BY <1>1, <3>5 DEF VideoAnswered
      <4> QED
        BY <2>1, <2>2, <4>1
    <3> QED
      BY <1>4, <3>1, <3>2, <3>3, <3>4, <3>5
  <2> QED
    BY <1>1, <2>4
<1> QED
  BY <1>2, <1>3, <1>4
  DEF ApplyNext, AgreeToConsent, SendReply, UploadResume, ServeContext, ServeConsent, ReadSession, SaveReply,
      CallFails, AnswerMessage, CompleteByLink, StoreResume, AdvanceResume, AnswerResume, ServeVideo

\* A page's step is the one it had, the greeting, or that of an answered call.
LEMMA PageBehind ==
    ASSUME ApplyInv, ApplyNext, NEW u \in ApplyTab, apage'[u].step \in PastUpload
    PROVE  appl.resume
<1>1. /\ apage \in [ApplyTab -> ApplyPage]
      /\ \A t \in ApplyTab : apage[t].step \in PastUpload => appl.resume
      /\ \A t \in ApplyTab, s \in Slot : acall[t][s].step \in PastUpload => appl.resume
  BY ApplyParts DEF ApplyInv, Sound
<1>2. CASE apage'[u].step = apage[u].step
  BY <1>1, <1>2
<1>3. CASE apage'[u].step = "greeting"
  BY <1>3 DEF PastUpload
<1>4. CASE \E s \in Slot : apage'[u].step = acall[u][s].step
  BY <1>1, <1>4
<1>5. ASSUME NEW t \in ApplyTab, NEW p, apage' = [apage EXCEPT ![t] = p],
             \/ p.step = apage[t].step \/ p.step = "greeting"
             \/ \E s \in Slot : p.step = acall[t][s].step
      PROVE  appl.resume
  BY <1>1, <1>2, <1>3, <1>4, <1>5
<1>6. ASSUME NEW t \in ApplyTab,
             \/ OpenApply(t) \/ DeclineConsent(t) \/ UploadVideo(t) \/ SkipVideo(t) \/ ConsentAnswered(t)
      PROVE  appl.resume
  <2>1. apage[t] \in ApplyPage
    BY <1>1
  <2>2. \/ apage' = [apage EXCEPT ![t] =
              [state |-> "loading", step |-> "greeting", resume |-> TRUE, video |-> TRUE]]
        \/ apage' = [apage EXCEPT ![t] = [apage[t] EXCEPT !.state = "declined"]]
        \/ apage' = [apage EXCEPT ![t] = [apage[t] EXCEPT !.video = FALSE]]
        \/ apage' = [apage EXCEPT ![t] = [apage[t] EXCEPT !.state = "valid"]]
    BY <1>1, <1>6 DEF OpenApply, DeclineConsent, UploadVideo, SkipVideo, ConsentAnswered
  <2>3. /\ [apage[t] EXCEPT !.state = "declined"].step = apage[t].step
        /\ [apage[t] EXCEPT !.video = FALSE].step = apage[t].step
        /\ [apage[t] EXCEPT !.state = "valid"].step = apage[t].step
    BY <2>1 DEF ApplyPage
  <2> QED
    BY <1>5, <2>2, <2>3
<1>7. ASSUME NEW t \in ApplyTab,
             \/ ContextAnswered(t) \/ GreetingAnswered(t) \/ ReplyAnswered(t) \/ ResumeAnswered(t)
             \/ VideoAnswered(t)
      PROVE  appl.resume
  <2>1. apage[t] \in ApplyPage
    BY <1>1
  <2>2. \E p : /\ apage' = [apage EXCEPT ![t] = p]
               /\ p.step = apage[t].step \/ \E s \in Slot : p.step = acall[t][s].step
    <3> DEFINE old == apage[t]
               Stepped(s)   == [old EXCEPT !.step = acall[t][s].step]
               Completed(s) == [old EXCEPT !.step = acall[t][s].step, !.state = "completed"]
               Valid(s)     == [old EXCEPT !.state = "valid", !.step = acall[t][s].step]
               Uploaded(s)  == [old EXCEPT !.resume = FALSE, !.step = acall[t][s].step]
               Shown(state) == [old EXCEPT !.state = state]
    <3>1. \A s \in Slot :
             /\ Stepped(s).step = acall[t][s].step /\ Completed(s).step = acall[t][s].step
             /\ Valid(s).step = acall[t][s].step /\ Uploaded(s).step = acall[t][s].step
      BY <2>1 DEF ApplyPage
    <3>2. /\ \A state \in {"expired", "completed", "consent"} : Shown(state).step = old.step
          /\ [old EXCEPT !.step = old.step] = old
      BY <2>1 DEF ApplyPage
    <3>3. "open" \in Slot /\ "chat" \in Slot /\ "file" \in Slot
      BY DEF Slot
    <3>4. CASE ContextAnswered(t)
      <4> DEFINE a == acall[t]["open"]
      <4>1. apage' = [apage EXCEPT ![t] =
                CASE a.at = "failed"                     -> Shown("expired")
                  [] a.at # "failed" /\ a.no             -> Shown("completed")
                  [] a.at # "failed" /\ ~a.no /\ a.n > 0 -> Valid("open")
                  [] OTHER                               -> Shown("consent")]
        BY <1>1, <3>4 DEF ContextAnswered
      <4>2. \/ apage' = [apage EXCEPT ![t] = Shown("expired")]
            \/ apage' = [apage EXCEPT ![t] = Shown("completed")]
            \/ apage' = [apage EXCEPT ![t] = Valid("open")]
            \/ apage' = [apage EXCEPT ![t] = Shown("consent")]
        <5> HIDE DEF Shown, Valid
        <5>1. CASE a.at = "failed"
          BY <4>1, <5>1
        <5>2. CASE a.at # "failed" /\ a.no
          BY <4>1, <5>2
        <5>3. CASE a.at # "failed" /\ ~a.no /\ a.n > 0
          BY <4>1, <5>3
        <5>4. CASE ~(a.at = "failed" \/ a.no \/ a.n > 0)
          BY <4>1, <5>4
        <5> QED
          BY <5>1, <5>2, <5>3, <5>4
      <4> HIDE DEF Shown, Valid
      <4> QED
        BY <3>1, <3>2, <3>3, <4>2
    <3>5. CASE GreetingAnswered(t)
      <4>1. apage' = [apage EXCEPT ![t] = Stepped("open")] \/ apage' = [apage EXCEPT ![t] = old]
        BY <1>1, <3>2, <3>5 DEF GreetingAnswered
      <4> HIDE DEF Stepped
      <4> QED
        BY <3>1, <3>3, <4>1
    <3>6. CASE ReplyAnswered(t) \/ ResumeAnswered(t) \/ VideoAnswered(t)
      <4>1. \/ apage' = [apage EXCEPT ![t] = old]
            \/ apage' = [apage EXCEPT ![t] = Completed("chat")]
            \/ apage' = [apage EXCEPT ![t] = Stepped("chat")]
            \/ apage' = [apage EXCEPT ![t] = Uploaded("file")]
            \/ apage' = [apage EXCEPT ![t] = Stepped("file")]
        BY <1>1, <3>6 DEF ReplyAnswered, ResumeAnswered, VideoAnswered
      <4> HIDE DEF Stepped, Completed, Uploaded
      <4> QED
        BY <3>1, <3>3, <4>1
    <3> QED
      BY <1>7, <3>4, <3>5, <3>6
  <2> QED
    BY <1>5, <2>2
<1>8. CASE UNCHANGED apage
  BY <1>2, <1>8
<1> QED
  BY <1>6, <1>7, <1>8
  DEF ApplyNext, AgreeToConsent, SendReply, UploadResume, ServeContext, ServeConsent, ReadSession, SaveReply,
      CallFails, AnswerMessage, CompleteByLink, StoreResume, AdvanceResume, AnswerResume, ServeVideo

\* The invariant from what a step does to each of its parts.
LEMMA ApplyInvStep == ApplyInv /\ [ApplyNext]_applyVars => ApplyInv'
<1>1. ASSUME ApplyInv, UNCHANGED applyVars PROVE ApplyInv'
  BY <1>1 DEF ApplyInv, ApplyTypeOK, applyVars
<1>2. ASSUME ApplyInv, ApplyNext PROVE ApplyInv'
  <2>1. appl' \in Appl /\ (appl.resume => appl'.resume) /\ (appl'.byChat => appl'.resume)
    BY <1>2, ApplSteps
  <2>2. chatRow' \in ChatRow /\ (chatRow'.step \in PastUpload => appl'.resume)
    BY <1>2, <2>1, ChatRowSteps
  <2>3. /\ acall \in [ApplyTab -> [Slot -> ApplyCall]]
        /\ \A t \in ApplyTab, s \in Slot : Sound(acall[t][s], appl.resume)
    BY <1>2, ApplyParts DEF ApplyInv
  <2>4. \A t \in ApplyTab, s \in Slot : Sound(acall[t][s], appl'.resume)
    BY <2>1, <2>3 DEF Sound
  <2>5. /\ acall' \in [ApplyTab -> [Slot -> ApplyCall]]
        /\ \A t \in ApplyTab, s \in Slot : Sound(acall'[t][s], appl'.resume)
    <3>1. CASE UNCHANGED acall
      BY <2>3, <2>4, <3>1
    <3>2. ASSUME NEW u \in ApplyTab, NEW r \in Slot, NEW q \in ApplyCall, CallWritten(u, r, q)
          PROVE  /\ acall' \in [ApplyTab -> [Slot -> ApplyCall]]
                 /\ \A t \in ApplyTab, s \in Slot : Sound(acall'[t][s], appl'.resume)
      <4>1. acall' = [acall EXCEPT ![u][r] = q] /\ Sound(q, appl'.resume)
        BY <3>2 DEF CallWritten
      <4>2. \A t \in ApplyTab, s \in Slot : acall'[t][s] = IF t = u /\ s = r THEN q ELSE acall[t][s]
        BY <2>3, <4>1
      <4> QED
        BY <2>3, <2>4, <4>1, <4>2
    <3> QED
      BY <1>2, <3>1, <3>2, CallSteps
  <2>6. /\ apage' \in [ApplyTab -> ApplyPage]
        /\ \A t \in ApplyTab : apage'[t].step \in PastUpload => appl'.resume
    BY <1>2, <2>1, ApplyPageSteps, PageBehind
  <2>7. ApplyTypeOK'
    BY <2>1, <2>2, <2>5, <2>6 DEF ApplyTypeOK, ApplyPage, ApplyCall, ChatRow, Appl
  <2> QED
    BY <2>1, <2>2, <2>5, <2>6, <2>7 DEF ApplyInv
<1> QED
  BY <1>1, <1>2

\* However many tabs a candidate chats in and however their calls overlap, fail or
\* are answered late: the session or a page is at a step behind the upload, and the
\* conversation has completed the application, only with a resume stored.
THEOREM ResumeBehind == ApplySpec => []ResumeBehindChat
<1>1. ApplyInv => ResumeBehindChat
  BY DEF ApplyInv, ResumeBehindChat
<1> QED
  BY ApplyStarts, ApplyInvStep, <1>1, PTL DEF ApplySpec

\* The application's row, its session, the pages and their calls keep their types.
THEOREM ApplyTypes == ApplySpec => []ApplyTypeOK
<1>1. ApplyInv => ApplyTypeOK
  BY DEF ApplyInv
<1> QED
  BY ApplyStarts, ApplyInvStep, <1>1, PTL DEF ApplySpec

-----------------------------------------------------------------------------
(**************************************************************************)
(* The career page.                                                        *)
(**************************************************************************)

CareerView  == [open : BOOLEAN, route : Route, org : BOOLEAN, loading : BOOLEAN, error : BOOLEAN,
                fit : Fit, active : Route, loadingPos : BOOLEAN, modal : BOOLEAN]
CareerStart == [at : {"idle", "sent", "insert", "found", "ok", "failed"}, to : Route]

LEMMA CareerDefaults == Closed \in CareerView /\ NoStart \in CareerStart /\ NoOpening \in Route
BY CareersAssumption DEF CareersAssumption, Closed, CareerView, NoStart, CareerStart, Route

\* The reads a page may send.
LEMMA ReadsTyped ==
    /\ OrgRead \in Read
    /\ \A f \in Fit, b \in BOOLEAN : FitRead(f, b) \in Read
    /\ \A p \in Route : RouteReads(p) \subseteq Read
    /\ \A r \in Read : /\ r.kind = "fit" => r.initial \in BOOLEAN
                       /\ r.kind = "position" => r.to \in Route
<1>1. OrgRead \in Read
  BY DEF OrgRead, Read
<1>2. \A f \in Fit, b \in BOOLEAN : FitRead(f, b) \in Read
  BY DEF FitRead, Read
<1>3. \A p \in Opening : PositionRead(p) \in Read
  BY DEF PositionRead, Read
<1>4. \A p \in Route : RouteReads(p) \subseteq Read
  BY <1>3 DEF RouteReads, Route
<1>5. \A r \in Read : /\ r.kind = "fit" => r.initial \in BOOLEAN
                      /\ r.kind = "position" => r.to \in Route
  BY DEF Read, Route
<1> QED
  BY <1>1, <1>2, <1>4, <1>5

LEMMA CareersTypeInit == CareersInit => CareersTypeOK
BY CareerDefaults DEF CareersInit, CareersTypeOK, CareerView, CareerStart

LEMMA CareersTypeNext == CareersTypeOK /\ [CareersNext]_careersVars => CareersTypeOK'
<1> SUFFICES ASSUME CareersTypeOK, [CareersNext]_careersVars PROVE CareersTypeOK'
  OBVIOUS
<1>a. /\ rows \in [Opening -> 0..2] /\ career \in [CareerTab -> CareerView]
      /\ reads \in [CareerTab -> SUBSET Read] /\ start \in [CareerTab -> CareerStart]
  BY DEF CareersTypeOK, CareerView, CareerStart
<1>b. /\ rows' \in [Opening -> 0..2] /\ career' \in [CareerTab -> CareerView]
      /\ reads' \in [CareerTab -> SUBSET Read] /\ start' \in [CareerTab -> CareerStart]
      => CareersTypeOK'
  BY DEF CareersTypeOK, CareerView, CareerStart
<1> HIDE DEF CareersTypeOK
<1>c. ASSUME NEW t \in CareerTab
      PROVE  career[t] \in CareerView /\ start[t] \in CareerStart /\ reads[t] \subseteq Read
  BY <1>a
<1>1. ASSUME NEW t \in CareerTab, NEW p \in Route, OpenCareer(t, p) PROVE CareersTypeOK'
  <2> DEFINE c == [Closed EXCEPT !.open = TRUE, !.route = p, !.loadingPos = p # NoOpening]
  <2>1. c \in CareerView
    BY CareerDefaults DEF CareerView
  <2>2. career' = [career EXCEPT ![t] = c] /\ rows' = rows /\ start' = start
        /\ reads' = [reads EXCEPT ![t] = reads[t] \cup ({OrgRead} \cup RouteReads(p))]
    BY <1>1 DEF OpenCareer, Reads
  <2> QED
    BY <1>a, <1>b, <2>1, <2>2, ReadsTyped
<1>2. ASSUME NEW t \in CareerTab, NEW p \in Route, GoToRoute(t, p) PROVE CareersTypeOK'
  <2> DEFINE c == [career[t] EXCEPT !.route = p, !.active = IF p = NoOpening THEN NoOpening ELSE career[t].active,
                                    !.loadingPos = career[t].loadingPos \/ p # NoOpening]
  <2>1. c \in CareerView
    BY <1>c, CareerDefaults DEF CareerView
  <2>2. career' = [career EXCEPT ![t] = c] /\ rows' = rows /\ start' = start
        /\ reads' = [reads EXCEPT ![t] = reads[t] \cup RouteReads(p)]
    BY <1>a, <1>2 DEF GoToRoute, Reads, CareerView
  <2> QED
    BY <1>a, <1>b, <2>1, <2>2, ReadsTyped
<1>3. ASSUME NEW t \in CareerTab, NEW f \in Fit, SetFitFilters(t, f) PROVE CareersTypeOK'
  <2>1. [career[t] EXCEPT !.fit = f] \in CareerView
    BY <1>c DEF CareerView
  <2>2. career' = [career EXCEPT ![t] = [career[t] EXCEPT !.fit = f]] /\ rows' = rows /\ start' = start
        /\ reads' = [reads EXCEPT ![t] = reads[t] \cup {FitRead(f, FALSE)}]
    BY <1>a, <1>3 DEF SetFitFilters, Reads
  <2> QED
    BY <1>a, <1>b, <2>1, <2>2, ReadsTyped
<1>4. ASSUME NEW t \in CareerTab, CloseCareer(t) PROVE CareersTypeOK'
  BY <1>a, <1>b, <1>4, CareerDefaults DEF CloseCareer
<1>5. ASSUME NEW t \in CareerTab, NEW ok \in BOOLEAN, OrgAnswered(t, ok) PROVE CareersTypeOK'
  <2>1. [career[t] EXCEPT !.org = TRUE] \in CareerView
        /\ [career[t] EXCEPT !.error = TRUE, !.loading = FALSE] \in CareerView /\ career[t].fit \in Fit
    BY <1>c DEF CareerView
  <2>2. /\ career' \in {[career EXCEPT ![t] = [career[t] EXCEPT !.org = TRUE]],
                        [career EXCEPT ![t] = [career[t] EXCEPT !.error = TRUE, !.loading = FALSE]]}
        /\ reads' \in {[reads EXCEPT ![t] = (reads[t] \ {OrgRead}) \cup {FitRead(career[t].fit, TRUE)}],
                       [reads EXCEPT ![t] = (reads[t] \ {OrgRead}) \cup {}]}
        /\ rows' = rows /\ start' = start
    BY <1>5 DEF OrgAnswered
  <2>3. career' \in [CareerTab -> CareerView]
    BY <1>a, <2>1, <2>2
  <2>4. reads' \in [CareerTab -> SUBSET Read]
    <3>1. FitRead(career[t].fit, TRUE) \in Read
      BY <2>1, ReadsTyped
    <3>2. (reads[t] \ {OrgRead}) \cup {FitRead(career[t].fit, TRUE)} \in SUBSET Read
          /\ (reads[t] \ {OrgRead}) \cup {} \in SUBSET Read
      BY <1>c, <3>1
    <3> QED
      BY <1>a, <2>2, <3>2
  <2> QED
    BY <1>a, <1>b, <2>2, <2>3, <2>4
<1>6. ASSUME NEW t \in CareerTab, NEW r \in reads[t], FitAnswered(t, r) PROVE CareersTypeOK'
  <2> DEFINE c == [career[t] EXCEPT !.loading = career[t].loading /\ ~r.initial]
  <2>1. c \in CareerView
    BY <1>c DEF CareerView
  <2>2. career' = [career EXCEPT ![t] = c] /\ rows' = rows /\ start' = start
        /\ reads' = [reads EXCEPT ![t] = reads[t] \ {r}]
    BY <1>a, <1>6 DEF FitAnswered, CareerView
  <2> QED
    BY <1>a, <1>b, <2>1, <2>2
<1>7. ASSUME NEW t \in CareerTab, NEW r \in reads[t], NEW ok \in BOOLEAN, PositionAnswered(t, r, ok)
      PROVE  CareersTypeOK'
  <2>1. r.to \in Route
    BY <1>c, <1>7, ReadsTyped DEF PositionAnswered
  <2>2. [career[t] EXCEPT !.active = r.to, !.org = TRUE, !.loadingPos = FALSE] \in CareerView
        /\ [career[t] EXCEPT !.loadingPos = FALSE] \in CareerView
    BY <1>c, <2>1 DEF CareerView
  <2>3. /\ career' \in {[career EXCEPT ![t] = [career[t] EXCEPT !.active = r.to, !.org = TRUE, !.loadingPos = FALSE]],
                        [career EXCEPT ![t] = [career[t] EXCEPT !.loadingPos = FALSE]]}
        /\ reads' = [reads EXCEPT ![t] = reads[t] \ {r}] /\ rows' = rows /\ start' = start
    BY <1>7 DEF PositionAnswered
  <2> QED
    BY <1>a, <1>b, <2>2, <2>3
<1>8. ASSUME NEW t \in CareerTab, HandleApplyClick(t) \/ CloseApplyModal(t) PROVE CareersTypeOK'
  <2>1. PICK m \in BOOLEAN : career' = [career EXCEPT ![t] = [career[t] EXCEPT !.modal = m]]
                             /\ UNCHANGED <<rows, reads, start>>
    BY <1>a, <1>8 DEF HandleApplyClick, CloseApplyModal
  <2>2. [career[t] EXCEPT !.modal = m] \in CareerView
    BY <1>c DEF CareerView
  <2> QED
    BY <1>a, <1>b, <2>1, <2>2
<1>9. ASSUME NEW t \in CareerTab, SubmitApplication(t) PROVE CareersTypeOK'
  <2> DEFINE s == [at |-> IF career[t].route = NoOpening THEN "failed" ELSE "sent", to |-> career[t].route]
  <2>1. s \in CareerStart
    BY <1>c DEF CareerStart, CareerView
  <2> QED
    BY <1>a, <1>b, <1>9, <2>1 DEF SubmitApplication
<1>10. ASSUME NEW t \in CareerTab, FindApplication(t) \/ \E ok \in BOOLEAN : AnswerStart(t, ok)
       PROVE  CareersTypeOK'
  <2>1. PICK a \in {"found", "insert", "ok", "failed"} :
            start' = [start EXCEPT ![t] = [start[t] EXCEPT !.at = a]] /\ UNCHANGED <<rows, career, reads>>
    BY <1>a, <1>10 DEF FindApplication, AnswerStart
  <2>2. [start[t] EXCEPT !.at = a] \in CareerStart
    BY <1>c DEF CareerStart
  <2> QED
    BY <1>a, <1>b, <2>1, <2>2
<1>11. ASSUME NEW t \in CareerTab, InsertApplication(t) PROVE CareersTypeOK'
  <2>1. start' = [start EXCEPT ![t] = [start[t] EXCEPT !.at = "found"]] /\ UNCHANGED <<career, reads>>
        /\ rows' = [rows EXCEPT ![start[t].to] = 1]
    BY <1>a, <1>11 DEF InsertApplication, RowsAfterInsert
  <2>2. [start[t] EXCEPT !.at = "found"] \in CareerStart
    BY <1>c DEF CareerStart
  <2>3. rows' \in [Opening -> 0..2]
    <3>1. 1 \in 0..2
      OBVIOUS
    <3> QED
      BY <1>a, <2>1, <3>1
  <2> QED
    BY <1>a, <1>b, <2>1, <2>2, <2>3
<1>12. ASSUME NEW t \in CareerTab, StartAnswered(t) PROVE CareersTypeOK'
  <2>1. /\ career' \in {[career EXCEPT ![t] = Closed], [career EXCEPT ![t] = career[t]]}
        /\ reads' \in {[reads EXCEPT ![t] = {}], [reads EXCEPT ![t] = reads[t]]}
        /\ start' = [start EXCEPT ![t] = NoStart] /\ rows' = rows
    BY <1>12 DEF StartAnswered
  <2>2. career' \in [CareerTab -> CareerView]
    BY <1>a, <2>1, CareerDefaults
  <2>3. reads' \in [CareerTab -> SUBSET Read]
    BY <1>a, <2>1
  <2> QED
    BY <1>a, <1>b, <2>1, <2>2, <2>3, CareerDefaults
<1>13. CASE UNCHANGED careersVars
  BY <1>a, <1>b, <1>13 DEF careersVars
<1> QED
  BY <1>1, <1>2, <1>3, <1>4, <1>5, <1>6, <1>7, <1>8, <1>9, <1>10, <1>11, <1>12, <1>13 DEF CareersNext

\* The page of open roles keeps its types: an answer that comes late is still about an
\* open position (CareerPage.jsx), and no overlap of apply calls makes a second row.
THEOREM CareersTypes == CareersSpec => []CareersTypeOK
BY CareersTypeInit, CareersTypeNext, PTL DEF CareersSpec
=============================================================================
