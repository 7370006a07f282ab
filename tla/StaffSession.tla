---------------------------- MODULE StaffSession ----------------------------
(***************************************************************************)
(* Who is signed in, in one browser tab of the staff application: the     *)
(* provider that keeps the session (frontend/src/context/AuthContext),    *)
(* the route guards (router.jsx), the pages that sign in, register and    *)
(* reset passwords (components/Auth), and the profile whose save reads    *)
(* the user again (components/Settings/tabs/ProfileTab).                  *)
(*                                                                         *)
(* A person's sessions are not told apart; the server may reject a token  *)
(* at any time, because it expired or was revoked.                        *)
(***************************************************************************)
EXTENDS Naturals, FiniteSets

CONSTANTS
    Person,      \* the accounts used in this tab
    PersonRole,  \* [Person -> role]
    MaxCalls,    \* bound: calls on their way at the same time
    NoPerson

ASSUME SessionAssumption ==
    /\ NoPerson \notin Person /\ MaxCalls \in Nat
    /\ PersonRole \in [Person -> {"team_lead", "dept_admin", "org_head", "hr", "platform_admin"}]

VARIABLES
    auth,    \* AuthProvider's state: user, token, loading
    stored,  \* sessionStorage 'atl_session': its user and token
    place,   \* the route the guards let through
    acct,    \* [AcctCall -> the call of that kind on its way]
    form,    \* the page's form, and the magic-link block of the sign-in page
    mail     \* [Person -> links in the mailbox: sign-in and password]

sessionVars == <<auth, stored, place, acct, form, mail>>

PublicPlace == {"login", "register", "forgot", "reset", "setpw"}
AppPlace == {"dashboard", "profile", "chat", "analytics", "talent"}
Place == PublicPlace \cup AppPlace \cup {"verify", "platform", "dev", "front"}
AcctCall == {"boot", "refresh", "login", "register", "verify", "magic", "forgot", "reset"}
SigningCall == {"login", "register", "verify"}
Who == Person \cup {NoPerson}
Blob == [user : Who, token : Who]
AcctIdle == [at |-> "idle", who |-> NoPerson]

SessionTypeOK ==
    /\ auth \in [user : Who, token : Who, loading : BOOLEAN]
    /\ stored \in Blob
    /\ place \in Place
    /\ acct \in [AcctCall -> [at : {"idle", "sent", "ok", "denied", "failed", "timer"}, who : Who]]
    /\ form \in [page : {"idle", "busy", "sent", "success", "error"},
                 magic : {"idle", "expanded", "busy", "sent"}]
    /\ mail \in [Person -> [signin : BOOLEAN, password : BOOLEAN]]

NoForm == [page |-> "idle", magic |-> "idle"]
NoBlob == [user |-> NoPerson, token |-> NoPerson]

SessionInit ==
    /\ auth = [user |-> NoPerson, token |-> NoPerson, loading |-> FALSE]
    /\ stored = NoBlob
    /\ place = "front"
    /\ acct = [k \in AcctCall |-> AcctIdle]
    /\ form = NoForm
    /\ mail = [p \in Person |-> [signin |-> FALSE, password |-> FALSE]]

-----------------------------------------------------------------------------
\* The guards.  While the provider loads they show nothing and decide nothing.

SignedIn(a) == a.token # NoPerson /\ a.user # NoPerson
RoleIn(a) == IF a.user = NoPerson THEN "none" ELSE PersonRole[a.user]
LandingOf(a) == IF RoleIn(a) = "platform_admin" THEN "platform" ELSE "dashboard"

AllowedRoles(p) ==
    CASE p = "chat"      -> {"hr", "org_head", "dept_admin"}
      [] p = "analytics" -> {"org_head", "dept_admin"}
      [] p = "talent"    -> {"org_head", "dept_admin", "hr"}
      [] OTHER -> {"team_lead", "dept_admin", "org_head", "hr"}

PublicGuard(p, a) == IF SignedIn(a) THEN LandingOf(a) ELSE p
AuthGuard(p, a) ==
    IF ~SignedIn(a) THEN "login"
    ELSE IF p = "platform" THEN LandingOf(a)
    ELSE IF RoleIn(a) = "platform_admin" THEN "platform"
    ELSE IF RoleIn(a) \in AllowedRoles(p) THEN p
    ELSE "dashboard"
DevGuard(p, a) == IF SignedIn(a) /\ RoleIn(a) # "platform_admin" THEN "dashboard" ELSE p

Guarded(p, a) ==
    CASE a.loading -> p
      [] p \in PublicPlace -> PublicGuard(p, a)
      [] p \in AppPlace \cup {"platform"} -> AuthGuard(p, a)
      [] p = "dev" -> DevGuard(p, a)
      [] OTHER -> p

\* The state changes of one handler are rendered together; a page that goes away
\* takes its form along.
Renders(a, p, f) ==
    /\ auth' = a
    /\ place' = Guarded(p, a)
    /\ form' = IF place' = place THEN f ELSE NoForm

-----------------------------------------------------------------------------
\* The document is reloaded: the state comes from sessionStorage, the
\* calls of the old document are dropped, and a stored token is validated.
Restored ==
    [user |-> stored.user, token |-> stored.token, loading |-> stored.token # NoPerson]

ReloadTab ==
    /\ place # "verify"
    /\ auth' = Restored
    /\ place' = Guarded(place, auth')
    /\ form' = NoForm
    /\ acct' = [k \in AcctCall |->
                  IF k = "boot" /\ auth'.loading THEN [at |-> "sent", who |-> stored.token]
                  ELSE AcctIdle]
    /\ UNCHANGED <<stored, mail>>

\* A sign-in link from the mail, used before or not: MagicLinkExchange verifies it when it mounts,
\* whoever is signed in; its first effect runs beside the provider's.
OpenLink(p) ==
    /\ auth' = Restored /\ place' = "verify" /\ form' = [NoForm EXCEPT !.page = "busy"]
    /\ acct' = [k \in AcctCall |->
                  CASE k = "boot" /\ auth'.loading -> [at |-> "sent", who |-> stored.token]
                    [] k = "verify" -> [at |-> "sent", who |-> p]
                    [] OTHER -> AcctIdle]
    /\ UNCHANGED <<stored, mail>>

\* A link inside the application.
Follow(p) ==
    /\ ~auth.loading /\ p # place /\ p # "verify"
    /\ Renders(auth, p, NoForm)
    /\ UNCHANGED <<stored, acct, mail>>

-----------------------------------------------------------------------------
\* The forms.  A page locks its own form while its call is on its way; a call
\* goes on when its page is left.  Bounds: one call of a kind at a time, and MaxCalls
\* in all.
PageOf(k) ==
    CASE k = "login" -> {"login"}
      [] k = "register" -> {"register"}
      [] k = "forgot" -> {"forgot"}
      [] k = "reset" -> {"reset", "setpw"}
      [] k = "verify" -> {"verify"}
      [] OTHER -> {}
CallFits(k) == acct[k].at = "idle" /\ Cardinality({c \in AcctCall : acct[c].at # "idle"}) < MaxCalls

FormFree(pl) == ~auth.loading /\ place = pl /\ form.page \in {"idle", "error"}
AskFor(k, p) ==
    /\ CallFits(k)
    /\ acct' = [acct EXCEPT ![k] = [at |-> "sent", who |-> p]]
    /\ UNCHANGED <<auth, stored, place, mail>>

\* Fields that do not validate are reported; nothing is sent.
FormRefuses ==
    /\ \E pl \in PublicPlace : FormFree(pl)
    /\ form' = [form EXCEPT !.page = "error"]
    /\ UNCHANGED <<auth, stored, place, acct, mail>>

\* The sign-in page: a password, or a link by mail from its own block, which is
\* expanded first; the confirmation of the mail replaces both.
SubmitPassword(p) ==
    /\ FormFree("login") /\ form.magic # "sent"
    /\ AskFor("login", p)
    /\ form' = [form EXCEPT !.page = "busy"]

ExpandMagic ==
    /\ ~auth.loading /\ place = "login" /\ form.magic = "idle"
    /\ form' = [form EXCEPT !.magic = "expanded"]
    /\ UNCHANGED <<auth, stored, place, acct, mail>>

SubmitMagicLink(p) ==
    /\ ~auth.loading /\ place = "login" /\ form.magic = "expanded"
    /\ AskFor("magic", p)
    /\ form' = [form EXCEPT !.magic = "busy"]

\* "try a different email"
ResetMagic ==
    /\ place = "login" /\ form.magic = "sent"
    /\ form' = [form EXCEPT !.magic = "idle"]
    /\ UNCHANGED <<auth, stored, place, acct, mail>>

SubmitRegister(p) ==
    /\ FormFree("register")
    /\ AskFor("register", p)
    /\ form' = [form EXCEPT !.page = "busy"]

SubmitForgot(p) ==
    /\ FormFree("forgot")
    /\ AskFor("forgot", p)
    /\ form' = [form EXCEPT !.page = "busy"]

\* A password link from the mail, of a reset or of an invitation.
SubmitReset(p) ==
    /\ FormFree("reset") /\ mail[p].password
    /\ AskFor("reset", p)
    /\ form' = [form EXCEPT !.page = "busy"]

SubmitSetPassword(p) ==
    /\ FormFree("setpw") /\ mail[p].password
    /\ AskFor("reset", p)
    /\ form' = [form EXCEPT !.page = "busy"]

-----------------------------------------------------------------------------
\* The server.  A sign-in link and a password link are each used up by the call
\* that succeeds with them.

Outcomes(k, p) ==
    CASE k = "verify" -> IF mail[p].signin THEN {"ok", "denied"} ELSE {"denied"}
      [] k = "reset"  -> IF mail[p].password THEN {"ok", "denied"} ELSE {"denied"}
      [] k = "magic"  -> {"ok"}
      [] k = "forgot" -> {"ok"}
      [] OTHER -> {"ok", "denied"}

Mailed(k, p, o) ==
    CASE o # "ok" -> mail
      [] k = "magic"  -> [mail EXCEPT ![p].signin = TRUE]
      [] k = "verify" -> [mail EXCEPT ![p].signin = FALSE]
      [] k = "forgot" -> [mail EXCEPT ![p].password = TRUE]
      [] k = "reset"  -> [mail EXCEPT ![p].password = FALSE]
      [] OTHER -> mail

ServeAcct(k, o) ==
    /\ acct[k].at = "sent"
    /\ o \in Outcomes(k, acct[k].who)
    /\ acct' = [acct EXCEPT ![k].at = o]
    /\ mail' = Mailed(k, acct[k].who, o)
    /\ UNCHANGED <<auth, stored, place, form>>

\* The network fails, before or after the server acted.
LoseAcct(k) ==
    /\ acct[k].at \in {"sent", "ok"}
    /\ acct' = [acct EXCEPT ![k].at = "failed"]
    /\ UNCHANGED <<auth, stored, place, form, mail>>

-----------------------------------------------------------------------------
\* The answers.

Done(k) == acct' = [acct EXCEPT ![k] = AcctIdle] /\ UNCHANGED mail
Settle(a) == [a EXCEPT !.loading = FALSE]
SignedOut(a) == [a EXCEPT !.user = NoPerson, !.token = NoPerson]

\* bootstrap: the user of the answer, with the token the document started with.
BootOk ==
    /\ acct["boot"].at = "ok"
    /\ stored' = [user |-> acct["boot"].who, token |-> acct["boot"].who]
    /\ Renders(Settle([auth EXCEPT !.user = acct["boot"].who]), place, form)
    /\ Done("boot")

\* Only a definite rejection clears the session.
BootDenied ==
    /\ acct["boot"].at = "denied"
    /\ stored' = NoBlob
    /\ Renders(Settle(SignedOut(auth)), place, form)
    /\ Done("boot")

BootFailed ==
    /\ acct["boot"].at = "failed"
    /\ Renders(Settle(auth), place, form)
    /\ UNCHANGED stored
    /\ Done("boot")

\* _applySession, then on to the landing page: at once and from wherever the user
\* went meanwhile after a form; after a moment, and only from a page that is still
\* there, after a link.
ApplySession(k) ==
    /\ k \in SigningCall /\ acct[k].at = "ok"
    /\ LET p == acct[k].who
           a == [auth EXCEPT !.user = p, !.token = p]
           flash == k = "verify" /\ place = "verify"
       IN  /\ stored' = [user |-> p, token |-> p]
           /\ Renders(a, IF k = "verify" THEN place ELSE LandingOf(a),
                      IF flash THEN [form EXCEPT !.page = "success"] ELSE form)
           /\ acct' = [acct EXCEPT ![k] = IF flash THEN [@ EXCEPT !.at = "timer"] ELSE AcctIdle]
    /\ UNCHANGED mail

\* refreshUser: the user of the answer, with the token of now.
BugKeptToken == acct["refresh"].who
KeptToken == auth.token

RefreshOk ==
    /\ acct["refresh"].at = "ok"
    /\ stored' = IF KeptToken = NoPerson THEN NoBlob
                 ELSE [user |-> acct["refresh"].who, token |-> KeptToken]
    /\ Renders([auth EXCEPT !.user = acct["refresh"].who], place, form)
    /\ Done("refresh")

\* A 401 signs out; another failure is ignored.
RefreshFails ==
    /\ \/ /\ acct["refresh"].at = "denied"
          /\ stored' = NoBlob
          /\ Renders(SignedOut(auth), place, form)
       \/ /\ acct["refresh"].at = "failed"
          /\ UNCHANGED <<auth, stored, place, form>>
    /\ Done("refresh")

\* The other answers are shown by the form that waits for them; a new password
\* starts a timer, shown or not.
FormAnswered(k) ==
    /\ k \in AcctCall \ {"boot", "refresh"}
    /\ \/ acct[k].at \in {"denied", "failed"}
       \/ acct[k].at = "ok" /\ k \notin SigningCall
    /\ form' = IF k = "magic"
               THEN [form EXCEPT !.magic = IF @ # "busy" THEN @
                                           ELSE IF acct[k].at = "ok" THEN "sent" ELSE "expanded"]
               ELSE [form EXCEPT !.page = IF @ # "busy" \/ place \notin PageOf(k) THEN @
                                          ELSE CASE acct[k].at # "ok" -> "error"
                                                 [] k = "reset" -> "success"
                                                 [] OTHER -> "sent"]
    /\ acct' = [acct EXCEPT ![k] = IF k = "reset" /\ @.at = "ok" THEN [@ EXCEPT !.at = "timer"] ELSE AcctIdle]
    /\ UNCHANGED <<auth, stored, place, mail>>

\* The timers: from the confirmation of a link to the landing page, and from a new
\* password to the sign-in page, even if the page was left.
TimerNavigates(k) ==
    /\ acct[k].at = "timer"
    /\ Renders(auth, IF k = "reset" THEN "login"
                     ELSE LandingOf([auth EXCEPT !.user = acct[k].who]), NoForm)
    /\ Done(k)
    /\ UNCHANGED stored

-----------------------------------------------------------------------------
\* Sign out, in the sidebar and on the platform page.  The server is told; its
\* answer is not waited for.
Logout ==
    /\ ~auth.loading /\ SignedIn(auth) /\ place \in AppPlace \cup {"platform"}
    /\ stored' = NoBlob
    /\ Renders(SignedOut(auth), "login", NoForm)
    /\ UNCHANGED <<acct, mail>>

\* The profile is saved; the user is read again.
SaveProfile ==
    /\ ~auth.loading /\ place = "profile" /\ CallFits("refresh")
    /\ acct' = [acct EXCEPT !["refresh"] = [at |-> "sent", who |-> auth.token]]
    /\ UNCHANGED <<auth, stored, place, form, mail>>

SessionNext ==
    \/ \E p \in Place \ {"verify"} : Follow(p)
    \/ \E p \in Person :
          \/ OpenLink(p) \/ SubmitPassword(p) \/ SubmitMagicLink(p) \/ SubmitRegister(p)
          \/ SubmitForgot(p) \/ SubmitReset(p) \/ SubmitSetPassword(p)
    \/ ReloadTab \/ FormRefuses \/ ExpandMagic \/ ResetMagic \/ Logout \/ SaveProfile
    \/ \E k \in AcctCall :
          \/ LoseAcct(k) \/ ApplySession(k) \/ FormAnswered(k) \/ TimerNavigates(k)
          \/ \E o \in {"ok", "denied"} : ServeAcct(k, o)
    \/ BootOk \/ BootDenied \/ BootFailed \/ RefreshOk \/ RefreshFails

SessionSpec == SessionInit /\ [][SessionNext]_sessionVars

-----------------------------------------------------------------------------
\* Once signed out, the tab is signed in again only by the answer of a sign-in:
\* no late /auth/me and no reload brings the old session back.
SignedOutStaysOut ==
    [][auth.token = NoPerson /\ auth'.token # NoPerson
          => \E k \in SigningCall : acct[k].at = "ok" /\ acct[k].who = auth'.token]_sessionVars
=============================================================================
