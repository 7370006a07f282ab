-------------------------- MODULE StaffPages_proofs --------------------------
(**************************************************************************)
(* Signing in and the settings: the session of a member of staff, the tabs *)
(* of the settings and the keys of the platform; then all the pages of the *)
(* desk and of the settings together.                                      *)
(**************************************************************************)
EXTENDS DeskPages_proofs, MCDeskPages, FiniteSetTheorems, SequenceTheorems, TLAPS

-----------------------------------------------------------------------------
(**************************************************************************)
(* Signing in. Once the provider holds no token, only the answer of a      *)
(* sign-in brings one back: what is on its way from the session that ended *)
(* is not let in.                                                          *)
(**************************************************************************)

AuthState == [user : Who, token : Who, loading : BOOLEAN]
Acct == [at : {"idle", "sent", "ok", "denied", "failed", "timer"}, who : Who]
FormState == [page : {"idle", "busy", "sent", "success", "error"},
              magic : {"idle", "expanded", "busy", "sent"}]
Letters == [Person -> [signin : BOOLEAN, password : BOOLEAN]]

\* Nothing in sessionStorage outlives the token in the provider: a restored token is
\* being validated as long as the provider loads, and while it does nothing but that
\* validation, or a sign-in by link, replaces the token.
AcctSound(a) ==
    /\ a \in [AcctCall -> Acct]
    /\ \A k \in AcctCall : a[k].at = "timer" => k \in {"verify", "reset"}
    /\ \A k \in SigningCall \cup {"reset", "magic", "forgot"} : a[k].at # "idle" => a[k].who \in Person
SessionInv ==
    /\ SessionTypeOK /\ AcctSound(acct)
    /\ auth.token = NoPerson => stored.token = NoPerson
    /\ auth.loading <=> acct["boot"].at # "idle"
    /\ auth.loading => auth.token # NoPerson /\ acct["refresh"].at = "idle"

\* The types, by the variables they are about.
LEMMA SessionParts ==
    ASSUME SessionInv
    PROVE  /\ auth \in AuthState /\ stored \in Blob /\ place \in Place /\ acct \in [AcctCall -> Acct]
           /\ form \in FormState /\ mail \in Letters
BY DEF SessionInv, SessionTypeOK, AuthState, Acct, FormState, Letters

\* With a stored token the provider starts by validating it, otherwise signed out.
LEMMA SessionStart == SessionInit => SessionInv
<1> SUFFICES ASSUME SessionInit PROVE SessionInv
  OBVIOUS
<1>1. AcctIdle \in Acct /\ AcctIdle.at = "idle"
  BY DEF AcctIdle, Acct, Who
<1>2. AcctSound(acct)
  BY <1>1 DEF SessionInit, AcctSound, AcctCall, SigningCall
<1>3. SessionTypeOK
  BY <1>1 DEF SessionInit, SessionTypeOK, Who, Blob, NoBlob, NoForm, Place, Acct
<1>4. acct["boot"].at = "idle" /\ stored.token = NoPerson
  BY <1>1 DEF SessionInit, AcctCall, NoBlob
<1> QED
  BY <1>2, <1>3, <1>4 DEF SessionInit, SessionInv

\* The guards lead to places there are.
LEMMA Guards ==
    ASSUME NEW p \in Place, NEW a \in AuthState
    PROVE  Guarded(p, a) \in Place /\ LandingOf(a) \in Place
<1>1. LandingOf(a) \in Place
  BY DEF LandingOf, Place, AppPlace
<1>2. PublicGuard(p, a) \in Place /\ AuthGuard(p, a) \in Place /\ DevGuard(p, a) \in Place
  BY <1>1 DEF PublicGuard, AuthGuard, DevGuard, Place, AppPlace, PublicPlace
<1> HIDE DEF PublicGuard, AuthGuard, DevGuard
<1>3. Guarded(p, a) \in {p, PublicGuard(p, a), AuthGuard(p, a), DevGuard(p, a)}
  BY DEF Guarded
<1> QED
  BY <1>1, <1>2, <1>3

\* The page that is shown by the guards, and its form.
LEMMA Rendered ==
    ASSUME SessionInv, NEW a \in AuthState, NEW p \in Place, NEW f \in FormState, Renders(a, p, f)
    PROVE  auth' = a /\ place' \in Place /\ form' \in FormState
<1>1. NoForm \in FormState
  BY DEF NoForm, FormState
<1> QED
  BY <1>1, Guards DEF Renders

\* The invariant from its parts.
LEMMA SessionMade ==
    ASSUME auth' \in AuthState, stored' \in Blob, place' \in Place, AcctSound(acct'),
           form' \in FormState, mail' \in Letters,
           auth'.token = NoPerson => stored'.token = NoPerson,
           auth'.loading <=> acct'["boot"].at # "idle",
           auth'.loading => auth'.token # NoPerson /\ acct'["refresh"].at = "idle"
    PROVE  SessionInv'
BY DEF SessionInv, SessionTypeOK, AuthState, Acct, FormState, Letters, AcctSound

\* One call goes on.
LEMMA AcctGoes ==
    ASSUME AcctSound(acct), NEW k \in AcctCall, NEW c \in Acct, acct' = [acct EXCEPT ![k] = c],
           c.at = "timer" => k \in {"verify", "reset"},
           c.at # "idle" /\ k \notin {"boot", "refresh"} => c.who \in Person
    PROVE  /\ AcctSound(acct') /\ acct'[k] = c
           /\ \A j \in AcctCall \ {k} : acct'[j] = acct[j]
<1>1. \A j \in AcctCall : acct'[j] = IF j = k THEN c ELSE acct[j]
  BY DEF AcctSound
<1> QED
  BY <1>1 DEF AcctSound, AcctCall, SigningCall

LEMMA AcctDone ==
    ASSUME SessionInv, NEW k \in AcctCall, acct' = [acct EXCEPT ![k] = AcctIdle]
    PROVE  /\ AcctSound(acct') /\ acct'[k].at = "idle"
           /\ \A j \in AcctCall \ {k} : acct'[j] = acct[j]
<1>1. AcctIdle \in Acct /\ AcctIdle.at = "idle"
  BY DEF AcctIdle, Acct, Who
<1> QED
  BY <1>1, AcctGoes DEF SessionInv

\* A step in which neither the token nor what is stored moves, nor the two calls of the provider.
LEMMA TokenKept ==
    ASSUME SessionInv, UNCHANGED <<auth, stored>>, place' \in Place, form' \in FormState, mail' \in Letters,
           AcctSound(acct'), acct'["boot"].at = "idle" <=> acct["boot"].at = "idle",
           auth.loading => acct'["refresh"].at = "idle"
    PROVE  SessionInv'
BY SessionParts, SessionMade DEF SessionInv

\* The document starts anew.
LEMMA Reloaded ==
    ASSUME SessionInv, ReloadTab \/ \E p \in Person : OpenLink(p)
    PROVE  SessionInv' /\ auth'.token = stored.token
<1> USE SessionAssumption
<1>1. Restored \in AuthState /\ Restored.token = stored.token /\ (Restored.loading <=> stored.token # NoPerson)
  BY SessionParts DEF Restored, AuthState, Blob
<1>2. auth' = Restored /\ UNCHANGED <<stored, mail>>
  BY DEF ReloadTab, OpenLink
<1>3. NoForm \in FormState /\ [NoForm EXCEPT !.page = "busy"] \in FormState
  BY DEF NoForm, FormState
<1>4. place' \in Place /\ form' \in FormState
  <2>1. CASE ReloadTab
    BY <2>1, <1>1, <1>2, <1>3, Guards, SessionParts DEF ReloadTab
  <2>2. CASE \E p \in Person : OpenLink(p)
    BY <2>2, <1>3 DEF OpenLink, Place
  <2> QED
    BY <2>1, <2>2
<1>5. /\ AcctIdle \in Acct /\ AcctIdle.at = "idle"
      /\ \A w \in Who : [at |-> "sent", who |-> w] \in Acct
  BY DEF AcctIdle, Acct, Who
<1>6. stored.token \in Who /\ Person \subseteq Who
  BY SessionParts DEF Blob, Who
<1>7. /\ AcctSound(acct') /\ (acct'["boot"].at = "idle" <=> ~Restored.loading)
      /\ acct'["refresh"].at = "idle"
  <2>1. CASE ReloadTab
    <3>1. acct' = [k \in AcctCall |-> IF k = "boot" /\ Restored.loading
                                      THEN [at |-> "sent", who |-> stored.token] ELSE AcctIdle]
      BY <2>1, <1>2 DEF ReloadTab
    <3> QED
      BY <3>1, <1>5, <1>6 DEF AcctSound, AcctCall, SigningCall
  <2>2. ASSUME NEW p \in Person, OpenLink(p)
        PROVE  /\ AcctSound(acct') /\ (acct'["boot"].at = "idle" <=> ~Restored.loading)
               /\ acct'["refresh"].at = "idle"
    <3>1. acct' = [k \in AcctCall |-> IF k = "boot" /\ Restored.loading
                                      THEN [at |-> "sent", who |-> stored.token]
                                      ELSE IF k = "verify" THEN [at |-> "sent", who |-> p] ELSE AcctIdle]
      BY <2>2, <1>2 DEF OpenLink
    <3> QED
      BY <3>1, <1>5, <1>6 DEF AcctSound, AcctCall, SigningCall
  <2> QED
    BY <2>1, <2>2
<1> QED
  BY <1>1, <1>2, <1>4, <1>7, SessionParts, SessionMade

LEMMA Asked ==
    ASSUME SessionInv, NEW k \in AcctCall \ {"boot", "refresh"}, NEW p \in Person, AskFor(k, p), form' \in FormState
    PROVE  SessionInv'
<1>1. [at |-> "sent", who |-> p] \in Acct
  BY DEF Acct, Who
<1>2. AcctSound(acct') /\ \A j \in {"boot", "refresh"} : acct'[j] = acct[j]
  BY <1>1, AcctGoes DEF AskFor, SessionInv, AcctCall
<1>3. auth.loading => acct["refresh"].at = "idle"
  BY DEF SessionInv
<1> QED
  BY <1>2, <1>3, TokenKept, SessionParts DEF AskFor

LEMMA Forms ==
    ASSUME SessionInv
    PROVE  \A g \in {"idle", "busy", "sent", "success", "error"} : [form EXCEPT !.page = g] \in FormState
           /\ \A m \in {"idle", "expanded", "busy", "sent"} : [form EXCEPT !.magic = m] \in FormState
BY SessionParts DEF FormState

\* The steps of the guest's forms and of the links, but for the answers.
LEMMA PagesStep ==
    ASSUME SessionInv,
           \/ \E p \in Place \ {"verify"} : Follow(p)
           \/ \E p \in Person : \/ SubmitPassword(p) \/ SubmitMagicLink(p) \/ SubmitRegister(p)
                                \/ SubmitForgot(p) \/ SubmitReset(p) \/ SubmitSetPassword(p)
           \/ FormRefuses \/ ExpandMagic \/ ResetMagic \/ SaveProfile
    PROVE  SessionInv' /\ UNCHANGED auth
<1>n. NoForm \in FormState
  BY DEF NoForm, FormState
<1>1. ASSUME NEW p \in Place \ {"verify"}, Follow(p) PROVE SessionInv' /\ UNCHANGED auth
  <2>1. auth' = auth /\ place' \in Place /\ form' \in FormState
    BY <1>1, <1>n, Rendered, SessionParts DEF Follow
  <2> QED
    BY <1>1, <2>1, TokenKept, SessionParts DEF Follow, SessionInv
<1>2. ASSUME NEW p \in Person,
             \/ SubmitPassword(p) \/ SubmitMagicLink(p) \/ SubmitRegister(p)
             \/ SubmitForgot(p) \/ SubmitReset(p) \/ SubmitSetPassword(p)
      PROVE  SessionInv' /\ UNCHANGED auth
  <2>1. form' \in FormState
    BY <1>2, Forms DEF SubmitPassword, SubmitMagicLink, SubmitRegister, SubmitForgot, SubmitReset, SubmitSetPassword
  <2>2. PICK k \in AcctCall \ {"boot", "refresh"} : AskFor(k, p)
    BY <1>2 DEF SubmitPassword, SubmitMagicLink, SubmitRegister, SubmitForgot, SubmitReset, SubmitSetPassword, AcctCall
  <2> QED
    BY <2>1, <2>2, Asked DEF AskFor
<1>3. CASE FormRefuses \/ ExpandMagic \/ ResetMagic
  <2>1. form' \in FormState /\ UNCHANGED <<auth, stored, place, acct, mail>>
    BY <1>3, Forms DEF FormRefuses, ExpandMagic, ResetMagic
  <2> QED
    BY <2>1, TokenKept, SessionParts DEF SessionInv
<1>4. CASE SaveProfile
  <2>1. [at |-> "sent", who |-> auth.token] \in Acct /\ "refresh" \in AcctCall /\ "boot" \in AcctCall
    BY SessionParts DEF Acct, AuthState, AcctCall
  <2>2. acct' = [acct EXCEPT !["refresh"] = [at |-> "sent", who |-> auth.token]]
    BY <1>4 DEF SaveProfile
  <2>3. AcctSound(acct') /\ acct'["boot"] = acct["boot"]
    BY <2>1, <2>2, AcctGoes DEF SessionInv
  <2> QED
    BY <1>4, <2>3, TokenKept, SessionParts DEF SaveProfile
<1> QED
  BY <1>1, <1>2, <1>3, <1>4

\* The server.
LEMMA AcctServed ==
    ASSUME SessionInv, NEW k \in AcctCall, LoseAcct(k) \/ \E o \in {"ok", "denied"} : ServeAcct(k, o)
    PROVE  SessionInv' /\ UNCHANGED auth
<1>1. UNCHANGED <<auth, stored, place, form>> /\ acct[k].at \in {"sent", "ok"} /\ acct[k] \in Acct
  BY SessionParts DEF LoseAcct, ServeAcct
<1>2. PICK o \in {"ok", "denied", "failed"} : acct' = [acct EXCEPT ![k] = [acct[k] EXCEPT !.at = o]]
  BY DEF LoseAcct, ServeAcct
<1>3. [acct[k] EXCEPT !.at = o] \in Acct /\ [acct[k] EXCEPT !.at = o].at = o /\ [acct[k] EXCEPT !.at = o].who = acct[k].who
  BY <1>1 DEF Acct
<1>4. k \notin {"boot", "refresh"} => acct[k].who \in Person
  BY <1>1 DEF SessionInv, AcctSound, AcctCall, SigningCall
<1>5. AcctSound(acct') /\ acct'[k].at = o /\ \A j \in AcctCall \ {k} : acct'[j] = acct[j]
  BY <1>2, <1>3, <1>4, AcctGoes DEF SessionInv
<1>6. mail' \in Letters
  <2>1. CASE LoseAcct(k)
    BY <2>1, SessionParts DEF LoseAcct
  <2>2. ASSUME NEW q \in {"ok", "denied"}, ServeAcct(k, q) PROVE mail' \in Letters
    <3> DEFINE w == acct[k].who
    <3>1. mail' = Mailed(k, w, q)
      BY <2>2 DEF ServeAcct
    <3>2. \A b \in BOOLEAN : [mail EXCEPT ![w].signin = b] \in Letters /\ [mail EXCEPT ![w].password = b] \in Letters
      BY SessionParts DEF Letters
    <3> HIDE DEF w
    <3>3. Mailed(k, w, q) \in {mail, [mail EXCEPT ![w].signin = TRUE], [mail EXCEPT ![w].signin = FALSE],
                               [mail EXCEPT ![w].password = TRUE], [mail EXCEPT ![w].password = FALSE]}
      BY DEF Mailed
    <3> QED
      BY <3>1, <3>2, <3>3, SessionParts
  <2> QED
    BY <2>1, <2>2
<1>7. "boot" \in AcctCall /\ "refresh" \in AcctCall
  BY DEF AcctCall
<1>8. acct'["boot"].at = "idle" <=> acct["boot"].at = "idle"
  BY <1>1, <1>5, <1>7
<1>9. auth.loading => acct'["refresh"].at = "idle"
  BY <1>1, <1>5, <1>7 DEF SessionInv
<1> QED
  BY <1>1, <1>5, <1>6, <1>8, <1>9, TokenKept, SessionParts

\* The answers.

\* The answers of the validation, of the sign-ins, of the renewal and of the forms.
LEMMA BootStep ==
    ASSUME SessionInv, BootOk \/ BootDenied \/ BootFailed
    PROVE  SessionInv' /\ auth'.token \in {auth.token, NoPerson}
<1> USE SessionAssumption
<1>0. "boot" \in AcctCall /\ "refresh" \in AcctCall /\ acct["boot"] \in Acct
  BY SessionParts DEF AcctCall
<1>1. UNCHANGED mail /\ AcctSound(acct') /\ acct'["boot"].at = "idle"
  BY <1>0, AcctDone DEF BootOk, BootDenied, BootFailed, Done
<1>2. auth.token # NoPerson
  BY DEF SessionInv, BootOk, BootDenied, BootFailed
<1>3. /\ stored' \in Blob /\ auth' \in AuthState /\ ~auth'.loading /\ place' \in Place /\ form' \in FormState
      /\ \/ auth'.token = auth.token
         \/ auth'.token = NoPerson /\ stored'.token = NoPerson
  <2>1. CASE BootOk
    <3> DEFINE a == Settle([auth EXCEPT !.user = acct["boot"].who])
    <3>1. a \in AuthState /\ ~a.loading /\ a.token = auth.token
      BY SessionParts, <1>0 DEF AuthState, Acct, Settle
    <3>2. stored' \in Blob
      BY <2>1, <1>0 DEF BootOk, Acct, Blob
    <3> HIDE DEF a
    <3>3. Renders(a, place, form)
      BY <2>1 DEF BootOk, a
    <3> QED
      BY <3>1, <3>2, <3>3, Rendered, SessionParts
  <2>2. CASE BootDenied
    <3> DEFINE a == Settle(SignedOut(auth))
    <3>1. a \in AuthState /\ ~a.loading /\ a.token = NoPerson
      BY SessionParts DEF AuthState, Settle, SignedOut, Who
    <3>2. stored' \in Blob /\ stored'.token = NoPerson
      BY <2>2 DEF BootDenied, NoBlob, Blob, Who
    <3> HIDE DEF a
    <3>3. Renders(a, place, form)
      BY <2>2 DEF BootDenied, a
    <3> QED
      BY <3>1, <3>2, <3>3, Rendered, SessionParts
  <2>3. CASE BootFailed
    <3> DEFINE a == Settle(auth)
    <3>1. a \in AuthState /\ ~a.loading /\ a.token = auth.token
      BY SessionParts DEF AuthState, Settle
    <3> HIDE DEF a
    <3>2. Renders(a, place, form) /\ UNCHANGED stored
      BY <2>3 DEF BootFailed, a
    <3> QED
      BY <3>1, <3>2, Rendered, SessionParts
  <2> QED
    BY <2>1, <2>2, <2>3
<1> QED
  BY <1>1, <1>2, <1>3, SessionMade, SessionParts

LEMMA ApplyStep ==
    ASSUME SessionInv, NEW k \in AcctCall, ApplySession(k)
    PROVE  SessionInv' /\ k \in SigningCall /\ acct[k].at = "ok" /\ auth'.token = acct[k].who
<1> USE SessionAssumption
<1> DEFINE p == acct[k].who
           a == [auth EXCEPT !.user = p, !.token = p]
           flash == k = "verify" /\ place = "verify"
           f == IF flash THEN [form EXCEPT !.page = "success"] ELSE form
           c == IF flash THEN [acct[k] EXCEPT !.at = "timer"] ELSE AcctIdle
<1>1. k \in SigningCall /\ acct[k].at = "ok" /\ p \in Person /\ p \in Who /\ p # NoPerson
  BY DEF ApplySession, SessionInv, AcctSound, Who
<1>2. a \in AuthState /\ a.token = p /\ a.loading = auth.loading
  BY <1>1, SessionParts DEF AuthState
<1>3. f \in FormState
  BY Forms, SessionParts
<1>4. stored' = [user |-> p, token |-> p] /\ stored' \in Blob
  BY <1>1 DEF ApplySession, Blob
<1>5. Renders(a, IF k = "verify" THEN place ELSE LandingOf(a), f) /\ UNCHANGED mail
  BY DEF ApplySession
<1>6. acct' = [acct EXCEPT ![k] = c]
  BY DEF ApplySession
<1>7. c \in Acct /\ (c.at # "idle" => c.who = p) /\ (c.at = "timer" => k = "verify")
  <2>1. AcctIdle \in Acct /\ AcctIdle.at = "idle"
    BY DEF AcctIdle, Acct, Who
  <2>2. [acct[k] EXCEPT !.at = "timer"] \in Acct /\ [acct[k] EXCEPT !.at = "timer"].who = p
    BY SessionParts DEF Acct
  <2> QED
    BY <2>1, <2>2
<1> HIDE DEF a, f, c, flash
<1>8. AcctSound(acct') /\ \A j \in AcctCall \ {k} : acct'[j] = acct[j]
  BY <1>1, <1>6, <1>7, AcctGoes DEF SessionInv
<1>9. acct'["boot"] = acct["boot"] /\ acct'["refresh"] = acct["refresh"]
  BY <1>1, <1>8 DEF SigningCall, AcctCall
<1>10. auth' = a /\ place' \in Place /\ form' \in FormState
  BY <1>2, <1>3, <1>5, Rendered, Guards, SessionParts
<1> QED
  BY <1>1, <1>2, <1>4, <1>5, <1>8, <1>9, <1>10, SessionMade, SessionParts DEF SessionInv

LEMMA RefreshStep ==
    ASSUME SessionInv, RefreshOk \/ RefreshFails
    PROVE  SessionInv' /\ auth'.token \in {auth.token, NoPerson}
<1>0. "boot" \in AcctCall /\ "refresh" \in AcctCall /\ acct["refresh"] \in Acct
  BY SessionParts DEF AcctCall
<1>1. UNCHANGED mail /\ AcctSound(acct') /\ acct'["boot"] = acct["boot"] /\ acct'["refresh"].at = "idle"
  BY <1>0, AcctDone DEF RefreshOk, RefreshFails, Done
<1>2. ~auth.loading
  BY DEF SessionInv, RefreshOk, RefreshFails
<1>3. /\ stored' \in Blob /\ auth' \in AuthState /\ ~auth'.loading /\ place' \in Place /\ form' \in FormState
      /\ auth'.token \in {auth.token, NoPerson}
      /\ auth'.token = NoPerson => stored'.token = NoPerson
  <2>1. CASE RefreshOk
    <3> DEFINE a == [auth EXCEPT !.user = acct["refresh"].who]
    <3>1. a \in AuthState /\ ~a.loading /\ a.token = auth.token
      BY SessionParts, <1>0, <1>2 DEF AuthState, Acct
    <3>2. stored' \in Blob /\ (auth.token = NoPerson => stored'.token = NoPerson)
      BY <2>1, <1>0, SessionParts DEF RefreshOk, KeptToken, NoBlob, Acct, AuthState, Blob, Who
    <3> HIDE DEF a
    <3>3. Renders(a, place, form)
      BY <2>1 DEF RefreshOk, a
    <3> QED
      BY <3>1, <3>2, <3>3, Rendered, SessionParts
  <2>2. CASE RefreshFails /\ acct["refresh"].at = "denied"
    <3> DEFINE a == SignedOut(auth)
    <3>1. a \in AuthState /\ ~a.loading /\ a.token = NoPerson
      BY SessionParts, <1>2 DEF AuthState, SignedOut, Who
    <3>2. stored' \in Blob /\ stored'.token = NoPerson
      BY <2>2 DEF RefreshFails, NoBlob, Blob, Who
    <3> HIDE DEF a
    <3>3. Renders(a, place, form)
      BY <2>2 DEF RefreshFails, a
    <3> QED
      BY <3>1, <3>2, <3>3, Rendered, SessionParts
  <2>3. CASE RefreshFails /\ acct["refresh"].at # "denied"
    BY <2>3, <1>2, SessionParts DEF RefreshFails, SessionInv
  <2> QED
    BY <2>1, <2>2, <2>3
<1> QED
  BY <1>1, <1>2, <1>3, SessionMade, SessionParts DEF SessionInv

LEMMA AnsweredStep ==
    ASSUME SessionInv, NEW k \in AcctCall, FormAnswered(k) \/ TimerNavigates(k)
    PROVE  SessionInv' /\ UNCHANGED auth
<1>0. acct[k] \in Acct /\ k \notin {"boot", "refresh"} /\ "boot" \in AcctCall /\ "refresh" \in AcctCall
  BY SessionParts DEF FormAnswered, TimerNavigates, SessionInv, AcctSound, AcctCall
<1>1. AcctIdle \in Acct /\ AcctIdle.at = "idle"
  BY DEF AcctIdle, Acct, Who
<1>2. PICK c \in Acct : /\ acct' = [acct EXCEPT ![k] = c]
                        /\ c.at = "timer" => k = "reset"
                        /\ c.at # "idle" => c.who = acct[k].who /\ acct[k].at # "idle"
  <2>1. CASE FormAnswered(k)
    <3> DEFINE c == IF k = "reset" /\ acct[k].at = "ok" THEN [acct[k] EXCEPT !.at = "timer"] ELSE AcctIdle
    <3>1. acct' = [acct EXCEPT ![k] = c]
      BY <2>1 DEF FormAnswered
    <3>2. CASE k = "reset" /\ acct[k].at = "ok"
      <4>1. c \in Acct /\ c.who = acct[k].who
        BY <3>2, <1>0 DEF Acct
      <4> QED
        BY <3>1, <3>2, <4>1
    <3>3. CASE ~(k = "reset" /\ acct[k].at = "ok")
      BY <3>1, <3>3, <1>1
    <3> QED
      BY <3>2, <3>3
  <2>2. CASE TimerNavigates(k)
    BY <2>2, <1>1 DEF TimerNavigates, Done
  <2> QED
    BY <2>1, <2>2
<1>3. c.at # "idle" => c.who \in Person
  BY <1>0, <1>2 DEF SessionInv, AcctSound, AcctCall, SigningCall
<1>4. AcctSound(acct') /\ acct'["boot"] = acct["boot"] /\ acct'["refresh"] = acct["refresh"]
  BY <1>0, <1>2, <1>3, AcctGoes DEF SessionInv
<1>5. auth' = auth /\ UNCHANGED <<stored, mail>> /\ place' \in Place /\ form' \in FormState
  <2>1. CASE FormAnswered(k)
    <3>1. UNCHANGED <<auth, stored, place, mail>>
      BY <2>1 DEF FormAnswered
    <3>2. form.page \in {"idle", "busy", "sent", "success", "error"} /\ form.magic \in {"idle", "expanded", "busy", "sent"}
      BY SessionParts DEF FormState
    <3>3. form' \in FormState
      <4>1. CASE k = "magic"
        <5> DEFINE m == IF form.magic # "busy" THEN form.magic ELSE IF acct[k].at = "ok" THEN "sent" ELSE "expanded"
        <5>1. m \in {"idle", "expanded", "busy", "sent"}
          BY <3>2
        <5>2. form' = [form EXCEPT !.magic = m]
          BY <2>1, <4>1 DEF FormAnswered
        <5> QED
          BY <5>1, <5>2, Forms
      <4>2. CASE k # "magic"
        <5> DEFINE w == CASE acct[k].at # "ok" -> "error" [] k = "reset" -> "success" [] OTHER -> "sent"
                   g == IF form.page # "busy" \/ place \notin PageOf(k) THEN form.page ELSE w
        <5>1. w \in {"error", "success", "sent"}
          OBVIOUS
        <5> HIDE DEF w
        <5>2. g \in {"idle", "busy", "sent", "success", "error"}
          BY <3>2, <5>1
        <5>3. form' = [form EXCEPT !.page = g]
          BY <2>1, <4>2 DEF FormAnswered, w
        <5> QED
          BY <5>2, <5>3, Forms
      <4> QED
        BY <4>1, <4>2
    <3> QED
      BY <3>1, <3>3, SessionParts
  <2>2. CASE TimerNavigates(k)
    <3> DEFINE to == IF k = "reset" THEN "login" ELSE LandingOf([auth EXCEPT !.user = acct[k].who])
    <3>1. [auth EXCEPT !.user = acct[k].who] \in AuthState
      BY <1>0, SessionParts DEF AuthState, Acct
    <3>2. to \in Place
      BY <3>1, Guards, SessionParts DEF Place, PublicPlace
    <3>3. NoForm \in FormState
      BY DEF NoForm, FormState
    <3> HIDE DEF to
    <3>4. Renders(auth, to, NoForm) /\ UNCHANGED <<stored, mail>>
      BY <2>2 DEF TimerNavigates, Done, to
    <3> QED
      BY <3>2, <3>3, <3>4, Rendered, SessionParts
  <2> QED
    BY <2>1, <2>2
<1> QED
  BY <1>4, <1>5, TokenKept, SessionParts DEF SessionInv

\* Signing out drops the token and what is stored.
LEMMA LogoutStep == ASSUME SessionInv, Logout PROVE SessionInv' /\ auth'.token = NoPerson
<1> DEFINE a == SignedOut(auth)
<1>1. a \in AuthState /\ a.token = NoPerson /\ ~a.loading /\ ~auth.loading
  BY SessionParts DEF AuthState, SignedOut, Logout, Who
<1>2. "login" \in Place /\ NoForm \in FormState
  BY DEF Place, PublicPlace, NoForm, FormState
<1>3. NoBlob \in Blob /\ NoBlob.token = NoPerson
  BY DEF NoBlob, Blob, Who
<1> HIDE DEF a
<1>4. Renders(a, "login", NoForm) /\ stored' = NoBlob /\ UNCHANGED <<acct, mail>>
  BY DEF Logout, a
<1>5. auth' = a /\ place' \in Place /\ form' \in FormState
  BY <1>1, <1>2, <1>4, Rendered
<1> QED
  BY <1>1, <1>3, <1>4, <1>5, SessionMade, SessionParts DEF SessionInv

\* The token appears by the answer of a sign-in only.
SignsIn ==
    auth.token = NoPerson /\ auth'.token # NoPerson
      => \E k \in SigningCall : acct[k].at = "ok" /\ acct[k].who = auth'.token

\* The invariant is kept, and a token that appears is the one of a sign-in.
LEMMA SessionStep == SessionInv /\ [SessionNext]_sessionVars => SessionInv' /\ (SignsIn \/ UNCHANGED sessionVars)
<1> SUFFICES ASSUME SessionInv, [SessionNext]_sessionVars PROVE SessionInv' /\ (SignsIn \/ UNCHANGED sessionVars)
  OBVIOUS
<1>1. CASE UNCHANGED sessionVars
  BY <1>1 DEF sessionVars, SessionInv, SessionTypeOK
<1>2. CASE ReloadTab \/ \E p \in Person : OpenLink(p)
  <2>1. SessionInv' /\ auth'.token = stored.token
    BY <1>2, Reloaded
  <2> QED
    BY <2>1 DEF SessionInv, SignsIn
<1>3. CASE \/ \E p \in Place \ {"verify"} : Follow(p)
           \/ \E p \in Person : \/ SubmitPassword(p) \/ SubmitMagicLink(p) \/ SubmitRegister(p)
                                \/ SubmitForgot(p) \/ SubmitReset(p) \/ SubmitSetPassword(p)
           \/ FormRefuses \/ ExpandMagic \/ ResetMagic \/ SaveProfile
  <2>1. SessionInv' /\ UNCHANGED auth
    BY <1>3, PagesStep
  <2> QED
    BY <2>1 DEF SignsIn
<1>4. ASSUME NEW k \in AcctCall,
             LoseAcct(k) \/ FormAnswered(k) \/ TimerNavigates(k) \/ \E o \in {"ok", "denied"} : ServeAcct(k, o)
      PROVE  SessionInv' /\ SignsIn
  <2>1. SessionInv' /\ UNCHANGED auth
    BY <1>4, AcctServed, AnsweredStep
  <2> QED
    BY <2>1 DEF SignsIn
<1>5. ASSUME NEW k \in AcctCall, ApplySession(k) PROVE SessionInv' /\ SignsIn
  BY <1>5, ApplyStep DEF SignsIn
<1>6. CASE BootOk \/ BootDenied \/ BootFailed \/ RefreshOk \/ RefreshFails
  <2>1. SessionInv' /\ auth'.token \in {auth.token, NoPerson}
    BY <1>6, BootStep, RefreshStep
  <2> QED
    BY <2>1 DEF SignsIn
<1>7. CASE Logout
  BY <1>7, LogoutStep DEF SignsIn
<1> QED
  BY <1>1, <1>2, <1>3, <1>4, <1>5, <1>6, <1>7 DEF SessionNext

\* For any number of accounts and any overlap of their calls: a provider without a
\* token gets one from the answer of a sign-in only, and it is the token of who signed
\* in (AuthContext.jsx).
THEOREM OutUntilSignedIn == SessionSpec => SignedOutStaysOut
<1>1. SessionInv /\ [SessionNext]_sessionVars => SessionInv'
  BY SessionStep
<1>2. SessionInv /\ [SessionNext]_sessionVars
        => [auth.token = NoPerson /\ auth'.token # NoPerson
              => \E k \in SigningCall : acct[k].at = "ok" /\ acct[k].who = auth'.token]_sessionVars
  BY SessionStep DEF SignsIn
<1> QED
  BY SessionStart, <1>1, <1>2, PTL DEF SessionSpec, SignedOutStaysOut

\* The provider, the storage, the pages, the calls and the mail keep their types.
THEOREM SessionTypes == SessionSpec => []SessionTypeOK
<1>1. SessionInv /\ [SessionNext]_sessionVars => SessionInv'
  BY SessionStep
<1>2. SessionInv => SessionTypeOK
  BY DEF SessionInv
<1> QED
  BY SessionStart, <1>1, <1>2, PTL DEF SessionSpec

-----------------------------------------------------------------------------
(**************************************************************************)
(* The templates. A text that is typed, drafted or saved stays under the   *)
(* template it was written for, though the list, the form and the calls    *)
(* overlap.                                                                *)
(**************************************************************************)

TplTab == [open : BOOLEAN, list : SUBSET Tpl, editing : Tpl \cup {NoTpl}, text : TplOrForm,
           form : BOOLEAN, menu : BOOLEAN, analysis : TplOrForm \cup {NoTpl}, delete : Tpl \cup {NoTpl}]
TplCalled == [op : {"list", "add", "save", "delete", "copy", "draft", "analyze"}, of : TplOrForm,
              text : TplOrForm, done : 0..3, rows : SUBSET Tpl]

\* A call about a template names one; the text of a save or of a draft is the named template's.
TplCallSound(c) ==
    /\ c \in TplCalled
    /\ c.op \in {"save", "delete", "copy"} => c.of \in Tpl
    /\ c.op \in {"save", "draft"} => c.text = c.of
TplTabSound(q) ==
    /\ q \in TplTab
    /\ q.editing # NoTpl => q.text = q.editing
TemplatesInv ==
    /\ trows \in [Tpl -> {"unused", "live", "deleted"}]
    /\ ttexts = [t \in Tpl |-> t]
    /\ TplTabSound(ttab)
    /\ \A c \in tcalls : TplCallSound(c)

\* The templates, 0 for the form of a new one, and NoTpl for none.
LEMMA TplNumbers ==
    /\ Tpl \subseteq TplOrForm /\ 0 \in TplOrForm /\ NoTpl \notin TplOrForm
    /\ \A t \in TplOrForm : t # 0 => t \in Tpl
    /\ 1 \in Tpl
BY TemplatesAssumption DEF Tpl, TplOrForm, NoTpl

LEMMA TemplatesStart == TemplatesInit => TemplatesInv
BY TplNumbers DEF TemplatesInit, TemplatesInv, TplTabClosed, TplTabSound, TplTab

\* The calls that are made.
LEMMA TplAsked ==
    ASSUME NEW op \in {"list", "add", "save", "delete", "copy", "draft", "analyze"},
           NEW of \in TplOrForm, NEW text \in TplOrForm,
           op \in {"save", "delete", "copy"} => of \in Tpl,
           op \in {"save", "draft"} => text = of
    PROVE  TplCallSound(TCall(op, of, text))
BY DEF TCall, TplCallSound, TplCalled

\* One step per action of TemplatesNext.
LEMMA TemplatesStep == TemplatesInv /\ [TemplatesNext]_tplVars => TemplatesInv'
<1> SUFFICES ASSUME TemplatesInv, [TemplatesNext]_tplVars PROVE TemplatesInv'
  OBVIOUS
<1> USE TplNumbers
<1>t. ttab \in TplTab /\ (ttab.editing # NoTpl => ttab.text = ttab.editing)
  BY DEF TemplatesInv, TplTabSound
<1>1. CASE UNCHANGED tplVars
  BY <1>1 DEF tplVars, TemplatesInv
\* The steps that only change the tab.
<1>2. ASSUME UNCHANGED <<trows, ttexts>>, tcalls' \subseteq tcalls, TplTabSound(ttab')
      PROVE  TemplatesInv'
  BY <1>2 DEF TemplatesInv
\* The steps that make a call.
<1>3. ASSUME UNCHANGED <<trows, ttexts>>, TplTabSound(ttab'), NEW c, TAsks(c), TplCallSound(c)
      PROVE  TemplatesInv'
  BY <1>3 DEF TemplatesInv, TAsks
<1>4. CASE OpenTemplates
  <2>1. TplTabSound([TplTabClosed EXCEPT !.open = TRUE])
    BY DEF TplTabSound, TplTab, TplTabClosed
  <2>2. TplCallSound(ListTpls)
    BY TplAsked DEF ListTpls
  <2> QED
    BY <1>3, <1>4, <2>1, <2>2 DEF OpenTemplates
<1>5. CASE LeaveTemplates
  <2>1. TplTabSound(TplTabClosed)
    BY DEF TplTabSound, TplTab, TplTabClosed
  <2>2. ASSUME NEW c \in tcalls' PROVE TplCallSound(c)
    <3>1. PICK d \in tcalls : c = [d EXCEPT !.done = 3]
      BY <1>5, <2>2 DEF LeaveTemplates
    <3>2. TplCallSound(d)
      BY DEF TemplatesInv
    <3> QED
      BY <3>1, <3>2 DEF TplCallSound, TplCalled
  <2> QED
    BY <1>5, <2>1, <2>2 DEF LeaveTemplates, TemplatesInv
<1>6. CASE NewTemplate \/ CloseEditor \/ TypeText \/ DraftMenu
  <2>1. TplTabSound(ttab')
    <3>1. CASE NewTemplate
      BY <3>1, <1>t DEF NewTemplate, TplTabSound, TplTab, ListUp, EditorUp
    <3>2. CASE CloseEditor
      BY <3>2, <1>t DEF CloseEditor, TplTabSound, TplTab, EditorUp
    <3>3. CASE TypeText
      BY <3>3, <1>t DEF TypeText, TplTabSound, TplTab, EditorUp
    <3>4. CASE DraftMenu
      BY <3>4, <1>t DEF DraftMenu, TplTabSound, TplTab, EditorUp
    <3> QED
      BY <1>6, <3>1, <3>2, <3>3, <3>4
  <2> QED
    BY <1>2, <1>6, <2>1 DEF NewTemplate, CloseEditor, TypeText, DraftMenu
<1>7. ASSUME NEW t \in Tpl, EditTemplate(t) PROVE TemplatesInv'
  <2>1. TplTabSound(Editing(t, ttexts[t]))
    BY <1>t DEF TplTabSound, TplTab, Editing, TemplatesInv
  <2> QED
    BY <1>2, <1>7, <2>1 DEF EditTemplate
<1>8. ASSUME NEW t \in Tpl, AskDeleteTemplate(t) PROVE TemplatesInv'
  <2>1. TplTabSound([ttab EXCEPT !.delete = t])
    BY <1>t DEF TplTabSound, TplTab
  <2> QED
    BY <1>2, <1>8, <2>1 DEF AskDeleteTemplate
<1>9. CASE SaveTemplate
  <2>1. TplCallSound(TCall("add", 0, 0))
    BY TplAsked
  <2>2. EditorUp => TplCallSound(TCall("save", ttab.editing, ttab.text))
    BY TplAsked, <1>t DEF EditorUp, TplTab
  <2> QED
    BY <1>3, <1>9, <2>1, <2>2 DEF SaveTemplate, TemplatesInv
<1>10. ASSUME NEW t \in Tpl, CopyTemplate(t) PROVE TemplatesInv'
  <2>1. TplCallSound(TCall("copy", t, ttexts[t]))
    BY TplAsked DEF TemplatesInv
  <2> QED
    BY <1>3, <1>10, <2>1 DEF CopyTemplate, TemplatesInv
<1>11. CASE ConfirmDeleteTemplate
  <2>1. TplCallSound(TCall("delete", ttab.delete, 0))
    BY TplAsked, <1>11, <1>t DEF ConfirmDeleteTemplate, TplTab
  <2> QED
    BY <1>3, <1>11, <2>1 DEF ConfirmDeleteTemplate, TemplatesInv
<1>12. CASE AutoDraft \/ AnalyzeTone
  <2>1. Edited \in TplOrForm
    BY <1>t DEF Edited, EditorUp, TplTab
  <2>2. TplCallSound(TCall("draft", Edited, Edited)) /\ TplCallSound(TCall("analyze", Edited, Edited))
    BY TplAsked, <2>1
  <2> QED
    BY <1>3, <1>12, <2>2 DEF AutoDraft, AnalyzeTone, TemplatesInv
<1>13. ASSUME NEW c \in tcalls, TplListServed(c) PROVE TemplatesInv'
  <2>1. TplCallSound(c) /\ Live \subseteq Tpl
    BY DEF TemplatesInv, Live
  <2> DEFINE d == [c EXCEPT !.done = 2, !.rows = Live]
  <2>2. c \in TplCalled /\ 2 \in 0..3 /\ Live \in SUBSET Tpl
    BY <2>1 DEF TplCallSound
  <2>3. d \in TplCalled /\ d.op = c.op /\ d.text = c.text /\ d.of = c.of
    BY <2>2 DEF TplCalled
  <2> HIDE DEF d
  <2>4. TplCallSound(d)
    BY <2>1, <2>3 DEF TplCallSound
  <2> QED
    BY <1>13, <2>4 DEF TplListServed, TStep, TemplatesInv, d
<1>14. ASSUME NEW c \in tcalls, TplWritten(c) PROVE TemplatesInv'
  <2>1. TplCallSound(c) /\ c.op \in TplWrites
    BY <1>14 DEF TemplatesInv, TplWritten
  <2>2. PICK t \in IF c.op \in {"add", "copy"} THEN NewTpl ELSE {c.of} :
         /\ trows' = CASE c.op \in {"add", "copy"} -> [trows EXCEPT ![t] = "live"]
                       [] c.op = "delete" -> [trows EXCEPT ![t] = "deleted"]
                       [] OTHER -> trows
         /\ ttexts' = IF c.op = "save" /\ trows[t] = "live" THEN [ttexts EXCEPT ![t] = c.text] ELSE ttexts
         /\ tcalls' = (tcalls \ {c}) \cup
               IF c.done = 3 THEN {} ELSE {[c EXCEPT !.done = 1, !.of = IF c.op = "copy" THEN t ELSE c.of]}
    BY <1>14, <2>1 DEF TplWritten, TplCallSound, TplCalled
  <2>3. t \in Tpl
    BY <2>1, <2>2 DEF NewTpl, TplCallSound, TplWrites
  <2>4. trows' \in [Tpl -> {"unused", "live", "deleted"}]
    <3>1. trows' = trows \/ \E w \in {"live", "deleted"} : trows' = [trows EXCEPT ![t] = w]
      <4>1. CASE c.op \in {"add", "copy"}
        BY <4>1, <2>2
      <4>2. CASE c.op = "delete"
        BY <4>2, <2>2
      <4>3. CASE c.op = "save"
        BY <4>3, <2>2
      <4> QED
        BY <2>1, <4>1, <4>2, <4>3 DEF TplWrites
    <3> QED
      BY <3>1, <2>3 DEF TemplatesInv
  <2>5. ttexts' = [u \in Tpl |-> u]
    <3>1. CASE c.op = "save"
      <4>1. c.text = t
        BY <3>1, <2>1, <2>2 DEF TplCallSound
      <4>2. [ttexts EXCEPT ![t] = t] = ttexts
        BY <2>3 DEF TemplatesInv
      <4> QED
        BY <2>2, <4>1, <4>2 DEF TemplatesInv
    <3>2. CASE c.op # "save"
      BY <3>2, <2>2 DEF TemplatesInv
    <3> QED
      BY <3>1, <3>2
  <2>6. TplCallSound([c EXCEPT !.done = 1, !.of = IF c.op = "copy" THEN t ELSE c.of])
    <3> DEFINE d == [c EXCEPT !.done = 1, !.of = IF c.op = "copy" THEN t ELSE c.of]
    <3>0. c \in TplCalled /\ 1 \in 0..3 /\ t \in TplOrForm
      BY <2>1, <2>3 DEF TplCallSound
    <3>1. d \in TplCalled /\ d.op = c.op /\ d.text = c.text /\ d.of = (IF c.op = "copy" THEN t ELSE c.of)
      BY <3>0 DEF TplCalled
    <3> HIDE DEF d
    <3>2. TplCallSound(d)
      BY <2>1, <2>3, <3>1 DEF TplCallSound
    <3> QED
      BY <3>2 DEF d
  <2>7. \A d \in tcalls' : TplCallSound(d)
    BY <2>2, <2>6 DEF TemplatesInv
  <2> QED
    BY <1>14, <2>4, <2>5, <2>7 DEF TplWritten, TemplatesInv
<1>15. ASSUME NEW c \in tcalls, TplListArrives(c) \/ CopyArrives(c) \/ DraftArrives(c) \/ AnalysisArrives(c) \/ TplFails(c)
       PROVE TemplatesInv'
  <2>1. TplCallSound(c)
    BY DEF TemplatesInv
  <2>2. UNCHANGED <<trows, ttexts>> /\ tcalls' \subseteq tcalls
    BY <1>15 DEF TplListArrives, CopyArrives, DraftArrives, AnalysisArrives, TplFails
  <2>3. CASE TplListArrives(c)
    <3>1. TplTabSound([ttab EXCEPT !.list = c.rows])
      BY <1>t, <2>1 DEF TplTabSound, TplTab, TplCallSound, TplCalled
    <3> QED
      BY <1>2, <2>2, <2>3, <3>1 DEF TplListArrives
  <2>4. CASE CopyArrives(c)
    <3>1. c.of \in Tpl /\ c.rows \subseteq Tpl
      BY <2>1, <2>4 DEF CopyArrives, TplCallSound, TplCalled
    <3>2. TplTabSound([Editing(c.of, c.of) EXCEPT !.list = c.rows])
      BY <1>t, <3>1 DEF TplTabSound, TplTab, Editing
    <3> QED
      BY <1>2, <2>2, <2>4, <3>2 DEF CopyArrives
  <2>5. CASE DraftArrives(c)
    <3>1. c.text = c.of /\ c.of \in TplOrForm
      BY <2>1, <2>5 DEF DraftArrives, TplCallSound, TplCalled
    <3>2. TplTabSound(DraftInto(c))
      <4>1. CASE c.of # 0
        BY <1>t, <3>1, <4>1 DEF TplTabSound, TplTab, DraftInto, Editing
      <4>2. CASE c.of = 0
        BY <1>t, <4>2 DEF TplTabSound, TplTab, DraftInto
      <4> QED
        BY <4>1, <4>2
    <3> QED
      BY <1>2, <2>2, <2>5, <3>2 DEF DraftArrives
  <2>6. CASE AnalysisArrives(c)
    <3>1. TplTabSound([ttab EXCEPT !.analysis = c.of])
      BY <1>t, <2>1 DEF TplTabSound, TplTab, TplCallSound, TplCalled
    <3> QED
      BY <1>2, <2>2, <2>6, <3>1 DEF AnalysisArrives
  <2>7. CASE TplFails(c)
    <3>1. TplTabSound(ttab) /\ TplTabSound([ttab EXCEPT !.delete = NoTpl])
      BY <1>t DEF TplTabSound, TplTab
    <3> QED
      BY <1>2, <2>2, <2>7, <3>1 DEF TplFails
  <2> QED
    BY <1>15, <2>3, <2>4, <2>5, <2>6, <2>7
<1>16. ASSUME NEW c \in tcalls, TplWriteArrives(c) PROVE TemplatesInv'
  <2>1. TplTabSound(ttab')
    <3>1. CASE c.op = "add"
      BY <1>16, <3>1, <1>t DEF TplWriteArrives, TplTabSound, TplTab
    <3>2. CASE c.op = "save"
      BY <1>16, <3>2, <1>t DEF TplWriteArrives, TplTabSound, TplTab
    <3>3. CASE c.op = "delete"
      BY <1>16, <3>3, <1>t DEF TplWriteArrives, TplTabSound, TplTab
    <3> QED
      BY <1>16, <3>1, <3>2, <3>3 DEF TplWriteArrives
  <2>2. TplCallSound(ListTpls)
    BY TplAsked DEF ListTpls
  <2> QED
    BY <1>16, <2>1, <2>2 DEF TplWriteArrives, TStep, TemplatesInv
<1> QED
  BY <1>1, <1>4, <1>5, <1>6, <1>7, <1>8, <1>9, <1>10, <1>11, <1>12, <1>13, <1>14, <1>15, <1>16
     DEF TemplatesNext

\* For any number of templates and of calls on their way: the text that is stored,
\* edited or on its way to be saved is the one of the template it stands under
\* (TemplatesTab.jsx).
THEOREM TextsStayUnderTheirOwn == TemplatesSpec => []TextUnderItsOwn
<1>1. TemplatesInv => TextUnderItsOwn
  BY DEF TemplatesInv, TextUnderItsOwn, EditorUp, TplTabSound, TplCallSound
<1> QED
  BY TemplatesStart, TemplatesStep, <1>1, PTL DEF TemplatesSpec

LEMMA TemplatesTyped == TemplatesInv => TemplatesTypeOK
<1> SUFFICES ASSUME TemplatesInv PROVE TemplatesTypeOK
  OBVIOUS
<1>1. ttexts \in [Tpl -> TplOrForm]
  BY TplNumbers DEF TemplatesInv
<1>2. tcalls \subseteq TplCalled /\ ttab \in TplTab
  BY DEF TemplatesInv, TplCallSound, TplTabSound
<1> QED
  BY <1>1, <1>2 DEF TemplatesInv, TemplatesTypeOK, TplTab, TplCalled

\* The rows, the tab and the calls keep their types.
THEOREM TemplatesTypes == TemplatesSpec => []TemplatesTypeOK
BY TemplatesStart, TemplatesStep, TemplatesTyped, PTL DEF TemplatesSpec

-----------------------------------------------------------------------------
(**************************************************************************)
(* The platform administrator's page. A key that was typed is sent once:   *)
(* the form forgets it by the answer, before it can be saved again.        *)
(**************************************************************************)

PlatPage == [at : {"away", "in"}, tab : PlatTab, loading : BOOLEAN, rows : BOOLEAN,
             open : Org \cup {"none"}, cached : SUBSET Org, spins : Org \cup {"none"}]
KeyForm == [at : {"away", "loading", "form", "error"}, key : 0..MaxKey, saving : BOOLEAN]
PlatCalled == [op : {"load", "detail", "providers", "save"}, org : Org \cup {"none"},
               key : 0..MaxKey, done : BOOLEAN, here : BOOLEAN]

\* A key that the form would send has not been sent, and neither has one that is
\* still to be typed.
KeysInv ==
    /\ keyForm \in KeyForm /\ typedKeys \in 0..MaxKey
    /\ keySends \in [1..MaxKey -> {0, 1}]
    /\ \A k \in 1..MaxKey : k > typedKeys => keySends[k] = 0
    /\ keyForm.key <= typedKeys
    /\ keyForm.at = "form" /\ ~keyForm.saving /\ keyForm.key # 0 => keySends[keyForm.key] = 0

LEMMA KeysInit == PlatInit => KeysInv
BY PlatAssumption DEF PlatInit, KeysInv, FormAway, KeyForm

\* One step per action that touches the form; the others keep it.
LEMMA KeysStep == KeysInv /\ [PlatNext]_platVars => KeysInv'
<1> SUFFICES ASSUME KeysInv, [PlatNext]_platVars PROVE KeysInv'
  OBVIOUS
<1> USE PlatAssumption
<1>1. ASSUME UNCHANGED <<typedKeys, keySends>>,
             keyForm' \in KeyForm, keyForm'.key \in {0, keyForm.key},
             keyForm'.at = "form" /\ ~keyForm'.saving => keyForm' = keyForm \/ keyForm'.key = 0
      PROVE  KeysInv'
  BY <1>1 DEF KeysInv, KeyForm
<1>z. 0 \in 0..MaxKey
  BY PlatAssumption
<1>f. /\ FormAway \in KeyForm /\ [FormAway EXCEPT !.at = "loading"] \in KeyForm
      /\ FormAway.key = 0 /\ [FormAway EXCEPT !.at = "loading"].key = 0
  BY <1>z DEF FormAway, KeyForm
<1>2. CASE UNCHANGED platVars
  BY <1>2, <1>1 DEF platVars, KeysInv
<1>3. CASE \/ EnterPlatform \/ RefreshPlatform \/ CloseOrg \/ \E o \in Org : OpenOrg(o)
           \/ \E c \in platCalls, ok \in BOOLEAN : OrgArrives(c, ok) \/ PlatformArrives(c, ok)
           \/ \E c \in platCalls : ProvidersStored(c)
  <2>1. UNCHANGED <<keyForm, typedKeys, keySends>>
    BY <1>3 DEF EnterPlatform, RefreshPlatform, CloseOrg, OpenOrg, OrgArrives, PlatformArrives, ProvidersStored
  <2> QED
    BY <1>1, <2>1 DEF KeysInv
<1>4. CASE SignOutOfPlatform \/ \E t \in PlatTab : PickPlatTab(t)
  <2>1. /\ keyForm' = FormAway \/ keyForm' = [FormAway EXCEPT !.at = "loading"]
        /\ UNCHANGED <<typedKeys, keySends>>
    BY <1>4 DEF SignOutOfPlatform, PickPlatTab
  <2> QED
    BY <1>1, <1>f, <2>1
<1>5. CASE TypeKey
  <2>1. /\ typedKeys' = typedKeys + 1 /\ typedKeys < MaxKey /\ UNCHANGED keySends
        /\ keyForm' = [keyForm EXCEPT !.key = typedKeys + 1]
    BY <1>5 DEF TypeKey
  <2>2. typedKeys + 1 \in 1..MaxKey /\ keySends[typedKeys + 1] = 0
    BY <2>1 DEF KeysInv
  <2>3. keyForm' \in KeyForm /\ keyForm'.key = typedKeys + 1
    BY <2>1, <2>2 DEF KeysInv, KeyForm
  <2> QED
    BY <2>1, <2>2, <2>3 DEF KeysInv
<1>6. CASE SaveProviders
  <2>1. /\ keyForm.at = "form" /\ ~keyForm.saving /\ UNCHANGED typedKeys
        /\ keyForm' = [keyForm EXCEPT !.saving = TRUE]
        /\ keySends' = [k \in 1..MaxKey |-> keySends[k] + (IF k = keyForm.key THEN 1 ELSE 0)]
    BY <1>6 DEF SaveProviders
  <2>2. keyForm' \in KeyForm /\ keyForm'.key = keyForm.key /\ keyForm'.saving
    BY <2>1 DEF KeysInv, KeyForm
  <2>3. keyForm.key \in 0..MaxKey
    BY DEF KeysInv, KeyForm
  <2>4. \A k \in 1..MaxKey : keySends[k] + (IF k = keyForm.key THEN 1 ELSE 0) \in {0, 1}
    BY <2>1, <2>3 DEF KeysInv
  <2>5. \A k \in 1..MaxKey : k > typedKeys => keySends'[k] = 0
    BY <2>1, <2>3 DEF KeysInv
  <2> QED
    BY <2>1, <2>2, <2>4, <2>5 DEF KeysInv
<1>7. ASSUME NEW c \in platCalls, ProvidersSaved(c) \/ ProvidersArrive(c) PROVE KeysInv'
  <2>1. keyForm' \in KeyForm /\ keyForm'.key = 0 /\ UNCHANGED <<typedKeys, keySends>>
    BY <1>7, <1>z DEF ProvidersSaved, ProvidersArrive, FormSaved, KeysInv, KeyForm
  <2> QED
    BY <1>1, <2>1
<1>8. ASSUME NEW c \in platCalls, ProvidersFail(c) PROVE KeysInv'
  <2>1. /\ keyForm' \in KeyForm /\ keyForm'.key = keyForm.key /\ keyForm'.at = "error"
        /\ UNCHANGED <<typedKeys, keySends>>
    BY <1>8 DEF ProvidersFail, KeysInv, KeyForm
  <2> QED
    BY <1>1, <2>1
<1> QED
  BY <1>2, <1>3, <1>4, <1>5, <1>6, <1>7, <1>8 DEF PlatNext

\* For any number of keys and of calls on their way: a key is sent in one save at most,
\* since the form that is open again holds none that was sent (ProvidersTab.jsx,
\* handleSave).
THEOREM EachKeyIsSentOnce == PlatSpec => []KeysSentOnce
<1>1. KeysInv => KeysSentOnce
  BY DEF KeysInv, KeysSentOnce
<1> QED
  BY KeysInit, KeysStep, <1>1, PTL DEF PlatSpec


\* The page's record and the calls, for the types.
\* A call for details is a call for the details of an organisation.
Called(c) == c \in PlatCalled /\ (c.op = "detail" => c.org \in Org)
DeskKept ==
    /\ plat \in PlatPage /\ storedKey \in 0..MaxKey
    /\ \A c \in platCalls : Called(c)

LEMMA DeskKeptInit == PlatInit => DeskKept
<1>1. 0 \in 0..MaxKey
  BY PlatAssumption
<1> QED
  BY <1>1 DEF PlatInit, DeskKept, PlatAway, PlatPage, PlatTab

LEMMA PlatCalls ==
    ASSUME NEW op \in {"load", "detail", "providers", "save"}, NEW o \in Org \cup {"none"}, NEW k \in 0..MaxKey
    PROVE  PlatCall(op, o, k) \in PlatCalled /\ PlatCall(op, o, k).op = op /\ PlatCall(op, o, k).org = o
BY DEF PlatCall, PlatCalled

\* What a page that goes away leaves of the calls, and of itself.
LEMMA CallsLeft ==
    ASSUME \A c \in platCalls : Called(c)
    PROVE  /\ \A c \in WithoutForm(platCalls) : Called(c)
           /\ \A c \in WithoutTable(platCalls) : Called(c)
           /\ \A c \in WithoutTable(WithoutForm(platCalls)) : Called(c)
<1>1. ASSUME NEW d \in platCalls PROVE Called([d EXCEPT !.here = FALSE])
  BY DEF Called, PlatCalled
<1>2. \A c \in WithoutForm(platCalls) : Called(c)
  BY <1>1 DEF WithoutForm
<1> HIDE DEF WithoutForm
<1> QED
  BY <1>2 DEF WithoutTable

LEMMA Pages ==
    ASSUME plat \in PlatPage
    PROVE  /\ PlatAway \in PlatPage /\ [PlatAway EXCEPT !.at = "in"] \in PlatPage
           /\ NoTable(plat) \in PlatPage
BY DEF NoTable, PlatAway, PlatPage, PlatTab

\* One step per action of PlatNext.
LEMMA DeskKeptStep == KeysInv /\ DeskKept /\ [PlatNext]_platVars => DeskKept'
<1> SUFFICES ASSUME KeysInv, DeskKept, [PlatNext]_platVars PROVE DeskKept'
  OBVIOUS
<1> DEFINE Sound(calls) == \A c \in calls : Called(c)
<1>z. 0 \in 0..MaxKey /\ keyForm.key \in 0..MaxKey
  BY PlatAssumption DEF KeysInv, KeyForm
<1>p. plat \in PlatPage /\ storedKey \in 0..MaxKey /\ Sound(platCalls)
  BY DEF DeskKept
<1>1. ASSUME UNCHANGED storedKey, plat' \in PlatPage, Sound(platCalls') PROVE DeskKept'
  BY <1>1, <1>p DEF DeskKept
<1>2. ASSUME NEW calls, Sound(calls), NEW c, Called(c), PlatAsks(calls, c) PROVE Sound(platCalls')
  BY <1>2 DEF PlatAsks
<1>l. Called(LoadAll)
  BY <1>z, PlatCalls DEF LoadAll, Called
<1> HIDE DEF Sound
<1>3. CASE UNCHANGED platVars
  BY <1>3, <1>1, <1>p DEF platVars
<1>4. CASE EnterPlatform
  BY <1>4, <1>1, <1>2, <1>p, <1>l, Pages DEF EnterPlatform
<1>5. CASE SignOutOfPlatform
  <2>1. Sound(platCalls')
    BY <1>5, <1>p, CallsLeft DEF SignOutOfPlatform, Sound
  <2> QED
    BY <1>5, <1>1, <1>p, <2>1, Pages DEF SignOutOfPlatform
<1>6. CASE RefreshPlatform
  <2>1. Sound(IF plat.tab = "orgs" THEN WithoutTable(platCalls) ELSE platCalls)
    BY <1>p, CallsLeft DEF Sound
  <2>2. Sound(platCalls')
    BY <1>6, <1>2, <1>l, <2>1 DEF RefreshPlatform
  <2>3. (IF plat.tab = "orgs" THEN NoTable(plat) ELSE plat) \in PlatPage
    BY <1>p, Pages
  <2>4. plat' \in PlatPage
    BY <1>6, <2>3 DEF RefreshPlatform, PlatPage
  <2> QED
    BY <1>6, <1>1, <2>2, <2>4 DEF RefreshPlatform
<1>7. ASSUME NEW t \in PlatTab, PickPlatTab(t) PROVE DeskKept'
  <2> DEFINE left == WithoutTable(IF plat.tab = "providers" THEN WithoutForm(platCalls) ELSE platCalls)
  <2>1. Sound(left)
    BY <1>p, CallsLeft DEF Sound
  <2>2. Called(PlatCall("providers", "none", 0))
    BY <1>z, PlatCalls DEF Called
  <2>3. IF t = "providers" THEN PlatAsks(left, PlatCall("providers", "none", 0)) ELSE platCalls' = left
    BY <1>7 DEF PickPlatTab
  <2> HIDE DEF left
  <2>4. Sound(platCalls')
    BY <1>2, <2>1, <2>2, <2>3
  <2>5. [NoTable(plat) EXCEPT !.tab = t] \in PlatPage
    BY <1>p, Pages DEF PlatPage
  <2> QED
    BY <1>7, <1>1, <2>4, <2>5 DEF PickPlatTab
<1>8. ASSUME NEW o \in Org, OpenOrg(o) PROVE DeskKept'
  <2>1. [plat EXCEPT !.open = o] \in PlatPage /\ [plat EXCEPT !.open = o, !.spins = o] \in PlatPage
    BY <1>p DEF PlatPage
  <2>2. 1 \in 0..MaxKey
    BY PlatAssumption
  <2>3. Called(DetailCall(o))
    BY <1>z, <2>2, PlatCalls DEF DetailCall, Called
  <2> QED
    BY <1>8, <1>1, <1>2, <1>p, <2>1, <2>3 DEF OpenOrg
<1>9. CASE CloseOrg
  <2>1. [plat EXCEPT !.open = "none"] \in PlatPage
    BY <1>p DEF PlatPage
  <2> QED
    BY <1>9, <1>1, <1>p, <2>1 DEF CloseOrg
<1>10. CASE TypeKey
  BY <1>10, <1>1, <1>p DEF TypeKey
<1>11. CASE SaveProviders
  <2>1. Called(PlatCall("save", "none", keyForm.key))
    BY <1>z, PlatCalls DEF Called
  <2> QED
    BY <1>11, <1>1, <1>2, <1>p, <2>1 DEF SaveProviders
<1>12. ASSUME NEW c \in platCalls, NEW ok \in BOOLEAN, OrgArrives(c, ok) \/ PlatformArrives(c, ok) PROVE DeskKept'
  <2>1. Sound(platCalls') /\ UNCHANGED storedKey
    BY <1>12, <1>p DEF OrgArrives, PlatformArrives, Sound
  <2>2. CASE OrgArrives(c, ok)
    <3> DEFINE kept == IF ok THEN plat.cached \cup {c.org} ELSE plat.cached
    <3>2. plat' = [plat EXCEPT !.cached = kept, !.spins = "none"]
      BY <2>2 DEF OrgArrives
    <3>3. c.org \in Org
      BY <2>2, <1>p DEF OrgArrives, Sound, Called
    <3>4. kept \in SUBSET Org
      BY <1>p, <3>3 DEF PlatPage
    <3> HIDE DEF kept
    <3>5. plat' \in PlatPage
      BY <1>p, <3>2, <3>4 DEF PlatPage
    <3> QED
      BY <1>1, <2>1, <3>5
  <2>3. CASE PlatformArrives(c, ok)
    BY <2>3, <1>1, <1>p, <2>1 DEF PlatformArrives, PlatPage
  <2> QED
    BY <1>12, <2>2, <2>3
<1>13. ASSUME NEW c \in platCalls, ProvidersStored(c) PROVE DeskKept'
  <2>1. Called([c EXCEPT !.done = TRUE]) /\ c.key \in 0..MaxKey
    BY <1>p DEF Sound, Called, PlatCalled
  <2>2. Sound(platCalls')
    BY <1>13, <1>p, <2>1 DEF ProvidersStored, Sound
  <2> QED
    BY <1>13, <1>p, <2>1, <2>2 DEF ProvidersStored, DeskKept, Sound
<1>14. ASSUME NEW c \in platCalls, ProvidersSaved(c) \/ ProvidersArrive(c) \/ ProvidersFail(c) PROVE DeskKept'
  <2>1. Sound(platCalls') /\ UNCHANGED <<storedKey, plat>>
    BY <1>14, <1>p DEF ProvidersSaved, ProvidersArrive, ProvidersFail, Sound
  <2> QED
    BY <1>1, <1>p, <2>1
<1> QED
  BY <1>3, <1>4, <1>5, <1>6, <1>7, <1>8, <1>9, <1>10, <1>11, <1>12, <1>13, <1>14 DEF PlatNext

LEMMA PlatTyped == KeysInv /\ DeskKept => PlatTypeOK
<1> SUFFICES ASSUME KeysInv, DeskKept PROVE PlatTypeOK
  OBVIOUS
<1>1. keySends \in [1..MaxKey -> Nat]
  BY DEF KeysInv
<1> QED
  BY <1>1 DEF KeysInv, DeskKept, Called, PlatTypeOK, PlatPage, KeyForm, PlatCalled

\* The page, the form, the keys and the calls keep their types.
THEOREM PlatTypes == PlatSpec => []PlatTypeOK
BY KeysInit, KeysStep, DeskKeptInit, DeskKeptStep, PlatTyped, PTL DEF PlatSpec

-----------------------------------------------------------------------------
(**************************************************************************)
(* The questions. A row that is dropped lands where it is seen to land.    *)
(* The list that is shown is the rows of the whole list that pass the      *)
(* filter, and a drop moves one row of the whole list: the places of the   *)
(* others, in the whole list and among those shown, are a permutation that *)
(* keeps their order.                                                      *)
(**************************************************************************)

\* Of a finite set of places each is known by its number among them, and there is
\* one for each number: the numbers are an injection between sets of one size.
LEMMA PlaceNumbers ==
    ASSUME NEW n \in Nat, NEW I \in SUBSET (1..n)
    PROVE  /\ IsFiniteSet(I) /\ Cardinality(I) \in Nat
           /\ \A i \in I : PlaceAmong(I, i) \in 1..Cardinality(I)
           /\ \A i, j \in I : i < j => PlaceAmong(I, i) < PlaceAmong(I, j)
           /\ \A i, j \in I : PlaceAmong(I, i) = PlaceAmong(I, j) => i = j
           /\ \A k \in 1..Cardinality(I) : \E i \in I : PlaceAmong(I, i) = k
<1> DEFINE Upto(i) == {j \in I : j <= i}
           N == Cardinality(I)
<1>1. IsFiniteSet(I) /\ N \in Nat
  <2>1. IsFiniteSet(1..n)
    BY FS_Interval
  <2> QED
    BY <2>1, FS_Subset, FS_CardinalityType
<1>2. ASSUME NEW i \in I
      PROVE  IsFiniteSet(Upto(i)) /\ Cardinality(Upto(i)) \in 1..N
  <2>1. Upto(i) \in SUBSET I /\ {i} \in SUBSET Upto(i)
    BY <1>2
  <2>2. IsFiniteSet(Upto(i)) /\ Cardinality(Upto(i)) <= N
    BY <1>1, <2>1, FS_Subset
  <2>3. Cardinality({i}) <= Cardinality(Upto(i)) /\ Cardinality({i}) = 1
    BY <2>1, <2>2, FS_Subset, FS_Singleton
  <2>4. Cardinality(Upto(i)) \in Nat
    BY <2>2, FS_CardinalityType
  <2> QED
    BY <1>1, <2>2, <2>3, <2>4
<1>3. ASSUME NEW i \in I, NEW j \in I, i < j
      PROVE  Cardinality(Upto(i)) < Cardinality(Upto(j))
  <2>1. Upto(i) \in SUBSET Upto(j) /\ j \in Upto(j) /\ j \notin Upto(i)
    <3>1. i \in Nat /\ j \in Nat /\ \A x \in I : x \in Nat
      OBVIOUS
    <3>2. \A x \in I : x <= i => x <= j
      BY <1>3, <3>1
    <3>3. j <= j /\ ~(j <= i)
      BY <1>3, <3>1
    <3> QED
      BY <3>2, <3>3
  <2>2. Upto(i) # Upto(j)
    BY <2>1
  <2>3. /\ Cardinality(Upto(i)) <= Cardinality(Upto(j))
        /\ Cardinality(Upto(i)) # Cardinality(Upto(j))
    BY <1>2, <2>1, <2>2, FS_Subset
  <2> QED
    BY <1>2, <2>3
<1>4. ASSUME NEW i \in I, NEW j \in I, Cardinality(Upto(i)) = Cardinality(Upto(j)) PROVE i = j
  <2>1. i < j \/ j < i \/ i = j
    OBVIOUS
  <2>2. Cardinality(Upto(i)) \in Nat
    BY <1>2
  <2> QED
    BY <1>3, <1>4, <2>1, <2>2
<1>5. ASSUME NEW k \in 1..N PROVE \E i \in I : Cardinality(Upto(i)) = k
  <2> DEFINE f == [i \in I |-> Cardinality(Upto(i))]
  <2> HIDE DEF Upto, N
  <2>1. f \in [I -> 1..N]
    BY <1>2
  <2>2. \A a, b \in I : f[a] = f[b] => a = b
    BY <1>4
  <2>3. f \in Injection(I, 1..N)
    BY <2>1, <2>2 DEF Injection, IsInjective
  <2>4. IsFiniteSet(1..N) /\ Cardinality(1..N) = N
    BY <1>1, FS_Interval
  <2>5. f \in Surjection(I, 1..N)
    BY <2>3, <2>4, FS_Injection DEF N
  <2>6. \E i \in I : f[i] = k
    BY <2>5 DEF Surjection
  <2> QED
    BY <2>6
<1> HIDE DEF N
<1> QED
  BY <1>1, <1>2, <1>3, <1>4, <1>5 DEF PlaceAmong, N

\* The community module's operators on a sequence, place by place.
LEMMA RemovedAt ==
    ASSUME NEW S, NEW s \in Seq(S), NEW p \in 1..Len(s)
    PROVE  /\ RemoveAt(s, p) \in Seq(S) /\ Len(RemoveAt(s, p)) = Len(s) - 1
           /\ \A i \in 1..Len(s) - 1 : RemoveAt(s, p)[i] = IF i < p THEN s[i] ELSE s[i + 1]
<1> DEFINE a == SubSeq(s, 1, p - 1)
           b == SubSeq(s, p + 1, Len(s))
<1>1. Len(s) \in Nat /\ \A i \in 1..Len(s) : s[i] \in S
  BY LenProperties, ElementOfSeq
<1>2. a \in Seq(S) /\ Len(a) = p - 1 /\ \A i \in 1..p - 1 : a[i] = s[i]
  BY <1>1, SubSeqProperties
<1>3. b \in Seq(S) /\ Len(b) = Len(s) - p /\ \A i \in 1..Len(s) - p : b[i] = s[p + i]
  BY <1>1, SubSeqProperties
<1>4. RemoveAt(s, p) = a \o b
  BY DEF RemoveAt
<1> HIDE DEF a, b
<1>5. /\ a \o b \in Seq(S) /\ Len(a \o b) = Len(s) - 1
      /\ \A i \in 1..Len(s) - 1 : (a \o b)[i] = IF i <= p - 1 THEN a[i] ELSE b[i - (p - 1)]
  BY <1>1, <1>2, <1>3, ConcatProperties
<1>6. ASSUME NEW i \in 1..Len(s) - 1 PROVE RemoveAt(s, p)[i] = IF i < p THEN s[i] ELSE s[i + 1]
  <2>1. CASE i < p
    BY <1>1, <1>2, <1>4, <1>5, <2>1
  <2>2. CASE ~(i < p)
    <3>1. i - (p - 1) \in 1..Len(s) - p /\ p + (i - (p - 1)) = i + 1 /\ ~(i <= p - 1)
      BY <1>1, <2>2
    <3> QED
      BY <1>3, <1>4, <1>5, <2>2, <3>1
  <2> QED
    BY <2>1, <2>2
<1> QED
  BY <1>4, <1>5, <1>6

LEMMA InsertedAt ==
    ASSUME NEW S, NEW s \in Seq(S), NEW e \in S, NEW p \in 1..Len(s) + 1
    PROVE  /\ InsertAt(s, p, e) \in Seq(S) /\ Len(InsertAt(s, p, e)) = Len(s) + 1
           /\ \A i \in 1..Len(s) + 1 :
                InsertAt(s, p, e)[i] = IF i < p THEN s[i] ELSE IF i = p THEN e ELSE s[i - 1]
<1> DEFINE a == SubSeq(s, 1, p - 1)
           b == SubSeq(s, p, Len(s))
           m == a \o <<e>>
<1>1. Len(s) \in Nat /\ \A i \in 1..Len(s) : s[i] \in S
  BY LenProperties, ElementOfSeq
<1>2. a \in Seq(S) /\ Len(a) = p - 1 /\ \A i \in 1..p - 1 : a[i] = s[i]
  BY <1>1, SubSeqProperties
<1>3. b \in Seq(S) /\ Len(b) = Len(s) - p + 1 /\ \A i \in 1..Len(s) - p + 1 : b[i] = s[p + i - 1]
  BY <1>1, SubSeqProperties
<1>4. InsertAt(s, p, e) = m \o b
  BY DEF InsertAt
<1>5. <<e>> \in Seq(S) /\ Len(<<e>>) = 1 /\ <<e>>[1] = e
  OBVIOUS
<1> HIDE DEF a, b
<1>6. /\ m \in Seq(S) /\ Len(m) = p
      /\ \A i \in 1..p : m[i] = IF i <= p - 1 THEN a[i] ELSE <<e>>[i - (p - 1)]
  BY <1>1, <1>2, <1>5, ConcatProperties
<1> HIDE DEF m
<1>7. /\ m \o b \in Seq(S) /\ Len(m \o b) = Len(s) + 1
      /\ \A i \in 1..Len(s) + 1 : (m \o b)[i] = IF i <= p THEN m[i] ELSE b[i - p]
  BY <1>1, <1>3, <1>6, ConcatProperties
<1>8. ASSUME NEW i \in 1..Len(s) + 1
      PROVE  InsertAt(s, p, e)[i] = IF i < p THEN s[i] ELSE IF i = p THEN e ELSE s[i - 1]
  <2>1. CASE i < p
    BY <1>1, <1>2, <1>4, <1>6, <1>7, <2>1
  <2>2. CASE i = p
    <3>1. i - (p - 1) = 1 /\ ~(i <= p - 1) /\ i \in 1..p
      BY <1>1, <2>2
    <3> QED
      BY <1>4, <1>5, <1>6, <1>7, <2>2, <3>1
  <2>3. CASE i > p
    <3>1. i - p \in 1..Len(s) - p + 1 /\ p + (i - p) - 1 = i - 1 /\ ~(i <= p)
      BY <1>1, <2>3
    <3> QED
      BY <1>3, <1>4, <1>7, <2>3, <3>1
  <2> QED
    BY <1>1, <2>1, <2>2, <2>3
<1> QED
  BY <1>4, <1>7, <1>8

\* Where the i-th place of the new list was in the old one, when place p goes to
\* place t; and the way back.
MovedPlace(p, t, i) == IF i = t THEN p
                  ELSE IF p < t THEN (IF i < p \/ i > t THEN i ELSE i + 1)
                  ELSE IF i < t \/ i > p THEN i ELSE i - 1

LEMMA MovedPlaces ==
    ASSUME NEW n \in Nat, NEW p \in 1..n, NEW t \in 1..n, p # t
    PROVE  /\ \A i \in 1..n : MovedPlace(p, t, i) \in 1..n /\ (MovedPlace(p, t, i) = p <=> i = t)
           /\ \A i \in 1..n : MovedPlace(t, p, MovedPlace(p, t, i)) = i
           /\ \A i, j \in 1..n : i < j /\ i # t /\ j # t => MovedPlace(p, t, i) < MovedPlace(p, t, j)
           /\ p < t => \A i \in 1..n : i <= t <=> MovedPlace(p, t, i) <= t
           /\ t < p => \A i \in 1..n : i < t => MovedPlace(p, t, i) = i
           /\ t < p => \A i \in 1..n : i <= t => MovedPlace(p, t, i) # t
  BY DEF MovedPlace

\* The place of the k-th row that is shown.
LEMMA ShownAt ==
    ASSUME NEW list \in Seq(Question)
    PROVE  /\ ShownPlaces(list) \in SUBSET (1..Len(list)) /\ Len(list) \in Nat
           /\ DOMAIN Filtered(list) = 1..Cardinality(ShownPlaces(list))
           /\ \A k \in DOMAIN Filtered(list) : \E i \in ShownPlaces(list) :
                PlaceAmong(ShownPlaces(list), i) = k /\ Filtered(list)[k] = list[i]
           /\ \A i \in ShownPlaces(list) :
                /\ PlaceAmong(ShownPlaces(list), i) \in DOMAIN Filtered(list)
                /\ Filtered(list)[PlaceAmong(ShownPlaces(list), i)] = list[i]
<1> DEFINE I == ShownPlaces(list)
           at(k) == CHOOSE i \in I : PlaceAmong(I, i) = k
<1>1. I \in SUBSET (1..Len(list)) /\ Len(list) \in Nat
  BY LenProperties DEF ShownPlaces
<1>2. Filtered(list) = [k \in 1..Cardinality(I) |-> list[at(k)]]
  BY DEF Filtered
<1> HIDE DEF I
<1>3. /\ \A i \in I : PlaceAmong(I, i) \in 1..Cardinality(I)
      /\ \A i, j \in I : PlaceAmong(I, i) = PlaceAmong(I, j) => i = j
      /\ \A k \in 1..Cardinality(I) : \E i \in I : PlaceAmong(I, i) = k
  BY <1>1, PlaceNumbers
<1>4. ASSUME NEW k \in 1..Cardinality(I) PROVE at(k) \in I /\ PlaceAmong(I, at(k)) = k
  BY <1>3
<1> HIDE DEF at
<1>5. ASSUME NEW i \in I PROVE at(PlaceAmong(I, i)) = i
  BY <1>3, <1>4
<1> QED
  <2>1. DOMAIN Filtered(list) = 1..Cardinality(I)
    BY <1>2
  <2>2. ASSUME NEW k \in 1..Cardinality(I)
        PROVE  \E i \in I : PlaceAmong(I, i) = k /\ Filtered(list)[k] = list[i]
    BY <1>2, <1>4
  <2>3. ASSUME NEW i \in I
        PROVE  /\ PlaceAmong(I, i) \in 1..Cardinality(I)
               /\ Filtered(list)[PlaceAmong(I, i)] = list[i]
    BY <1>2, <1>3, <1>5
  <2> QED
    BY <1>1, <2>1, <2>2, <2>3 DEF I

\* A drop moves one place of the whole list and nothing else.
LEMMA DroppedList ==
    ASSUME NEW list \in Seq(Question), IsInjective(list),
           NEW from \in DOMAIN Filtered(list), NEW to \in DOMAIN Filtered(list), from # to
    PROVE  \E p, t \in ShownPlaces(list) :
             /\ p # t /\ (p < t <=> from < to)
             /\ PlaceAmong(ShownPlaces(list), t) = to /\ Filtered(list)[from] = list[p]
             /\ AfterDrop(list, from, to) \in Seq(Question)
             /\ Len(AfterDrop(list, from, to)) = Len(list)
             /\ \A i \in 1..Len(list) : AfterDrop(list, from, to)[i] = list[MovedPlace(p, t, i)]
<1> DEFINE I == ShownPlaces(list)
           n == Len(list)
<1>1. I \in SUBSET (1..n) /\ n \in Nat /\ DOMAIN list = 1..n /\ \A i \in 1..n : list[i] \in Question
  BY ShownAt, LenProperties, ElementOfSeq
<1>2. PICK p \in I : PlaceAmong(I, p) = from /\ Filtered(list)[from] = list[p]
  BY ShownAt
<1>3. PICK t \in I : PlaceAmong(I, t) = to /\ Filtered(list)[to] = list[t]
  BY ShownAt
<1>4. \A i, j \in 1..n : list[i] = list[j] => i = j
  BY <1>1 DEF IsInjective
<1>5. p \in 1..n /\ t \in 1..n /\ p # t
  BY <1>1, <1>2, <1>3
<1>6. p < t <=> from < to
  <2>1. \A i, j \in I : i < j => PlaceAmong(I, i) < PlaceAmong(I, j)
    BY <1>1, PlaceNumbers
  <2>2. \A i \in I : PlaceAmong(I, i) \in Nat
    <3>1. Cardinality(I) \in Nat /\ \A i \in I : PlaceAmong(I, i) \in 1..Cardinality(I)
      BY <1>1, PlaceNumbers
    <3> HIDE DEF I
    <3> QED
      BY <3>1
  <2>3. p < t => from < to
    BY <1>2, <1>3, <2>1
  <2>4. t < p => to < from
    BY <1>2, <1>3, <2>1
  <2>5. from \in Nat /\ to \in Nat
    BY <1>2, <1>3, <2>2
  <2> QED
    BY <1>5, <2>3, <2>4, <2>5
<1> HIDE DEF I
<1> DEFINE item == Filtered(list)[from]
           target == Filtered(list)[to]
           rest == RemoveAt(list, p)
           u == IF p < t THEN t - 1 ELSE t
           new == InsertAt(rest, t, item)
<1>7. (CHOOSE i \in DOMAIN list : list[i] = item) = p
  BY <1>1, <1>2, <1>4, <1>5
<1>8. /\ rest \in Seq(Question) /\ Len(rest) = n - 1
      /\ \A i \in 1..n - 1 : rest[i] = IF i < p THEN list[i] ELSE list[i + 1]
  BY <1>5, RemovedAt
<1> HIDE DEF rest
<1>9. DOMAIN rest = 1..n - 1
  BY <1>8, LenProperties
<1>10. u \in 1..n - 1 /\ (IF from < to THEN u + 1 ELSE u) = t
  BY <1>1, <1>5, <1>6
<1>11. (CHOOSE i \in DOMAIN rest : rest[i] = target) = u
  <2>1. rest[u] = target
    <3>1. CASE p < t
      BY <1>1, <1>3, <1>5, <1>8, <1>10, <3>1
    <3>2. CASE ~(p < t)
      BY <1>1, <1>3, <1>5, <1>8, <1>10, <3>2
    <3> QED
      BY <3>1, <3>2
  <2>2. ASSUME NEW i \in 1..n - 1, rest[i] = target PROVE i = u
    <3>1. CASE i < p
      <4>1. list[i] = list[t] /\ i \in 1..n
        BY <1>1, <1>3, <1>5, <1>8, <2>2, <3>1
      <4>2. i = t
        BY <1>4, <1>5, <4>1
      <4> QED
        BY <1>1, <1>5, <3>1, <4>2
    <3>2. CASE ~(i < p)
      <4>1. list[i + 1] = list[t] /\ i + 1 \in 1..n
        BY <1>1, <1>3, <1>5, <1>8, <2>2, <3>2
      <4>2. i + 1 = t
        BY <1>4, <1>5, <4>1
      <4> QED
        BY <1>1, <1>5, <3>2, <4>2
    <3> QED
      BY <3>1, <3>2
  <2> HIDE DEF u, target
  <2> QED
    BY <1>9, <1>10, <2>1, <2>2
<1>12. AfterDrop(list, from, to) = new
  <2>1. rest = RemoveAt(list, CHOOSE i \in DOMAIN list : list[i] = item)
    BY <1>7 DEF rest
  <2>2. new = InsertAt(rest, IF from < to THEN (CHOOSE i \in DOMAIN rest : rest[i] = target) + 1
                             ELSE CHOOSE i \in DOMAIN rest : rest[i] = target, item)
    <3> DEFINE v == CHOOSE i \in DOMAIN rest : rest[i] = target
    <3>1. (IF from < to THEN v + 1 ELSE v) = t
      <4>1. v = u
        BY <1>11
      <4> HIDE DEF u, v
      <4> QED
        BY <1>10, <4>1
    <3> HIDE DEF v, item
    <3>2. new = InsertAt(rest, IF from < to THEN v + 1 ELSE v, item)
      BY <3>1
    <3> QED
      BY <3>2 DEF v
  <2> QED
    BY <2>1, <2>2 DEF AfterDrop, rest
<1>13. /\ new \in Seq(Question) /\ Len(new) = n
       /\ \A i \in 1..n : new[i] = IF i < t THEN rest[i] ELSE IF i = t THEN item ELSE rest[i - 1]
  <2>1. t \in 1..Len(rest) + 1 /\ item \in Question /\ Len(rest) + 1 = n
    BY <1>1, <1>2, <1>5, <1>8
  <2>2. /\ InsertAt(rest, t, item) \in Seq(Question) /\ Len(InsertAt(rest, t, item)) = Len(rest) + 1
        /\ \A i \in 1..Len(rest) + 1 :
             InsertAt(rest, t, item)[i] = IF i < t THEN rest[i] ELSE IF i = t THEN item ELSE rest[i - 1]
    <3> HIDE DEF item
    <3> QED
      BY <1>8, <2>1, InsertedAt
  <2> QED
    BY <2>1, <2>2
<1> HIDE DEF new
<1>14. item = list[p]
  BY <1>2
<1> HIDE DEF item
<1>15. ASSUME NEW i \in 1..n PROVE new[i] = list[MovedPlace(p, t, i)]
  <2>1. CASE i = t
    BY <1>1, <1>5, <1>14, <1>13, <2>1 DEF MovedPlace
  <2>2. CASE i < t
    <3>1. i \in 1..n - 1 /\ new[i] = rest[i]
      BY <1>1, <1>5, <1>13, <2>2
    <3> QED
      BY <1>1, <1>5, <1>8, <2>2, <3>1 DEF MovedPlace
  <2>3. CASE i > t
    <3>1. i - 1 \in 1..n - 1 /\ new[i] = rest[i - 1]
      BY <1>1, <1>5, <1>13, <2>3
    <3>2. rest[i - 1] = IF i - 1 < p THEN list[i - 1] ELSE list[(i - 1) + 1]
      BY <1>8, <3>1
    <3>3. CASE i - 1 < p
      BY <1>1, <1>5, <2>3, <3>1, <3>2, <3>3 DEF MovedPlace
    <3>4. CASE ~(i - 1 < p)
      BY <1>1, <1>5, <2>3, <3>1, <3>2, <3>4 DEF MovedPlace
    <3> QED
      BY <3>3, <3>4
  <2> QED
    BY <1>1, <1>5, <2>1, <2>2, <2>3
<1> QED
  BY <1>2, <1>3, <1>5, <1>6, <1>12, <1>13, <1>15 DEF I

\* A row dropped is shown where it was dropped, and the others keep their order:
\* what DropLands says, of every list without a repeated row.
LEMMA OneDropLands ==
    ASSUME NEW list \in Seq(Question), IsInjective(list),
           NEW from \in DOMAIN Filtered(list), NEW to \in DOMAIN Filtered(list), from # to
    PROVE  LET new == AfterDrop(list, from, to)
               item == Filtered(list)[from]
           IN  /\ new \in Seq(Question) /\ Filtered(new)[to] = item
               /\ IsInjective(new) /\ Range(new) = Range(list)
               /\ \A a, b \in Range(new) \ {item} : Above(new, a, b) <=> Above(list, a, b)
<1> DEFINE I == ShownPlaces(list)
           n == Len(list)
           new == AfterDrop(list, from, to)
           J == ShownPlaces(new)
           item == Filtered(list)[from]
<1>1. I \in SUBSET (1..n) /\ n \in Nat /\ DOMAIN list = 1..n
  BY ShownAt, LenProperties
<1>2. PICK p \in I, t \in I :
        /\ p # t /\ (p < t <=> from < to)
        /\ PlaceAmong(I, t) = to /\ item = list[p]
        /\ new \in Seq(Question) /\ Len(new) = n
        /\ \A i \in 1..n : new[i] = list[MovedPlace(p, t, i)]
  BY DroppedList
<1> HIDE DEF new, item
<1>3. p \in 1..n /\ t \in 1..n /\ DOMAIN new = 1..n
  BY <1>1, <1>2, LenProperties
<1>4. \A i, j \in 1..n : list[i] = list[j] => i = j
  BY <1>1 DEF IsInjective
<1>5. /\ \A i \in 1..n : MovedPlace(p, t, i) \in 1..n /\ (MovedPlace(p, t, i) = p <=> i = t)
      /\ \A i \in 1..n : MovedPlace(t, p, MovedPlace(p, t, i)) = i
      /\ \A i, j \in 1..n : i < j /\ i # t /\ j # t => MovedPlace(p, t, i) < MovedPlace(p, t, j)
      /\ p < t => \A i \in 1..n : i <= t <=> MovedPlace(p, t, i) <= t
      /\ t < p => \A i \in 1..n : i < t => MovedPlace(p, t, i) = i
  <2>1. n \in Nat /\ p # t /\ p \in 1..n /\ t \in 1..n
    BY <1>1, <1>2, <1>3
  <2> HIDE DEF I, J, n
  <2> QED
    BY <2>1, MovedPlaces
<1>6. /\ \A i \in 1..n : MovedPlace(t, p, i) \in 1..n /\ (MovedPlace(t, p, i) = t <=> i = p)
      /\ \A i \in 1..n : MovedPlace(p, t, MovedPlace(t, p, i)) = i
      /\ \A i, j \in 1..n : i < j /\ i # p /\ j # p => MovedPlace(t, p, i) < MovedPlace(t, p, j)
  <2>1. n \in Nat /\ p # t /\ p \in 1..n /\ t \in 1..n
    BY <1>1, <1>2, <1>3
  <2> HIDE DEF I, J, n
  <2> QED
    BY <2>1, MovedPlaces
<1>7. J = {i \in 1..n : MovedPlace(p, t, i) \in I}
  <2>1. \A i \in 1..n : i \in J <=> MovedPlace(p, t, i) \in I
    BY <1>1, <1>2, <1>3, <1>5 DEF ShownPlaces
  <2>2. J \in SUBSET (1..n)
    BY <1>3 DEF ShownPlaces
  <2> HIDE DEF I, J
  <2> QED
    BY <2>1, <2>2
<1> HIDE DEF I, J
<1>8. t \in J
  BY <1>2, <1>3, <1>5, <1>7
<1>9. PlaceAmong(J, t) = PlaceAmong(I, t)
  <2> DEFINE A == {j \in J : j <= t}
             B == {j \in I : j <= t}
  <2>1. CASE t < p
    <3>1. ASSUME NEW j \in 1..n PROVE j \in A <=> j \in B
      <4>1. CASE j < t
        BY <1>1, <1>3, <1>5, <1>7, <2>1, <4>1
      <4>2. CASE j = t
        BY <1>2, <1>8, <4>2
      <4>3. CASE t < j
        BY <1>3, <4>3
      <4> QED
        BY <1>3, <4>1, <4>2, <4>3
    <3>2. A \in SUBSET (1..n) /\ B \in SUBSET (1..n)
      BY <1>1, <1>7
    <3>3. A = B
      <4> HIDE DEF A, B
      <4> QED
        BY <3>1, <3>2
    <3> QED
      BY <3>3 DEF PlaceAmong
  <2>2. CASE p < t
    <3> DEFINE f == [j \in A |-> MovedPlace(p, t, j)]
    <3>1. \A j \in 1..n : j \in A <=> MovedPlace(p, t, j) \in B
      BY <1>5, <1>7, <2>2
    <3>2. A \in SUBSET (1..n) /\ B \in SUBSET (1..n)
      BY <1>1, <1>7
    <3> HIDE DEF A, B
    <3>3. f \in [A -> B]
      BY <3>1, <3>2
    <3>4. \A a, b \in A : f[a] = f[b] => a = b
      BY <1>5, <3>2
    <3>5. \A b \in B : \E a \in A : f[a] = b
      <4>1. TAKE b \in B
      <4>2. MovedPlace(t, p, b) \in 1..n /\ MovedPlace(p, t, MovedPlace(t, p, b)) = b
        BY <1>6, <3>2
      <4>3. MovedPlace(t, p, b) \in A
        BY <3>1, <4>1, <4>2
      <4> QED
        BY <4>2, <4>3
    <3> HIDE DEF f
    <3>6. f \in Bijection(A, B)
      <4>1. f \in Injection(A, B)
        BY <3>3, <3>4 DEF Injection, IsInjective
      <4>2. f \in Surjection(A, B)
        BY <3>3, <3>5 DEF Surjection
      <4> QED
        BY <4>1, <4>2 DEF Bijection
    <3>7. IsFiniteSet(A)
      <4>1. IsFiniteSet(1..n)
        BY <1>1, FS_Interval
      <4> QED
        BY <3>2, <4>1, FS_Subset
    <3>8. Cardinality(A) = Cardinality(B)
      <4>1. ExistsBijection(A, B)
        BY <3>6 DEF ExistsBijection
      <4> QED
        BY <3>7, <4>1, FS_Bijection
    <3> QED
      BY <3>8 DEF PlaceAmong, A, B
  <2> QED
    BY <1>2, <1>3, <2>1, <2>2
<1>10. Filtered(new)[to] = item
  <2>1. Filtered(new)[PlaceAmong(J, t)] = new[t]
    BY <1>2, <1>8, ShownAt DEF J
  <2>2. MovedPlace(p, t, t) = p
    BY <1>3, <1>5
  <2>3. new[t] = item
    BY <1>2, <1>3, <2>2
  <2> QED
    BY <1>2, <1>9, <2>1, <2>3
<1>11. IsInjective(new)
  <2>1. \A i, j \in 1..n : new[i] = new[j] => i = j
    <3>1. TAKE i, j \in 1..n
    <3>2. HAVE new[i] = new[j]
    <3>3. list[MovedPlace(p, t, i)] = list[MovedPlace(p, t, j)]
      BY <1>2, <3>1, <3>2
    <3>4. MovedPlace(p, t, i) = MovedPlace(p, t, j)
      BY <1>4, <1>5, <3>1, <3>3
    <3> QED
      BY <1>5, <3>1, <3>4
  <2> QED
    BY <1>3, <2>1 DEF IsInjective
<1>12. \A i \in 1..n : list[i] = new[MovedPlace(t, p, i)]
  BY <1>2, <1>6
<1>13. Range(new) = Range(list)
  <2>1. \A i \in 1..n : \E j \in 1..n : new[i] = list[j]
    BY <1>2, <1>5
  <2>2. \A i \in 1..n : \E j \in 1..n : list[i] = new[j]
    BY <1>6, <1>12
  <2>3. Range(new) = {new[i] : i \in 1..n} /\ Range(list) = {list[i] : i \in 1..n}
    BY <1>1, <1>3 DEF Range
  <2> HIDE DEF n
  <2> QED
    BY <2>1, <2>2, <2>3
<1>14. ASSUME NEW a \in Range(new) \ {item}, NEW b \in Range(new) \ {item}
       PROVE  Above(new, a, b) <=> Above(list, a, b)
  <2>1. ASSUME NEW i \in 1..n, NEW j \in 1..n, i < j, new[i] = a, new[j] = b
        PROVE  Above(list, a, b)
    <3>1. i # t /\ j # t
      BY <1>2, <1>3, <1>5, <1>14, <2>1
    <3>2. MovedPlace(p, t, i) < MovedPlace(p, t, j) /\ MovedPlace(p, t, i) \in 1..n /\ MovedPlace(p, t, j) \in 1..n
      BY <1>5, <2>1, <3>1
    <3>3. list[MovedPlace(p, t, i)] = a /\ list[MovedPlace(p, t, j)] = b
      BY <1>2, <2>1
    <3> QED
      BY <1>1, <3>2, <3>3 DEF Above
  <2>2. ASSUME NEW i \in 1..n, NEW j \in 1..n, i < j, list[i] = a, list[j] = b
        PROVE  Above(new, a, b)
    <3>1. i # p /\ j # p
      BY <1>2, <1>14, <2>2
    <3>2. MovedPlace(t, p, i) < MovedPlace(t, p, j) /\ MovedPlace(t, p, i) \in 1..n /\ MovedPlace(t, p, j) \in 1..n
      BY <1>6, <2>2, <3>1
    <3>3. new[MovedPlace(t, p, i)] = a /\ new[MovedPlace(t, p, j)] = b
      BY <1>12, <2>2
    <3> QED
      BY <1>3, <3>2, <3>3 DEF Above
  <2>3. /\ Above(new, a, b) <=> \E i, j \in 1..n : i < j /\ new[i] = a /\ new[j] = b
        /\ Above(list, a, b) <=> \E i, j \in 1..n : i < j /\ list[i] = a /\ list[j] = b
    BY <1>1, <1>3 DEF Above
  <2> QED
    BY <2>1, <2>2, <2>3
<1> QED
  BY <1>2, <1>10, <1>11, <1>13, <1>14 DEF new, item

\* An order of the rows: each of them once at most, so there are no more than rows.
QOrder(o) == o \in Seq(Question) /\ IsInjective(o)

LEMMA OrderLength ==
    ASSUME NEW o, QOrder(o)
    PROVE  Len(o) \in 0..MaxQuestion /\ \A i \in 1..Len(o) : o[i] \in Question
<1>1. o \in Seq(Question) /\ Len(o) \in Nat /\ DOMAIN o = 1..Len(o) /\ o \in [1..Len(o) -> Question]
  BY LenProperties DEF QOrder
<1>2. MaxQuestion \in Nat
  BY QuestionAssumption
<1>3. /\ IsFiniteSet(1..Len(o)) /\ Cardinality(1..Len(o)) = Len(o)
      /\ IsFiniteSet(Question) /\ Cardinality(Question) = MaxQuestion
  <2>1. IsFiniteSet(1..Len(o)) /\ Cardinality(1..Len(o)) = IF 1 > Len(o) THEN 0 ELSE Len(o) - 1 + 1
    BY <1>1, FS_Interval
  <2>2. IsFiniteSet(1..MaxQuestion) /\ Cardinality(1..MaxQuestion) = IF 1 > MaxQuestion THEN 0 ELSE MaxQuestion - 1 + 1
    BY <1>2, FS_Interval
  <2> QED
    BY <1>1, <1>2, <2>1, <2>2 DEF Question
<1>4. ~(Len(o) > MaxQuestion)
  <2>1. SUFFICES ASSUME Cardinality(1..Len(o)) > Cardinality(Question) PROVE FALSE
    BY <1>3
  <2>2. \E x, y \in 1..Len(o) : x # y /\ o[x] = o[y]
    BY <1>1, <1>3, <2>1, FS_PigeonHole
  <2> QED
    BY <1>1, <2>2 DEF QOrder, IsInjective
<1> QED
  BY <1>1, <1>2, <1>4

\* What is true of a call on its way.
QOps == {"list", "reorder", "save", "delete"}
QCallOK(c) ==
    /\ c \in [op : QOps, of : 0..MaxQuestion, order : Seq(Nat), done : Nat, here : BOOLEAN]
    /\ c.op \in {"list", "reorder"} => QOrder(c.order)
    /\ c.op = "reorder" => c.done <= Len(c.order)
    /\ c.op = "save" /\ c.of = 0 => c.order[1] \in 1..MaxQuestion + 1

QRowsOK == qrows \in [Question -> [active : BOOLEAN, sort : 0..MaxQuestion + 1]]
QTabOK ==
    /\ qtab \in [at : {"away", "loading", "list"}, list : Seq(Question), filter : QOwner,
                 drag : 0..MaxQuestion, open : BOOLEAN, form : 0..MaxQuestion, delete : 0..MaxQuestion]
    /\ QOrder(qtab.list)
QCallsOK == \A c \in qcalls : QCallOK(c)
QuestionsInv == QRowsOK /\ QTabOK /\ QCallsOK

LEMMA QuestionsInvImplies == QuestionsInv => QuestionsTypeOK /\ DropLands
<1>1. QuestionsInv => QuestionsTypeOK
  <2>1. ASSUME QuestionsInv PROVE Range(qtab.list) \subseteq Question
    <3>1. qtab.list \in Seq(Question)
      BY <2>1 DEF QuestionsInv, QTabOK, QOrder
    <3>2. DOMAIN qtab.list = 1..Len(qtab.list) /\ \A i \in 1..Len(qtab.list) : qtab.list[i] \in Question
      BY <3>1, LenProperties, ElementOfSeq
    <3> QED
      BY <3>2 DEF Range
  <2> QED
    BY <2>1 DEF QuestionsInv, QRowsOK, QTabOK, QCallsOK, QCallOK, QOps, QOrder, QuestionsTypeOK
<1>2. QuestionsInv => DropLands
  <2> SUFFICES ASSUME QuestionsInv,
                      NEW from \in DOMAIN Filtered(qtab.list), NEW to \in DOMAIN Filtered(qtab.list), from # to
               PROVE  LET list == AfterDrop(qtab.list, from, to)
                          item == Filtered(qtab.list)[from]
                      IN  /\ Filtered(list)[to] = item
                          /\ IsInjective(list) /\ Range(list) = Range(qtab.list)
                          /\ \A a, b \in Range(list) \ {item} : Above(list, a, b) <=> Above(qtab.list, a, b)
    BY DEF DropLands
  <2>1. qtab.list \in Seq(Question) /\ IsInjective(qtab.list)
    BY DEF QuestionsInv, QTabOK, QOrder
  <2> QED
    BY <2>1, OneDropLands
<1> QED
  BY <1>1, <1>2

LEMMA QuestionsInvInit == QuestionsInit => QuestionsInv
<1> SUFFICES ASSUME QuestionsInit PROVE QuestionsInv
  OBVIOUS
<1>1. MaxQuestion \in Nat /\ MaxQuestion # 0
  BY QuestionAssumption
<1>2. QRowsOK
  <2>1. 0 \in 0..MaxQuestion + 1 /\ \A q \in Question : q \in 0..MaxQuestion + 1
    BY <1>1 DEF Question
  <2> QED
    BY <2>1 DEF QuestionsInit, QRowsOK, NoQuestion
<1>3. QTabOK
  <2>1. 0 \in 0..MaxQuestion
    BY <1>1
  <2>2. <<>> \in Seq(Question) /\ QOrder(<<>>)
    BY DEF QOrder, IsInjective
  <2>3. "org" \in QOwner
    BY DEF QOwner
  <2> QED
    BY <2>1, <2>2, <2>3 DEF QuestionsInit, QTabOK, TabAway
<1>4. QCallsOK
  BY DEF QuestionsInit, QCallsOK
<1> QED
  BY <1>2, <1>3, <1>4 DEF QuestionsInv

\* The query's order has no two rows in one place.
LEMMA ServedOrder ==
    ASSUME QRowsOK, NEW list \in SortedLists
    PROVE  QOrder(list)
<1>1. MaxQuestion \in Nat
  BY QuestionAssumption
<1>2. Cardinality(ActiveRows) \in Nat
  <2>1. IsFiniteSet(Question) /\ ActiveRows \in SUBSET Question
    BY <1>1, FS_Interval DEF Question, ActiveRows
  <2> QED
    BY <2>1, FS_Subset, FS_CardinalityType
<1>3. list \in [1..Cardinality(ActiveRows) -> ActiveRows] /\ ActiveRows \subseteq Question
  BY DEF SortedLists, ActiveRows
<1>4. list \in Seq(Question) /\ DOMAIN list = 1..Cardinality(ActiveRows)
  <2> HIDE DEF Question
  <2> QED
    BY <1>2, <1>3
<1>5. \A q \in Question : ~SortedBefore(q, q)
  <2> TAKE q \in Question
  <2>1. qrows[q].sort \in Nat /\ q \in Nat
    BY <1>1 DEF QRowsOK, Question
  <2> QED
    BY <2>1 DEF SortedBefore
<1>6. \A i, j \in 1..Cardinality(ActiveRows) : i < j => SortedBefore(list[i], list[j])
  BY <1>3 DEF SortedLists
<1>7. \A i, j \in 1..Cardinality(ActiveRows) : list[i] = list[j] => i = j
  <2> TAKE i, j \in 1..Cardinality(ActiveRows)
  <2> HAVE list[i] = list[j]
  <2>1. list[i] \in Question
    BY <1>3
  <2>2. ~(i < j) /\ ~(j < i)
    BY <1>5, <1>6, <2>1
  <2> QED
    BY <1>2, <2>2
<1> QED
  BY <1>4, <1>7 DEF QOrder, IsInjective

LEMMA OrderIsNats == ASSUME NEW o, QOrder(o) PROVE o \in Seq(Nat)
<1>1. o \in [1..Len(o) -> Question] /\ Len(o) \in Nat
  BY LenProperties DEF QOrder
<1>2. Question \subseteq Nat
  BY DEF Question
<1>3. o \in [1..Len(o) -> Nat]
  <2> HIDE DEF Question
  <2> QED
    BY <1>1, <1>2
<1> QED
  BY <1>1, <1>3

LEMMA SentCallOK ==
    ASSUME NEW op \in QOps, NEW of \in 0..MaxQuestion, NEW o \in Seq(Nat),
           op \in {"list", "reorder"} => QOrder(o),
           op = "save" /\ of = 0 => o[1] \in 1..MaxQuestion + 1
    PROVE  QCallOK(QCall(op, of, o))
<1>1. 0 \in Nat /\ 0 <= Len(o)
  BY LenProperties
<1> QED
  BY <1>1 DEF QCall, QCallOK

LEMMA ListCallOK == QCallOK(ListCall)
<1>1. <<>> \in Seq(Nat) /\ QOrder(<<>>) /\ 0 \in 0..MaxQuestion
  BY QuestionAssumption DEF QOrder, IsInjective
<1>2. "list" \in QOps /\ "list" # "save"
  BY DEF QOps
<1> QED
  BY <1>1, <1>2, SentCallOK DEF ListCall

LEMMA CallsStay ==
    ASSUME QCallsOK, NEW d, QCallOK(d), qcalls' \subseteq qcalls \cup {d}
    PROVE  QCallsOK'
  BY DEF QCallsOK

LEMMA QuestionsInvNext == QuestionsInv /\ [QuestionsNext]_qVars => QuestionsInv'
<1> SUFFICES ASSUME QuestionsInv, [QuestionsNext]_qVars PROVE QuestionsInv'
  OBVIOUS
<1> USE DEF QuestionsInv
<1>a. QRowsOK /\ QTabOK /\ QCallsOK /\ MaxQuestion \in Nat /\ 0 \in 0..MaxQuestion
  BY QuestionAssumption
<1>b. /\ qtab \in [at : {"away", "loading", "list"}, list : Seq(Question), filter : QOwner,
                   drag : 0..MaxQuestion, open : BOOLEAN, form : 0..MaxQuestion, delete : 0..MaxQuestion]
      /\ QOrder(qtab.list)
  BY <1>a DEF QTabOK
<1>c. TabAway \in [at : {"away", "loading", "list"}, list : Seq(Question), filter : QOwner,
                   drag : 0..MaxQuestion, open : BOOLEAN, form : 0..MaxQuestion, delete : 0..MaxQuestion]
      /\ QOrder(TabAway.list)
  <2>1. <<>> \in Seq(Question) /\ QOrder(<<>>)
    BY DEF QOrder, IsInjective
  <2>2. "org" \in QOwner
    BY DEF QOwner
  <2> QED
    BY <1>a, <2>1, <2>2 DEF TabAway
<1>d. \A i \in DOMAIN Filtered(qtab.list) : Filtered(qtab.list)[i] \in Question
  <2> TAKE i \in DOMAIN Filtered(qtab.list)
  <2>1. \E j \in ShownPlaces(qtab.list) : Filtered(qtab.list)[i] = qtab.list[j]
    BY <1>b, ShownAt
  <2>2. ShownPlaces(qtab.list) \in SUBSET (1..Len(qtab.list))
    BY <1>b, ShownAt
  <2> QED
    BY <1>b, <2>1, <2>2, ElementOfSeq
<1>e. Question \subseteq 0..MaxQuestion
  BY <1>a DEF Question
<1>f. \A c \in qcalls : QCallOK(c)
  BY <1>a DEF QCallsOK
<1>1. CASE OpenQuestions
  <2>1. qtab' = [TabAway EXCEPT !.at = "loading"] /\ qcalls' = qcalls \cup {ListCall} /\ qrows' = qrows
    BY <1>1 DEF OpenQuestions, QSends
  <2>2. QTabOK'
    BY <1>c, <2>1 DEF QTabOK
  <2>3. QCallsOK'
    BY <1>a, <2>1, ListCallOK, CallsStay
  <2> QED
    BY <1>a, <2>1, <2>2, <2>3 DEF QRowsOK
<1>2. CASE LeaveQuestions
  <2>1. qtab' = TabAway /\ qrows' = qrows
        /\ qcalls' = {[c EXCEPT !.here = FALSE] : c \in {d \in qcalls : d.op # "list"}}
    BY <1>2 DEF LeaveQuestions
  <2>2. QTabOK'
    BY <1>c, <2>1 DEF QTabOK
  <2>3. \A c \in qcalls : QCallOK([c EXCEPT !.here = FALSE])
    BY <1>f DEF QCallOK
  <2>4. QCallsOK'
    BY <2>1, <2>3 DEF QCallsOK
  <2> QED
    BY <1>a, <2>1, <2>2, <2>4 DEF QRowsOK
<1>3. ASSUME NEW c \in qcalls, ListServed(c) PROVE QuestionsInv'
  <2>1. PICK list \in SortedLists : qcalls' = (qcalls \ {c}) \cup {[c EXCEPT !.done = 1, !.order = list]}
    BY <1>3 DEF ListServed, Becomes
  <2>2. c.op = "list" /\ qrows' = qrows /\ qtab' = qtab
    BY <1>3 DEF ListServed
  <2>3. QOrder(list) /\ list \in Seq(Nat)
    BY <1>a, ServedOrder, OrderIsNats
  <2> DEFINE d == [c EXCEPT !.done = 1, !.order = list]
  <2>4. QCallOK(d)
    <3>1. QCallOK(c)
      BY <1>f
    <3> QED
      BY <2>2, <2>3, <3>1 DEF QCallOK
  <2>5. QCallsOK'
    <3>1. qcalls' \subseteq qcalls \cup {d}
      BY <2>1
    <3> HIDE DEF d
    <3> QED
      BY <1>a, <2>4, <3>1, CallsStay
  <2> QED
    BY <1>a, <2>2, <2>5 DEF QRowsOK, QTabOK
<1>4. ASSUME NEW c \in qcalls, QuestionsArrive(c) PROVE QuestionsInv'
  <2>1. c.op = "list" /\ qcalls' = qcalls \ {c} /\ qrows' = qrows
        /\ (qtab' = [qtab EXCEPT !.at = "list", !.list = c.order] \/ qtab' = [qtab EXCEPT !.at = "list"])
    BY <1>4 DEF QuestionsArrive
  <2>2. QOrder(c.order) /\ c.order \in Seq(Question)
    BY <1>f, <2>1 DEF QCallOK, QOrder
  <2>3. QTabOK'
    <3> HIDE DEF Question
    <3> QED
      BY <1>b, <2>1, <2>2 DEF QTabOK
  <2>4. QCallsOK'
    BY <1>a, <2>1 DEF QCallsOK
  <2> QED
    BY <1>a, <2>1, <2>3, <2>4 DEF QRowsOK
<1>5. ASSUME NEW d \in QOwner, FilterByDept(d) PROVE QuestionsInv'
  <2>1. qtab' = [qtab EXCEPT !.filter = d] /\ qrows' = qrows /\ qcalls' = qcalls
    BY <1>5 DEF FilterByDept
  <2>2. QTabOK'
    <3> HIDE DEF Question
    <3> QED
      BY <1>b, <1>5, <2>1 DEF QTabOK
  <2> QED
    BY <1>a, <2>1, <2>2 DEF QRowsOK, QCallsOK
<1>6. ASSUME NEW i \in Question, DragStart(i) PROVE QuestionsInv'
  <2>1. qtab' = [qtab EXCEPT !.drag = i] /\ qrows' = qrows /\ qcalls' = qcalls
    BY <1>6 DEF DragStart
  <2>2. QTabOK'
    <3> HIDE DEF Question
    <3> QED
      BY <1>b, <1>e, <1>6, <2>1 DEF QTabOK
  <2> QED
    BY <1>a, <2>1, <2>2 DEF QRowsOK, QCallsOK
<1>7. CASE DragEnd
  <2>1. qtab' = [qtab EXCEPT !.drag = 0] /\ qrows' = qrows /\ qcalls' = qcalls
    BY <1>7 DEF DragEnd
  <2>2. QTabOK'
    <3> HIDE DEF Question
    <3> QED
      BY <1>a, <1>b, <2>1 DEF QTabOK
  <2> QED
    BY <1>a, <2>1, <2>2 DEF QRowsOK, QCallsOK
<1>8. ASSUME NEW to \in Question, DropOn(to) PROVE QuestionsInv'
  <2>1. to \in DOMAIN Filtered(qtab.list) /\ qrows' = qrows
    BY <1>8 DEF DropOn
  <2>2. CASE qtab.drag = to \/ qtab.drag \notin DOMAIN Filtered(qtab.list)
    <3>1. qtab' = [qtab EXCEPT !.drag = 0] /\ qcalls' = qcalls
      BY <1>8, <2>2 DEF DropOn
    <3>2. QTabOK'
      <4> HIDE DEF Question
      <4> QED
        BY <1>a, <1>b, <3>1 DEF QTabOK
    <3> QED
      BY <1>a, <2>1, <3>1, <3>2 DEF QRowsOK, QCallsOK
  <2>3. CASE ~(qtab.drag = to \/ qtab.drag \notin DOMAIN Filtered(qtab.list))
    <3> DEFINE list == AfterDrop(qtab.list, qtab.drag, to)
               d == QCall("reorder", 0, list)
    <3>1. qtab' = [qtab EXCEPT !.drag = 0, !.list = list] /\ qcalls' = qcalls \cup {d}
      BY <1>8, <2>3 DEF DropOn, QSends
    <3>2. QOrder(list)
      BY <1>b, <2>1, <2>3, OneDropLands DEF QOrder
    <3> HIDE DEF list
    <3>3. QTabOK'
      <4>1. list \in Seq(Question)
        BY <3>2 DEF QOrder
      <4> HIDE DEF Question
      <4> QED
        BY <1>a, <1>b, <3>1, <3>2, <4>1 DEF QTabOK
    <3>4. QCallOK(d)
      <4>1. "reorder" \in QOps /\ "reorder" # "save"
        BY DEF QOps
      <4> QED
        BY <1>a, <3>2, <4>1, OrderIsNats, SentCallOK
    <3> HIDE DEF d
    <3>5. QCallsOK'
      BY <1>a, <3>1, <3>4, CallsStay
    <3> QED
      BY <1>a, <2>1, <3>3, <3>5 DEF QRowsOK
  <2> QED
    BY <2>2, <2>3
<1>9. ASSUME NEW c \in qcalls, ReorderRow(c) PROVE QuestionsInv'
  <2>1. /\ c.op = "reorder" /\ c.done < Len(c.order) /\ qtab' = qtab
        /\ qrows' = [qrows EXCEPT ![c.order[c.done + 1]].sort = c.done + 1]
        /\ qcalls' = (qcalls \ {c}) \cup {[c EXCEPT !.done = c.done + 1]}
    BY <1>9 DEF ReorderRow, Becomes
  <2>2. QCallOK(c) /\ QOrder(c.order) /\ c.done \in Nat
    BY <1>f, <2>1 DEF QCallOK
  <2>3. Len(c.order) \in 0..MaxQuestion
    BY <2>2, OrderLength
  <2>4. c.done + 1 \in 0..MaxQuestion + 1 /\ c.done + 1 <= Len(c.order) /\ c.done + 1 \in Nat
    BY <1>a, <2>1, <2>2, <2>3
  <2> DEFINE d == [c EXCEPT !.done = c.done + 1]
  <2>5. QRowsOK'
    <3> DEFINE n == c.done + 1
               q == c.order[n]
    <3>1. qrows' = [qrows EXCEPT ![q] = [qrows[q] EXCEPT !.sort = n]] /\ n \in 0..MaxQuestion + 1
      BY <2>1, <2>4
    <3> HIDE DEF n, q, Question
    <3> QED
      BY <1>a, <3>1 DEF QRowsOK
  <2>6. QCallOK(d)
    <3> DEFINE n == c.done + 1
    <3>1. n \in Nat /\ n <= Len(c.order)
      BY <2>4
    <3> HIDE DEF n
    <3>2. QCallOK([c EXCEPT !.done = n])
      BY <2>2, <3>1, <2>1 DEF QCallOK
    <3> QED
      BY <3>2 DEF n
  <2>7. QCallsOK'
    <3>1. qcalls' \subseteq qcalls \cup {d}
      BY <2>1
    <3> HIDE DEF d
    <3> QED
      BY <1>a, <2>6, <3>1, CallsStay
  <2> QED
    BY <1>a, <2>1, <2>5, <2>7 DEF QTabOK
<1>10. ASSUME NEW c \in qcalls, NEW ok \in BOOLEAN, ReorderAnswered(c, ok) PROVE QuestionsInv'
  <2>1. qcalls' \subseteq qcalls \cup {ListCall} /\ qrows' = qrows /\ qtab' = qtab
    BY <1>10 DEF ReorderAnswered
  <2>2. QCallsOK'
    BY <1>a, <2>1, ListCallOK, CallsStay
  <2> QED
    BY <1>a, <2>1, <2>2 DEF QRowsOK, QTabOK
<1>11. CASE AddQuestion
  <2>1. qrows' = qrows /\ qcalls' = qcalls
        /\ (qtab' = [qtab EXCEPT !.open = TRUE, !.form = 0] \/ qtab' = [qtab EXCEPT !.open = TRUE])
    BY <1>11 DEF AddQuestion
  <2>2. QTabOK'
    <3> HIDE DEF Question
    <3> QED
      BY <1>a, <1>b, <2>1 DEF QTabOK
  <2> QED
    BY <1>a, <2>1, <2>2 DEF QRowsOK, QCallsOK
<1>12. ASSUME NEW i \in Question, EditQuestion(i) PROVE QuestionsInv'
  <2> DEFINE q == Filtered(qtab.list)[i]
  <2>1. qtab' = [qtab EXCEPT !.open = TRUE, !.form = q] /\ qrows' = qrows /\ qcalls' = qcalls
    BY <1>12 DEF EditQuestion
  <2>2. q \in 0..MaxQuestion
    BY <1>12, <1>d, <1>e DEF EditQuestion
  <2>3. QTabOK'
    <3> HIDE DEF Question, q
    <3> QED
      BY <1>b, <2>1, <2>2 DEF QTabOK
  <2> QED
    BY <1>a, <2>1, <2>3 DEF QRowsOK, QCallsOK
<1>13. CASE CloseQuestion
  <2>1. qtab' = [qtab EXCEPT !.open = FALSE] /\ qrows' = qrows /\ qcalls' = qcalls
    BY <1>13 DEF CloseQuestion
  <2>2. QTabOK'
    <3> HIDE DEF Question
    <3> QED
      BY <1>b, <2>1 DEF QTabOK
  <2> QED
    BY <1>a, <2>1, <2>2 DEF QRowsOK, QCallsOK
<1>14. CASE SaveQuestion
  <2> DEFINE o == IF qtab.form = 0 THEN <<Len(qtab.list) + 1>> ELSE <<>>
             d == QCall("save", qtab.form, o)
  <2>1. qcalls' = qcalls \cup {d} /\ qrows' = qrows /\ qtab' = qtab
    BY <1>14 DEF SaveQuestion, QSends
  <2>2. Len(qtab.list) \in 0..MaxQuestion
    BY <1>b, OrderLength
  <2>3. Len(qtab.list) + 1 \in 1..MaxQuestion + 1 /\ Len(qtab.list) + 1 \in Nat
    BY <1>a, <2>2
  <2>4. o \in Seq(Nat) /\ (qtab.form = 0 => o[1] \in 1..MaxQuestion + 1)
    BY <2>3
  <2>5. QCallOK(d)
    <3>1. "save" \in QOps /\ "save" \notin {"list", "reorder"} /\ qtab.form \in 0..MaxQuestion
      BY <1>b DEF QOps
    <3> HIDE DEF o
    <3> QED
      BY <2>4, <3>1, SentCallOK
  <2> HIDE DEF d
  <2>6. QCallsOK'
    BY <1>a, <2>1, <2>5, CallsStay
  <2> QED
    BY <1>a, <2>1, <2>6 DEF QRowsOK, QTabOK
<1>15. ASSUME NEW c \in qcalls, QuestionSaved(c) PROVE QuestionsInv'
  <2>1. /\ c.op = "save" /\ qtab' = qtab
        /\ qcalls' = (qcalls \ {c}) \cup {[c EXCEPT !.done = 1]}
    BY <1>15 DEF QuestionSaved, Becomes
  <2>2. QRowsOK'
    <3>1. CASE c.of = 0
      <4>1. PICK q \in Question : qrows' = [qrows EXCEPT ![q] = [active |-> TRUE, sort |-> c.order[1]]]
        BY <1>15, <3>1 DEF QuestionSaved
      <4>2. c.order[1] \in 1..MaxQuestion + 1
        BY <1>f, <2>1, <3>1 DEF QCallOK
      <4>3. c.order[1] \in 0..MaxQuestion + 1
        BY <1>a, <4>2
      <4> HIDE DEF Question
      <4> QED
        BY <1>a, <4>1, <4>3 DEF QRowsOK
    <3>2. CASE c.of # 0
      BY <1>a, <1>15, <3>2 DEF QuestionSaved, QRowsOK
    <3> QED
      BY <3>1, <3>2
  <2> DEFINE d == [c EXCEPT !.done = 1]
  <2>3. QCallOK(d)
    <3>1. QCallOK(c) /\ c.op # "reorder"
      BY <1>f, <2>1
    <3> QED
      BY <3>1 DEF QCallOK
  <2>4. QCallsOK'
    <3>1. qcalls' \subseteq qcalls \cup {d}
      BY <2>1
    <3> HIDE DEF d
    <3> QED
      BY <1>a, <2>3, <3>1, CallsStay
  <2> QED
    BY <1>a, <2>1, <2>2, <2>4 DEF QTabOK
<1>16. ASSUME NEW c \in qcalls, NEW ok \in BOOLEAN, SaveArrives(c, ok) PROVE QuestionsInv'
  <2>1. qcalls' \subseteq qcalls \cup {ListCall} /\ qrows' = qrows
        /\ (qtab' = [qtab EXCEPT !.form = 0, !.open = FALSE] \/ qtab' = qtab)
    BY <1>16 DEF SaveArrives, Becomes
  <2>2. QTabOK'
    <3> HIDE DEF Question
    <3> QED
      BY <1>a, <1>b, <2>1 DEF QTabOK
  <2>3. QCallsOK'
    BY <1>a, <2>1, ListCallOK, CallsStay
  <2> QED
    BY <1>a, <2>1, <2>2, <2>3 DEF QRowsOK
<1>17. ASSUME NEW i \in Question, AskDelete(i) PROVE QuestionsInv'
  <2> DEFINE q == Filtered(qtab.list)[i]
  <2>1. qtab' = [qtab EXCEPT !.delete = q] /\ qrows' = qrows /\ qcalls' = qcalls
    BY <1>17 DEF AskDelete
  <2>2. q \in 0..MaxQuestion
    BY <1>17, <1>d, <1>e DEF AskDelete
  <2>3. QTabOK'
    <3> HIDE DEF Question, q
    <3> QED
      BY <1>b, <2>1, <2>2 DEF QTabOK
  <2> QED
    BY <1>a, <2>1, <2>3 DEF QRowsOK, QCallsOK
<1>18. CASE CloseDelete
  <2>1. qtab' = [qtab EXCEPT !.delete = 0] /\ qrows' = qrows /\ qcalls' = qcalls
    BY <1>18 DEF CloseDelete
  <2>2. QTabOK'
    <3> HIDE DEF Question
    <3> QED
      BY <1>a, <1>b, <2>1 DEF QTabOK
  <2> QED
    BY <1>a, <2>1, <2>2 DEF QRowsOK, QCallsOK
<1>19. CASE ConfirmDelete
  <2> DEFINE d == QCall("delete", qtab.delete, <<>>)
  <2>1. qcalls' = qcalls \cup {d} /\ qrows' = qrows /\ qtab' = qtab
    BY <1>19 DEF ConfirmDelete, QSends
  <2>2. QCallOK(d)
    <3>1. "delete" \in QOps /\ "delete" \notin {"list", "reorder"} /\ "delete" # "save"
          /\ qtab.delete \in 0..MaxQuestion /\ <<>> \in Seq(Nat)
      BY <1>b DEF QOps
    <3> QED
      BY <3>1, SentCallOK
  <2> HIDE DEF d
  <2>3. QCallsOK'
    BY <1>a, <2>1, <2>2, CallsStay
  <2> QED
    BY <1>a, <2>1, <2>3 DEF QRowsOK, QTabOK
<1>20. ASSUME NEW c \in qcalls, NEW ok \in BOOLEAN, DeleteArrives(c, ok) PROVE QuestionsInv'
  <2>1. /\ qcalls' \subseteq qcalls \cup {ListCall}
        /\ qrows' = [qrows EXCEPT ![c.of].active = FALSE] \/ qrows' = qrows
        /\ qtab' = [qtab EXCEPT !.delete = 0] \/ qtab' = qtab
    BY <1>20 DEF DeleteArrives
  <2>2. QRowsOK'
    <3> HIDE DEF Question
    <3> QED
      BY <1>a, <2>1 DEF QRowsOK
  <2>3. QTabOK'
    <3> HIDE DEF Question
    <3> QED
      BY <1>a, <1>b, <2>1 DEF QTabOK
  <2>4. QCallsOK'
    BY <1>a, <2>1, ListCallOK, CallsStay
  <2> QED
    BY <2>2, <2>3, <2>4
<1>21. CASE UNCHANGED qVars
  BY <1>a, <1>21 DEF qVars, QRowsOK, QTabOK, QCallsOK
<1> QED
  BY <1>1, <1>2, <1>3, <1>4, <1>5, <1>6, <1>7, <1>8, <1>9, <1>10, <1>11, <1>12, <1>13, <1>14, <1>15,
     <1>16, <1>17, <1>18, <1>19, <1>20, <1>21 DEF QuestionsNext

\* The tab's types, and that no list it shows or saves has a row twice.
THEOREM QuestionsTypes == QuestionsSpec => []QuestionsTypeOK
  BY QuestionsInvInit, QuestionsInvNext, QuestionsInvImplies, PTL DEF QuestionsSpec

\* A question dropped on a row of the filtered list is shown there, and no other
\* row of the whole list, shown or hidden, changes place among the rest.
THEOREM DropsLand == QuestionsSpec => []DropLands
  BY QuestionsInvInit, QuestionsInvNext, QuestionsInvImplies, PTL DEF QuestionsSpec

-----------------------------------------------------------------------------
(**************************************************************************)
(* The other tabs of the settings: the team, the competitors, the rail and *)
(* the approval rules.                                                     *)
(**************************************************************************)

TeamTabs == [at : {"away", "loading", "list"}, rows : [Member -> Account], open : BOOLEAN,
             editing : Member \cup {"none"}, filled : BOOLEAN, role : MemberRole,
             adding : BOOLEAN, toggle : Member \cup {"none"}, timer : BOOLEAN, filter : {"all", "nobody"}]
TeamCallSet == [op : {"list", "invite", "edit", "toggle"}, of : Member \cup {"none"},
                role : MemberRole, active : BOOLEAN, ok : BOOLEAN, done : BOOLEAN,
                here : BOOLEAN, rows : [Member -> Account]]

LEMMA TeamParts ==
    TeamTypeOK <=> accounts \in [Member -> Account] /\ teamTab \in TeamTabs /\ teamCalls \subseteq TeamCallSet
  BY DEF TeamTypeOK, TeamTabs, TeamCallSet

LEMMA TeamCallTyped ==
    ASSUME NEW op \in {"list", "invite", "edit", "toggle"}, NEW of \in Member \cup {"none"},
           NEW role \in MemberRole, NEW active \in BOOLEAN
    PROVE  TeamCall(op, of, role, active) \in TeamCallSet
<1>1. NoAccounts \in [Member -> Account]
  BY DEF NoAccounts, Account
<1> QED
  BY <1>1 DEF TeamCall, TeamCallSet

LEMMA TeamDefaults ==
    NoAccounts \in [Member -> Account] /\ TeamClosed \in TeamTabs /\ ListTeam \in TeamCallSet
<1>1. NoAccounts \in [Member -> Account]
  BY DEF NoAccounts, Account
<1>2. TeamClosed \in TeamTabs
  BY <1>1, TeamAssumption DEF TeamClosed, TeamTabs
<1>3. ListTeam \in TeamCallSet
  BY TeamAssumption, TeamCallTyped DEF ListTeam
<1> QED
  BY <1>1, <1>2, <1>3

LEMMA TeamTypeInit == TeamInit => TeamTypeOK
<1> SUFFICES ASSUME TeamInit PROVE TeamTypeOK
  OBVIOUS
<1>1. PICK m \in Member, r \in MemberRole \ {FormRole} :
        accounts = [NoAccounts EXCEPT ![m] = [role |-> r, active |-> TRUE]]
  BY DEF TeamInit
<1>2. accounts \in [Member -> Account]
  <2>1. [role |-> r, active |-> TRUE] \in Account
    BY DEF Account
  <2> HIDE DEF Account
  <2> QED
    BY <1>1, <2>1, TeamDefaults
<1> QED
  BY <1>2, TeamDefaults, TeamParts DEF TeamInit

LEMMA TeamTypeNext == TeamTypeOK /\ [TeamNext]_teamVars => TeamTypeOK'
<1> SUFFICES ASSUME TeamTypeOK, [TeamNext]_teamVars PROVE TeamTypeOK'
  OBVIOUS
<1>a. accounts \in [Member -> Account] /\ teamTab \in TeamTabs /\ teamCalls \subseteq TeamCallSet
  BY TeamParts
<1>b. TeamTypeOK' <=> accounts' \in [Member -> Account] /\ teamTab' \in TeamTabs /\ teamCalls' \subseteq TeamCallSet
  BY DEF TeamTypeOK, TeamTabs, TeamCallSet
<1>c. FormRole \in MemberRole
  BY TeamAssumption
<1>1. CASE OpenTeam
  BY <1>a, <1>b, <1>1, TeamDefaults DEF OpenTeam, TeamAsks, TeamTabs
<1>2. CASE LeaveTeam
  <2>1. \A c \in TeamCallSet : [c EXCEPT !.here = FALSE] \in TeamCallSet
    BY DEF TeamCallSet
  <2> HIDE DEF TeamCallSet, TeamTabs
  <2> QED
    BY <1>a, <1>b, <1>2, <2>1, TeamDefaults DEF LeaveTeam
<1>3. CASE FilterTeam
  BY <1>a, <1>b, <1>3 DEF FilterTeam, TeamTabs
<1>4. CASE OpenInvite
  BY <1>a, <1>b, <1>c, <1>4 DEF OpenInvite, TeamTabs
<1>5. CASE CloseTeamForm
  BY <1>a, <1>b, <1>5 DEF CloseTeamForm, TeamTabs
<1>6. CASE FillMember
  BY <1>a, <1>b, <1>6 DEF FillMember, TeamTabs
<1>7. CASE CloseToggle
  BY <1>a, <1>b, <1>7 DEF CloseToggle, TeamTabs
<1>8. CASE ConfirmToggle
  <2> DEFINE c == TeamCall("toggle", teamTab.toggle, FormRole, ~teamTab.rows[teamTab.toggle].active)
  <2>1. c \in TeamCallSet
    <3>1. teamTab.toggle \in Member \cup {"none"}
      BY <1>a DEF TeamTabs
    <3>2. (~teamTab.rows[teamTab.toggle].active) \in BOOLEAN
      OBVIOUS
    <3> QED
      BY <1>c, <3>1, <3>2, TeamCallTyped
  <2> HIDE DEF c
  <2> QED
    BY <1>a, <1>b, <1>8, <2>1 DEF ConfirmToggle, TeamAsks, c
<1>9. CASE FormTimer
  BY <1>a, <1>b, <1>9 DEF FormTimer, TeamTabs
<1>10. ASSUME NEW m \in Member, OpenEdit(m) PROVE TeamTypeOK'
  <2>1. teamTab.rows[m].role \in MemberRole
    BY <1>a, <1>10 DEF OpenEdit, RowUp, TeamTabs, Account
  <2> DEFINE r == teamTab.rows[m].role
  <2>2. teamTab' = [teamTab EXCEPT !.open = TRUE, !.editing = m, !.filled = TRUE, !.role = r]
        /\ accounts' = accounts /\ teamCalls' = teamCalls
    BY <1>10 DEF OpenEdit
  <2> HIDE DEF r
  <2>3. teamTab' \in TeamTabs
    BY <1>a, <2>1, <2>2 DEF TeamTabs, r
  <2> QED
    BY <1>a, <1>b, <2>2, <2>3
<1>11. ASSUME NEW m \in Member, SaveMember(m) PROVE TeamTypeOK'
  <2> DEFINE c == TeamCall(IF teamTab.editing = "none" THEN "invite" ELSE "edit", m, teamTab.role, teamTab.filled)
  <2>1. c \in TeamCallSet
    <3>1. teamTab.role \in MemberRole /\ teamTab.filled \in BOOLEAN
      BY <1>a DEF TeamTabs
    <3> QED
      BY <3>1, TeamCallTyped
  <2>2. teamTab' = [teamTab EXCEPT !.adding = TRUE] /\ accounts' = accounts /\ teamCalls' = teamCalls \cup {c}
    BY <1>11 DEF SaveMember, TeamAsks
  <2> HIDE DEF c
  <2>3. teamTab' \in TeamTabs
    BY <1>a, <2>2 DEF TeamTabs
  <2> QED
    BY <1>a, <1>b, <2>1, <2>2, <2>3
<1>12. ASSUME NEW m \in Member, AskToggle(m) PROVE TeamTypeOK'
  BY <1>a, <1>b, <1>12 DEF AskToggle, TeamTabs
<1>13. ASSUME NEW r \in MemberRole, PickMemberRole(r) PROVE TeamTypeOK'
  BY <1>a, <1>b, <1>13 DEF PickMemberRole, TeamTabs
<1>14. ASSUME NEW c \in teamCalls, TeamServed(c) PROVE TeamTypeOK'
  <2>1. c \in TeamCallSet /\ teamTab' = teamTab
    BY <1>a, <1>14 DEF TeamServed
  <2>2. accounts' \in [Member -> Account]
    <3>1. PICK ok \in BOOLEAN :
            accounts' = CASE c.op = "invite" /\ ok -> [accounts EXCEPT ![c.of] = [role |-> c.role, active |-> TRUE]]
                          [] c.op = "edit" -> [accounts EXCEPT ![c.of].role = c.role]
                          [] c.op = "toggle" -> [accounts EXCEPT ![c.of].active = c.active]
                          [] OTHER -> accounts
      BY <1>14 DEF TeamServed
    <3>2. c.role \in MemberRole /\ c.active \in BOOLEAN
      BY <2>1 DEF TeamCallSet
    <3>3. \/ accounts' = [accounts EXCEPT ![c.of] = [role |-> c.role, active |-> TRUE]]
          \/ accounts' = [accounts EXCEPT ![c.of].role = c.role]
          \/ accounts' = [accounts EXCEPT ![c.of].active = c.active]
          \/ accounts' = accounts
      BY <3>1
    <3>4. [role |-> c.role, active |-> TRUE] \in Account
      BY <3>2 DEF Account
    <3>5. \A a \in Account : [a EXCEPT !.role = c.role] \in Account /\ [a EXCEPT !.active = c.active] \in Account
      BY <3>2 DEF Account
    <3> HIDE DEF Account
    <3> QED
      BY <1>a, <3>3, <3>4, <3>5
  <2>3. teamCalls' \subseteq TeamCallSet
    <3>1. PICK ok \in BOOLEAN :
            teamCalls' \subseteq teamCalls \cup
              {[c EXCEPT !.done = TRUE, !.ok = ok, !.rows = IF c.op = "list" THEN accounts ELSE c.rows]}
      BY <1>14 DEF TeamServed
    <3>2. [c EXCEPT !.done = TRUE, !.ok = ok, !.rows = IF c.op = "list" THEN accounts ELSE c.rows] \in TeamCallSet
      <4> HIDE DEF Account
      <4> QED
        BY <1>a, <2>1, <3>1 DEF TeamCallSet
    <3> QED
      BY <1>a, <3>1, <3>2
  <2> QED
    BY <1>a, <1>b, <2>1, <2>2, <2>3
<1>15. ASSUME NEW c \in teamCalls, MemberSaved(c) PROVE TeamTypeOK'
  <2>1. /\ teamCalls' \subseteq teamCalls \cup {ListTeam} /\ accounts' = accounts
        /\ \/ teamTab' = [teamTab EXCEPT !.filled = FALSE, !.role = FormRole, !.adding = FALSE, !.timer = TRUE]
           \/ teamTab' = [teamTab EXCEPT !.adding = FALSE]
    BY <1>15 DEF MemberSaved
  <2>2. teamTab' \in TeamTabs
    BY <1>a, <1>c, <2>1 DEF TeamTabs
  <2> QED
    BY <1>a, <1>b, <2>1, <2>2, TeamDefaults
<1>16. ASSUME NEW c \in teamCalls, ToggleAnswered(c) PROVE TeamTypeOK'
  <2>1. teamCalls' \subseteq teamCalls \cup {ListTeam} /\ accounts' = accounts
        /\ teamTab' = [teamTab EXCEPT !.toggle = "none"]
    BY <1>16 DEF ToggleAnswered
  <2>2. teamTab' \in TeamTabs
    BY <1>a, <2>1 DEF TeamTabs
  <2> QED
    BY <1>a, <1>b, <2>1, <2>2, TeamDefaults
<1>17. ASSUME NEW c \in teamCalls, TeamListArrives(c) PROVE TeamTypeOK'
  <2>1. teamCalls' \subseteq teamCalls /\ accounts' = accounts
        /\ teamTab' = [teamTab EXCEPT !.at = "list", !.rows = c.rows]
    BY <1>17 DEF TeamListArrives
  <2>2. c.rows \in [Member -> Account]
    BY <1>a, <1>17 DEF TeamCallSet
  <2>3. teamTab' \in TeamTabs
    <3> HIDE DEF Account
    <3> QED
      BY <1>a, <2>1, <2>2 DEF TeamTabs
  <2> QED
    BY <1>a, <1>b, <2>1, <2>3
<1>18. ASSUME NEW c \in teamCalls, TeamFails(c) PROVE TeamTypeOK'
  <2>1. teamCalls' \subseteq teamCalls /\ accounts' = accounts
        /\ \/ teamTab' = [teamTab EXCEPT !.at = "list"]
           \/ teamTab' = [teamTab EXCEPT !.toggle = "none"]
           \/ teamTab' = [teamTab EXCEPT !.adding = FALSE]
    BY <1>18 DEF TeamFails
  <2>2. teamTab' \in TeamTabs
    BY <1>a, <2>1 DEF TeamTabs
  <2> QED
    BY <1>a, <1>b, <2>1, <2>2
<1>19. CASE UNCHANGED teamVars
  BY <1>a, <1>b, <1>19 DEF teamVars
<1> QED
  BY <1>1, <1>2, <1>3, <1>4, <1>5, <1>6, <1>7, <1>8, <1>9, <1>10, <1>11, <1>12, <1>13, <1>14,
     <1>15, <1>16, <1>17, <1>18, <1>19 DEF TeamNext

\* The team's accounts, the tab and its calls keep their types (TeamTab.jsx).
THEOREM TeamTypes == TeamSpec => []TeamTypeOK
BY TeamTypeInit, TeamTypeNext, PTL DEF TeamSpec

CompTabs == [at : {"away", "loading", "list"}, rows : SUBSET CompId, expanded : BOOLEAN, open : BOOLEAN,
             editing : 0..MaxComp, dept : BOOLEAN, refused : BOOLEAN, remove : 0..MaxComp]
CompCallSet == [op : {"list", "create", "edit", "delete"}, id : 0..MaxComp,
                step : {"sent", "counted", "done"}, ok : BOOLEAN, here : BOOLEAN, rows : SUBSET CompId]

\* Only a call that creates a row is ever counted, and it has the row's id.
CompInv ==
    /\ CompTypeOK
    /\ \A c \in compCalls : c.op = "create" \/ c.step = "counted" => c.op = "create" /\ c.id \in CompId

LEMMA CompCallTyped ==
    ASSUME NEW op \in {"list", "create", "edit", "delete"}, NEW id \in 0..MaxComp
    PROVE  CompCall(op, id) \in CompCallSet
  BY DEF CompCall, CompCallSet

LEMMA CompDefaults ==
    /\ CompClosed \in CompTabs /\ CompCall("list", 0) \in CompCallSet
    /\ 0 \in 0..MaxComp /\ CompId \subseteq 0..MaxComp
<1>1. 0 \in 0..MaxComp /\ CompId \subseteq 0..MaxComp
  BY CompAssumption DEF CompId
<1> QED
  BY <1>1, CompCallTyped DEF CompClosed, CompTabs

LEMMA CompInvInit == CompInit => CompInv
<1> SUFFICES ASSUME CompInit PROVE CompInv
  OBVIOUS
<1>1. 1..2 \subseteq CompId /\ 2 \in 2..MaxComp
  BY CompAssumption DEF CompId
<1> QED
  BY <1>1, CompDefaults DEF CompInit, CompInv, CompTypeOK, CompTabs

LEMMA CompInvNext == CompInv /\ [CompNext]_compVars => CompInv'
<1> SUFFICES ASSUME CompInv, [CompNext]_compVars PROVE CompInv'
  OBVIOUS
<1> DEFINE CallOK(c) == c \in CompCallSet /\ (c.op = "create" \/ c.step = "counted" => c.op = "create" /\ c.id \in CompId)
<1>a. /\ comps \subseteq CompId /\ compMade \in 2..MaxComp /\ compTab \in CompTabs
      /\ \A c \in compCalls : CallOK(c)
  BY DEF CompInv, CompTypeOK, CompTabs, CompCallSet
<1>b. /\ comps' \subseteq CompId /\ compMade' \in 2..MaxComp /\ compTab' \in CompTabs
      /\ \A c \in compCalls' : CallOK(c)
      => CompInv'
  BY DEF CompInv, CompTypeOK, CompTabs, CompCallSet
<1>c. CallOK(CompCall("list", 0))
  BY CompDefaults DEF CompCall
<1>d. ASSUME NEW c \in compCalls, NEW ok \in BOOLEAN, CompReply(c, ok)
      PROVE  \A d \in compCalls' : CallOK(d)
  <2>1. compCalls' \subseteq compCalls \cup {CompAnswer(c, ok)}
    BY <1>d DEF CompReply
  <2>2. CallOK(CompAnswer(c, ok))
    <3>1. CallOK(c)
      BY <1>a
    <3> QED
      BY <1>a, <3>1 DEF CompAnswer, CompCallSet
  <2> HIDE DEF CallOK
  <2> QED
    BY <1>a, <2>1, <2>2
<1>1. CASE OpenComps
  <2>1. compTab' = [CompClosed EXCEPT !.at = "loading"] /\ compCalls' = compCalls \cup {CompCall("list", 0)}
        /\ comps' = comps /\ compMade' = compMade
    BY <1>1 DEF OpenComps, CompAsks
  <2>2. compTab' \in CompTabs
    BY <2>1, CompDefaults DEF CompTabs
  <2> HIDE DEF CallOK
  <2> QED
    BY <1>a, <1>b, <1>c, <2>1, <2>2
<1>2. CASE LeaveComps
  <2>1. \A c \in compCalls : CallOK([c EXCEPT !.here = FALSE])
    BY <1>a DEF CompCallSet
  <2> HIDE DEF CallOK
  <2>2. \A c \in compCalls' : CallOK(c)
    BY <1>2, <2>1 DEF LeaveComps
  <2> QED
    BY <1>a, <1>b, <1>2, <2>2, CompDefaults DEF LeaveComps
<1>3. CASE ToggleDept
  <2>1. compTab' = [compTab EXCEPT !.expanded = ~compTab.expanded]
        /\ comps' = comps /\ compMade' = compMade /\ compCalls' = compCalls
    BY <1>3 DEF ToggleDept
  <2>2. compTab' \in CompTabs
    BY <1>a, <2>1 DEF CompTabs
  <2> QED
    BY <1>a, <1>b, <2>1, <2>2
<1>4. CASE OpenAddComp
  <2>1. compTab' \in CompTabs
    BY <1>a, <1>4, CompDefaults DEF OpenAddComp, CompTabs
  <2> QED
    BY <1>a, <1>b, <1>4, <2>1 DEF OpenAddComp
<1>5. ASSUME NEW i \in CompId, OpenEditComp(i) PROVE CompInv'
  <2>1. i \in 0..MaxComp
    BY CompDefaults
  <2>2. compTab' \in CompTabs
    BY <1>a, <1>5, <2>1 DEF OpenEditComp, CompTabs
  <2> QED
    BY <1>a, <1>b, <1>5, <2>2 DEF OpenEditComp
<1>6. CASE PickCompDept
  <2>1. compTab' \in CompTabs
    BY <1>a, <1>6 DEF PickCompDept, CompTabs
  <2> QED
    BY <1>a, <1>b, <1>6, <2>1 DEF PickCompDept
<1>7. CASE CloseCompForm
  <2>1. compTab' \in CompTabs
    BY <1>a, <1>7 DEF CloseCompForm, CompTabs
  <2> QED
    BY <1>a, <1>b, <1>7, <2>1 DEF CloseCompForm
<1>8. CASE SaveComp
  <2>1. compTab' = [compTab EXCEPT !.refused = ~FormAllows] /\ comps' = comps
    BY <1>8 DEF SaveComp
  <2>2. compTab' \in CompTabs
    <3>1. (~FormAllows) \in BOOLEAN
      BY DEF FormAllows
    <3> QED
      BY <1>a, <2>1, <3>1 DEF CompTabs
  <2>3. CASE ~FormAllows
    BY <1>a, <1>b, <1>8, <2>1, <2>2, <2>3 DEF SaveComp
  <2>4. CASE FormAllows /\ compTab.editing # 0
    <3>1. compCalls' = compCalls \cup {CompCall("edit", compTab.editing)} /\ compMade' = compMade
      BY <1>8, <2>4 DEF SaveComp, CompAsks
    <3>2. CallOK(CompCall("edit", compTab.editing))
      <4>1. compTab.editing \in 0..MaxComp
        BY <1>a DEF CompTabs
      <4> QED
        BY <4>1, CompCallTyped DEF CompCall
    <3> HIDE DEF CallOK
    <3> QED
      BY <1>a, <1>b, <2>1, <2>2, <3>1, <3>2
  <2>5. CASE FormAllows /\ compTab.editing = 0
    <3>1. compCalls' = compCalls \cup {CompCall("create", compMade')} /\ compMade' = compMade + 1 /\ compMade < MaxComp
      BY <1>8, <2>5 DEF SaveComp, CompAsks
    <3>2. compMade' \in 2..MaxComp /\ compMade' \in CompId
      BY <1>a, <3>1, CompAssumption DEF CompId
    <3>3. CallOK(CompCall("create", compMade'))
      BY <3>2, CompCallTyped, CompDefaults DEF CompCall
    <3> HIDE DEF CallOK
    <3> QED
      BY <1>a, <1>b, <2>1, <2>2, <3>1, <3>2, <3>3
  <2> QED
    BY <2>3, <2>4, <2>5
<1>9. ASSUME NEW i \in CompId, AskDeleteComp(i) PROVE CompInv'
  <2>1. i \in 0..MaxComp
    BY CompDefaults
  <2>2. compTab' \in CompTabs
    BY <1>a, <1>9, <2>1 DEF AskDeleteComp, CompTabs
  <2> QED
    BY <1>a, <1>b, <1>9, <2>2 DEF AskDeleteComp
<1>10. CASE ConfirmDeleteComp
  <2>1. compCalls' = compCalls \cup {CompCall("delete", compTab.remove)}
        /\ comps' = comps /\ compMade' = compMade /\ compTab' = compTab
    BY <1>10 DEF ConfirmDeleteComp, CompAsks
  <2>2. CallOK(CompCall("delete", compTab.remove))
    <3>1. compTab.remove \in 0..MaxComp
      BY <1>a DEF CompTabs
    <3> QED
      BY <3>1, CompCallTyped DEF CompCall
  <2> HIDE DEF CallOK
  <2> QED
    BY <1>a, <1>b, <2>1, <2>2
<1>11. ASSUME NEW c \in compCalls, CountComps(c) PROVE CompInv'
  <2>1. comps' = comps /\ compMade' = compMade /\ compTab' = compTab /\ c.op = "create"
    BY <1>11 DEF CountComps
  <2>2. CASE CompReply(c, FALSE)
    BY <1>a, <1>b, <1>d, <2>1, <2>2
  <2>3. CASE compCalls' = (compCalls \ {c}) \cup {[c EXCEPT !.step = "counted"]}
    <3>1. CallOK([c EXCEPT !.step = "counted"])
      BY <1>a, <2>1 DEF CompCallSet
    <3> HIDE DEF CallOK
    <3> QED
      BY <1>a, <1>b, <2>1, <2>3, <3>1
  <2> QED
    BY <1>11, <2>2, <2>3 DEF CountComps
<1>12. ASSUME NEW c \in compCalls, InsertComp(c) PROVE CompInv'
  <2>1. comps' = comps \cup {c.id} /\ compMade' = compMade /\ compTab' = compTab /\ c.id \in CompId
    BY <1>a, <1>12 DEF InsertComp
  <2>2. \A d \in compCalls' : CallOK(d)
    BY <1>d, <1>12 DEF InsertComp
  <2> HIDE DEF CallOK
  <2> QED
    BY <1>a, <1>b, <2>1, <2>2
<1>13. ASSUME NEW c \in compCalls, CompServed(c) PROVE CompInv'
  <2>1. comps' \subseteq comps /\ compMade' = compMade /\ compTab' = compTab
    BY <1>13 DEF CompServed
  <2>2. \A d \in compCalls' : CallOK(d)
    <3>1. CompReply(c, c.op = "list" \/ c.id \in comps)
      BY <1>13 DEF CompServed
    <3>2. (c.op = "list" \/ c.id \in comps) \in BOOLEAN
      OBVIOUS
    <3> HIDE DEF CallOK
    <3> QED
      BY <1>d, <3>1, <3>2
  <2> HIDE DEF CallOK
  <2> QED
    BY <1>a, <1>b, <2>1, <2>2
<1>14. ASSUME NEW c \in compCalls, CompSaved(c) PROVE CompInv'
  <2>1. /\ comps' = comps /\ compMade' = compMade /\ compCalls' \subseteq compCalls \cup {CompCall("list", 0)}
        /\ \/ compTab' = [compTab EXCEPT !.open = FALSE, !.editing = 0, !.dept = FALSE]
           \/ compTab' = [compTab EXCEPT !.refused = TRUE]
    BY <1>14 DEF CompSaved
  <2>2. compTab' \in CompTabs
    BY <1>a, <2>1, CompDefaults DEF CompTabs
  <2> HIDE DEF CallOK
  <2> QED
    BY <1>a, <1>b, <1>c, <2>1, <2>2
<1>15. ASSUME NEW c \in compCalls, CompDeleted(c) PROVE CompInv'
  <2>1. /\ comps' = comps /\ compMade' = compMade /\ compCalls' \subseteq compCalls \cup {CompCall("list", 0)}
        /\ compTab' = [compTab EXCEPT !.remove = 0]
    BY <1>15 DEF CompDeleted
  <2>2. compTab' \in CompTabs
    BY <1>a, <2>1, CompDefaults DEF CompTabs
  <2> HIDE DEF CallOK
  <2> QED
    BY <1>a, <1>b, <1>c, <2>1, <2>2
<1>16. ASSUME NEW c \in compCalls, CompListArrives(c) PROVE CompInv'
  <2>1. /\ comps' = comps /\ compMade' = compMade /\ compCalls' \subseteq compCalls
        /\ compTab' = [compTab EXCEPT !.at = "list", !.rows = c.rows]
    BY <1>16 DEF CompListArrives
  <2>2. c.rows \in SUBSET CompId
    BY <1>a DEF CompCallSet
  <2>3. compTab' \in CompTabs
    BY <1>a, <2>1, <2>2 DEF CompTabs
  <2> HIDE DEF CallOK
  <2> QED
    BY <1>a, <1>b, <2>1, <2>3
<1>17. ASSUME NEW c \in compCalls, CompFails(c) PROVE CompInv'
  <2>1. /\ comps' = comps /\ compMade' = compMade /\ compCalls' \subseteq compCalls
        /\ \/ compTab' = [compTab EXCEPT !.at = "list"]
           \/ compTab' = [compTab EXCEPT !.remove = 0]
           \/ compTab' = [compTab EXCEPT !.refused = TRUE]
    BY <1>17 DEF CompFails
  <2>2. compTab' \in CompTabs
    BY <1>a, <2>1, CompDefaults DEF CompTabs
  <2> HIDE DEF CallOK
  <2> QED
    BY <1>a, <1>b, <2>1, <2>2
<1>18. CASE UNCHANGED compVars
  BY <1>a, <1>b, <1>18 DEF compVars
<1> HIDE DEF CallOK
<1> QED
  BY <1>1, <1>2, <1>3, <1>4, <1>5, <1>6, <1>7, <1>8, <1>9, <1>10, <1>11, <1>12, <1>13, <1>14,
     <1>15, <1>16, <1>17, <1>18 DEF CompNext

\* The competitors, the tab and its calls keep their types: a row is only made with an
\* id that is its own, though the limit is counted before (competitors.py).
THEOREM CompTypes == CompSpec => []CompTypeOK
<1>1. CompInv => CompTypeOK
  BY DEF CompInv
<1> QED
  BY CompInvInit, CompInvNext, <1>1, PTL DEF CompSpec

Rails == [url : Section \cup {"none"}, shown : Section \cup {"none"}]
RuleTabs == [at : {"away", "loading", "form"}, depts : [SetDept -> BOOLEAN], sel : SetDept \cup {"none"},
             hr : BOOLEAN, allow : BOOLEAN, jd : BOOLEAN]
RuleCallSet == [op : {"load", "dept", "allow", "jd"}, dept : SetDept \cup {"none"},
                value : BOOLEAN, prev : BOOLEAN, done : BOOLEAN, here : BOOLEAN, rules : Rules]

LEMMA RuleCallTyped ==
    ASSUME NEW op \in {"load", "dept", "allow", "jd"}, NEW dept \in SetDept \cup {"none"},
           NEW value \in BOOLEAN, NEW prev \in BOOLEAN
    PROVE  RuleCall(op, dept, value, prev) \in RuleCallSet
<1>1. OffRules \in Rules
  BY DEF OffRules, Rules
<1> HIDE DEF Rules
<1> QED
  BY <1>1 DEF RuleCall, RuleCallSet

LEMMA SettingsDefaults == OffRules \in Rules /\ RulesAway \in RuleTabs
  BY DEF OffRules, Rules, RulesAway, RuleTabs

LEMMA SettingsTypeInit == SettingsInit => SettingsTypeOK
  BY SettingsDefaults DEF SettingsInit, SettingsTypeOK, RuleTabs

LEMMA SettingsTypeNext == SettingsTypeOK /\ [SettingsNext]_setVars => SettingsTypeOK'
<1> SUFFICES ASSUME SettingsTypeOK, [SettingsNext]_setVars PROVE SettingsTypeOK'
  OBVIOUS
<1>a. /\ setRole \in SetRole /\ storedRules \in Rules /\ setPage \in Rails
      /\ ruleTab \in RuleTabs /\ ruleCalls \subseteq RuleCallSet
  BY DEF SettingsTypeOK, Rails, RuleTabs, RuleCallSet
<1>b. /\ setRole' \in SetRole /\ storedRules' \in Rules /\ setPage' \in Rails
      /\ ruleTab' \in RuleTabs /\ ruleCalls' \subseteq RuleCallSet
      => SettingsTypeOK'
  BY DEF SettingsTypeOK, Rails, RuleTabs, RuleCallSet
<1> USE DEF Rails
<1>c. Unseen \subseteq RuleCallSet
  <2>1. \A c \in RuleCallSet : [c EXCEPT !.here = FALSE] \in RuleCallSet
    BY DEF RuleCallSet
  <2> QED
    BY <1>a, <2>1 DEF Unseen
<1>d. ASSUME NEW url \in Section, NEW s \in Section, Show(url, s) PROVE SettingsTypeOK'
  <2>1. setPage' \in Rails /\ setRole' = setRole /\ storedRules' = storedRules
    BY <1>d DEF Show
  <2>2. CASE s = "approval"
    <3>1. ruleTab' = [RulesAway EXCEPT !.at = "loading"]
          /\ ruleCalls' = Unseen \cup {RuleCall("load", "none", FALSE, FALSE)}
      BY <1>d, <2>2 DEF Show, RuleAsks
    <3>2. ruleTab' \in RuleTabs
      BY <3>1, SettingsDefaults DEF RuleTabs
    <3>3. RuleCall("load", "none", FALSE, FALSE) \in RuleCallSet
      BY RuleCallTyped
    <3> QED
      BY <1>a, <1>b, <1>c, <2>1, <3>1, <3>2, <3>3
  <2>3. CASE s # "approval"
    BY <1>a, <1>b, <1>c, <1>d, <2>1, <2>3, SettingsDefaults DEF Show
  <2> QED
    BY <2>2, <2>3
<1>e. "profile" \in Section
  BY DEF Section
<1>1. ASSUME NEW s \in Section, OpenSettings(s) PROVE SettingsTypeOK'
  <2>1. CASE Allowed(s)
    BY <1>d, <1>1, <2>1 DEF OpenSettings
  <2>2. CASE ~Allowed(s)
    BY <1>d, <1>e, <1>1, <2>2 DEF OpenSettings
  <2> QED
    BY <2>1, <2>2
<1>2. CASE ReloadSettings
  <2> DEFINE u == setPage.url
  <2>1. u \in Section \cup {"none"} /\ Show(u, IF Allowed(u) THEN u ELSE "profile")
    BY <1>a, <1>2 DEF ReloadSettings
  <2>2. CASE u \in Section
    <3> DEFINE s == IF Allowed(u) THEN u ELSE "profile"
    <3>1. s \in Section /\ Show(u, s)
      BY <1>e, <2>1, <2>2
    <3> HIDE DEF s, u
    <3> QED
      BY <1>d, <2>2, <3>1
  <2>3. CASE u = "none"
    <3>1. setPage' \in Rails /\ setRole' = setRole /\ storedRules' = storedRules
      BY <1>e, <2>1, <2>3 DEF Show
    <3>2. ruleTab' \in RuleTabs /\ ruleCalls' \subseteq RuleCallSet
      <4>1. Show(u, "none") \/ Show(u, "profile")
        BY <2>1, <2>3
      <4> QED
        BY <1>c, <4>1, SettingsDefaults DEF Show
    <3> QED
      BY <1>a, <1>b, <3>1, <3>2
  <2> QED
    BY <2>1, <2>2, <2>3
<1>3. ASSUME NEW s \in Section, PickSection(s) PROVE SettingsTypeOK'
  BY <1>d, <1>3 DEF PickSection
<1>4. CASE LeaveSettings
  BY <1>a, <1>b, <1>c, <1>4, SettingsDefaults DEF LeaveSettings
<1>5. ASSUME NEW url \in Section, FollowLink(url) PROVE SettingsTypeOK'
  BY <1>a, <1>b, <1>5 DEF FollowLink
<1>6. ASSUME NEW c \in ruleCalls, RulesServed(c) PROVE SettingsTypeOK'
  <2>1. c \in RuleCallSet /\ setRole' = setRole /\ setPage' = setPage /\ ruleTab' = ruleTab
    BY <1>a, <1>6 DEF RulesServed
  <2>2. storedRules' \in Rules
    <3>1. \/ storedRules' = [storedRules EXCEPT !.hr[c.dept] = c.value]
          \/ storedRules' = [storedRules EXCEPT !.allow = c.value]
          \/ storedRules' = [storedRules EXCEPT !.jd = c.value]
          \/ storedRules' = storedRules
      BY <1>6 DEF RulesServed
    <3>2. c.value \in BOOLEAN
      BY <2>1 DEF RuleCallSet
    <3> QED
      BY <1>a, <3>1, <3>2 DEF Rules
  <2>3. ruleCalls' \subseteq RuleCallSet
    <3> DEFINE d == [c EXCEPT !.done = TRUE, !.rules = IF c.op = "load" THEN storedRules ELSE c.rules]
    <3>1. ruleCalls' \subseteq ruleCalls \cup {d}
      BY <1>6 DEF RulesServed
    <3>2. d \in RuleCallSet
      <4> HIDE DEF Rules
      <4> QED
        BY <1>a, <2>1 DEF RuleCallSet
    <3> HIDE DEF d
    <3> QED
      BY <1>a, <3>1, <3>2
  <2> QED
    BY <1>a, <1>b, <2>1, <2>2, <2>3
<1>7. ASSUME NEW c \in ruleCalls, NEW depts \in BOOLEAN, NEW org \in BOOLEAN, LoadArrive(c, depts, org)
      PROVE  SettingsTypeOK'
  <2> DEFINE listed == IF IsAdmin /\ depts
                       THEN [ruleTab EXCEPT !.depts = c.rules.hr, !.sel = FirstDept, !.hr = c.rules.hr[FirstDept]]
                       ELSE ruleTab
             policy == IF setRole \in {"org_head", "team_lead"} /\ org
                       THEN [listed EXCEPT !.allow = c.rules.allow,
                                           !.jd = listed.jd /\ (setRole = "team_lead" => c.rules.allow)]
                       ELSE listed
  <2>1. /\ ruleTab' = [policy EXCEPT !.at = "form"] /\ ruleCalls' \subseteq ruleCalls
        /\ setRole' = setRole /\ setPage' = setPage /\ storedRules' = storedRules
    BY <1>7 DEF LoadArrive
  <2>2. c.rules.hr \in [SetDept -> BOOLEAN] /\ c.rules.allow \in BOOLEAN /\ FirstDept \in SetDept
    BY <1>a, SettingsAssumption DEF RuleCallSet, Rules
  <2>3. listed \in RuleTabs
    <3>1. c.rules.hr[FirstDept] \in BOOLEAN
      BY <2>2
    <3> QED
      BY <1>a, <2>2, <3>1 DEF RuleTabs
  <2> HIDE DEF listed
  <2>4. policy \in RuleTabs
    BY <2>2, <2>3 DEF RuleTabs
  <2> HIDE DEF policy
  <2>5. ruleTab' \in RuleTabs
    BY <2>1, <2>4 DEF RuleTabs
  <2> QED
    BY <1>a, <1>b, <2>1, <2>5
<1>8. ASSUME NEW d \in SetDept, PickRuleDept(d) PROVE SettingsTypeOK'
  <2>1. /\ ruleTab' = [ruleTab EXCEPT !.sel = d, !.hr = ruleTab.depts[d]] /\ ruleCalls' = ruleCalls
        /\ setRole' = setRole /\ setPage' = setPage /\ storedRules' = storedRules
    BY <1>8 DEF PickRuleDept
  <2>2. ruleTab.depts[d] \in BOOLEAN
    BY <1>a DEF RuleTabs
  <2>3. ruleTab' \in RuleTabs
    BY <1>a, <2>1, <2>2 DEF RuleTabs
  <2> QED
    BY <1>a, <1>b, <2>1, <2>3
<1>9. CASE ToggleHire
  <2> DEFINE c == RuleCall("dept", ruleTab.sel, ~ruleTab.hr, ruleTab.hr)
  <2>1. /\ ruleTab' = [ruleTab EXCEPT !.hr = ~ruleTab.hr] /\ ruleCalls' = ruleCalls \cup {c}
        /\ setRole' = setRole /\ setPage' = setPage /\ storedRules' = storedRules
    BY <1>9 DEF ToggleHire, RuleAsks
  <2>2. c \in RuleCallSet
    <3>1. ruleTab.sel \in SetDept \cup {"none"} /\ ruleTab.hr \in BOOLEAN
      BY <1>a DEF RuleTabs
    <3>2. (~ruleTab.hr) \in BOOLEAN
      BY <3>1
    <3> QED
      BY <3>1, <3>2, RuleCallTyped
  <2>3. ruleTab' \in RuleTabs
    BY <1>a, <2>1 DEF RuleTabs
  <2> HIDE DEF c
  <2> QED
    BY <1>a, <1>b, <2>1, <2>2, <2>3
<1>10. CASE TogglePolicy
  <2> DEFINE c == RuleCall("allow", "none", ~ruleTab.allow, ruleTab.allow)
  <2>1. /\ ruleTab' = [ruleTab EXCEPT !.allow = ~ruleTab.allow] /\ ruleCalls' = ruleCalls \cup {c}
        /\ setRole' = setRole /\ setPage' = setPage /\ storedRules' = storedRules
    BY <1>10 DEF TogglePolicy, RuleAsks
  <2>2. c \in RuleCallSet
    <3>1. "none" \in SetDept \cup {"none"} /\ ruleTab.allow \in BOOLEAN
      BY <1>a DEF RuleTabs
    <3>2. (~ruleTab.allow) \in BOOLEAN
      BY <3>1
    <3> QED
      BY <3>1, <3>2, RuleCallTyped
  <2>3. ruleTab' \in RuleTabs
    BY <1>a, <2>1 DEF RuleTabs
  <2> HIDE DEF c
  <2> QED
    BY <1>a, <1>b, <2>1, <2>2, <2>3
<1>11. CASE ToggleJd
  <2> DEFINE c == RuleCall("jd", "none", ~ruleTab.jd, ruleTab.jd)
  <2>1. /\ ruleTab' = [ruleTab EXCEPT !.jd = ~ruleTab.jd] /\ ruleCalls' = ruleCalls \cup {c}
        /\ setRole' = setRole /\ setPage' = setPage /\ storedRules' = storedRules
    BY <1>11 DEF ToggleJd, RuleAsks
  <2>2. c \in RuleCallSet
    <3>1. "none" \in SetDept \cup {"none"} /\ ruleTab.jd \in BOOLEAN
      BY <1>a DEF RuleTabs
    <3>2. (~ruleTab.jd) \in BOOLEAN
      BY <3>1
    <3> QED
      BY <3>1, <3>2, RuleCallTyped
  <2>3. ruleTab' \in RuleTabs
    BY <1>a, <2>1 DEF RuleTabs
  <2> HIDE DEF c
  <2> QED
    BY <1>a, <1>b, <2>1, <2>2, <2>3
<1>12. ASSUME NEW c \in ruleCalls, RuleSaved(c) PROVE SettingsTypeOK'
  <2>1. /\ ruleTab' = [ruleTab EXCEPT !.depts[c.dept] = c.value] \/ ruleTab' = ruleTab
        /\ ruleCalls' \subseteq ruleCalls
        /\ setRole' = setRole /\ setPage' = setPage /\ storedRules' = storedRules
    BY <1>12 DEF RuleSaved
  <2>2. c.value \in BOOLEAN
    BY <1>a DEF RuleCallSet
  <2>3. ruleTab' \in RuleTabs
    BY <1>a, <2>1, <2>2 DEF RuleTabs
  <2> QED
    BY <1>a, <1>b, <2>1, <2>3
<1>13. ASSUME NEW c \in ruleCalls, RuleFails(c) PROVE SettingsTypeOK'
  <2>1. /\ \/ ruleTab' = [ruleTab EXCEPT !.at = "form"]
           \/ ruleTab' = [ruleTab EXCEPT !.hr = c.prev]
           \/ ruleTab' = [ruleTab EXCEPT !.allow = c.prev]
           \/ ruleTab' = [ruleTab EXCEPT !.jd = c.prev]
        /\ ruleCalls' \subseteq ruleCalls
        /\ setRole' = setRole /\ setPage' = setPage /\ storedRules' = storedRules
    BY <1>13 DEF RuleFails
  <2>2. c.prev \in BOOLEAN
    BY <1>a DEF RuleCallSet
  <2>3. ruleTab' \in RuleTabs
    BY <1>a, <2>1, <2>2 DEF RuleTabs
  <2> QED
    BY <1>a, <1>b, <2>1, <2>3
<1>14. CASE UNCHANGED setVars
  BY <1>a, <1>b, <1>14 DEF setVars
<1> QED
  BY <1>1, <1>2, <1>3, <1>4, <1>5, <1>6, <1>7, <1>8, <1>9, <1>10, <1>11, <1>12, <1>13, <1>14 DEF SettingsNext

\* The rail, the rules and their calls keep their types (SettingsPage.jsx).
THEOREM SettingsTypes == SettingsSpec => []SettingsTypeOK
BY SettingsTypeInit, SettingsTypeNext, PTL DEF SettingsSpec

-----------------------------------------------------------------------------
(**************************************************************************)
(* The pages together. A behaviour of MCDeskPages moves one module at a    *)
(* time and leaves the others where they are, so that every module keeps   *)
(* its own invariant.                                                      *)
(**************************************************************************)

\* The invariant of every module.
DeskPagesInv ==
    /\ ChatInv /\ SetupInv /\ EditorKept /\ JdReviewTypeOK /\ ShelfInv /\ SessionInv /\ QuestionsInv
    /\ TemplatesInv /\ TeamTypeOK /\ CompInv /\ KeysInv /\ DeskKept /\ SettingsTypeOK

LEMMA DeskPagesStart == MCInit => DeskPagesInv
BY ChatStart, SetupStart, EditorKeptInit, JdReviewTypeInit, ShelfInit, SessionStart, QuestionsInvInit,
   TemplatesStart, TeamTypeInit, CompInvInit, KeysInit, DeskKeptInit, SettingsTypeInit
DEF MCInit, DeskPagesInv

\* A step is one of the module on the scene, and leaves the others alone.
LEMMA OnePageMoves ==
    [MCNext]_MCVars =>
        /\ [ChatNext]_chatVars /\ [EditorNext]_editorVars /\ [SetupNext]_setupVars /\ [JdReviewNext]_jdVars /\ [DeskNext]_deskVars
        /\ [SessionNext]_sessionVars /\ [QuestionsNext]_qVars /\ [TemplatesNext]_tplVars /\ [TeamNext]_teamVars
        /\ [CompNext]_compVars /\ [PlatNext]_platVars /\ [SettingsNext]_setVars
BY DEF MCNext, MCVars

LEMMA DeskPagesStep == DeskPagesInv /\ [MCNext]_MCVars => DeskPagesInv'
<1> SUFFICES ASSUME DeskPagesInv, [MCNext]_MCVars PROVE DeskPagesInv'
  OBVIOUS
<1>1. ChatInv' /\ SetupInv' /\ EditorKept' /\ JdReviewTypeOK' /\ ShelfInv'
  BY OnePageMoves, ChatStep, SetupStep, EditorKeptStep, JdReviewTypeNext, ShelfStep DEF DeskPagesInv
<1>2. SessionInv' /\ QuestionsInv' /\ TemplatesInv' /\ TeamTypeOK' /\ CompInv'
  BY OnePageMoves, SessionStep, QuestionsInvNext, TemplatesStep, TeamTypeNext, CompInvNext DEF DeskPagesInv
<1>3. KeysInv' /\ DeskKept' /\ SettingsTypeOK'
  BY OnePageMoves, KeysStep, DeskKeptStep, SettingsTypeNext DEF DeskPagesInv
<1> QED
  BY <1>1, <1>2, <1>3 DEF DeskPagesInv

\* Every variable of the desk's and the settings' pages keeps its type, on whatever page
\* the behaviour is and for any number of tabs, sessions, rows and calls.
THEOREM DeskPagesTypes == MCSpec => []DeskPagesTypeOK
<1>1. DeskPagesInv => DeskPagesTypeOK
  <2> SUFFICES ASSUME DeskPagesInv PROVE DeskPagesTypeOK
    OBVIOUS
  <2>1. ChatTypeOK /\ SetupTypeOK /\ DeskTypeOK /\ SessionTypeOK /\ CompTypeOK
    BY DEF DeskPagesInv, ChatInv, TurnsInv, RowsInv, MintInv, ChatTypeOK, SetupInv, ShelfInv, SessionInv, CompInv
  <2>2. EditorTypeOK /\ QuestionsTypeOK /\ TemplatesTypeOK /\ PlatTypeOK
    BY EditorTyped, QuestionsInvImplies, TemplatesTyped, PlatTyped DEF DeskPagesInv
  <2> QED
    BY <2>1, <2>2 DEF DeskPagesInv, DeskPagesTypeOK
<1> QED
  BY DeskPagesStart, DeskPagesStep, <1>1, PTL DEF MCSpec
=============================================================================
