------------------------------- MODULE Erasure -------------------------------
(***************************************************************************)
(* The right to erasure: the public page that asks for it and verifies it *)
(* (frontend/src/components/GDPR/DeleteMyDataPage.jsx), the organisation  *)
(* head's list that carries it out (Settings/tabs/PrivacyTab.jsx), and    *)
(* the requests' rows (backend/services/gdpr_service.py).                 *)
(*                                                                         *)
(* One person asks, from several pages, about the records kept under one  *)
(* address; several desks work on the same list.                          *)
(***************************************************************************)
EXTENDS Naturals, FiniteSets

CONSTANTS
    Cand,     \* the candidate records with the person's address
    ETok,     \* the request tokens: the bound on the number of requests
    Visitor,  \* open copies of the public page
    ErDesk,   \* open copies of the privacy tab
    NoTok,
    NoRow

ASSUME ErasureAssumption == NoTok \notin ETok /\ NoRow \notin Cand \X ETok

VARIABLES
    reqRow,   \* [row -> status] data_deletion_requests: a row for a candidate and a token
    wiped,    \* [row -> how often the erasure was carried out for it]
    visit,    \* [Visitor -> the public page's step and token]
    ask,      \* [Visitor -> its call]
    erList,   \* [ErDesk -> the statuses last listed]
    pick,     \* [ErDesk -> the row of the confirmation, or NoRow]
    wipe      \* [ErDesk -> how far its processing call is]

erasureVars == <<reqRow, wiped, visit, ask, erList, pick, wipe>>

ReqKey == Cand \X ETok
ReqStatus == {"none", "pending", "verified", "completed"}
AskIdle == [kind |-> "none", at |-> "idle", tok |-> NoTok, cands |-> {}]

ErasureTypeOK ==
    /\ reqRow \in [ReqKey -> ReqStatus]
    /\ wiped \in [ReqKey -> 0..2]
    /\ visit \in [Visitor -> [step : {"form", "sending", "sent", "verifying", "done", "error"},
                              tok : ETok \cup {NoTok}]]
    /\ ask \in [Visitor -> [kind : {"none", "request", "verify"},
                            at : {"idle", "sent", "read", "ok", "failed"},
                            tok : ETok \cup {NoTok}, cands : SUBSET Cand]]
    /\ erList \in [ErDesk -> [ReqKey -> ReqStatus]]
    /\ pick \in [ErDesk -> ReqKey \cup {NoRow}]
    /\ wipe \in [ErDesk -> {"idle", "sent", "read", "ok", "failed"}]

ErasureInit ==
    /\ reqRow = [r \in ReqKey |-> "none"]
    /\ wiped = [r \in ReqKey |-> 0]
    /\ visit = [v \in Visitor |-> [step |-> "form", tok |-> NoTok]]
    /\ ask = [v \in Visitor |-> AskIdle]
    /\ erList = [d \in ErDesk |-> [r \in ReqKey |-> "none"]]
    /\ pick = [d \in ErDesk |-> NoRow]
    /\ wipe = [d \in ErDesk |-> "idle"]

-----------------------------------------------------------------------------
\* The public page.

RequestErasure(v) ==
    /\ visit[v].step = "form"
    /\ visit' = [visit EXCEPT ![v].step = "sending"]
    /\ ask' = [ask EXCEPT ![v] = [AskIdle EXCEPT !.kind = "request", !.at = "sent"]]
    /\ UNCHANGED <<reqRow, wiped, erList, pick, wipe>>

\* The button is shown with a token only.
VerifyErasure(v) ==
    /\ visit[v].step = "sent" /\ visit[v].tok # NoTok
    /\ visit' = [visit EXCEPT ![v].step = "verifying"]
    /\ ask' = [ask EXCEPT ![v] = [AskIdle EXCEPT !.kind = "verify", !.at = "sent", !.tok = visit[v].tok]]
    /\ UNCHANGED <<reqRow, wiped, erList, pick, wipe>>

TryAgain(v) ==
    /\ visit[v].step = "error"
    /\ visit' = [visit EXCEPT ![v].step = "form"]
    /\ UNCHANGED <<reqRow, wiped, ask, erList, pick, wipe>>

\* The page is loaded again and forgets its token.
Revisit(v) ==
    /\ ask[v].at = "idle" /\ visit[v].step # "form"
    /\ visit' = [visit EXCEPT ![v] = [step |-> "form", tok |-> NoTok]]
    /\ UNCHANGED <<reqRow, wiped, ask, erList, pick, wipe>>

\* A request without a token in its answer leaves the token of an earlier one.
BugStepAfterAsk(v) == IF ask[v].kind = "request" THEN "sent" ELSE "done"
StepAfterAsk(v) ==
    IF ask[v].at = "failed" THEN "error" ELSE IF ask[v].kind = "request" THEN "sent" ELSE "done"

AskAnswered(v) ==
    /\ ask[v].at \in {"ok", "failed"}
    /\ visit' = [visit EXCEPT ![v] =
         [step |-> StepAfterAsk(v),
          tok |-> IF ask[v].kind = "request" /\ ask[v].at = "ok" /\ ask[v].tok # NoTok
                  THEN ask[v].tok ELSE @.tok]]
    /\ ask' = [ask EXCEPT ![v] = AskIdle]
    /\ UNCHANGED <<reqRow, wiped, erList, pick, wipe>>

-----------------------------------------------------------------------------
\* request_deletion, verify_deletion: each reads in one statement and writes in another.

TokUsed == {ask[v].tok : v \in Visitor} \cup {visit[v].tok : v \in Visitor}
             \cup {r[2] : r \in {q \in ReqKey : reqRow[q] # "none"}}
OpenFor(c) == \E k \in ETok : reqRow[<<c, k>>] \in {"pending", "verified"}

ReadRequests(v, k) ==
    /\ ask[v].kind = "request" /\ ask[v].at = "sent" /\ k \notin TokUsed
    /\ ask' = [ask EXCEPT ![v] = [@ EXCEPT !.at = "read", !.tok = k, !.cands = {c \in Cand : ~OpenFor(c)}]]
    /\ UNCHANGED <<reqRow, wiped, visit, erList, pick, wipe>>

\* An address without a record is answered alike, without a token.
UnknownAddress(v) ==
    /\ ask[v].kind = "request" /\ ask[v].at = "sent"
    /\ ask' = [ask EXCEPT ![v].at = "ok"]
    /\ UNCHANGED <<reqRow, wiped, visit, erList, pick, wipe>>

ReadPending(v) ==
    LET found == {c \in Cand : reqRow[<<c, ask[v].tok>>] = "pending"} IN
    /\ ask[v].kind = "verify" /\ ask[v].at = "sent"
    /\ ask' = [ask EXCEPT ![v] = IF found = {} THEN [@ EXCEPT !.at = "failed"]
                                 ELSE [@ EXCEPT !.at = "read", !.cands = found]]
    /\ UNCHANGED <<reqRow, wiped, visit, erList, pick, wipe>>

\* The rows read are written, whatever they have become.
WriteRequests(v) ==
    /\ ask[v].at = "read"
    /\ reqRow' = [r \in ReqKey |->
         IF r[1] \notin ask[v].cands \/ r[2] # ask[v].tok THEN reqRow[r]
         ELSE IF ask[v].kind = "request" THEN "pending" ELSE "verified"]
    /\ ask' = [ask EXCEPT ![v] = [@ EXCEPT !.at = "ok", !.cands = {}]]
    /\ UNCHANGED <<wiped, visit, erList, pick, wipe>>

AskFails(v) ==
    /\ ask[v].at \in {"sent", "read", "ok"}
    /\ ask' = [ask EXCEPT ![v] = [AskIdle EXCEPT !.kind = ask[v].kind, !.at = "failed"]]
    /\ UNCHANGED <<reqRow, wiped, visit, erList, pick, wipe>>

-----------------------------------------------------------------------------
\* The privacy tab.

\* On mounting, and with the refresh button.
ListRequests(d) ==
    /\ erList' = [erList EXCEPT ![d] = reqRow]
    /\ UNCHANGED <<reqRow, wiped, visit, ask, pick, wipe>>

OfferProcess(d, r) ==
    /\ erList[d][r] = "verified" /\ pick[d] = NoRow
    /\ pick' = [pick EXCEPT ![d] = r]
    /\ UNCHANGED <<reqRow, wiped, visit, ask, erList, wipe>>

CloseConfirm(d) ==
    /\ pick[d] # NoRow /\ wipe[d] = "idle"
    /\ pick' = [pick EXCEPT ![d] = NoRow]
    /\ UNCHANGED <<reqRow, wiped, visit, ask, erList, wipe>>

HandleProcess(d) ==
    /\ pick[d] # NoRow /\ wipe[d] = "idle"
    /\ wipe' = [wipe EXCEPT ![d] = "sent"]
    /\ UNCHANGED <<reqRow, wiped, visit, ask, erList, pick>>

\* process_deletion: the status is read before the transaction that erases.
ReadForErasure(d) ==
    /\ wipe[d] = "sent"
    /\ wipe' = [wipe EXCEPT ![d] = IF reqRow[pick[d]] = "verified" THEN "read" ELSE "failed"]
    /\ UNCHANGED <<reqRow, wiped, visit, ask, erList, pick>>

Erase(d) ==
    /\ wipe[d] = "read" /\ wiped[pick[d]] < 2
    /\ reqRow' = [reqRow EXCEPT ![pick[d]] = "completed"]
    /\ wiped' = [wiped EXCEPT ![pick[d]] = @ + 1]
    /\ wipe' = [wipe EXCEPT ![d] = "ok"]
    /\ UNCHANGED <<visit, ask, erList, pick>>

\* The transaction is rolled back, or the call is lost on either way.
WipeFails(d) ==
    /\ wipe[d] \in {"sent", "read", "ok"}
    /\ wipe' = [wipe EXCEPT ![d] = "failed"]
    /\ UNCHANGED <<reqRow, wiped, visit, ask, erList, pick>>

\* Processed: the list is read again.  Either way the confirmation closes.
WipeAnswered(d) ==
    /\ wipe[d] \in {"ok", "failed"}
    /\ erList' = [erList EXCEPT ![d] = IF wipe[d] = "ok" THEN reqRow ELSE @]
    /\ pick' = [pick EXCEPT ![d] = NoRow]
    /\ wipe' = [wipe EXCEPT ![d] = "idle"]
    /\ UNCHANGED <<reqRow, wiped, visit, ask>>

-----------------------------------------------------------------------------
ErasureNext ==
    \/ \E v \in Visitor :
         \/ RequestErasure(v) \/ VerifyErasure(v) \/ TryAgain(v) \/ Revisit(v) \/ AskAnswered(v)
         \/ \E k \in ETok : ReadRequests(v, k)
         \/ UnknownAddress(v) \/ ReadPending(v) \/ WriteRequests(v) \/ AskFails(v)
    \/ \E d \in ErDesk :
         \/ ListRequests(d) \/ CloseConfirm(d) \/ HandleProcess(d)
         \/ \E r \in ReqKey : OfferProcess(d, r)
         \/ ReadForErasure(d) \/ Erase(d) \/ WipeFails(d) \/ WipeAnswered(d)

ErasureSpec == ErasureInit /\ [][ErasureNext]_erasureVars

\* A page that says "Deletion Confirmed" is about a request that is on its way to
\* erasure or past it, whatever other pages and desks did meanwhile
\* (DeleteMyDataPage.jsx, handleVerify; gdpr_service.py, verify_deletion).
DoneIsVerified ==
    \A v \in Visitor : visit[v].step = "done" =>
        \E c \in Cand : visit[v].tok # NoTok /\ reqRow[<<c, visit[v].tok>>] \in {"verified", "completed"}

\* Two calls for one request do not both erase (gdpr_service.py:304, "concurrent
\* calls fail on the status check rather than double-executing").
ErasedOnce == \A r \in ReqKey : wiped[r] <= 1
=============================================================================
