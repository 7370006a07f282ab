------------------------------ MODULE TalentPool ------------------------------
(***************************************************************************)
(* The talent pool page (frontend/src/components/TalentPool/               *)
(* TalentPoolPage.jsx) over backend/services/talent_pool_service.py: the   *)
(* list under its filters, the upload of resumes, and the match of the     *)
(* pool against an open position.                                          *)
(*                                                                         *)
(* The page sends its own requests, with the token it finds in            *)
(* localStorage under 'token'.  Nothing in the front end writes that key: *)
(* the session is under 'atl_session' in sessionStorage (StaffSession).    *)
(***************************************************************************)
EXTENDS Naturals

CONSTANTS
    PoolToken,      \* a valid token is under 'token': FALSE in the code as it is
    PoolPosition,   \* the open positions of the select
    MaxPoolLoads,   \* bound: loads of the list on their way
    NoPosition

ASSUME PoolAssumption ==
    PoolToken \in BOOLEAN /\ MaxPoolLoads \in Nat /\ NoPosition \notin PoolPosition

\* The filters: a search text, and the location and reason selects, set or not.
Filters == [q : BOOLEAN, sel : BOOLEAN]
NoFilter == [q |-> FALSE, sel |-> FALSE]
Idling == [on |-> FALSE, by |-> NoFilter]
Calls == [on : BOOLEAN, by : Filters]

VARIABLES
    filled,     \* the organisation has candidates in its pool
    tpage,      \* the page
    tloads,     \* [1..MaxPoolLoads -> a load, with the filters it was sent with]
    ttimer,     \* the pause after a key, with the filters its closure holds
    tup,        \* the upload, with the filters of the reload that follows it
    tmatch      \* the match panel

poolVars == <<filled, tpage, tloads, ttimer, tup, tmatch>>

NoPage == [at |-> "closed", found |-> FALSE, by |-> NoFilter, loading |-> TRUE, modal |-> "none"]
NoMatch == [open |-> FALSE, pos |-> NoPosition, ask |-> NoPosition, found |-> "unasked"]

PoolTypeOK ==
    /\ filled \in BOOLEAN
    /\ tpage \in [at : {"closed", "open", "crashed"}, found : BOOLEAN, by : Filters, loading : BOOLEAN,
                  modal : {"none", "zone", "busy", "done", "failed"}]
    /\ tloads \in [1..MaxPoolLoads -> Calls] /\ ttimer \in Calls /\ tup \in Calls
    /\ tmatch \in [open : BOOLEAN, pos : PoolPosition \cup {NoPosition},
                   ask : PoolPosition \cup {NoPosition}, found : {"unasked", "none", "some"}]

PoolInit ==
    /\ filled \in BOOLEAN
    /\ tpage = NoPage
    /\ tloads = [i \in 1..MaxPoolLoads |-> Idling] /\ ttimer = Idling /\ tup = Idling
    /\ tmatch = NoMatch

-----------------------------------------------------------------------------
\* The list.

PoolOpen == tpage.at = "open"

\* load: sent with the filters its caller's closure holds.
SendLoad(i, by) ==
    /\ ~tloads[i].on
    /\ tloads' = [tloads EXCEPT ![i] = [on |-> TRUE, by |-> by]]

OpenPool(i) ==
    /\ tpage.at = "closed" /\ SendLoad(i, NoFilter)
    /\ tpage' = [NoPage EXCEPT !.at = "open"]
    /\ UNCHANGED <<filled, ttimer, tup, tmatch>>

\* Calls go on, but what they answer reaches no page.
LeavePool ==
    /\ tpage.at # "closed"
    /\ tpage' = NoPage /\ tmatch' = NoMatch
    /\ tloads' = [i \in 1..MaxPoolLoads |-> Idling] /\ ttimer' = Idling /\ tup' = Idling
    /\ UNCHANGED filled

\* An answer of any status is taken as a list; one that is an error has no candidates.
PoolAnswered(i) ==
    /\ tloads[i].on
    /\ \E narrowed \in IF tloads[i].by = NoFilter THEN {TRUE} ELSE BOOLEAN :
         tpage' = [tpage EXCEPT !.found = PoolToken /\ filled /\ narrowed, !.loading = FALSE]
    /\ tloads' = [tloads EXCEPT ![i] = Idling]
    /\ UNCHANGED <<filled, ttimer, tup, tmatch>>

PoolLost(i) ==
    /\ tloads[i].on
    /\ tpage' = [tpage EXCEPT !.loading = FALSE]
    /\ tloads' = [tloads EXCEPT ![i] = Idling]
    /\ UNCHANGED <<filled, ttimer, tup, tmatch>>

\* isPoolEmpty: the page says that the pool is empty, and offers no filter.
SaysEmpty == PoolOpen /\ ~tpage.loading /\ ~tpage.found /\ tpage.by = NoFilter
Toolbar == PoolOpen /\ ~SaysEmpty

\* A key: the list is asked for after a pause, with the selects as they are now.
HandleSearch ==
    /\ Toolbar
    /\ \E q \in BOOLEAN :
         /\ tpage' = [tpage EXCEPT !.by.q = q]
         /\ ttimer' = [on |-> TRUE, by |-> [tpage.by EXCEPT !.q = q]]
    /\ UNCHANGED <<filled, tloads, tup, tmatch>>

SearchPaused(i) ==
    /\ ttimer.on /\ SendLoad(i, ttimer.by)
    /\ tpage' = [tpage EXCEPT !.loading = TRUE] /\ ttimer' = Idling
    /\ UNCHANGED <<filled, tup, tmatch>>

\* A select, "Clear Filters" or a page number: the list is asked for at once.
ChooseFilter(i, by) ==
    /\ Toolbar /\ SendLoad(i, by)
    /\ \/ by.q = tpage.by.q /\ by.sel # tpage.by.sel
       \/ by = tpage.by /\ (by.sel \/ (tpage.found /\ ~tpage.loading))
       \/ by = NoFilter /\ ~tpage.found /\ ~tpage.loading
    /\ tpage' = [tpage EXCEPT !.by = by, !.loading = TRUE]
    /\ UNCHANGED <<filled, ttimer, tup, tmatch>>

-----------------------------------------------------------------------------
\* BulkUploadModal.

SetModal(to) == tpage' = [tpage EXCEPT !.modal = to]

OpenUpload ==
    /\ PoolOpen /\ tpage.modal = "none" /\ SetModal("zone")
    /\ UNCHANGED <<filled, tloads, ttimer, tup, tmatch>>

\* Also while the upload is on its way.
CloseUpload ==
    /\ PoolOpen /\ tpage.modal # "none" /\ SetModal("none")
    /\ UNCHANGED <<filled, tloads, ttimer, tup, tmatch>>

HandleFiles ==
    /\ PoolOpen /\ tpage.modal = "zone" /\ ~tup.on
    /\ SetModal("busy") /\ tup' = [on |-> TRUE, by |-> tpage.by]
    /\ UNCHANGED <<filled, tloads, ttimer, tmatch>>

\* onSuccess reloads with the filters of the render the files were chosen in.
UploadDone(i) ==
    /\ PoolToken /\ tup.on /\ SendLoad(i, tup.by)
    /\ filled' \in {filled, TRUE}
    /\ tpage' = [tpage EXCEPT !.modal = IF @ = "busy" THEN "done" ELSE @, !.loading = TRUE]
    /\ tup' = Idling
    /\ UNCHANGED <<ttimer, tmatch>>

\* The error of an answer is an object, which React does not render; that of a lost call is a text.
UploadFailed(lost) ==
    /\ tup.on /\ tup' = Idling
    /\ IF tpage.modal # "busy" THEN UNCHANGED tpage
       ELSE IF lost THEN SetModal("failed")
       ELSE tpage' = [NoPage EXCEPT !.at = "crashed"]
    /\ IF tpage.modal = "busy" /\ ~lost
       THEN tloads' = [i \in 1..MaxPoolLoads |-> Idling] /\ ttimer' = Idling /\ tmatch' = NoMatch
       ELSE UNCHANGED <<tloads, ttimer, tmatch>>
    /\ UNCHANGED filled

-----------------------------------------------------------------------------
\* CopilotMatchPanel.

ToggleMatch ==
    /\ IF tmatch.open THEN PoolOpen ELSE Toolbar
    /\ tmatch' = [NoMatch EXCEPT !.open = ~tmatch.open]
    /\ UNCHANGED <<filled, tpage, tloads, ttimer, tup>>

\* The select is not disabled while a match is on its way.
SelectPosition(p) ==
    /\ tmatch.open
    /\ tmatch' = [tmatch EXCEPT !.pos = p, !.found = "unasked"]
    /\ UNCHANGED <<filled, tpage, tloads, ttimer, tup>>

HandleSuggest ==
    /\ tmatch.open /\ tmatch.pos # NoPosition /\ tmatch.ask = NoPosition
    /\ tmatch' = [tmatch EXCEPT !.ask = tmatch.pos, !.found = "unasked"]
    /\ UNCHANGED <<filled, tpage, tloads, ttimer, tup>>

\* Error or not, the answer is a list; an error's is empty.
SuggestAnswered(some) ==
    /\ tmatch.ask # NoPosition /\ (some => PoolToken /\ filled)
    /\ tmatch' = [tmatch EXCEPT !.ask = NoPosition, !.found = IF some THEN "some" ELSE "none"]
    /\ UNCHANGED <<filled, tpage, tloads, ttimer, tup>>

\* The suggestion goes whatever the answer; the last one leaves the empty text.
AddToPipeline ==
    /\ tmatch.found = "some" /\ tmatch.ask = NoPosition
    /\ \E last \in BOOLEAN :
         tmatch' = [tmatch EXCEPT !.found = IF last THEN "none" ELSE @]
    /\ UNCHANGED <<filled, tpage, tloads, ttimer, tup>>

\* Elsewhere a candidate is added to the pool, or the last one leaves it.
PoolChanges == filled' = ~filled /\ UNCHANGED <<tpage, tloads, ttimer, tup, tmatch>>

-----------------------------------------------------------------------------
PoolNext ==
    \/ LeavePool \/ HandleSearch \/ PoolChanges
    \/ \E i \in 1..MaxPoolLoads :
         OpenPool(i) \/ PoolAnswered(i) \/ PoolLost(i) \/ SearchPaused(i) \/ UploadDone(i)
           \/ \E by \in Filters : ChooseFilter(i, by)
    \/ OpenUpload \/ CloseUpload \/ HandleFiles
    \/ \E b \in BOOLEAN : UploadFailed(b) \/ SuggestAnswered(b)
    \/ ToggleMatch \/ HandleSuggest \/ AddToPipeline
    \/ \E p \in PoolPosition \cup {NoPosition} : SelectPosition(p)

TalentPoolSpec == PoolInit /\ [][PoolNext]_poolVars
=============================================================================
