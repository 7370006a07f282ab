--------------------------- MODULE PositionSetup ---------------------------
(***************************************************************************)
(* A position from the JD on the canvas: the modal that asks for its       *)
(* parameters (components/Chat/PositionSetupModal), and save-position      *)
(* (chat_service.finish_and_save_position), which reads the session, makes *)
(* or updates its position, links the two and submits the JD.  Each of its *)
(* statements commits by itself.                                           *)
(*                                                                         *)
(* One recruiter at one session, in one tab at a time.  The modal belongs  *)
(* to the document (JdEditor): whenever that goes, the modal goes with all *)
(* it knew, and its calls go on.  When the check of the document lets the  *)
(* modal be opened is not looked at here.                                  *)
(***************************************************************************)
EXTENDS Naturals

CONSTANT MaxSave   \* bound: save-position calls on their way, those nobody waits for included

ASSUME SetupAssumption == MaxSave \in Nat \ {0}

VARIABLES
    held,       \* the session's positions: how many (2: more than one), linked, submitted
    setup,      \* the document's modal, and the timer of a save that succeeded
    saves,      \* save-position calls on their way
    leftBehind  \* history: a save was left, lost or cut before the session had a position

setupVars == <<held, setup, saves, leftBehind>>

SaveKind == {"draft", "submit"}
Slot == 1 .. MaxSave

\* A call: how far the server is, and who waits for the answer: the modal, a tab whose
\* modal is gone, or nobody.
SaveCall == [kind : SaveKind, by : {"modal", "tab", "nobody"},
             at : {"none", "sent", "new", "found", "inserted", "linked", "done"}]
NoSave == [kind |-> "draft", by |-> "nobody", at |-> "none"]

SetupTypeOK ==
    /\ held \in [count : 0 .. 2, linked : BOOLEAN, pending : BOOLEAN]
    /\ setup \in [on : BOOLEAN, show : BOOLEAN, saving : {"idle", "draft", "submit", "link"},
                  success : BOOLEAN, leaving : BOOLEAN]
    /\ saves \in [Slot -> SaveCall]
    /\ leftBehind \in BOOLEAN

NewSetup(on, leaving) ==
    [on |-> on, show |-> FALSE, saving |-> "idle", success |-> FALSE, leaving |-> leaving]

SetupInit ==
    /\ held = [count |-> 0, linked |-> FALSE, pending |-> FALSE]
    /\ setup = NewSetup(TRUE, FALSE)
    /\ saves = [s \in Slot |-> NoSave]
    /\ leftBehind = FALSE

-----------------------------------------------------------------------------
\* The modal.

\* Each time it is shown it forgets its last success, not what it waits for.
OpenSetup ==
    /\ setup.on /\ ~setup.show
    /\ setup' = [setup EXCEPT !.show = TRUE, !.success = FALSE]
    /\ UNCHANGED <<held, saves, leftBehind>>

\* The close button, Cancel or the backdrop; a request in flight goes on.
CloseSetup ==
    /\ setup.show /\ ~setup.success
    /\ setup' = [setup EXCEPT !.show = FALSE]
    /\ UNCHANGED <<held, saves, leftBehind>>

BugCanSave(k) == k = "submit" => setup.saving \notin {"submit", "link"}
CanSave(k) == setup.saving = "idle"

\* A call takes the first free slot.
SavePosition(k, s) ==
    /\ setup.show /\ ~setup.success /\ CanSave(k)
    /\ saves[s].at = "none" /\ \A r \in Slot : r < s => saves[r].at # "none"
    /\ setup' = [setup EXCEPT !.saving = k]
    /\ saves' = [saves EXCEPT ![s] = [kind |-> k, by |-> "modal", at |-> "sent"]]
    /\ UNCHANGED <<held, leftBehind>>

Waiting(s) == saves[s].at # "none" /\ saves[s].by = "modal"

\* It may yet insert a position, or has one in hand that no session knows.
Unlinked(s) == saves[s].at \in {"sent", "new", "inserted"} /\ ~held.linked

Freed(s) == IF Waiting(s) THEN [setup EXCEPT !.saving = "idle"] ELSE setup

\* The answer: a submission finalizes the chat (JdEditor) and the modal links the hire
\* request before it shows its success.  A tab whose modal is gone does the same unseen.
SaveAnswered(s) ==
    /\ saves[s].at = "done"
    /\ saves' = [saves EXCEPT ![s] = NoSave]
    /\ setup' = IF saves[s].by = "nobody" THEN setup
                ELSE IF saves[s].by = "tab" THEN [setup EXCEPT !.leaving = TRUE]
                ELSE IF saves[s].kind = "submit" THEN [setup EXCEPT !.saving = "link"]
                ELSE [setup EXCEPT !.saving = "idle", !.success = TRUE, !.leaving = TRUE]
    /\ UNCHANGED <<held, leftBehind>>

\* A network error: the server goes on, and the buttons are free.
SaveLost(s) ==
    /\ saves[s].at # "none" /\ saves[s].by # "nobody"
    /\ saves' = [saves EXCEPT ![s].by = "nobody"]
    /\ setup' = Freed(s)
    /\ leftBehind' = (leftBehind \/ Unlinked(s))
    /\ UNCHANGED held

\* The hire request is linked, or the failure is logged.
LinkAnswered ==
    /\ setup.saving = "link"
    /\ setup' = [setup EXCEPT !.saving = "idle", !.success = TRUE, !.leaving = TRUE]
    /\ UNCHANGED <<held, saves, leftBehind>>

-----------------------------------------------------------------------------
\* The document goes, and with it the modal.

\* The calls the modal waited for are heard by the tab; if that goes too, by nobody.
Orphaned(by) ==
    /\ saves' = [s \in Slot |-> IF Waiting(s) \/ (by = "nobody" /\ saves[s].by = "tab")
                                THEN [saves[s] EXCEPT !.by = by] ELSE saves[s]]
    /\ leftBehind' = (leftBehind \/ \E s \in Slot : Waiting(s) /\ Unlinked(s))
    /\ UNCHANGED held

\* Another page, another session, or a turn that broke and left no document.
LeaveDocument ==
    /\ setup.on
    /\ Orphaned("tab")
    /\ setup' = NewSetup(FALSE, setup.leaving \/ setup.saving = "link")

\* The timer of a success closes the modal and goes to the position or the dashboard.
TimerFires ==
    /\ setup.leaving
    /\ Orphaned("tab")
    /\ setup' = NewSetup(FALSE, setup.saving = "link")

\* The tab is closed or loaded afresh.
CloseSetupTab ==
    /\ Orphaned("nobody")
    /\ setup' = NewSetup(FALSE, FALSE)

\* The session is opened again.
OpenDocument ==
    /\ ~setup.on
    /\ setup' = [setup EXCEPT !.on = TRUE]
    /\ UNCHANGED <<held, saves, leftBehind>>

-----------------------------------------------------------------------------
\* save-position on the server.

\* The session's row is read once, before anything is stored.
SaveReads(s) ==
    /\ saves[s].at = "sent"
    /\ saves' = [saves EXCEPT ![s].at = IF held.linked THEN "found" ELSE "new"]
    /\ UNCHANGED <<held, setup, leftBehind>>

SaveInserts(s) ==
    /\ saves[s].at = "new"
    /\ saves' = [saves EXCEPT ![s].at = "inserted"]
    /\ held' = [held EXCEPT !.count = IF @ = 0 THEN 1 ELSE 2]
    /\ UNCHANGED <<setup, leftBehind>>

\* The session is linked to the new position, or the position it had is updated.
SaveLinks(s) ==
    /\ saves[s].at \in {"inserted", "found"}
    /\ saves' = [saves EXCEPT ![s].at = IF saves[s].kind = "draft" THEN "done" ELSE "linked"]
    /\ held' = [held EXCEPT !.linked = TRUE, !.pending = @ /\ saves[s].at = "found"]
    /\ UNCHANGED <<setup, leftBehind>>

\* A JD that is not a draft is submitted for approval, unless that fails, which is
\* logged; the call submits its own position, which may no longer be the linked one.
SaveSubmits(s) ==
    /\ saves[s].at = "linked"
    /\ saves' = [saves EXCEPT ![s].at = "done"]
    /\ held' \in {held, [held EXCEPT !.pending = TRUE]}
    /\ UNCHANGED <<setup, leftBehind>>

\* A statement fails or the server dies; what was stored before stays.
SaveFails(s) ==
    /\ saves[s].at \notin {"none", "done"}
    /\ saves' = [saves EXCEPT ![s] = NoSave]
    /\ setup' = Freed(s)
    /\ leftBehind' = (leftBehind \/ (saves[s].at = "inserted" /\ Unlinked(s)))
    /\ UNCHANGED held

SavePage == \/ OpenSetup \/ CloseSetup \/ LinkAnswered
            \/ \E s \in Slot : SaveAnswered(s) \/ SaveLost(s) \/ \E k \in SaveKind : SavePosition(k, s)
SaveLeaves == LeaveDocument \/ TimerFires \/ CloseSetupTab \/ OpenDocument
SaveServer == \E s \in Slot : SaveReads(s) \/ SaveInserts(s) \/ SaveLinks(s) \/ SaveSubmits(s) \/ SaveFails(s)

SetupNext == SavePage \/ SaveLeaves \/ SaveServer

SetupSpec == SetupInit /\ [][SetupNext]_setupVars

-----------------------------------------------------------------------------
\* A session gets one position, whatever the recruiter closes, opens again, saves as a
\* draft, submits and tries again after a refusal, unless a save was left behind before
\* the session had its position: by leaving the document while it was on its way, by
\* a lost answer, or by a server cut between the position and its link.
\* Without that proviso it is false: the session's row is read first and linked last, so
\* two saves on their way insert two positions.
OnePositionPerSession == leftBehind \/ held.count <= 1
=============================================================================
