------------------------------ MODULE JdReviewTab ------------------------------
(***************************************************************************)
(* The JD of a position on the pages of its reviewers (frontend/src/       *)
(* components/Positions/tabs/JDTab.jsx and the status menu of              *)
(* PositionHero.jsx): the text is read, edited, approved or sent back.     *)
(* Each page works on the position it loaded when it was opened.  What the *)
(* recruiter does in the chat is the action Resubmit.                      *)
(***************************************************************************)
EXTENDS Naturals, FiniteSets

CONSTANTS
    Reviewer,     \* the reviewers, one page each: the team lead assigned, and org heads
    StatusHead,   \* those who may use the status menu
    MaxJdText,    \* bound: texts of the JD
    MaxJdCalls    \* bound: the calls that are on their way at a time

ASSUME JdReviewAssumption ==
    StatusHead \subseteq Reviewer /\ MaxJdText \in Nat /\ MaxJdText >= 1 /\ MaxJdCalls \in Nat

VARIABLES
    jdPosition,  \* the position: its text, its status and the state of its approval
    jdTexts,     \* texts written so far
    jdPage,      \* [Reviewer -> the page]
    jdCalls      \* the calls on their way

jdVars == <<jdPosition, jdTexts, jdPage, jdCalls>>

JdPosition == [text : 1..MaxJdText,
               status : {"pending_jd_approval", "draft_needs_revision", "open", "on_hold"},
               approval : {"pending", "changes_requested", "approved"}]
JdReviewTypeOK ==
    /\ jdPosition \in JdPosition /\ jdTexts \in 1..MaxJdText
    /\ jdPage \in [Reviewer -> [at : {"away", "loading", "other", "jd"}, position : JdPosition,
                                content : 1..MaxJdText, editing : BOOLEAN, deciding : BOOLEAN,
                                saving : BOOLEAN, changes : BOOLEAN, notes : BOOLEAN,
                                ask : {"none", "open", "on_hold"}]]
    /\ jdCalls \subseteq [of : Reviewer, op : {"get", "save", "approve", "changes", "open", "on_hold"},
                          text : 1..MaxJdText, done : BOOLEAN, here : BOOLEAN, row : JdPosition]

Submitted == [text |-> 1, status |-> "pending_jd_approval", approval |-> "pending"]
JdAway == [at |-> "away", position |-> Submitted, content |-> 1, editing |-> FALSE, deciding |-> FALSE,
           saving |-> FALSE, changes |-> FALSE, notes |-> FALSE, ask |-> "none"]
JdCall(r, op) == [of |-> r, op |-> op, text |-> jdPage[r].content, done |-> FALSE, here |-> TRUE, row |-> Submitted]
JdAsks(c) == c \notin jdCalls /\ Cardinality(jdCalls) < MaxJdCalls /\ jdCalls' = jdCalls \cup {c}

JdReviewInit ==
    /\ jdPosition = Submitted /\ jdTexts = 1
    /\ jdPage = [r \in Reviewer |-> JdAway] /\ jdCalls = {}

-----------------------------------------------------------------------------
OpenJdPage(r) ==
    /\ jdPage[r].at = "away" /\ JdAsks(JdCall(r, "get"))
    /\ jdPage' = [jdPage EXCEPT ![r] = [JdAway EXCEPT !.at = "loading"]]
    /\ UNCHANGED <<jdPosition, jdTexts>>
LeaveJdPage(r) ==
    /\ jdPage[r].at # "away"
    /\ jdPage' = [jdPage EXCEPT ![r] = JdAway]
    /\ jdCalls' = {IF c.of = r THEN [c EXCEPT !.here = FALSE] ELSE c :
                   c \in {d \in jdCalls : d.of = r => d.op # "get" /\ ~d.done}}
    /\ UNCHANGED <<jdPosition, jdTexts>>
\* The dialogs lie over the rest of the page.
JdFree(r) == ~jdPage[r].changes /\ jdPage[r].ask = "none"
\* Another tab of the page takes the JD tab away, with what was typed into it;
\* the decisions on their way still update the page.
SwitchJdTab(r) ==
    /\ jdPage[r].at \in {"jd", "other"} /\ JdFree(r)
    /\ jdPage' = [jdPage EXCEPT ![r] = [JdAway EXCEPT !.position = jdPage[r].position,
                                        !.content = jdPage[r].position.text,
                                        !.at = IF jdPage[r].at = "jd" THEN "other" ELSE "jd"]]
    /\ UNCHANGED <<jdPosition, jdTexts, jdCalls>>

\* Both take the position as the page has it, where a pending approval counts whatever the status is.
Pending(r) == jdPage[r].position.status = "pending_jd_approval" \/ jdPage[r].position.approval = "pending"
EditJd(r) ==
    /\ jdPage[r].at = "jd" /\ ~jdPage[r].editing /\ Pending(r) /\ JdFree(r)
    /\ jdPage' = [jdPage EXCEPT ![r].editing = TRUE]
    /\ UNCHANGED <<jdPosition, jdTexts, jdCalls>>
TypeJd(r) ==
    /\ jdPage[r].editing /\ JdFree(r) /\ jdTexts < MaxJdText
    /\ jdTexts' = jdTexts + 1
    /\ jdPage' = [jdPage EXCEPT ![r].content = jdTexts']
    /\ UNCHANGED <<jdPosition, jdCalls>>
\* What was typed stays on the page.
CancelJdEdit(r) ==
    /\ jdPage[r].editing /\ JdFree(r)
    /\ jdPage' = [jdPage EXCEPT ![r].editing = FALSE]
    /\ UNCHANGED <<jdPosition, jdTexts, jdCalls>>
SaveJd(r) ==
    /\ jdPage[r].editing /\ ~jdPage[r].saving /\ JdFree(r) /\ JdAsks(JdCall(r, "save"))
    /\ jdPage' = [jdPage EXCEPT ![r].saving = TRUE]
    /\ UNCHANGED <<jdPosition, jdTexts>>

\* The banner of the decision is there while the text is edited, too.
CanDecide(r) == jdPage[r].at = "jd" /\ Pending(r) /\ ~jdPage[r].deciding /\ JdFree(r)
ApproveJd(r) ==
    /\ CanDecide(r) /\ JdAsks(JdCall(r, "approve"))
    /\ jdPage' = [jdPage EXCEPT ![r].deciding = TRUE]
    /\ UNCHANGED <<jdPosition, jdTexts>>
OpenChanges(r) ==
    /\ CanDecide(r)
    /\ jdPage' = [jdPage EXCEPT ![r].changes = TRUE, ![r].notes = FALSE]
    /\ UNCHANGED <<jdPosition, jdTexts, jdCalls>>
TypeChanges(r) ==
    /\ jdPage[r].changes /\ ~jdPage[r].notes
    /\ jdPage' = [jdPage EXCEPT ![r].notes = TRUE]
    /\ UNCHANGED <<jdPosition, jdTexts, jdCalls>>
CloseChanges(r) ==
    /\ jdPage[r].changes
    /\ jdPage' = [jdPage EXCEPT ![r].changes = FALSE]
    /\ UNCHANGED <<jdPosition, jdTexts, jdCalls>>
SubmitChanges(r) ==
    /\ jdPage[r].changes /\ jdPage[r].notes /\ ~jdPage[r].deciding /\ JdAsks(JdCall(r, "changes"))
    /\ jdPage' = [jdPage EXCEPT ![r].deciding = TRUE]
    /\ UNCHANGED <<jdPosition, jdTexts>>

\* The status menu: any status but the one shown, once it is confirmed.
AskStatus(r, new) ==
    /\ r \in StatusHead /\ jdPage[r].at \in {"jd", "other"} /\ JdFree(r)
    /\ new # jdPage[r].position.status
    /\ jdPage' = [jdPage EXCEPT ![r].ask = new]
    /\ UNCHANGED <<jdPosition, jdTexts, jdCalls>>
CloseStatus(r) ==
    /\ jdPage[r].ask # "none"
    /\ jdPage' = [jdPage EXCEPT ![r].ask = "none"]
    /\ UNCHANGED <<jdPosition, jdTexts, jdCalls>>
ConfirmStatus(r) ==
    /\ jdPage[r].ask # "none" /\ JdAsks(JdCall(r, jdPage[r].ask))
    /\ jdPage' = [jdPage EXCEPT ![r].ask = "none"]
    /\ UNCHANGED <<jdPosition, jdTexts>>

-----------------------------------------------------------------------------
\* The server: a text is saved whatever the status, a decision is taken from the
\* pending status only, and one that is there already is taken as done.
Decision(op) == IF op = "approve" THEN "approved" ELSE "changes_requested"
Decides(c) == jdPosition.approval # Decision(c.op)
JdRefused(c) == c.op \in {"approve", "changes"} /\ Decides(c) /\ jdPosition.status # "pending_jd_approval"
JdAfter(c) ==
    CASE c.op = "save" -> [jdPosition EXCEPT !.text = c.text]
      [] c.op = "approve" /\ Decides(c) -> [jdPosition EXCEPT !.status = "open", !.approval = "approved"]
      [] c.op = "changes" /\ Decides(c) -> [jdPosition EXCEPT !.status = "draft_needs_revision", !.approval = "changes_requested"]
      [] c.op \in {"open", "on_hold"} -> [jdPosition EXCEPT !.status = c.op]
      [] OTHER -> jdPosition
JdServed(c) ==
    /\ c \in jdCalls /\ ~c.done /\ ~JdRefused(c)
    /\ jdPosition' = JdAfter(c)
    /\ jdCalls' = (jdCalls \ {c}) \cup IF c.here THEN {[c EXCEPT !.done = TRUE, !.row = jdPosition']} ELSE {}
    /\ UNCHANGED <<jdTexts, jdPage>>
\* The recruiter writes another text in the chat and submits it again.
Resubmit ==
    /\ jdPosition.status = "draft_needs_revision" /\ jdTexts < MaxJdText
    /\ jdTexts' = jdTexts + 1
    /\ jdPosition' = [text |-> jdTexts', status |-> "pending_jd_approval", approval |-> "pending"]
    /\ UNCHANGED <<jdPage, jdCalls>>

\* The answers.  A decision sets the two states it names, another call the whole
\* row; only the first load fills the text that is shown.
Merged(r, c) ==
    CASE c.op = "approve" -> [jdPage[r].position EXCEPT !.status = "open", !.approval = "approved"]
      [] c.op = "changes" -> [jdPage[r].position EXCEPT !.status = "draft_needs_revision", !.approval = "changes_requested"]
      [] OTHER -> c.row
JdArrives(c) ==
    /\ c \in jdCalls /\ c.done
    /\ jdCalls' = jdCalls \ {c}
    /\ jdPage' = [jdPage EXCEPT ![c.of] =
         LET page == [@ EXCEPT !.position = Merged(c.of, c)]
         IN  CASE c.op = "get" -> [page EXCEPT !.at = "jd", !.content = c.row.text]
               [] c.op = "save" -> [page EXCEPT !.editing = FALSE, !.saving = FALSE]
               [] c.op = "approve" -> [page EXCEPT !.deciding = FALSE]
               [] c.op = "changes" -> [page EXCEPT !.deciding = FALSE, !.changes = FALSE, !.notes = FALSE]
               [] OTHER -> page]
    /\ UNCHANGED <<jdPosition, jdTexts>>
\* Refused, or lost on its way there or back.
JdFails(c) ==
    /\ c \in jdCalls
    /\ jdCalls' = jdCalls \ {c}
    /\ jdPage' = IF ~c.here THEN jdPage ELSE
         [jdPage EXCEPT ![c.of] =
            CASE c.op = "get" -> JdAway
              [] c.op = "save" -> [@ EXCEPT !.saving = FALSE]
              [] c.op \in {"approve", "changes"} -> [@ EXCEPT !.deciding = FALSE]
              [] OTHER -> @]
    /\ UNCHANGED <<jdPosition, jdTexts>>

-----------------------------------------------------------------------------
JdReviewNext ==
    \/ Resubmit
    \/ \E r \in Reviewer :
         \/ OpenJdPage(r) \/ LeaveJdPage(r) \/ SwitchJdTab(r) \/ EditJd(r) \/ TypeJd(r)
         \/ CancelJdEdit(r) \/ SaveJd(r) \/ ApproveJd(r) \/ OpenChanges(r) \/ TypeChanges(r)
         \/ CloseChanges(r) \/ SubmitChanges(r) \/ CloseStatus(r) \/ ConfirmStatus(r)
         \/ \E new \in {"open", "on_hold"} : AskStatus(r, new)
    \/ \E c \in jdCalls : JdServed(c) \/ JdArrives(c) \/ JdFails(c)

JdReviewSpec == JdReviewInit /\ [][JdReviewNext]_jdVars

\* A JD that was approved is locked: nobody edits its text any more (JDTab.jsx,
\* the comment on who can edit).
LockedOnceApproved == [][jdPosition.approval = "approved" => jdPosition'.text = jdPosition.text]_jdVars
=============================================================================
