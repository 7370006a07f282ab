----------------------------- MODULE JdWorkflow -----------------------------
(***************************************************************************)
(* From a chat session to an open position: saving the JD as a position,   *)
(* submitting it for approval, the reviewer's decision, withdrawal,        *)
(* cancellation, and the hand-over of the hire request it was written for. *)
(*                                                                         *)
(* The decision, the withdrawal and the cancellation are one transaction   *)
(* or one compare-and-set each, and so one action each.  Saving,           *)
(* submitting and linking take several statements on connections of their  *)
(* own: these are calls in flight, whose local variables are in `call`.    *)
(* Positions belong to the department the session names; roles do not      *)
(* change, accounts may be deactivated.                                    *)
(***************************************************************************)
EXTENDS Naturals

CONSTANTS
    User,            \* the users of the organisation
    Nobody,          \* SQL NULL in a user column
    Role,            \* the role of each user
    OtherDept,       \* users whose department is not the position's
    AutoApprove,     \* users who set auto_approve_jds
    Leaver,          \* users whose account may be deactivated
    Requester,       \* the user who filed the hire request
    HrReviewed,      \* setting direct_hire_hr_requires_review
    AdminReviewed,   \* setting direct_hire_dept_admin_requires_org_head_review
    Position,        \* ids of rows of positions
    NoPosition,      \* SQL NULL in a position column
    Call,            \* API calls that can be in flight at a time
    StatusRequests,  \* what callers ask of the status endpoint
    MaxCycle         \* bound on the revision cycles of a position

Roles == {"team_lead", "dept_admin", "org_head", "hr"}

\* What the status endpoint accepts, `closed` aside: its handler then also
\* passes the text "NOW()" for a timestamp, which the driver refuses.
ValidStatuses == {"draft", "jd_in_progress", "pending_jd_approval", "draft_needs_revision",
                  "open", "on_hold", "archived", "cancelled"}

ASSUME JdAssumption ==
    /\ Nobody \notin User
    /\ NoPosition \notin Position
    /\ Role \in [User -> Roles]
    /\ OtherDept \subseteq User
    /\ AutoApprove \subseteq User
    /\ Leaver \subseteq User
    /\ Requester \in User
    /\ HrReviewed \in BOOLEAN
    /\ AdminReviewed \in BOOLEAN
    /\ StatusRequests \subseteq ValidStatuses
    /\ MaxCycle \in Nat

VARIABLES
    status,            \* positions.status, "none" before the INSERT
    approval_status,   \* positions.approval_status, "null" for NULL
    reviewer_id,       \* positions.reviewer_id
    submitted_by,      \* who submitted last, as the audit log says
    approved_by,       \* positions.approved_by
    revision_cycle,    \* positions.revision_cycle
    session_position,  \* chat_sessions.position_id
    feedback,          \* the revision cycles whose feedback is in the chat
    request,           \* status of the hire request behind the session
    request_position,  \* its position_id
    active,            \* the users whose account is active
    call               \* the calls in flight

positions == <<status, approval_status, reviewer_id, submitted_by, approved_by, revision_cycle>>
handover  == <<request, request_position>>
vars == <<status, approval_status, reviewer_id, submitted_by, approved_by, revision_cycle,
          session_position, feedback, request, request_position, active, call>>

Step == {"idle", "save", "attach", "resolve", "submit", "link"}

\* The local variables of a call.  reviewer = Nobody at "submit" means that
\* the submission needs no review.
Idle == [step |-> "idle", user |-> Nobody, pos |-> NoPosition, draft |-> FALSE,
         reviewer |-> Nobody]

TypeOK ==
    /\ status \in [Position -> ValidStatuses \cup {"none"}]
    /\ approval_status \in [Position -> {"null", "pending", "approved", "changes_requested"}]
    /\ reviewer_id \in [Position -> User \cup {Nobody}]
    /\ submitted_by \in [Position -> User \cup {Nobody}]
    /\ approved_by \in [Position -> User \cup {Nobody}]
    /\ revision_cycle \in [Position -> 0 .. MaxCycle]
    /\ session_position \in Position \cup {NoPosition}
    /\ feedback \subseteq 1 .. MaxCycle
    /\ request \in {"none", "approved", "accepted", "fulfilled", "cancelled"}
    /\ request_position \in Position \cup {NoPosition}
    /\ active \subseteq User
    /\ call \in [Call -> [step : Step, user : User \cup {Nobody},
                          pos : Position \cup {NoPosition}, draft : BOOLEAN,
                          reviewer : User \cup {Nobody}]]

\* The session may serve a hire request that was approved, or none.
Init ==
    /\ status = [p \in Position |-> "none"]
    /\ approval_status = [p \in Position |-> "null"]
    /\ reviewer_id = [p \in Position |-> Nobody]
    /\ submitted_by = [p \in Position |-> Nobody]
    /\ approved_by = [p \in Position |-> Nobody]
    /\ revision_cycle = [p \in Position |-> 0]
    /\ session_position = NoPosition
    /\ feedback = {}
    /\ request \in {"none", "approved"}
    /\ request_position = NoPosition
    /\ active = User
    /\ call = [c \in Call |-> Idle]

-----------------------------------------------------------------------------
(***************************************************************************)
(* Who reviews.                                                            *)
(***************************************************************************)

Heads  == {u \in active : Role[u] = "org_head"}
Admins == {u \in active : Role[u] = "dept_admin" /\ u \notin OtherDept}

\* The requester of the hire request that the position is linked to.
TeamLead(p) ==
    IF request_position = p /\ request \in {"approved", "fulfilled"}
    THEN {Requester} \cap active
    ELSE {}

FirstOf(S, T) == IF S # {} THEN S ELSE T

NeedsNoReview(u) ==
    \/ Role[u] = "org_head"
    \/ Role[u] = "dept_admin" /\ ~AdminReviewed
    \/ Role[u] = "hr" /\ ~HrReviewed

Candidates(u, p) ==
    CASE Role[u] = "dept_admin" -> Heads
      [] Role[u] = "hr"         -> FirstOf(TeamLead(p), FirstOf(Admins, Heads))
      [] Role[u] = "team_lead"  -> FirstOf(Admins, Heads)
      [] Role[u] = "org_head"   -> {}

\* Mistake: Nobody asks whether the reviewer is the submitter.
BugReviewers(u, p) == Candidates(u, p)

\* Whoever would review their own JD is replaced by an org head.
Reviewers(u, p) ==
    (Candidates(u, p) \ {u}) \cup (IF u \in Candidates(u, p) THEN Heads \ {u} ELSE {})

\* Mistake: Any approver of the department will do.
BugMayReview(u, p) ==
    \/ Role[u] = "org_head"
    \/ /\ Role[u] \in {"team_lead", "dept_admin"}
       /\ reviewer_id[p] # Nobody
       /\ u \notin OtherDept

\* The assigned reviewer, unless of another department, and every org head.
MayReview(u, p) ==
    \/ Role[u] = "org_head"
    \/ /\ Role[u] \in {"team_lead", "dept_admin"}
       /\ reviewer_id[p] = u
       /\ u \notin OtherDept

-----------------------------------------------------------------------------
(***************************************************************************)
(* Saving the JD of the session as a position.                             *)
(***************************************************************************)

Finish(c) == call' = [call EXCEPT ![c] = Idle]
Goto(c, step) == call' = [call EXCEPT ![c].step = step]

\* Mistake: A draft is always a new position.
BugSave(c, u, draft) ==
    /\ call[c] = Idle
    /\ call' = [call EXCEPT ![c] = [step |-> "save", user |-> u,
                                    pos |-> IF draft THEN NoPosition ELSE session_position,
                                    draft |-> draft, reviewer |-> Nobody]]
    /\ UNCHANGED <<positions, session_position, feedback, handover, active>>

\* finish_and_save_position reads the session.
Save(c, u, draft) ==
    /\ call[c] = Idle
    /\ call' = [call EXCEPT ![c] = [step |-> "save", user |-> u, pos |-> session_position,
                                    draft |-> draft, reviewer |-> Nobody]]
    /\ UNCHANGED <<positions, session_position, feedback, handover, active>>

SavedStatus(c) == IF call[c].draft THEN "draft" ELSE "jd_in_progress"

\* A saved draft ends here, a saved JD is submitted next.
AfterSave(c) == IF call[c].draft THEN Finish(c) ELSE Goto(c, "resolve")

\* The session had a position: UPDATE it, whatever its status.
SaveAgain(c) ==
    /\ call[c].step = "save"
    /\ call[c].pos # NoPosition
    /\ status' = [status EXCEPT ![call[c].pos] = SavedStatus(c)]
    /\ AfterSave(c)
    /\ UNCHANGED <<approval_status, reviewer_id, submitted_by, approved_by, revision_cycle,
                   session_position, feedback, handover, active>>

\* The session had none: INSERT one, with an id nobody used before.
SaveNew(c) ==
    /\ call[c].step = "save"
    /\ call[c].pos = NoPosition
    /\ \E p \in Position :
        /\ status[p] = "none"
        /\ status' = [status EXCEPT ![p] = SavedStatus(c)]
        /\ call' = [call EXCEPT ![c].pos = p, ![c].step = "attach"]
    /\ UNCHANGED <<approval_status, reviewer_id, submitted_by, approved_by, revision_cycle,
                   session_position, feedback, handover, active>>

\* Link session -> position, in a statement of its own.
Attach(c) ==
    /\ call[c].step = "attach"
    /\ session_position' = call[c].pos
    /\ AfterSave(c)
    /\ UNCHANGED <<positions, feedback, handover, active>>

-----------------------------------------------------------------------------
(***************************************************************************)
(* Submission and review.                                                  *)
(***************************************************************************)

\* The submit endpoint; a saved JD comes to Resolve by itself.
SubmitForApproval(c, u, p) ==
    /\ call[c] = Idle
    /\ status[p] # "none"
    /\ call' = [call EXCEPT ![c] = [step |-> "resolve", user |-> u, pos |-> p,
                                    draft |-> FALSE, reviewer |-> Nobody]]
    /\ UNCHANGED <<positions, session_position, feedback, handover, active>>

\* resolve_reviewer, on a connection of its own.
Resolve(c) ==
    /\ call[c].step = "resolve"
    /\ LET u == call[c].user IN
        \/ u \in active /\ NeedsNoReview(u) /\ Goto(c, "submit")
        \/ /\ u \in active
           /\ ~NeedsNoReview(u)
           /\ \E r \in Reviewers(u, call[c].pos) :
                call' = [call EXCEPT ![c] = [@ EXCEPT !.step = "submit", !.reviewer = r]]
        \/ /\ u \notin active \/ (~NeedsNoReview(u) /\ Reviewers(u, call[c].pos) = {})
           /\ Finish(c)
    /\ UNCHANGED <<positions, session_position, feedback, handover, active>>

Submittable == {"jd_in_progress", "draft_needs_revision"}

\* fulfill_hire_request: a request that names the position.
FulfillHireRequest(p) ==
    /\ request' = IF request_position = p /\ request \in {"approved", "accepted"}
                  THEN "fulfilled" ELSE request
    /\ UNCHANGED request_position

\* Without review, or for a user who approves automatically.
OpenAtOnce(p, u, r) ==
    /\ status' = [status EXCEPT ![p] = "open"]
    /\ approval_status' = [approval_status EXCEPT ![p] = "approved"]
    /\ reviewer_id' = IF r = Nobody THEN reviewer_id ELSE [reviewer_id EXCEPT ![p] = r]
    /\ submitted_by' = [submitted_by EXCEPT ![p] = u]
    /\ approved_by' = [approved_by EXCEPT ![p] = u]
    /\ FulfillHireRequest(p)
    /\ UNCHANGED revision_cycle

AwaitReview(p, u, r) ==
    /\ status' = [status EXCEPT ![p] = "pending_jd_approval"]
    /\ approval_status' = [approval_status EXCEPT ![p] = "pending"]
    /\ reviewer_id' = [reviewer_id EXCEPT ![p] = r]
    /\ submitted_by' = [submitted_by EXCEPT ![p] = u]
    /\ UNCHANGED <<approved_by, revision_cycle, handover>>

\* The transaction of submit_for_approval, under the row lock.
Submit(c) ==
    /\ call[c].step = "submit"
    /\ Finish(c)
    /\ LET p == call[c].pos
           u == call[c].user
           r == call[c].reviewer
       IN \/ /\ status[p] \notin Submittable
             /\ UNCHANGED <<positions, handover>>
          \/ /\ status[p] \in Submittable
             /\ r = Nobody \/ u \in AutoApprove
             /\ OpenAtOnce(p, u, r)
          \/ /\ status[p] \in Submittable
             /\ r # Nobody /\ u \notin AutoApprove
             /\ AwaitReview(p, u, r)
    /\ UNCHANGED <<session_position, feedback, active>>

\* record_approval_decision, under the row lock.
ApproveJd(u, p) ==
    /\ MayReview(u, p)
    /\ approval_status[p] # "approved"
    /\ status[p] = "pending_jd_approval"
    /\ status' = [status EXCEPT ![p] = "open"]
    /\ approval_status' = [approval_status EXCEPT ![p] = "approved"]
    /\ approved_by' = [approved_by EXCEPT ![p] = u]
    /\ FulfillHireRequest(p)
    /\ UNCHANGED <<reviewer_id, submitted_by, revision_cycle, session_position, feedback,
                   active, call>>

\* Mistake: The feedback is filed under the cycle that ends.
BugInjectFeedback(p, n) ==
    feedback' = IF session_position = p /\ n > 1 THEN feedback \cup {n - 1} ELSE feedback

\* One message per session and cycle (a unique index), for the session that
\* names the position.
InjectFeedback(p, n) ==
    feedback' = IF session_position = p THEN feedback \cup {n} ELSE feedback

\* Mistake: The status is not part of the UPDATE.
BugRejectable(p) == status[p] # "none"
Rejectable(p)    == status[p] = "pending_jd_approval"

RequestChanges(u, p) ==
    /\ MayReview(u, p)
    /\ approval_status[p] # "changes_requested"
    /\ Rejectable(p)
    /\ revision_cycle[p] < MaxCycle
    /\ status' = [status EXCEPT ![p] = "draft_needs_revision"]
    /\ approval_status' = [approval_status EXCEPT ![p] = "changes_requested"]
    /\ revision_cycle' = [revision_cycle EXCEPT ![p] = @ + 1]
    /\ InjectFeedback(p, revision_cycle[p] + 1)
    /\ UNCHANGED <<reviewer_id, submitted_by, approved_by, session_position, handover,
                   active, call>>

\* withdraw_submission: a compare-and-set on what its check has read.
Withdraw(p) ==
    /\ status[p] = "pending_jd_approval"
    /\ status' = [status EXCEPT ![p] = "jd_in_progress"]
    /\ approval_status' = [approval_status EXCEPT ![p] = "null"]
    /\ reviewer_id' = [reviewer_id EXCEPT ![p] = Nobody]
    /\ UNCHANGED <<submitted_by, approved_by, revision_cycle, session_position, feedback,
                   handover, active, call>>

\* cancel_jd_in_progress: a compare-and-set too.
CancelJd(u, p) ==
    /\ Role[u] = "team_lead"
    /\ status[p] = "jd_in_progress"
    /\ status' = [status EXCEPT ![p] = "cancelled"]
    /\ UNCHANGED <<approval_status, reviewer_id, submitted_by, approved_by, revision_cycle,
                   session_position, feedback, handover, active, call>>

\* update_status writes what it is asked for.
UpdateStatus(p, new) ==
    /\ status[p] # "none"
    /\ status' = [status EXCEPT ![p] = new]
    /\ UNCHANGED <<approval_status, reviewer_id, submitted_by, approved_by, revision_cycle,
                   session_position, feedback, handover, active, call>>

-----------------------------------------------------------------------------
(***************************************************************************)
(* The hire request behind the session.                                    *)
(***************************************************************************)

\* HR picks the approved request up, or it is cancelled before (see HireRequests).
RequestMoves ==
    /\ request = "approved"
    /\ request' \in {"accepted", "cancelled"}
    /\ UNCHANGED <<positions, session_position, feedback, request_position, active, call>>

\* link_session_to_position reads the session and checks the request.
LinkSession(c) ==
    /\ call[c] = Idle
    /\ session_position # NoPosition
    /\ request \in {"accepted", "approved"}
    /\ call' = [call EXCEPT ![c] = [step |-> "link", user |-> Nobody, pos |-> session_position,
                                    draft |-> FALSE, reviewer |-> Nobody]]
    /\ UNCHANGED <<positions, session_position, feedback, handover, active>>

\* Its transaction: link_position and submit_position_for_approval.
LinkPosition(c) ==
    /\ call[c].step = "link"
    /\ Finish(c)
    /\ request' = "fulfilled"
    /\ request_position' = call[c].pos
    /\ approval_status' = [approval_status EXCEPT ![call[c].pos] = "pending"]
    /\ UNCHANGED <<status, reviewer_id, submitted_by, approved_by, revision_cycle,
                   session_position, feedback, active>>

\* An administrator deactivates an account.
Deactivate(u) ==
    /\ u \in active \cap Leaver
    /\ active' = active \ {u}
    /\ UNCHANGED <<positions, session_position, feedback, handover, call>>

\* The worker dies, or the client hangs up, between two statements of a call.
Abandon(c) ==
    /\ call[c] # Idle
    /\ Finish(c)
    /\ UNCHANGED <<positions, session_position, feedback, handover, active>>

Next ==
    \/ RequestMoves
    \/ \E u \in User : Deactivate(u)
    \/ \E p \in Position :
        \/ \E u \in User : ApproveJd(u, p) \/ RequestChanges(u, p) \/ CancelJd(u, p)
        \/ Withdraw(p)
        \/ \E new \in StatusRequests : UpdateStatus(p, new)
    \/ \E c \in Call :
        \/ \E u \in User :
            \/ \E draft \in BOOLEAN : Save(c, u, draft)
            \/ \E p \in Position : SubmitForApproval(c, u, p)
        \/ LinkSession(c) \/ SaveAgain(c) \/ SaveNew(c) \/ Attach(c)
        \/ Resolve(c) \/ Submit(c) \/ LinkPosition(c) \/ Abandon(c)

Spec == Init /\ [][Next]_vars

-----------------------------------------------------------------------------
(***************************************************************************)
(* What holds of any interleaving.                                         *)
(***************************************************************************)

\* A reviewer in the local variables of a call was resolved for its submitter.
ResolvedForOther ==
    \A c \in Call : call[c].reviewer # Nobody =>
        /\ call[c].step = "submit"
        /\ call[c].reviewer # call[c].user
        /\ Role[call[c].user] # "org_head"

\* What org heads submit is never pending: they need no review.
PendingIsNotHeads ==
    \A p \in Position : status[p] = "pending_jd_approval" => Role[submitted_by[p]] # "org_head"

\* A submission that waits for a decision has a reviewer, who is not the one
\* who submitted it, and says so in both of its status columns: saves, links,
\* withdrawals and stale reviewer resolutions notwithstanding.
PendingHasReviewer ==
    \A p \in Position : status[p] = "pending_jd_approval" =>
        /\ approval_status[p] = "pending"
        /\ reviewer_id[p] \in User \ {submitted_by[p]}

\* The invariant in its inductive form.
ReviewInv == ResolvedForOther /\ PendingHasReviewer /\ PendingIsNotHeads

\* Nobody approves the JD they submitted: whoever decides on a submission is
\* not its submitter, although an org head may decide without being asked.
NoSelfApproval ==
    [][\A p \in Position :
        status[p] = "pending_jd_approval" /\ approved_by'[p] # approved_by[p]
            => approved_by'[p] # submitted_by[p]]_vars

\* What a step may do to a position: approvals, revisions, and the states that
\* only a submission or a revision leads to.
InTime(p) ==
    /\ approved_by'[p] # approved_by[p] => status[p] \in Submittable \cup {"pending_jd_approval"}
    /\ revision_cycle'[p] # revision_cycle[p] => status[p] = "pending_jd_approval"
    /\ status[p] \in {"open", "cancelled"} =>
          status'[p] \notin {"draft_needs_revision", "pending_jd_approval"}

\* A decision that comes late loses: what is open, cancelled or back with HR
\* is neither approved nor sent back for changes.
LateDecisionLoses == [][\A p \in Position : InTime(p)]_vars

-----------------------------------------------------------------------------
(***************************************************************************)
(* What holds when the calls of a session do not overlap (one Call), with  *)
(* decisions, withdrawals and crashes between the steps of the call.       *)
(***************************************************************************)

\* HR finds the reviewer's feedback of the current cycle in the chat of the JD
\* that was sent back.
FeedbackInChat ==
    \A p \in Position :
        status[p] = "draft_needs_revision" /\ session_position = p
            => revision_cycle[p] \in feedback

\* A session stays with its position: a second save updates it.
SessionKeepsPosition ==
    [][session_position # NoPosition => session_position' = session_position]_vars

=============================================================================
