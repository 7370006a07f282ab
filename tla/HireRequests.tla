---------------------------- MODULE HireRequests ----------------------------
(***************************************************************************)
(* The life of one hire request: filing, editing, the admin-review lock,   *)
(* approval, HR pickup, cancellation and the link to the position.         *)
(*                                                                         *)
(* The handlers run on an autocommit connection.  Most of them first read  *)
(* the row and check it (`get`), and then, in another statement, write it  *)
(* with an UPDATE that names only the row's id.  Any other call, or the    *)
(* lock sweep, may run in between.  So a call is two steps here: Admit     *)
(* takes the read and the checks, and one action per operation takes the   *)
(* write.  Rows do not influence one another, so the model keeps one row.  *)
(***************************************************************************)
EXTENDS Naturals

CONSTANTS
    User,          \* the users of the organisation
    Nobody,        \* SQL NULL in a user column
    Role,          \* the role of each user
    Requester,     \* the user who files the request
    Terms,         \* the possible payloads: role name, department, headcount...
    DeptAdminOf,   \* the users in the department that a payload names
    Position,      \* positions that chat sessions have saved
    NoPosition,    \* SQL NULL in position_id
    Call,          \* API calls that can be in flight at a time
    StaleAfter,    \* takeover threshold of the lock (10 minutes)
    ExpireAfter    \* sweep threshold of the lock (30 minutes)

Roles == {"team_lead", "dept_admin", "org_head", "hr"}

FilerRoles    == {"team_lead", "dept_admin", "org_head"}
ApproverRoles == {"dept_admin", "org_head"}
PickupRoles   == {"hr", "org_head"}

ASSUME HireAssumption ==
    /\ Nobody \notin User
    /\ NoPosition \notin Position
    /\ Role \in [User -> Roles]
    /\ Requester \in User
    /\ Role[Requester] \in FilerRoles
    /\ Terms # {}
    /\ DeptAdminOf \in [Terms -> SUBSET User]
    /\ StaleAfter \in Nat
    /\ ExpireAfter \in Nat
    /\ StaleAfter < ExpireAfter

VARIABLES
    status,               \* hire_requests.status, "none" before the INSERT
    terms,                \* the payload columns
    reviewing_locked_by,  \* holder of the review lock
    lock_age,             \* ticks since reviewing_locked_at, 0 when it is NULL
    accepted_by,          \* the recruiter who picked the request up
    position_id,          \* the position linked to the request
    audit,                \* decisions recorded in audit_logs for this request
    call                  \* the calls in flight

row  == <<status, terms, reviewing_locked_by, lock_age, accepted_by, position_id>>
vars == <<status, terms, reviewing_locked_by, lock_age, accepted_by, position_id,
          audit, call>>

Queued   == {"pending", "submitted", "admin_reviewing"}
Approved == {"approved", "approved_modified"}
Decided  == Approved \cup {"rejected", "accepted", "fulfilled", "cancelled"}
Status   == {"none"} \cup Queued \cup Decided

\* Calls whose handler reads and checks the row before it writes.
CheckedOp == {"approve", "approve_modified", "reject", "accept", "update",
              "cancel", "release", "link"}
Op == CheckedOp \cup {"begin_review", "takeover"}

Idle     == [op |-> "idle", user |-> Nobody]
InFlight == [op : Op, user : User]

\* lock_age saturates: the code compares it with the two thresholds only.
MaxAge == ExpireAfter + 1

TypeOK ==
    /\ status \in Status
    /\ terms \in Terms
    /\ reviewing_locked_by \in User \cup {Nobody}
    /\ lock_age \in 0 .. MaxAge
    /\ accepted_by \in User \cup {Nobody}
    /\ position_id \in Position \cup {NoPosition}
    /\ audit \subseteq {"approved", "rejected", "accepted", "cancelled", "fulfilled"}
    /\ call \in [Call -> InFlight \cup {Idle}]

-----------------------------------------------------------------------------
(***************************************************************************)
(* The checks a handler makes on the row it has read.                      *)
(***************************************************************************)

\* A dept_admin acts for the department of the payload as it was read.
MayDecide(u) ==
    \/ Role[u] = "org_head"
    \/ Role[u] = "dept_admin" /\ u \in DeptAdminOf[terms]

MayEdit(u) == u = Requester \/ Role[u] \in ApproverRoles

MayCancel(u) ==
    /\ u = Requester \/ Role[u] \in ApproverRoles
    /\ Role[u] = "dept_admin" => u \in DeptAdminOf[terms]

MayRelease(u) == reviewing_locked_by = u \/ Role[u] = "org_head"

MayCall(u, op) ==
    /\ op \in {"approve", "approve_modified", "reject"} => MayDecide(u)
    /\ op = "accept"  => Role[u] \in PickupRoles
    /\ op = "update"  => MayEdit(u)
    /\ op = "cancel"  => MayCancel(u)
    /\ op = "release" => MayRelease(u)

\* The statuses each handler lets through; a Bug... definition is a plausible
\* mistake in the one that follows it.
BugReviewable == Queued \cup Approved
Reviewable    == {"pending", "submitted", "admin_reviewing"}

BugPickupAnyDecided == Decided \ {"accepted"}
BugPickupAgain      == Approved \cup {"accepted"}
BugPickupQueued     == Queued \cup Approved
Pickable            == {"approved", "approved_modified"}

BugEditable == Queued
Editable    == {"pending"}

\* cancel refuses what is already over, and so lets `accepted` through.
NotOver  == Status \ {"none", "cancelled", "fulfilled", "rejected"}
Linkable == {"accepted", "approved"}

Admits(op) ==
    CASE op \in {"approve", "approve_modified", "reject"} -> Reviewable
      [] op = "accept"  -> Pickable
      [] op = "update"  -> Editable
      [] op = "cancel"  -> NotOver
      [] op = "release" -> {"admin_reviewing"}
      [] op = "link"    -> Linkable

-----------------------------------------------------------------------------
(***************************************************************************)
(* Writes the repository shares.                                           *)
(***************************************************************************)

SetLock(u)  == reviewing_locked_by' = u /\ lock_age' = 0
BugClearLock == lock_age' = 0 /\ UNCHANGED reviewing_locked_by
ClearLock   == reviewing_locked_by' = Nobody /\ lock_age' = 0
KeepLock    == UNCHANGED <<reviewing_locked_by, lock_age>>
Record(act) == audit' = audit \cup {act}
Finish(c)   == call' = [call EXCEPT ![c] = Idle]
Enter(c, u, op) == call' = [call EXCEPT ![c] = [op |-> op, user |-> u]]

Init ==
    /\ status = "none"
    /\ terms \in Terms
    /\ reviewing_locked_by = Nobody
    /\ lock_age = 0
    /\ accepted_by = Nobody
    /\ position_id = NoPosition
    /\ audit = {}
    /\ call = [c \in Call |-> Idle]

-----------------------------------------------------------------------------
(***************************************************************************)
(* Operations.                                                             *)
(***************************************************************************)

\* One transaction inserts the row, and approves it when the department
\* approves its hire requests automatically.
File ==
    /\ status = "none"
    /\ \/ status' = "pending" /\ UNCHANGED audit
       \/ status' = "approved" /\ Record("approved")
    /\ UNCHANGED <<terms, accepted_by, position_id, call>>
    /\ KeepLock

\* The read and the checks with which a handler starts.
Admit(c, u, op) ==
    /\ call[c] = Idle
    /\ status \in Admits(op)
    /\ MayCall(u, op)
    /\ Enter(c, u, op)
    /\ UNCHANGED <<row, audit>>

\* The writes of approve, approve_modified and reject: UPDATE ... WHERE id.
Decide(c, op, new, act) ==
    /\ call[c].op = op
    /\ status' = new
    /\ ClearLock
    /\ Record(act)
    /\ Finish(c)
    /\ UNCHANGED <<terms, accepted_by, position_id>>

Approve(c)         == Decide(c, "approve", "approved", "approved")
ApproveModified(c) == Decide(c, "approve_modified", "approved_modified", "approved")
Reject(c)          == Decide(c, "reject", "rejected", "rejected")

Accept(c) ==
    /\ call[c].op = "accept"
    /\ status' = "accepted"
    /\ accepted_by' = call[c].user
    /\ Record("accepted")
    /\ Finish(c)
    /\ KeepLock
    /\ UNCHANGED <<terms, position_id>>

\* The position comes from the chat session named in the call.
Link(c) ==
    /\ call[c].op = "link"
    /\ position_id' \in Position
    /\ status' = "fulfilled"
    /\ Record("fulfilled")
    /\ Finish(c)
    /\ KeepLock
    /\ UNCHANGED <<terms, accepted_by>>

Update(c) ==
    /\ call[c].op = "update"
    /\ terms' \in Terms
    /\ Finish(c)
    /\ KeepLock
    /\ UNCHANGED <<status, accepted_by, position_id, audit>>

\* Mistake: An accepted request can be cancelled.
BugCancellable == {"pending", "submitted", "approved", "accepted", "admin_reviewing"}

\* The statuses the UPDATE of cancel accepts: a compare-and-set.
Cancellable == {"pending", "submitted", "approved", "approved_modified", "admin_reviewing"}

Cancel(c) ==
    /\ call[c].op = "cancel"
    /\ Finish(c)
    /\ \/ /\ status \in Cancellable
          /\ status' = "cancelled"
          /\ ClearLock
          /\ Record("cancelled")
       \/ /\ status \notin Cancellable
          /\ UNCHANGED <<status, audit>>
          /\ KeepLock
    /\ UNCHANGED <<terms, accepted_by, position_id>>

\* begin_review starts with a compare-and-set on pending or submitted; the
\* call that loses it goes on to read the row.
BeginReview(c, u) ==
    /\ call[c] = Idle
    /\ status # "none"
    /\ Role[u] \in ApproverRoles
    /\ \/ /\ status \in {"pending", "submitted"}
          /\ status' = "admin_reviewing"
          /\ SetLock(u)
          /\ UNCHANGED call
       \/ /\ status \notin {"pending", "submitted"}
          /\ Enter(c, u, "begin_review")
          /\ KeepLock
          /\ UNCHANGED status
    /\ UNCHANGED <<terms, accepted_by, position_id, audit>>

\* Mistake: The own-lock test is missing.
BugExamineLock(c) ==
    /\ call[c].op = "begin_review"
    /\ IF status = "admin_reviewing"
       THEN Enter(c, call[c].user, "takeover")
       ELSE Finish(c)
    /\ UNCHANGED <<row, audit>>

\* The read after a lost begin_review: the caller's own lock is returned, the
\* lock of another admin may be taken over, anything else is refused.
ExamineLock(c) ==
    /\ call[c].op = "begin_review"
    /\ IF status = "admin_reviewing" /\ reviewing_locked_by # call[c].user
       THEN Enter(c, call[c].user, "takeover")
       ELSE Finish(c)
    /\ UNCHANGED <<row, audit>>

\* Mistake: The age test is missing.
BugTakeover(c) ==
    /\ call[c].op = "takeover"
    /\ Finish(c)
    /\ IF status = "admin_reviewing" THEN SetLock(call[c].user) ELSE KeepLock
    /\ UNCHANGED <<status, terms, accepted_by, position_id, audit>>

\* A compare-and-set again: under review, and locked for long enough.
Takeover(c) ==
    /\ call[c].op = "takeover"
    /\ Finish(c)
    /\ IF status = "admin_reviewing" /\ lock_age > StaleAfter
       THEN SetLock(call[c].user)
       ELSE KeepLock
    /\ UNCHANGED <<status, terms, accepted_by, position_id, audit>>

\* The UPDATE checks that the row is under review, not who holds the lock.
Unlock ==
    /\ status' = "submitted"
    /\ ClearLock
    /\ UNCHANGED <<terms, accepted_by, position_id, audit>>

BugRelease(c) == call[c].op = "release" /\ Finish(c) /\ Unlock

Release(c) ==
    /\ call[c].op = "release"
    /\ Finish(c)
    /\ \/ status = "admin_reviewing" /\ Unlock
       \/ status # "admin_reviewing" /\ UNCHANGED <<row, audit>>

\* release_expired_locks, which Celery beat runs every five minutes.
Sweep ==
    /\ status = "admin_reviewing"
    /\ lock_age > ExpireAfter
    /\ Unlock
    /\ UNCHANGED call

\* Mistake: The UPDATE does not name the position.
BugFulfillHireRequest ==
    /\ status \in Approved \cup {"accepted"}
    /\ status' = "fulfilled"
    /\ KeepLock
    /\ UNCHANGED <<terms, accepted_by, position_id, audit, call>>

\* The position's own approval marks a linked request fulfilled.
FulfillHireRequest ==
    /\ position_id # NoPosition
    /\ status \in Approved \cup {"accepted"}
    /\ status' = "fulfilled"
    /\ KeepLock
    /\ UNCHANGED <<terms, accepted_by, position_id, audit, call>>

\* The client hangs up or the worker dies between the read and the write.
Abandon(c) ==
    /\ call[c] # Idle
    /\ Finish(c)
    /\ UNCHANGED <<row, audit>>

\* Time passes for a held lock.
Tick ==
    /\ reviewing_locked_by # Nobody
    /\ lock_age < MaxAge
    /\ lock_age' = lock_age + 1
    /\ UNCHANGED <<status, terms, reviewing_locked_by, accepted_by, position_id,
                   audit, call>>

Write(c) ==
    \/ Approve(c) \/ ApproveModified(c) \/ Reject(c)
    \/ Accept(c) \/ Link(c) \/ Update(c) \/ Cancel(c)
    \/ ExamineLock(c) \/ Takeover(c) \/ Release(c)

Next ==
    \/ File
    \/ Sweep
    \/ FulfillHireRequest
    \/ Tick
    \/ \E c \in Call :
        \/ \E u \in User : BeginReview(c, u)
        \/ \E u \in User, op \in CheckedOp : Admit(c, u, op)
        \/ Write(c)
        \/ Abandon(c)

Safety == Init /\ [][Next]_vars

\* Time passes, and Celery beat keeps running the sweep; users owe nothing.
Spec == Safety /\ WF_vars(Tick) /\ WF_vars(Sweep)

-----------------------------------------------------------------------------
(***************************************************************************)
(* What holds of any interleaving of calls.                                *)
(***************************************************************************)

\* A request is under review exactly when somebody holds its lock, and a
\* free lock has no start time.  accept and link_position leave the lock
\* columns alone and name no status in their WHERE, so this rests on no
\* request coming back from a decision while they are on their way.
LockIffReviewing ==
    /\ (status = "admin_reviewing") <=> (reviewing_locked_by # Nobody)
    /\ reviewing_locked_by = Nobody => lock_age = 0

\* Whatever the races, HR never gets hold of a request nobody approved: a
\* pickup or a position on the row implies an approval in the audit log.
PickupWasApproved ==
    \/ status \in Approved \cup {"accepted", "fulfilled"}
    \/ accepted_by # Nobody
    \/ position_id # NoPosition
    => "approved" \in audit

\* A decided request never comes back to the approvers' queue: neither a late
\* release, a late takeover nor the sweep undoes a decision.
DecidedNeverRequeued ==
    [][(status \in Decided) => (status' \in Decided)]_vars

\* No step cancels a request that HR has picked up or fulfilled, although the
\* check of `cancel` lets an accepted request through.
PickupNotCancelled ==
    [][(status \in {"accepted", "fulfilled"}) => status' # "cancelled"]_vars

\* The review lock is the lease of ReviewLease, fairness included.
Lease == INSTANCE ReviewLease WITH
            Holder <- User, holder <- reviewing_locked_by, age <- lock_age
LeaseSpec   == Lease!Spec
LeaseSafety == Lease!Safety

\* No admin keeps a request locked for ever: takeovers renew the lease for
\* another admin, and the sweep ends the last one.
LockEventuallyFreed ==
    \A u \in User : (reviewing_locked_by = u) ~> (reviewing_locked_by # u)

-----------------------------------------------------------------------------
(***************************************************************************)
(* What holds when calls on one request do not overlap (one Call), with    *)
(* time and the sweep still running between the read and the write.        *)
(***************************************************************************)

\* The lifecycle of the repository's docstring and state_machines.md: what
\* is rejected, cancelled or fulfilled stays so.
TerminalIsFinal ==
    [][(status \in {"rejected", "cancelled", "fulfilled"}) => status' = status]_vars

\* One decision per request, and HR picks up only what was approved.
OneOutcome ==
    /\ ~({"approved", "rejected"} \subseteq audit)
    /\ ~({"approved", "rejected"} \cap audit # {} /\ status \in Queued)
    /\ status = "cancelled" => accepted_by = Nobody /\ position_id = NoPosition

\* The first recruiter keeps the request.
FirstPickupWins ==
    [][accepted_by # Nobody => accepted_by' = accepted_by]_vars

\* What was approved is what HR recruits for: edits stop when review starts.
TermsFrozenOnceReviewed ==
    [][(status \notin {"none", "pending"}) => terms' = terms]_vars

\* A request is fulfilled exactly when it has its position.
FulfilledIsLinked ==
    (status = "fulfilled") <=> (position_id # NoPosition)

=============================================================================
