------------------------ MODULE HireRequests_proofs ------------------------
(***************************************************************************)
(* Proofs about HireRequests, for any number of users, payloads,           *)
(* positions and overlapping calls, and any thresholds of the lock.        *)
(***************************************************************************)
EXTENDS HireRequests, TLAPS

-----------------------------------------------------------------------------
(***************************************************************************)
(* Types.                                                                  *)
(***************************************************************************)

\* A saturating age stays in its range when the lock ticks.
LEMMA AgeRange ==
    /\ 0 \in 0 .. MaxAge
    /\ \A a \in 0 .. MaxAge : a < MaxAge => a + 1 \in 0 .. MaxAge
  BY HireAssumption DEF HireAssumption, MaxAge

\* A call that starts or ends leaves the table of calls well typed.
LEMMA CallType ==
    ASSUME TypeOK, NEW c \in Call, NEW u \in User, NEW op \in Op
    PROVE  /\ Finish(c) => call' \in [Call -> InFlight \cup {Idle}]
           /\ Enter(c, u, op) => call' \in [Call -> InFlight \cup {Idle}]
  BY DEF TypeOK, Finish, Enter, InFlight

\* Whoever is in flight is a user.
LEMMA CallerIsUser ==
    ASSUME TypeOK, NEW c \in Call, call[c] # Idle
    PROVE  call[c] \in InFlight /\ call[c].user \in User /\ call[c].op \in Op
  BY DEF TypeOK, InFlight

\* An idle call is in none of the operations.
LEMMA IdleOp ==
    ASSUME NEW c \in Call, call[c].op \in Op
    PROVE  call[c] # Idle
  BY DEF Idle, Op, CheckedOp

LEMMA TypeStep == TypeOK /\ [Next]_vars => TypeOK'
<1> SUFFICES ASSUME TypeOK, [Next]_vars PROVE TypeOK'
  OBVIOUS
<1> USE HireAssumption, AgeRange DEF HireAssumption
<1>1. CASE File
  BY <1>1 DEF File, TypeOK, Status, Queued, Decided, Approved, Record, KeepLock
<1>2. CASE Sweep
  BY <1>2 DEF Sweep, Unlock, ClearLock, TypeOK, Status, Queued
<1>3. CASE FulfillHireRequest
  BY <1>3 DEF FulfillHireRequest, KeepLock, TypeOK, Status, Decided
<1>4. CASE Tick
  BY <1>4 DEF Tick, TypeOK
<1>5. ASSUME NEW c \in Call, NEW u \in User, BeginReview(c, u)
      PROVE  TypeOK'
  <2>1. call' \in [Call -> InFlight \cup {Idle}]
    BY <1>5, CallType DEF BeginReview, TypeOK, Op
  <2> QED
    BY <1>5, <2>1 DEF BeginReview, SetLock, KeepLock, TypeOK, Status, Queued
<1>6. ASSUME NEW c \in Call, NEW u \in User, NEW op \in CheckedOp, Admit(c, u, op)
      PROVE  TypeOK'
  <2>1. call' \in [Call -> InFlight \cup {Idle}]
    BY <1>6, CallType DEF Admit, Op
  <2> QED
    BY <1>6, <2>1 DEF Admit, row, TypeOK
<1>7. ASSUME NEW c \in Call, Write(c)
      PROVE  TypeOK'
  <2>1. CASE Approve(c) \/ ApproveModified(c) \/ Reject(c)
    BY <2>1 DEF Approve, ApproveModified, Reject, Decide, ClearLock, Record, Finish,
                TypeOK, Status, Decided, Approved, InFlight
  <2>2. CASE Accept(c)
    <3>1. call[c].user \in User
      BY <2>2, IdleOp, CallerIsUser DEF Accept, Op, CheckedOp
    <3>2. call' \in [Call -> InFlight \cup {Idle}]
      BY <2>2, CallType DEF Accept, Finish, TypeOK
    <3> QED
      BY <2>2, <3>1, <3>2 DEF Accept, KeepLock, Record, TypeOK, Status, Decided
  <2>3. CASE Link(c) \/ Update(c)
    BY <2>3 DEF Link, Update, KeepLock, Record, Finish, TypeOK, Status, Decided, InFlight
  <2>4. CASE Cancel(c)
    BY <2>4 DEF Cancel, ClearLock, KeepLock, Record, Finish, TypeOK, Status, Decided, InFlight
  <2>5. CASE ExamineLock(c)
    <3>1. call[c].user \in User
      BY <2>5, IdleOp, CallerIsUser DEF ExamineLock, Op
    <3>2. call' \in [Call -> InFlight \cup {Idle}]
      BY <2>5, <3>1, CallType DEF ExamineLock, Op
    <3> QED
      BY <2>5, <3>2 DEF ExamineLock, row, TypeOK
  <2>6. CASE Takeover(c)
    <3>1. call[c].user \in User
      BY <2>6, IdleOp, CallerIsUser DEF Takeover, Op
    <3>2. call' \in [Call -> InFlight \cup {Idle}]
      BY <2>6, <3>1, CallType DEF Takeover, Op
    <3> QED
      BY <2>6, <3>1, <3>2 DEF Takeover, SetLock, KeepLock, TypeOK
  <2>7. CASE Release(c)
    BY <2>7 DEF Release, Unlock, ClearLock, Finish, row, TypeOK, Status, Queued, InFlight
  <2> QED
    BY <1>7, <2>1, <2>2, <2>3, <2>4, <2>5, <2>6, <2>7 DEF Write
<1>8. ASSUME NEW c \in Call, Abandon(c)
      PROVE  TypeOK'
  BY <1>8 DEF Abandon, Finish, row, TypeOK, InFlight
<1>9. CASE UNCHANGED vars
  BY <1>9 DEF vars, TypeOK
<1> QED
  BY <1>1, <1>2, <1>3, <1>4, <1>5, <1>6, <1>7, <1>8, <1>9 DEF Next

\* The row and the calls keep their types under every interleaving.
THEOREM TypeCorrect == Safety => []TypeOK
<1>1. Init => TypeOK
  BY HireAssumption, AgeRange DEF HireAssumption, Init, TypeOK, Status
<1> QED
  BY <1>1, TypeStep, PTL DEF Safety

-----------------------------------------------------------------------------
(***************************************************************************)
(* What holds under every interleaving.                                    *)
(***************************************************************************)

\* No step takes a decided request back to the queue.
LEMMA DecidedStep ==
    TypeOK /\ [Next]_vars /\ status \in Decided => status' \in Decided
<1> SUFFICES ASSUME TypeOK, [Next]_vars, status \in Decided
             PROVE  status' \in Decided
  OBVIOUS
<1> USE DEF Decided, Approved
<1>1. ASSUME NEW c \in Call, Write(c)
      PROVE  status' \in Decided
  BY <1>1 DEF Write, Approve, ApproveModified, Reject, Decide, Accept, Link, Update,
              Cancel, ExamineLock, Takeover, Release, row
<1>2. ASSUME NEW c \in Call, NEW u \in User, BeginReview(c, u)
      PROVE  status' \in Decided
  BY <1>2 DEF BeginReview
<1>3. ASSUME NEW c \in Call, NEW u \in User, NEW op \in CheckedOp, Admit(c, u, op)
      PROVE  status' \in Decided
  BY <1>3 DEF Admit, row
<1>4. ASSUME NEW c \in Call, Abandon(c)
      PROVE  status' \in Decided
  BY <1>4 DEF Abandon, row
<1>5. CASE File \/ Sweep \/ FulfillHireRequest \/ Tick \/ UNCHANGED vars
  BY <1>5 DEF File, Sweep, FulfillHireRequest, Tick, vars
<1> QED
  BY <1>1, <1>2, <1>3, <1>4, <1>5 DEF Next

\* Neither a late release, a late takeover nor the sweep undoes a decision.
THEOREM DecisionsStay == Safety => DecidedNeverRequeued
<1>1. TypeOK /\ [Next]_vars => [(status \in Decided) => (status' \in Decided)]_vars
  BY DecidedStep
<1> QED
  BY <1>1, TypeCorrect, PTL DEF Safety, DecidedNeverRequeued

\* A request that HR has picked up or fulfilled is never cancelled, however the
\* pickup and the cancellation interleave: the UPDATE of cancel re-checks.
THEOREM PickupSurvivesCancel == Safety => PickupNotCancelled
<1>1. [Next]_vars => [(status \in {"accepted", "fulfilled"}) => status' # "cancelled"]_vars
  <2> SUFFICES ASSUME [Next]_vars, status \in {"accepted", "fulfilled"}
               PROVE  status' # "cancelled"
    OBVIOUS
  <2>1. ASSUME NEW c \in Call, Write(c)
        PROVE  status' # "cancelled"
    BY <2>1 DEF Write, Approve, ApproveModified, Reject, Decide, Accept, Link, Update,
                Cancel, Cancellable, ExamineLock, Takeover, Release, Unlock, row
  <2>2. ASSUME NEW c \in Call, NEW u \in User, BeginReview(c, u)
        PROVE  status' # "cancelled"
    BY <2>2 DEF BeginReview
  <2>3. ASSUME NEW c \in Call, NEW u \in User, NEW op \in CheckedOp, Admit(c, u, op)
        PROVE  status' # "cancelled"
    BY <2>3 DEF Admit, row
  <2>4. ASSUME NEW c \in Call, Abandon(c)
        PROVE  status' # "cancelled"
    BY <2>4 DEF Abandon, row
  <2>5. CASE File \/ Sweep \/ FulfillHireRequest \/ Tick \/ UNCHANGED vars
    BY <2>5 DEF File, Sweep, FulfillHireRequest, Tick, vars
  <2> QED
    BY <2>1, <2>2, <2>3, <2>4, <2>5 DEF Next
<1> QED
  BY <1>1, PTL DEF Safety, PickupNotCancelled

\* What the check of accept or link_position saw still holds when its UPDATE
\* comes: somebody approved the request, and it did not return to the queue.
PickupChecked ==
    \A c \in Call : call[c].op \in {"accept", "link"} =>
        status \in Decided /\ "approved" \in audit

IInv == TypeOK /\ LockIffReviewing /\ PickupWasApproved /\ PickupChecked

\* audit_logs is append-only.
LEMMA AuditGrows == [Next]_vars => audit \subseteq audit'
<1> SUFFICES ASSUME [Next]_vars PROVE audit \subseteq audit'
  OBVIOUS
<1>1. ASSUME NEW c \in Call, Write(c)
      PROVE  audit \subseteq audit'
  BY <1>1 DEF Write, Approve, ApproveModified, Reject, Decide, Accept, Link, Update,
              Cancel, ExamineLock, Takeover, Release, Unlock, Record, row
<1>2. ASSUME NEW c \in Call, NEW u \in User, BeginReview(c, u)
      PROVE  audit \subseteq audit'
  BY <1>2 DEF BeginReview
<1>3. ASSUME NEW c \in Call, NEW u \in User, NEW op \in CheckedOp, Admit(c, u, op)
      PROVE  audit \subseteq audit'
  BY <1>3 DEF Admit
<1>4. CASE \E c \in Call : Abandon(c)
  BY <1>4 DEF Abandon
<1>5. CASE File \/ Sweep \/ FulfillHireRequest \/ Tick \/ UNCHANGED vars
  BY <1>5 DEF File, Sweep, Unlock, FulfillHireRequest, Tick, Record, vars
<1> QED
  BY <1>1, <1>2, <1>3, <1>4, <1>5 DEF Next

\* Only its own check brings a call to accept or link, and no other step undoes
\* what that check saw.
LEMMA PickupCheckedStep == IInv /\ [Next]_vars => PickupChecked'
<1> SUFFICES ASSUME IInv, [Next]_vars,
                    NEW d \in Call, call'[d].op \in {"accept", "link"}
             PROVE  status' \in Decided /\ "approved" \in audit'
  BY DEF PickupChecked
<1>1. CASE call[d].op \in {"accept", "link"}
  <2>1. status \in Decided /\ "approved" \in audit
    BY <1>1 DEF IInv, PickupChecked
  <2> QED
    BY <2>1, DecidedStep, AuditGrows DEF IInv
<1>2. CASE call[d].op \notin {"accept", "link"}
  \* Only the check of accept or link itself brings a call there.
  <2>1. PICK u \in User, op \in {"accept", "link"} : Admit(d, u, op)
    <3>1. ASSUME NEW c \in Call, Write(c) \/ Abandon(c)
          PROVE  FALSE
      BY <3>1, <1>2 DEF Write, Approve, ApproveModified, Reject, Decide, Accept, Link,
          Update, Cancel, ExamineLock, Takeover, Release, Abandon, Finish, Enter, Idle,
          IInv, TypeOK, vars
    <3>2. ASSUME NEW c \in Call, NEW u \in User, BeginReview(c, u)
          PROVE  FALSE
      BY <3>2, <1>2 DEF BeginReview, Enter, IInv, TypeOK
    <3>3. ASSUME NEW c \in Call, NEW u \in User, NEW op \in CheckedOp, Admit(c, u, op)
          PROVE  c = d /\ op \in {"accept", "link"}
      BY <3>3, <1>2 DEF Admit, Enter, IInv, TypeOK
    <3>4. ~(File \/ Sweep \/ FulfillHireRequest \/ Tick \/ UNCHANGED vars)
      BY <1>2 DEF File, Sweep, FulfillHireRequest, Tick, vars
    <3> QED
      BY <3>1, <3>2, <3>3, <3>4 DEF Next
  <2>2. status \in Approved \cup {"accepted"} /\ UNCHANGED <<status, audit>>
    BY <2>1 DEF Admit, Admits, Pickable, Linkable, Approved, row
  <2> QED
    BY <2>2 DEF IInv, PickupWasApproved, Decided, Approved
<1> QED
  BY <1>1, <1>2

LEMMA PickupWasApprovedStep == IInv /\ [Next]_vars => PickupWasApproved'
<1> SUFFICES ASSUME IInv, [Next]_vars PROVE PickupWasApproved'
  OBVIOUS
<1> USE DEF PickupWasApproved, Approved
<1>1. CASE "approved" \in audit
  BY <1>1, AuditGrows
<1>2. CASE "approved" \notin audit
  <2>1. status \in {"none", "rejected", "cancelled"} \cup Queued
        /\ accepted_by = Nobody /\ position_id = NoPosition
    BY <1>2 DEF IInv, TypeOK, Status, Decided
  <2>2. ASSUME NEW c \in Call, Write(c)
        PROVE  PickupWasApproved'
    <3>1. CASE Approve(c) \/ ApproveModified(c) \/ Reject(c)
      BY <3>1, <2>1 DEF Approve, ApproveModified, Reject, Decide, Record
    <3>2. ~(Accept(c) \/ Link(c))
      BY <1>2 DEF Accept, Link, IInv, PickupChecked
    <3>3. CASE Update(c) \/ Cancel(c) \/ ExamineLock(c) \/ Takeover(c) \/ Release(c)
      BY <3>3, <2>1 DEF Update, Cancel, ExamineLock, Takeover, Release, Unlock, Record, row, Queued
    <3> QED
      BY <2>2, <3>1, <3>2, <3>3 DEF Write
  <2>3. ASSUME NEW c \in Call, NEW u \in User, BeginReview(c, u)
        PROVE  PickupWasApproved'
    BY <2>1, <2>3 DEF BeginReview, Queued
  <2>4. ASSUME NEW c \in Call, NEW u \in User, NEW op \in CheckedOp, Admit(c, u, op)
        PROVE  PickupWasApproved'
    BY <2>1, <2>4 DEF Admit, row, Queued
  <2>5. CASE \E c \in Call : Abandon(c)
    BY <2>1, <2>5 DEF Abandon, row, Queued
  <2>6. CASE File \/ Sweep \/ FulfillHireRequest \/ Tick \/ UNCHANGED vars
    BY <2>1, <2>6 DEF File, Sweep, Unlock, FulfillHireRequest, Tick, Record, vars, Queued
  <2> QED
    BY <2>2, <2>3, <2>4, <2>5, <2>6 DEF Next
<1> QED
  BY <1>1, <1>2

LEMMA LockIffReviewingStep == IInv /\ [Next]_vars => LockIffReviewing'
<1> SUFFICES ASSUME IInv, [Next]_vars PROVE LockIffReviewing'
  OBVIOUS
<1> USE HireAssumption DEF HireAssumption, LockIffReviewing, IInv
<1>1. ASSUME NEW c \in Call, Write(c)
      PROVE  LockIffReviewing'
  <2>1. CASE Approve(c) \/ ApproveModified(c) \/ Reject(c)
    BY <2>1 DEF Approve, ApproveModified, Reject, Decide, ClearLock
  \* The two writes that keep the lock meet a decided request, which has none.
  <2>2. CASE Accept(c) \/ Link(c)
    <3>1. status \in Decided
      BY <2>2 DEF Accept, Link, PickupChecked
    <3> QED
      BY <2>2, <3>1 DEF Accept, Link, KeepLock, Decided, Approved
  <2>3. CASE Update(c) \/ Cancel(c) \/ ExamineLock(c) \/ Release(c)
    BY <2>3 DEF Update, Cancel, ExamineLock, Release, Unlock, ClearLock, KeepLock, row
  <2>4. CASE Takeover(c)
    <3>1. call[c].user \in User
      BY <2>4, IdleOp, CallerIsUser DEF Takeover, Op
    <3> QED
      BY <2>4, <3>1 DEF Takeover, SetLock, KeepLock
  <2> QED
    BY <1>1, <2>1, <2>2, <2>3, <2>4 DEF Write
<1>2. ASSUME NEW c \in Call, NEW u \in User, BeginReview(c, u)
      PROVE  LockIffReviewing'
  BY <1>2 DEF BeginReview, SetLock, KeepLock
<1>3. ASSUME NEW c \in Call, NEW u \in User, NEW op \in CheckedOp, Admit(c, u, op)
      PROVE  LockIffReviewing'
  BY <1>3 DEF Admit, row
<1>4. CASE \E c \in Call : Abandon(c)
  BY <1>4 DEF Abandon, row
<1>5. CASE File \/ Sweep \/ FulfillHireRequest \/ Tick \/ UNCHANGED vars
  BY <1>5 DEF File, Sweep, Unlock, ClearLock, FulfillHireRequest, KeepLock, Approved, Tick, vars
<1> QED
  BY <1>1, <1>2, <1>3, <1>4, <1>5 DEF Next

\* The strengthened invariant holds of every reachable state.
THEOREM Invariance == Safety => []IInv
<1>1. Init => IInv
  BY TypeCorrect, HireAssumption DEF HireAssumption, Init, IInv, TypeOK, Status, MaxAge,
     LockIffReviewing, PickupWasApproved, PickupChecked, Approved, Idle
<1>2. IInv /\ [Next]_vars => IInv'
  BY TypeStep, LockIffReviewingStep, PickupWasApprovedStep, PickupCheckedStep DEF IInv
<1> QED
  BY <1>1, <1>2, PTL DEF Safety

\* The lock columns agree with the status, whoever races with whom.
THEOREM LockAgreesWithStatus == Safety => []LockIffReviewing
<1>1. IInv => LockIffReviewing
  BY DEF IInv
<1> QED
  BY <1>1, Invariance, PTL

\* HR never holds a request that nobody approved.
THEOREM PickupNeedsApproval == Safety => []PickupWasApproved
<1>1. IInv => PickupWasApproved
  BY DEF IInv
<1> QED
  BY <1>1, Invariance, PTL

-----------------------------------------------------------------------------
(***************************************************************************)
(* The review lock implements the lease.                                   *)
(***************************************************************************)

\* Each step of the code is a step of the lease or leaves the lock alone.
LEMMA LeaseStep ==
    TypeOK /\ LockIffReviewing /\ [Next]_vars => [Lease!Next]_(Lease!vars)
<1> SUFFICES ASSUME TypeOK, LockIffReviewing, [Next]_vars
             PROVE  [Lease!Next]_(Lease!vars)
  OBVIOUS
<1> USE DEF Lease!Next, Lease!vars, Lease!End
<1>1. ASSUME ClearLock
      PROVE  Lease!End \/ UNCHANGED Lease!vars
  BY <1>1 DEF ClearLock, LockIffReviewing
<1>2. ASSUME NEW c \in Call, Write(c)
      PROVE  [Lease!Next]_(Lease!vars)
  <2>1. CASE Approve(c) \/ ApproveModified(c) \/ Reject(c)
    BY <1>1, <2>1 DEF Approve, ApproveModified, Reject, Decide
  <2>2. CASE Accept(c) \/ Link(c) \/ Update(c) \/ ExamineLock(c)
    BY <2>2 DEF Accept, Link, Update, ExamineLock, KeepLock, row
  <2>3. CASE Cancel(c) \/ Release(c)
    BY <1>1, <2>3 DEF Cancel, Release, Unlock, KeepLock, row
  <2>4. CASE Takeover(c)
    <3>1. call[c].user \in User
      BY <2>4, IdleOp, CallerIsUser DEF Takeover, Op
    <3>2. CASE status = "admin_reviewing" /\ lock_age > StaleAfter
      BY <2>4, <3>1, <3>2 DEF Takeover, SetLock, LockIffReviewing, Lease!TakeOver
    <3>3. CASE ~(status = "admin_reviewing" /\ lock_age > StaleAfter)
      BY <2>4, <3>3 DEF Takeover, KeepLock
    <3> QED
      BY <3>2, <3>3
  <2> QED
    BY <1>2, <2>1, <2>2, <2>3, <2>4 DEF Write
<1>3. ASSUME NEW c \in Call, NEW u \in User, BeginReview(c, u)
      PROVE  [Lease!Next]_(Lease!vars)
  BY <1>3 DEF BeginReview, SetLock, KeepLock, LockIffReviewing, Lease!Acquire
<1>4. ASSUME NEW c \in Call, NEW u \in User, NEW op \in CheckedOp, Admit(c, u, op)
      PROVE  [Lease!Next]_(Lease!vars)
  BY <1>4 DEF Admit, row
<1>5. CASE \E c \in Call : Abandon(c)
  BY <1>5 DEF Abandon, row
<1>6. CASE Sweep
  BY <1>1, <1>6 DEF Sweep, Unlock
<1>7. CASE Tick
  BY <1>7 DEF Tick, MaxAge, Lease!Tick, Lease!MaxAge
<1>8. CASE File \/ FulfillHireRequest \/ UNCHANGED vars
  BY <1>8 DEF File, FulfillHireRequest, KeepLock, vars
<1> QED
  BY <1>2, <1>3, <1>4, <1>5, <1>6, <1>7, <1>8 DEF Next

\* With any number of racing reviewers, the lock is a lease: one holder, taken
\* over only once it is stale.
THEOREM LockIsLease == Safety => LeaseSafety
<1>1. Init => Lease!Init
  BY DEF Init, Lease!Init
<1>2. TypeOK /\ LockIffReviewing /\ [Next]_vars => [Lease!Next]_(Lease!vars)
  BY LeaseStep
<1> QED
  BY <1>1, <1>2, TypeCorrect, LockAgreesWithStatus, PTL DEF Safety, LeaseSafety, Lease!Safety

-----------------------------------------------------------------------------
(***************************************************************************)
(* What holds when the calls on one request do not overlap.  Time and the  *)
(* sweep still run between the check and the write of a call.              *)
(***************************************************************************)

OneAtATime == \A c, d \in Call : c = d

\* The status is still one that the check of the call in flight admits.  The
\* write of release re-checks it, because the sweep may have come first.
StillAdmitted ==
    \A c \in Call : call[c].op \in CheckedOp \ {"release"} =>
        status \in Admits(call[c].op)

\* What has not happened yet left no trace.
NoTraceYet ==
    /\ status \in Queued \cup {"none"} => {"approved", "rejected"} \cap audit = {}
    /\ status \in Queued \cup Approved \cup {"none"} =>
          accepted_by = Nobody /\ position_id = NoPosition
    /\ status \in Approved \cup {"accepted", "fulfilled"} => "rejected" \notin audit

SerialInv == TypeOK /\ StillAdmitted /\ NoTraceYet /\ OneOutcome /\ FulfilledIsLinked

\* With one call at a time nothing but the sweep comes between its check and
\* its write, and the sweep takes no status out of a set that is checked.
LEMMA StillAdmittedStep ==
    OneAtATime /\ SerialInv /\ [Next]_vars => StillAdmitted'
<1> SUFFICES ASSUME OneAtATime, SerialInv, [Next]_vars,
                    NEW c \in Call, call'[c].op \in CheckedOp \ {"release"}
             PROVE  status' \in Admits(call'[c].op)
  BY DEF StillAdmitted, Admits
<1> USE DEF Admits, Reviewable, Pickable, Editable, NotOver, Linkable, CheckedOp
<1>1. \A d \in Call : c = d
  BY DEF OneAtATime
<1>2. ASSUME NEW d \in Call, Write(d) \/ Abandon(d)
      PROVE  FALSE
  BY <1>1, <1>2 DEF Write, Approve, ApproveModified, Reject, Decide, Accept, Link,
      Update, Cancel, ExamineLock, Takeover, Release, Abandon, Finish, Enter, Idle,
      SerialInv, TypeOK, vars
<1>3. ASSUME NEW d \in Call, NEW u \in User, BeginReview(d, u)
      PROVE  FALSE
  BY <1>1, <1>3 DEF BeginReview, Enter, Idle, SerialInv, TypeOK
<1>4. ASSUME NEW d \in Call, NEW u \in User, NEW op \in CheckedOp, Admit(d, u, op)
      PROVE  status' \in Admits(call'[c].op)
  <2>1. call'[c].op = op /\ status' = status /\ status \in Admits(op)
    BY <1>1, <1>4 DEF Admit, Enter, row, SerialInv, TypeOK
  <2> QED
    BY <2>1
<1>5. CASE File \/ Sweep \/ FulfillHireRequest \/ Tick \/ UNCHANGED vars
  <2>1. call' = call /\ status \in Admits(call[c].op)
    BY <1>5 DEF File, Sweep, FulfillHireRequest, Tick, vars, SerialInv, StillAdmitted
  <2>2. ~FulfillHireRequest /\ ~File
    BY <2>1 DEF File, FulfillHireRequest, SerialInv, FulfilledIsLinked, TypeOK, Queued, Approved, Status
  <2>3. CASE Sweep
    BY <2>1, <2>3 DEF Sweep, Unlock, Status, Queued, Decided, Approved
  <2> QED
    BY <1>5, <2>1, <2>2, <2>3 DEF Tick, vars
<1> QED
  BY <1>2, <1>3, <1>4, <1>5 DEF Next

\* The status each write meets when calls do not overlap.
LEMMA WriteMeets ==
    ASSUME SerialInv, NEW c \in Call
    PROVE  /\ Approve(c) \/ ApproveModified(c) \/ Reject(c) => status \in Reviewable
           /\ Accept(c) => status \in Pickable
           /\ Link(c)   => status \in Linkable
           /\ Update(c) => status \in Editable
  BY DEF SerialInv, StillAdmitted, Admits, CheckedOp, Approve, ApproveModified, Reject,
         Decide, Accept, Link, Update

\* The position's approval finds its request fulfilled already.
LEMMA NothingToFulfill == SerialInv => ~FulfillHireRequest
  BY DEF SerialInv, FulfilledIsLinked, FulfillHireRequest, Approved

LEMMA OutcomeStep ==
    OneAtATime /\ SerialInv /\ [Next]_vars
        => NoTraceYet' /\ OneOutcome' /\ FulfilledIsLinked'
<1> SUFFICES ASSUME OneAtATime, SerialInv, [Next]_vars
             PROVE  NoTraceYet' /\ OneOutcome' /\ FulfilledIsLinked'
  OBVIOUS
<1> USE DEF SerialInv, NoTraceYet, OneOutcome, FulfilledIsLinked, Queued, Approved
<1>1. ASSUME NEW c \in Call, Write(c)
      PROVE  NoTraceYet' /\ OneOutcome' /\ FulfilledIsLinked'
  <2>1. CASE Approve(c) \/ ApproveModified(c) \/ Reject(c)
    <3>1. status \in Reviewable
      BY <2>1, WriteMeets
    <3> QED
      BY <2>1, <3>1 DEF Approve, ApproveModified, Reject, Decide, Reviewable, Record
  <2>2. CASE Accept(c)
    <3>1. status \in Pickable
      BY <2>2, WriteMeets
    <3> QED
      BY <2>2, <3>1 DEF Accept, Pickable, Record
  <2>3. CASE Link(c)
    <3>1. status \in Linkable
      BY <2>3, WriteMeets
    <3>2. position_id' # NoPosition
      BY <2>3, HireAssumption DEF Link, HireAssumption
    <3> QED
      BY <2>3, <3>1, <3>2 DEF Link, Linkable, Record
  <2>4. CASE Cancel(c)
    BY <2>4 DEF Cancel, Cancellable, Record
  <2>5. CASE Update(c) \/ ExamineLock(c) \/ Takeover(c)
    BY <2>5 DEF Update, ExamineLock, Takeover, row
  <2>6. CASE Release(c)
    BY <2>6 DEF Release, Unlock, row
  <2> QED
    BY <1>1, <2>1, <2>2, <2>3, <2>4, <2>5, <2>6 DEF Write
<1>2. ASSUME NEW c \in Call, NEW u \in User, BeginReview(c, u)
      PROVE  NoTraceYet' /\ OneOutcome' /\ FulfilledIsLinked'
  BY <1>2 DEF BeginReview
<1>3. ASSUME NEW c \in Call, NEW u \in User, NEW op \in CheckedOp, Admit(c, u, op)
      PROVE  NoTraceYet' /\ OneOutcome' /\ FulfilledIsLinked'
  BY <1>3 DEF Admit, row
<1>4. CASE \E c \in Call : Abandon(c)
  BY <1>4 DEF Abandon, row
<1>5. CASE File
  BY <1>5 DEF File, Record
<1>6. CASE Sweep
  BY <1>6 DEF Sweep, Unlock
<1>7. CASE Tick \/ UNCHANGED vars
  BY <1>7 DEF Tick, vars
<1> QED
  BY <1>1, <1>2, <1>3, <1>4, <1>5, <1>6, <1>7, NothingToFulfill DEF Next

\* The lifecycle invariant of calls that do not overlap.
THEOREM SerialInvariance == OneAtATime /\ Safety => []SerialInv
<1> SUFFICES ASSUME OneAtATime PROVE Safety => []SerialInv
  OBVIOUS
<1>1. Init => SerialInv
  <2> SUFFICES ASSUME Init PROVE SerialInv
    OBVIOUS
  <2>1. TypeOK
    BY HireAssumption, AgeRange DEF HireAssumption, Init, TypeOK, Status
  <2>2. StillAdmitted
    BY DEF Init, StillAdmitted, Idle, CheckedOp
  <2> QED
    BY <2>1, <2>2, HireAssumption DEF HireAssumption, Init, SerialInv, NoTraceYet, OneOutcome,
       FulfilledIsLinked, Approved
<1>2. SerialInv /\ [Next]_vars => SerialInv'
  <2>1. SerialInv /\ [Next]_vars => TypeOK'
    BY TypeStep DEF SerialInv
  <2> QED
    BY <2>1, StillAdmittedStep, OutcomeStep DEF SerialInv
<1> QED
  BY <1>1, <1>2, PTL DEF Safety

\* What one step may do to the row when calls do not overlap.
LEMMA SerialStep ==
    SerialInv /\ [Next]_vars =>
        /\ status \in {"rejected", "cancelled", "fulfilled"} => status' = status
        /\ accepted_by # Nobody => accepted_by' = accepted_by
        /\ status \notin {"none", "pending"} => terms' = terms
<1> SUFFICES ASSUME SerialInv, [Next]_vars
             PROVE  /\ status \in {"rejected", "cancelled", "fulfilled"} => status' = status
                    /\ accepted_by # Nobody => accepted_by' = accepted_by
                    /\ status \notin {"none", "pending"} => terms' = terms
  OBVIOUS
<1>1. ASSUME NEW c \in Call, Write(c)
      PROVE  /\ status \in {"rejected", "cancelled", "fulfilled"} => status' = status
             /\ accepted_by # Nobody => accepted_by' = accepted_by
             /\ status \notin {"none", "pending"} => terms' = terms
  <2>1. CASE Approve(c) \/ ApproveModified(c) \/ Reject(c) \/ Update(c)
    BY <2>1, WriteMeets DEF Approve, ApproveModified, Reject, Decide, Update, Reviewable, Editable
  <2>2. CASE Accept(c) \/ Link(c)
    BY <2>2, WriteMeets DEF Accept, Link, Pickable, Linkable, SerialInv, NoTraceYet, Approved
  <2>3. CASE Cancel(c) \/ Release(c)
    BY <2>3 DEF Cancel, Cancellable, Release, Unlock, row
  <2>4. CASE ExamineLock(c) \/ Takeover(c)
    BY <2>4 DEF ExamineLock, Takeover, row
  <2> QED
    BY <1>1, <2>1, <2>2, <2>3, <2>4 DEF Write
<1>2. ASSUME NEW c \in Call, NEW u \in User, BeginReview(c, u)
      PROVE  accepted_by' = accepted_by /\ terms' = terms
             /\ (status \in {"rejected", "cancelled", "fulfilled"} => status' = status)
  BY <1>2 DEF BeginReview
<1>3. ASSUME NEW c \in Call, NEW u \in User, NEW op \in CheckedOp, Admit(c, u, op)
      PROVE  UNCHANGED row
  BY <1>3 DEF Admit
<1>4. CASE \E c \in Call : Abandon(c)
  BY <1>4 DEF Abandon, row
<1>5. CASE File \/ Sweep \/ Tick \/ UNCHANGED vars
  BY <1>5 DEF File, Sweep, Unlock, Tick, vars
<1> QED
  BY <1>1, <1>2, <1>3, <1>4, <1>5, NothingToFulfill DEF Next, row

\* With calls that do not overlap, what is over stays over.
THEOREM TerminalStays == OneAtATime /\ Safety => TerminalIsFinal
<1>1. SerialInv /\ [Next]_vars =>
        [(status \in {"rejected", "cancelled", "fulfilled"}) => status' = status]_vars
  BY SerialStep
<1> QED
  BY <1>1, SerialInvariance, PTL DEF Safety, TerminalIsFinal

\* With calls that do not overlap, a request is fulfilled exactly when it is linked to
\* a position, whether the link or the approval of the position came first.
THEOREM FulfilledHasPosition == OneAtATime /\ Safety => []FulfilledIsLinked
<1>1. SerialInv => FulfilledIsLinked
  BY DEF SerialInv
<1> QED
  BY <1>1, SerialInvariance, PTL

\* With calls that do not overlap, a request is approved or rejected but not both, does
\* not wait for a decision once it has one, and a cancelled one has neither recruiter
\* nor position: each handler's check of the status excludes the others' outcomes.
THEOREM OutcomesExclude == OneAtATime /\ Safety => []OneOutcome
<1>1. SerialInv => OneOutcome
  BY DEF SerialInv
<1> QED
  BY <1>1, SerialInvariance, PTL

\* With calls that do not overlap, the recruiter who picks a request up first keeps
\* it: the others' pickups are refused by the check of its status (accept).
THEOREM FirstRecruiterStays == OneAtATime /\ Safety => FirstPickupWins
<1>1. SerialInv /\ [Next]_vars => [accepted_by # Nobody => accepted_by' = accepted_by]_vars
  BY SerialStep
<1> QED
  BY <1>1, SerialInvariance, PTL DEF Safety, FirstPickupWins

\* With calls that do not overlap, HR recruits for the terms that were reviewed: an
\* edit is refused as soon as the request has left the queue (update).
THEOREM ReviewedTermsStay == OneAtATime /\ Safety => TermsFrozenOnceReviewed
<1>1. SerialInv /\ [Next]_vars => [(status \notin {"none", "pending"}) => terms' = terms]_vars
  BY SerialStep
<1> QED
  BY <1>1, SerialInvariance, PTL DEF Safety, TermsFrozenOnceReviewed
=============================================================================
