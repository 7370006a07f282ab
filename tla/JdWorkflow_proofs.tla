------------------------- MODULE JdWorkflow_proofs -------------------------
(***************************************************************************)
(* Proofs about JdWorkflow, for any number of users, positions, revision   *)
(* cycles and overlapping calls, and any settings of the organisation.     *)
(***************************************************************************)
EXTENDS JdWorkflow, TLAPS

-----------------------------------------------------------------------------
(***************************************************************************)
(* Types.                                                                  *)
(***************************************************************************)

CallRecord == [step : Step, user : User \cup {Nobody}, pos : Position \cup {NoPosition},
               draft : BOOLEAN, reviewer : User \cup {Nobody}]

\* Whoever is asked to review is a user and not the submitter.
LEMMA ReviewersAreOthers ==
    ASSUME TypeOK, NEW u \in User, NEW p, NEW r \in Reviewers(u, p)
    PROVE  r \in User /\ r # u
<1>1. Heads \subseteq User /\ Admins \subseteq User
  BY DEF TypeOK, Heads, Admins
<1>2. TeamLead(p) \subseteq User
  BY JdAssumption DEF JdAssumption, TeamLead
<1>3. Role[u] \in {"team_lead", "dept_admin", "org_head", "hr"}
  BY JdAssumption DEF JdAssumption, Roles
<1>4. Candidates(u, p) \subseteq User
  BY <1>1, <1>2, <1>3 DEF Candidates, FirstOf
<1> QED
  BY <1>1, <1>4 DEF Reviewers

\* The steps of the calls leave the table of calls well typed.
LEMMA CallType ==
    ASSUME TypeOK, NEW c \in Call
    PROVE  /\ Finish(c) => call' \in [Call -> CallRecord]
           /\ \A step \in Step : Goto(c, step) => call' \in [Call -> CallRecord]
           /\ AfterSave(c) => call' \in [Call -> CallRecord]
<1>1. call \in [Call -> CallRecord]
  BY DEF TypeOK, CallRecord
<1>2. Idle \in CallRecord
  BY DEF Idle, Step, CallRecord
<1>3. Finish(c) => call' \in [Call -> CallRecord]
  BY <1>1, <1>2 DEF Finish
<1>4. ASSUME NEW step \in Step, Goto(c, step) PROVE call' \in [Call -> CallRecord]
  <2>1. [call[c] EXCEPT !.step = step] \in CallRecord
    BY <1>1 DEF CallRecord
  <2> QED
    BY <1>1, <1>4, <2>1 DEF Goto
<1> QED
  BY <1>3, <1>4 DEF AfterSave, Step

LEMMA TypeStep == TypeOK /\ [Next]_vars => TypeOK'
<1> SUFFICES ASSUME TypeOK, [Next]_vars PROVE TypeOK'
  OBVIOUS
<1> USE JdAssumption DEF JdAssumption
<1>1. CASE RequestMoves
  BY <1>1 DEF RequestMoves, positions, TypeOK
<1>2. ASSUME NEW u \in User, Deactivate(u) PROVE TypeOK'
  BY <1>2 DEF Deactivate, positions, handover, TypeOK
<1>3. ASSUME NEW p \in Position, NEW u \in User, ApproveJd(u, p) PROVE TypeOK'
  BY <1>3 DEF ApproveJd, FulfillHireRequest, TypeOK, ValidStatuses
<1>4. ASSUME NEW p \in Position, NEW u \in User, RequestChanges(u, p) PROVE TypeOK'
  <2>1. /\ revision_cycle[p] + 1 \in 0 .. MaxCycle
        /\ revision_cycle[p] + 1 \in 1 .. MaxCycle
    BY <1>4 DEF RequestChanges, TypeOK
  <2>2. feedback' \subseteq 1 .. MaxCycle
    BY <1>4, <2>1 DEF RequestChanges, InjectFeedback, TypeOK
  <2> QED
    BY <1>4, <2>1, <2>2 DEF RequestChanges, handover, TypeOK, ValidStatuses
<1>5. ASSUME NEW p \in Position, NEW u \in User, CancelJd(u, p) PROVE TypeOK'
  BY <1>5 DEF CancelJd, handover, TypeOK, ValidStatuses
<1>6. ASSUME NEW p \in Position, Withdraw(p) PROVE TypeOK'
  BY <1>6 DEF Withdraw, handover, TypeOK, ValidStatuses
<1>7. ASSUME NEW p \in Position, NEW new \in StatusRequests, UpdateStatus(p, new) PROVE TypeOK'
  BY <1>7 DEF UpdateStatus, handover, TypeOK
<1>8. ASSUME NEW c \in Call, NEW u \in User, NEW draft \in BOOLEAN, Save(c, u, draft) PROVE TypeOK'
  BY <1>8 DEF Save, positions, handover, TypeOK, Step
<1>9. ASSUME NEW c \in Call, NEW u \in User, NEW p \in Position, SubmitForApproval(c, u, p) PROVE TypeOK'
  BY <1>9 DEF SubmitForApproval, positions, handover, TypeOK, Step
<1>10. ASSUME NEW c \in Call, LinkSession(c) PROVE TypeOK'
  BY <1>10 DEF LinkSession, positions, handover, TypeOK, Step
<1>11. ASSUME NEW c \in Call, SaveAgain(c) PROVE TypeOK'
  BY <1>11, CallType DEF SaveAgain, SavedStatus, handover, TypeOK, ValidStatuses, CallRecord
<1>12. ASSUME NEW c \in Call, SaveNew(c) PROVE TypeOK'
  BY <1>12 DEF SaveNew, SavedStatus, handover, TypeOK, ValidStatuses, Step
<1>13. ASSUME NEW c \in Call, Attach(c) PROVE TypeOK'
  BY <1>13, CallType DEF Attach, positions, handover, TypeOK, CallRecord
<1>14. ASSUME NEW c \in Call, Resolve(c) PROVE TypeOK'
  <2>1. \A r \in Reviewers(call[c].user, call[c].pos) : call[c].user \in User => r \in User
    BY ReviewersAreOthers
  <2>2. call' \in [Call -> CallRecord]
    <3>1. CASE Finish(c) \/ Goto(c, "submit")
      BY <3>1, CallType DEF Step
    <3>2. ASSUME NEW r \in Reviewers(call[c].user, call[c].pos), call[c].user \in active,
                 call' = [call EXCEPT ![c] = [@ EXCEPT !.step = "submit", !.reviewer = r]]
          PROVE  call' \in [Call -> CallRecord]
      <4>1. call \in [Call -> CallRecord] /\ r \in User
        BY <3>2, <2>1 DEF TypeOK, CallRecord
      <4>2. [call[c] EXCEPT !.step = "submit", !.reviewer = r] \in CallRecord
        BY <4>1 DEF CallRecord, Step
      <4> QED
        BY <3>2, <4>1, <4>2
    <3> QED
      BY <1>14, <3>1, <3>2 DEF Resolve
  <2> QED
    BY <1>14, <2>2 DEF Resolve, positions, handover, TypeOK, CallRecord
<1>15. ASSUME NEW c \in Call, Submit(c) PROVE TypeOK'
  <2>1. call' \in [Call -> CallRecord]
    BY <1>15, CallType DEF Submit
  <2>2. call[c].user \in User \cup {Nobody} /\ call[c].reviewer \in User \cup {Nobody}
    BY DEF TypeOK
  <2>3. CASE UNCHANGED <<positions, handover>>
    BY <1>15, <2>1, <2>3 DEF Submit, positions, handover, TypeOK, CallRecord
  <2>4. CASE OpenAtOnce(call[c].pos, call[c].user, call[c].reviewer)
    BY <1>15, <2>1, <2>2, <2>4 DEF Submit, OpenAtOnce, FulfillHireRequest, TypeOK, ValidStatuses, CallRecord
  <2>5. CASE AwaitReview(call[c].pos, call[c].user, call[c].reviewer)
    BY <1>15, <2>1, <2>2, <2>5 DEF Submit, AwaitReview, handover, TypeOK, ValidStatuses, CallRecord
  <2> QED
    BY <1>15, <2>3, <2>4, <2>5 DEF Submit
<1>16. ASSUME NEW c \in Call, LinkPosition(c) PROVE TypeOK'
  BY <1>16, CallType DEF LinkPosition, TypeOK, CallRecord
<1>17. ASSUME NEW c \in Call, Abandon(c) PROVE TypeOK'
  BY <1>17, CallType DEF Abandon, positions, handover, TypeOK, CallRecord
<1>18. CASE UNCHANGED vars
  BY <1>18 DEF vars, TypeOK
<1> QED
  BY <1>1, <1>2, <1>3, <1>4, <1>5, <1>6, <1>7, <1>8, <1>9, <1>10, <1>11, <1>12, <1>13, <1>14,
     <1>15, <1>16, <1>17, <1>18 DEF Next

\* Positions, request, session and calls keep their types under every
\* interleaving of the handlers.
THEOREM JdTypes == Spec => []TypeOK
<1>1. Init => TypeOK
  BY JdAssumption DEF JdAssumption, Init, TypeOK, Idle, Step
<1> QED
  BY <1>1, TypeStep, PTL DEF Spec

-----------------------------------------------------------------------------
(***************************************************************************)
(* Review.  The status endpoint can write pending_jd_approval over a       *)
(* position that was never submitted; what follows is about organisations  *)
(* whose members do not ask for that.                                      *)
(***************************************************************************)

NoForgedSubmission == StatusRequests \cap {"pending_jd_approval", "draft_needs_revision"} = {}

\* Steps that touch neither the review columns nor a reviewer in flight.
LEMMA ReviewFrame ==
    ASSUME ReviewInv, UNCHANGED <<approval_status, reviewer_id, submitted_by>>,
           \A p \in Position : status'[p] = "pending_jd_approval" => status[p] = "pending_jd_approval",
           \A c \in Call : call'[c].reviewer # Nobody => call'[c] = call[c]
    PROVE  ReviewInv'
  BY DEF ReviewInv, ResolvedForOther, PendingHasReviewer, PendingIsNotHeads

LEMMA ReviewStep ==
    NoForgedSubmission /\ TypeOK /\ ReviewInv /\ [Next]_vars => ReviewInv'
<1> SUFFICES ASSUME NoForgedSubmission, TypeOK, ReviewInv, [Next]_vars PROVE ReviewInv'
  OBVIOUS
<1> USE JdAssumption DEF JdAssumption
<1>1. CASE RequestMoves \/ (\E u \in User : Deactivate(u)) \/ UNCHANGED vars
  BY <1>1, ReviewFrame DEF RequestMoves, Deactivate, positions, vars
<1>2. ASSUME NEW p \in Position, NEW u \in User, ApproveJd(u, p) PROVE ReviewInv'
  BY <1>2 DEF ApproveJd, TypeOK, ReviewInv, ResolvedForOther, PendingHasReviewer, PendingIsNotHeads
<1>3. ASSUME NEW p \in Position, NEW u \in User, RequestChanges(u, p) PROVE ReviewInv'
  BY <1>3 DEF RequestChanges, TypeOK, ReviewInv, ResolvedForOther, PendingHasReviewer, PendingIsNotHeads
<1>4. ASSUME NEW p \in Position, Withdraw(p) PROVE ReviewInv'
  BY <1>4 DEF Withdraw, TypeOK, ReviewInv, ResolvedForOther, PendingHasReviewer, PendingIsNotHeads
<1>5. ASSUME NEW p \in Position, NEW u \in User, CancelJd(u, p) PROVE ReviewInv'
  BY <1>5, ReviewFrame DEF CancelJd, TypeOK
<1>6. ASSUME NEW p \in Position, NEW new \in StatusRequests, UpdateStatus(p, new) PROVE ReviewInv'
  <2>1. new # "pending_jd_approval"
    BY DEF NoForgedSubmission
  <2> QED
    BY <1>6, <2>1, ReviewFrame DEF UpdateStatus, TypeOK
<1>7. ASSUME NEW c \in Call, Abandon(c) \/ LinkSession(c) PROVE ReviewInv'
  BY <1>7, ReviewFrame DEF Abandon, LinkSession, Finish, positions, TypeOK, Idle
<1>8. ASSUME NEW c \in Call, NEW u \in User,
             \/ \E draft \in BOOLEAN : Save(c, u, draft)
             \/ \E p \in Position : SubmitForApproval(c, u, p)
      PROVE  ReviewInv'
  BY <1>8, ReviewFrame DEF Save, SubmitForApproval, positions, TypeOK
<1>9. ASSUME NEW c \in Call, SaveAgain(c) \/ Attach(c) PROVE ReviewInv'
  <2>1. call'[c].reviewer = Nobody /\ \A d \in Call \ {c} : call'[d] = call[d]
    BY <1>9 DEF SaveAgain, Attach, AfterSave, Finish, Goto, Idle, TypeOK, ReviewInv, ResolvedForOther
  <2>2. \A p \in Position : status'[p] = "pending_jd_approval" => status[p] = "pending_jd_approval"
    BY <1>9 DEF SaveAgain, Attach, SavedStatus, positions, TypeOK
  <2> QED
    BY <1>9, <2>1, <2>2, ReviewFrame DEF SaveAgain, Attach, positions
<1>10. ASSUME NEW c \in Call, SaveNew(c) PROVE ReviewInv'
  <2>1. call'[c].reviewer = Nobody /\ \A d \in Call \ {c} : call'[d] = call[d]
    BY <1>10 DEF SaveNew, TypeOK, ReviewInv, ResolvedForOther
  <2>2. \A p \in Position : status'[p] = "pending_jd_approval" => status[p] = "pending_jd_approval"
    BY <1>10 DEF SaveNew, SavedStatus, TypeOK
  <2> QED
    BY <1>10, <2>1, <2>2, ReviewFrame DEF SaveNew
<1>11. ASSUME NEW c \in Call, LinkPosition(c) PROVE ReviewInv'
  BY <1>11 DEF LinkPosition, Finish, Idle, TypeOK, ReviewInv, ResolvedForOther, PendingHasReviewer,
               PendingIsNotHeads
<1>12. ASSUME NEW c \in Call, Resolve(c) PROVE ReviewInv'
  <2>1. call'[c].reviewer # Nobody =>
          /\ call'[c].step = "submit"
          /\ call'[c].reviewer # call'[c].user
          /\ Role[call'[c].user] # "org_head"
    <3>0. call[c].reviewer = Nobody
      BY <1>12 DEF Resolve, ReviewInv, ResolvedForOther
    <3>1. CASE Finish(c)
      BY <3>1 DEF Finish, Idle, TypeOK
    <3>3. CASE Goto(c, "submit")
      BY <3>0, <3>3 DEF Goto, TypeOK
    <3>2. ASSUME NEW r \in Reviewers(call[c].user, call[c].pos), call[c].user \in active,
                 ~NeedsNoReview(call[c].user),
                 call' = [call EXCEPT ![c] = [@ EXCEPT !.step = "submit", !.reviewer = r]]
          PROVE  <2>1
      <4>1. call[c].user \in User /\ r # call[c].user
        BY <3>2, ReviewersAreOthers DEF TypeOK
      <4> QED
        BY <3>2, <4>1 DEF NeedsNoReview, TypeOK
    <3> QED
      BY <1>12, <3>1, <3>2, <3>3 DEF Resolve
  <2>2. \A d \in Call \ {c} : call'[d] = call[d]
    BY <1>12 DEF Resolve, Goto, Finish, TypeOK
  <2> QED
    BY <1>12, <2>1, <2>2 DEF Resolve, positions, ReviewInv, ResolvedForOther, PendingHasReviewer,
                             PendingIsNotHeads
<1>13. ASSUME NEW c \in Call, Submit(c) PROVE ReviewInv'
  <2>1. call'[c].reviewer = Nobody /\ \A d \in Call \ {c} : call'[d] = call[d]
    BY <1>13 DEF Submit, Finish, Idle, TypeOK
  <2>2. CASE UNCHANGED <<positions, handover>>
    BY <2>1, <2>2, ReviewFrame DEF positions
  <2>3. CASE OpenAtOnce(call[c].pos, call[c].user, call[c].reviewer)
    BY <2>1, <2>3 DEF OpenAtOnce, TypeOK, ReviewInv, ResolvedForOther, PendingHasReviewer,
                      PendingIsNotHeads
  <2>4. CASE /\ call[c].reviewer # Nobody
             /\ AwaitReview(call[c].pos, call[c].user, call[c].reviewer)
    <3>1. /\ call[c].reviewer \in User /\ call[c].reviewer # call[c].user
          /\ Role[call[c].user] # "org_head"
      BY <2>4 DEF TypeOK, ReviewInv, ResolvedForOther
    <3> QED
      BY <2>1, <2>4, <3>1 DEF AwaitReview, TypeOK, ReviewInv, ResolvedForOther,
                              PendingHasReviewer, PendingIsNotHeads
  <2> QED
    BY <1>13, <2>2, <2>3, <2>4 DEF Submit
<1> QED
  BY <1>1, <1>2, <1>3, <1>4, <1>5, <1>6, <1>7, <1>8, <1>9, <1>10, <1>11, <1>12, <1>13 DEF Next

\* Approvals and revisions, by the steps that make them.
LEMMA WhoDecides ==
    ASSUME TypeOK, [Next]_vars, NEW p \in Position
    PROVE  /\ \/ approved_by'[p] = approved_by[p]
              \/ status[p] \in Submittable
              \/ \E u \in User : ApproveJd(u, p)
           /\ \/ revision_cycle'[p] = revision_cycle[p]
              \/ \E u \in User : RequestChanges(u, p)
<1>1. CASE UNCHANGED <<approved_by, revision_cycle>>
  BY <1>1
<1>2. ASSUME NEW c \in Call, Submit(c)
      PROVE  /\ approved_by'[p] = approved_by[p] \/ status[p] \in Submittable
             /\ revision_cycle'[p] = revision_cycle[p]
  <2>1. revision_cycle' = revision_cycle
    BY <1>2 DEF Submit, OpenAtOnce, AwaitReview, positions
  <2>2. CASE call[c].pos = p
    BY <1>2, <2>1, <2>2 DEF Submit, positions
  <2>3. CASE call[c].pos # p
    <3>1. \/ approved_by' = approved_by
          \/ approved_by' = [approved_by EXCEPT ![call[c].pos] = call[c].user]
      BY <1>2 DEF Submit, OpenAtOnce, AwaitReview, positions
    <3> QED
      BY <2>1, <2>3, <3>1 DEF TypeOK
  <2> QED
    BY <2>1, <2>2, <2>3
<1>3. ASSUME NEW q \in Position, NEW u \in User, ApproveJd(u, q) \/ RequestChanges(u, q)
      PROVE  /\ approved_by'[p] = approved_by[p] \/ ApproveJd(u, p)
             /\ revision_cycle'[p] = revision_cycle[p] \/ RequestChanges(u, p)
  BY <1>3 DEF ApproveJd, RequestChanges, TypeOK
<1>4. \/ \E c \in Call : Submit(c)
      \/ \E q \in Position, u \in User : ApproveJd(u, q) \/ RequestChanges(u, q)
      \/ UNCHANGED <<approved_by, revision_cycle>>
  BY DEF Next, RequestMoves, Deactivate, CancelJd, Withdraw, UpdateStatus, Save, SubmitForApproval,
         LinkSession, SaveAgain, SaveNew, Attach, Resolve, LinkPosition, Abandon, positions, vars
<1> QED
  BY <1>1, <1>2, <1>3, <1>4

\* The strengthening of PendingHasReviewer: the reviewer resolved in a call in
\* flight is not its submitter, and no org head's JD is pending.
THEOREM ReviewInvariance ==
    ASSUME NoForgedSubmission
    PROVE  Spec => []ReviewInv
<1>1. Init => ReviewInv
  BY JdAssumption DEF JdAssumption, Init, Idle, Step, ReviewInv, ResolvedForOther,
         PendingHasReviewer, PendingIsNotHeads
<1>2. TypeOK /\ ReviewInv /\ [Next]_vars => ReviewInv'
  BY ReviewStep
<1> QED
  BY <1>1, <1>2, JdTypes, PTL DEF Spec

\* Every pending JD has a reviewer who did not submit it.
THEOREM EveryPendingJdHasReviewer ==
    ASSUME NoForgedSubmission
    PROVE  Spec => []PendingHasReviewer
<1>1. ReviewInv => PendingHasReviewer
  BY DEF ReviewInv
<1>2. Spec => []ReviewInv
  BY ReviewInvariance
<1> QED
  BY <1>1, <1>2, PTL

\* No reviewer approves a JD of their own.
THEOREM ReviewersApproveOthers ==
    ASSUME NoForgedSubmission
    PROVE  Spec => NoSelfApproval
<1>1. ASSUME ReviewInv, TypeOK, [Next]_vars, NEW p \in Position,
             status[p] = "pending_jd_approval", approved_by'[p] # approved_by[p]
      PROVE  approved_by'[p] # submitted_by[p]
  <2>1. PICK u \in User : ApproveJd(u, p)
    BY <1>1, WhoDecides DEF Submittable
  <2>2. Role[u] = "org_head" \/ reviewer_id[p] = u
    BY <2>1 DEF ApproveJd, MayReview
  <2> QED
    BY <1>1, <2>1, <2>2 DEF ApproveJd, TypeOK, ReviewInv, PendingHasReviewer, PendingIsNotHeads
<1>2. TypeOK /\ ReviewInv /\ [Next]_vars =>
        [\A p \in Position :
            status[p] = "pending_jd_approval" /\ approved_by'[p] # approved_by[p]
                => approved_by'[p] # submitted_by[p]]_vars
  BY <1>1
<1>3. Spec => []ReviewInv
  BY ReviewInvariance
<1> QED
  BY <1>2, <1>3, JdTypes, PTL DEF Spec, NoSelfApproval

\* A decision on what is no longer pending loses.
THEOREM LateDecisionsLose ==
    ASSUME NoForgedSubmission
    PROVE  Spec => LateDecisionLoses
<1>1. ASSUME TypeOK, [Next]_vars, NEW p \in Position
      PROVE  /\ approved_by'[p] # approved_by[p] =>
                    status[p] \in Submittable \cup {"pending_jd_approval"}
             /\ revision_cycle'[p] # revision_cycle[p] => status[p] = "pending_jd_approval"
  BY <1>1, WhoDecides DEF ApproveJd, RequestChanges, Rejectable
<1>2. ASSUME TypeOK, [Next]_vars, NEW p \in Position, status[p] \in {"open", "cancelled"}
      PROVE  status'[p] \notin {"draft_needs_revision", "pending_jd_approval"}
  <2>1. ASSUME NEW c \in Call, Submit(c) PROVE status'[p] \notin {"draft_needs_revision", "pending_jd_approval"}
    <3>1. CASE UNCHANGED <<positions, handover>>
      BY <1>2, <3>1 DEF positions
    <3>2. CASE status[call[c].pos] \in Submittable /\ (status' = [status EXCEPT ![call[c].pos] = "open"]
                  \/ status' = [status EXCEPT ![call[c].pos] = "pending_jd_approval"])
      BY <1>2, <3>2 DEF TypeOK, Submittable
    <3> QED
      BY <2>1, <3>1, <3>2 DEF Submit, OpenAtOnce, AwaitReview
  <2>2. ASSUME NEW c \in Call, SaveAgain(c) \/ SaveNew(c)
        PROVE  status'[p] \notin {"draft_needs_revision", "pending_jd_approval"}
    BY <1>2, <2>2 DEF SaveAgain, SaveNew, SavedStatus, TypeOK
  <2>3. ASSUME NEW q \in Position, NEW u \in User, ApproveJd(u, q) \/ RequestChanges(u, q) \/ CancelJd(u, q)
        PROVE  status'[p] \notin {"draft_needs_revision", "pending_jd_approval"}
    BY <1>2, <2>3 DEF ApproveJd, RequestChanges, Rejectable, CancelJd, TypeOK
  <2>4. ASSUME NEW q \in Position, Withdraw(q) \/ (\E new \in StatusRequests : UpdateStatus(q, new))
        PROVE  status'[p] \notin {"draft_needs_revision", "pending_jd_approval"}
    BY <1>2, <2>4 DEF Withdraw, UpdateStatus, TypeOK, NoForgedSubmission
  <2>5. CASE UNCHANGED status
    BY <1>2, <2>5
  <2>6. \/ \E c \in Call : Submit(c) \/ SaveAgain(c) \/ SaveNew(c)
        \/ \E q \in Position, u \in User : ApproveJd(u, q) \/ RequestChanges(u, q) \/ CancelJd(u, q)
        \/ \E q \in Position : Withdraw(q) \/ (\E new \in StatusRequests : UpdateStatus(q, new))
        \/ UNCHANGED status
    BY <1>2 DEF Next, RequestMoves, Deactivate, Save, SubmitForApproval, LinkSession, Attach,
                Resolve, LinkPosition, Abandon, positions, vars
  <2> QED
    BY <2>1, <2>2, <2>3, <2>4, <2>5, <2>6
<1>3. TypeOK /\ [Next]_vars => [\A p \in Position : InTime(p)]_vars
  BY <1>1, <1>2 DEF InTime
<1> QED
  BY <1>3, JdTypes, PTL DEF Spec, LateDecisionLoses

-----------------------------------------------------------------------------
(***************************************************************************)
(* The session and its position, when calls do not overlap.                *)
(***************************************************************************)

OneCall == \A c, d \in Call : c = d

\* What a call in flight remembers is still so: a save that found a position finds
\* the same, one that found none attaches the first, which nobody has reviewed.
SessionInv ==
    \A c \in Call :
        /\ call[c].step = "save" => call[c].pos = session_position
        /\ call[c].step = "attach" =>
              /\ call[c].pos \in Position
              /\ session_position = NoPosition
              /\ status[call[c].pos] \notin {"pending_jd_approval", "draft_needs_revision"}

\* Steps that keep the session and the call, or end it, or take it past the save, and
\* send no JD to a reviewer nor back from one.
LEMMA SessionFrame ==
    ASSUME SessionInv, session_position' = session_position,
           \A c \in Call : call'[c].step \in {"save", "attach"} => call'[c] = call[c],
           \A p \in Position : status'[p] \in {"pending_jd_approval", "draft_needs_revision"} =>
               status[p] \in {"pending_jd_approval", "draft_needs_revision"}
    PROVE  SessionInv'
  BY DEF SessionInv

LEMMA SessionStep ==
    OneCall /\ NoForgedSubmission /\ TypeOK /\ SessionInv /\ [Next]_vars => SessionInv'
<1> SUFFICES ASSUME OneCall, NoForgedSubmission, TypeOK, SessionInv, [Next]_vars
             PROVE  SessionInv'
  OBVIOUS
<1> DEFINE Reviewed == {"pending_jd_approval", "draft_needs_revision"}
<1>1. CASE RequestMoves \/ (\E u \in User : Deactivate(u)) \/ UNCHANGED vars
  BY <1>1, SessionFrame DEF RequestMoves, Deactivate, positions, vars
<1>2. ASSUME NEW p \in Position,
             \/ \E u \in User : ApproveJd(u, p) \/ CancelJd(u, p) \/ RequestChanges(u, p)
             \/ Withdraw(p)
      PROVE  SessionInv'
  <2>1. \A q \in Position : status'[q] \in Reviewed => status[q] \in Reviewed
    BY <1>2 DEF ApproveJd, CancelJd, RequestChanges, Rejectable, Withdraw, TypeOK
  <2> QED
    BY <1>2, <2>1, SessionFrame DEF ApproveJd, CancelJd, RequestChanges, Withdraw
<1>3. ASSUME NEW p \in Position, NEW new \in StatusRequests, UpdateStatus(p, new)
      PROVE  SessionInv'
  <2>1. new \notin Reviewed
    BY DEF NoForgedSubmission
  <2>2. \A q \in Position : status'[q] \in Reviewed => status[q] \in Reviewed
    BY <1>3, <2>1 DEF UpdateStatus, TypeOK
  <2> QED
    BY <1>3, <2>2, SessionFrame DEF UpdateStatus
<1>4. ASSUME NEW c \in Call, NEW u \in User, NEW draft \in BOOLEAN, Save(c, u, draft)
      PROVE  SessionInv'
  <2>1. call'[c].step = "save" /\ call'[c].pos = session_position /\ session_position' = session_position
    BY <1>4 DEF Save, TypeOK
  <2> QED
    BY <2>1 DEF OneCall, SessionInv
<1>5. ASSUME NEW c \in Call,
             \/ \E u \in User, p \in Position : SubmitForApproval(c, u, p)
             \/ LinkSession(c) \/ Resolve(c) \/ LinkPosition(c) \/ Abandon(c)
      PROVE  SessionInv'
  <2>1. call'[c].step \notin {"save", "attach"}
    <3>1. CASE Resolve(c)
      <4>1. CASE Finish(c) \/ Goto(c, "submit")
        BY <4>1 DEF Finish, Goto, Idle, TypeOK
      <4>2. ASSUME NEW r, call' = [call EXCEPT ![c] = [@ EXCEPT !.step = "submit", !.reviewer = r]]
            PROVE  call'[c].step = "submit"
        BY <4>2 DEF TypeOK
      <4> QED
        BY <3>1, <4>1, <4>2 DEF Resolve
    <3>2. CASE LinkPosition(c) \/ Abandon(c)
      BY <3>2 DEF LinkPosition, Abandon, Finish, Idle, TypeOK
    <3>3. CASE LinkSession(c) \/ \E u \in User, p \in Position : SubmitForApproval(c, u, p)
      BY <3>3 DEF LinkSession, SubmitForApproval, TypeOK
    <3> QED
      BY <1>5, <3>1, <3>2, <3>3
  <2>2. session_position' = session_position /\ status' = status
    BY <1>5 DEF SubmitForApproval, LinkSession, Resolve, LinkPosition, Abandon, positions
  <2> QED
    BY <2>1, <2>2, SessionFrame DEF OneCall
<1>6. ASSUME NEW c \in Call, SaveAgain(c) \/ Attach(c) \/ Submit(c) PROVE SessionInv'
  <2>1. call'[c].step \notin {"save", "attach"}
    BY <1>6 DEF SaveAgain, Attach, Submit, AfterSave, Goto, Finish, Idle, TypeOK
  <2> QED
    BY <2>1 DEF OneCall, SessionInv
<1>7. ASSUME NEW c \in Call, SaveNew(c) PROVE SessionInv'
  <2>1. PICK p \in Position : /\ status' = [status EXCEPT ![p] = SavedStatus(c)]
                              /\ call' = [call EXCEPT ![c].pos = p, ![c].step = "attach"]
    BY <1>7 DEF SaveNew
  <2>2. call'[c].pos = p /\ call'[c].step = "attach"
    BY <2>1 DEF TypeOK
  <2>3. status'[p] \notin Reviewed
    BY <2>1 DEF TypeOK, SavedStatus
  <2>4. session_position' = NoPosition
    BY <1>7 DEF SaveNew, SessionInv
  <2> QED
    BY <2>2, <2>3, <2>4 DEF OneCall, SessionInv
<1> QED
  BY <1>1, <1>2, <1>3, <1>4, <1>5, <1>6, <1>7 DEF Next

\* What a call in flight remembers of the session stays true when calls do not overlap.
THEOREM SessionInvariance ==
    ASSUME OneCall, NoForgedSubmission
    PROVE  Spec => []SessionInv
<1>1. Init => SessionInv
  BY DEF Init, Idle, SessionInv
<1> QED
  BY <1>1, SessionStep, JdTypes, PTL DEF Spec

\* With calls that do not overlap, a session that has a position keeps it, whatever
\* crashes between the INSERT and the link.
THEOREM SessionsKeepPositions ==
    ASSUME OneCall, NoForgedSubmission
    PROVE  Spec => SessionKeepsPosition
<1>1. ASSUME SessionInv, [Next]_vars, session_position # NoPosition
      PROVE  session_position' = session_position
  <2>1. ~\E c \in Call : Attach(c)
    BY <1>1 DEF Attach, SessionInv
  <2> QED
    BY <1>1, <2>1 DEF Next, RequestMoves, Deactivate, ApproveJd, RequestChanges, CancelJd, Withdraw,
       UpdateStatus, Save, SubmitForApproval, LinkSession, SaveAgain, SaveNew, Resolve, Submit,
       LinkPosition, Abandon, vars
<1>2. SessionInv /\ [Next]_vars =>
        [session_position # NoPosition => session_position' = session_position]_vars
  BY <1>1
<1>3. Spec => []SessionInv
  BY SessionInvariance
<1> QED
  BY <1>2, <1>3, PTL DEF Spec, SessionKeepsPosition

LEMMA FeedbackStep ==
    NoForgedSubmission /\ TypeOK /\ SessionInv /\ FeedbackInChat /\ [Next]_vars => FeedbackInChat'
<1> SUFFICES ASSUME NoForgedSubmission, TypeOK, SessionInv, FeedbackInChat, [Next]_vars,
                    NEW p \in Position, status'[p] = "draft_needs_revision", session_position' = p
             PROVE  revision_cycle'[p] \in feedback'
  BY DEF FeedbackInChat
<1>1. ASSUME NEW q \in Position, NEW u \in User, RequestChanges(u, q)
      PROVE  revision_cycle'[p] \in feedback'
  <2>1. session_position = p
    BY <1>1 DEF RequestChanges
  <2>2. CASE q = p
    BY <1>1, <2>1, <2>2 DEF RequestChanges, InjectFeedback, TypeOK
  <2>3. CASE q # p
    BY <1>1, <2>1, <2>3 DEF RequestChanges, InjectFeedback, TypeOK, FeedbackInChat
  <2> QED
    BY <2>2, <2>3
<1>2. ASSUME NEW c \in Call, Attach(c) PROVE FALSE
  BY <1>2, JdAssumption DEF Attach, SessionInv, positions
<1>3. CASE /\ feedback' = feedback /\ revision_cycle' = revision_cycle
           /\ session_position' = session_position
           /\ status'[p] = "draft_needs_revision" => status[p] = "draft_needs_revision"
  BY <1>3 DEF FeedbackInChat
<1>4. ASSUME NEW q \in Position, NEW u \in User,
             \/ ApproveJd(u, q) \/ CancelJd(u, q) \/ Withdraw(q)
             \/ \E new \in StatusRequests : UpdateStatus(q, new)
      PROVE  revision_cycle'[p] \in feedback'
  <2>1. status'[p] = "draft_needs_revision" => status[p] = "draft_needs_revision"
    BY <1>4 DEF ApproveJd, CancelJd, Withdraw, UpdateStatus, NoForgedSubmission, TypeOK
  <2> QED
    BY <1>3, <1>4, <2>1 DEF ApproveJd, CancelJd, Withdraw, UpdateStatus
<1>5. ASSUME NEW c \in Call, SaveAgain(c) \/ SaveNew(c) PROVE revision_cycle'[p] \in feedback'
  <2>1. status'[p] = "draft_needs_revision" => status[p] = "draft_needs_revision"
    BY <1>5 DEF SaveAgain, SaveNew, SavedStatus, TypeOK
  <2> QED
    BY <1>3, <1>5, <2>1 DEF SaveAgain, SaveNew
<1>6. ASSUME NEW c \in Call, Submit(c) PROVE revision_cycle'[p] \in feedback'
  <2>1. status'[p] = "draft_needs_revision" => status[p] = "draft_needs_revision"
    BY <1>6 DEF Submit, OpenAtOnce, AwaitReview, positions, TypeOK
  <2>2. revision_cycle' = revision_cycle
    BY <1>6 DEF Submit, OpenAtOnce, AwaitReview, positions
  <2> QED
    BY <1>3, <1>6, <2>1, <2>2 DEF Submit
<1>7. CASE UNCHANGED <<feedback, revision_cycle, session_position, status>>
  BY <1>3, <1>7
<1>8. \/ UNCHANGED <<feedback, revision_cycle, session_position, status>>
      \/ \E q \in Position, u \in User :
            \/ RequestChanges(u, q) \/ ApproveJd(u, q) \/ CancelJd(u, q) \/ Withdraw(q)
            \/ \E new \in StatusRequests : UpdateStatus(q, new)
      \/ \E c \in Call : SaveAgain(c) \/ SaveNew(c) \/ Attach(c) \/ Submit(c)
  <2>1. User # {}
    BY JdAssumption DEF JdAssumption
  <2> QED
    BY <2>1 DEF Next, RequestMoves, Deactivate, Save, SubmitForApproval, LinkSession, Resolve,
       LinkPosition, Abandon, positions, vars
<1> QED
  BY <1>1, <1>2, <1>4, <1>5, <1>6, <1>7, <1>8

\* The feedback of the current cycle is in the chat of every JD that was sent back, for
\* any number of positions, cycles and crashes, when calls do not overlap.
THEOREM FeedbackReachesChat ==
    ASSUME OneCall, NoForgedSubmission
    PROVE  Spec => []FeedbackInChat
<1>1. Init => FeedbackInChat
  BY DEF Init, FeedbackInChat
<1>2. Spec => []SessionInv
  BY SessionInvariance
<1>3. TypeOK /\ SessionInv /\ FeedbackInChat /\ [Next]_vars => FeedbackInChat'
  BY FeedbackStep
<1> QED
  BY <1>1, <1>2, <1>3, JdTypes, PTL DEF Spec
=============================================================================
