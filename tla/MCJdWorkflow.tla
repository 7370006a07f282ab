---------------------------- MODULE MCJdWorkflow ----------------------------
(***************************************************************************)
(* A small organisation for JdWorkflow: a team lead, a recruiter, the dept *)
(* admin and an org head.  The request was filed by the team lead, or by   *)
(* somebody who has become a recruiter since.                              *)
(***************************************************************************)
EXTENDS JdWorkflow, TLC

CONSTANTS lead, admin, head, hr1

MCUser == {lead, admin, head, hr1}

MCRole == [u \in User |-> CASE u = lead -> "team_lead" [] u = admin -> "dept_admin" [] u = head -> "org_head" [] OTHER -> "hr"]

\* The calls in flight are interchangeable.
MCSymmetry == Permutations(Call)
=============================================================================
