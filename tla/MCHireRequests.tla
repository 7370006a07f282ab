--------------------------- MODULE MCHireRequests ---------------------------
(***************************************************************************)
(* Small organisations for HireRequests: a team lead who files, a dept     *)
(* admin in each of two departments, an org head and two recruiters.       *)
(***************************************************************************)
EXTENDS HireRequests, TLC

CONSTANTS lead, adminA, adminB, head, hr1, hr2, termsA, termsB

MCUser == {lead, adminA, adminB, head, hr1, hr2}

MCRole ==
    lead :> "team_lead" @@ adminA :> "dept_admin" @@ adminB :> "dept_admin"
    @@ head :> "org_head" @@ hr1 :> "hr" @@ hr2 :> "hr"

\* The two payloads name the departments of the two admins.
MCDeptAdminOf == termsA :> {adminA} @@ termsB :> {adminB}
=============================================================================
