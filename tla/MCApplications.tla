--------------------------- MODULE MCApplications ---------------------------
(***************************************************************************)
(* Small instances of Applications.                                        *)
(***************************************************************************)
EXTENDS Applications, TLC

\* One retry of a scoring task; searches, outreach and invitations have none
\* that matters: the first two are asked for again, the last is not retried.
MCRetries == [k \in Kind |-> IF k = "score" THEN 1 ELSE 0]

\* Workers are interchangeable.
MCSymmetry == Permutations(Worker)
=============================================================================
