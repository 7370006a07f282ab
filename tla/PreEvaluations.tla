--------------------------- MODULE PreEvaluations ---------------------------
(***************************************************************************)
(* The written tests: invitation, submission, the grading batch with its   *)
(* check for collusion, and the lane a verdict leads to.                   *)
(*                                                                         *)
(* A batch fetches the submitted tests and works on that copy, statement by *)
(* statement; each autocommits.  The schedule starts a batch every three   *)
(* hours and the broker delivers one again whose worker died, so batches   *)
(* may overlap and may be cut anywhere.  Answers are abstracted to whether *)
(* they were copied: the copies are alike, other answers are not.          *)
(***************************************************************************)
EXTENDS FiniteSets

CONSTANTS
    Application,  \* applications with a candidate to test
    NoApp,        \* no application
    Evaluation,   \* ids of rows of pre_evaluations
    NoEval,       \* no evaluation
    Grader,       \* grading batches that may run at the same time
    Moves         \* the lanes to which scoring and recruiters move an application

Lanes == {"screening", "interview", "rejected", "on_hold", "selected"}

ASSUME PreEvaluationsAssumption ==
    /\ NoApp \notin Application
    /\ NoEval \notin Evaluation
    /\ Moves \subseteq Lanes

VARIABLES
    lane,        \* candidate_applications.status
    moved,       \* applications somebody else moved
    eval,        \* the rows of pre_evaluations
    submitting,  \* submissions that passed their check: test, copied or not
    batch,       \* local state of each grading batch
    cut          \* tests a batch flagged whose applications it did not get to

vars == <<lane, moved, eval, submitting, batch, cut>>

Verdict == {"passed", "failed"}

\* history holds the outcomes a test ever had, which its status may lose.
Row == [status : {"none", "pending", "submitted", "flagged"} \cup Verdict,
        app : Application \cup {NoApp}, copied : BOOLEAN,
        history : SUBSET (Verdict \cup {"flagged"})]

NoRow == [status |-> "none", app |-> NoApp, copied |-> FALSE, history |-> {}]

\* step is the statement a batch runs next: it grades the tests of `todo`, routes
\* the one it has just graded, or puts the flagged applications on hold.
Batch == [step : {"idle", "grade", "route", "revert"}, rows : SUBSET (Evaluation \X BOOLEAN),
          todo : SUBSET Evaluation, graded : Evaluation \cup {NoEval}, verdict : Verdict]

NoBatch == [step |-> "idle", rows |-> {}, todo |-> {}, graded |-> NoEval, verdict |-> "failed"]

TypeOK ==
    /\ lane \in [Application -> Lanes]
    /\ moved \subseteq Application
    /\ eval \in [Evaluation -> Row]
    /\ submitting \subseteq Evaluation \X BOOLEAN
    /\ batch \in [Grader -> Batch]
    /\ cut \subseteq Evaluation

\* Tests are for applications that scored above the threshold.
Init ==
    /\ lane = [a \in Application |-> "screening"]
    /\ moved = {}
    /\ eval = [e \in Evaluation |-> NoRow]
    /\ submitting = {}
    /\ batch = [g \in Grader |-> NoBatch]
    /\ cut = {}

-----------------------------------------------------------------------------
(***************************************************************************)
(* The test and its submission.                                            *)
(***************************************************************************)

\* A task that is delivered twice, or a second scoring, creates a second test.
TriggerPreEvaluation(e, a) ==
    /\ eval[e].status = "none"
    /\ eval' = [eval EXCEPT ![e] = [NoRow EXCEPT !.status = "pending", !.app = a]]
    /\ UNCHANGED <<lane, moved, submitting, batch, cut>>

\* submit_evaluation reads the status ...
CheckSubmission(e, copied) ==
    /\ eval[e].status = "pending"
    /\ submitting' = submitting \cup {<<e, copied>>}
    /\ UNCHANGED <<lane, moved, eval, batch, cut>>

SubmitAnswers(e, copied) == eval' = [eval EXCEPT ![e] = [@ EXCEPT !.status = "submitted", !.copied = copied]]

\* ... and writes the answers, whatever the status has become.
WriteAnswers(e, copied) ==
    /\ <<e, copied>> \in submitting
    /\ submitting' = submitting \ {<<e, copied>>}
    /\ SubmitAnswers(e, copied)
    /\ UNCHANGED <<lane, moved, batch, cut>>

-----------------------------------------------------------------------------
(***************************************************************************)
(* The grading batch.                                                      *)
(***************************************************************************)

\* Mistake: Only tests that no batch has graded yet are fetched.
BugSubmitted == {e \in Evaluation : eval[e].status = "submitted" /\ eval[e].history = {}}
Submitted == {e \in Evaluation : eval[e].status = "submitted"}

FetchBatch(g) ==
    /\ batch[g].step = "idle"
    /\ Submitted # {}
    /\ batch' = [batch EXCEPT ![g] = [NoBatch EXCEPT !.step = "grade", !.todo = Submitted,
                                                     !.rows = {<<e, eval[e].copied>> : e \in Submitted}]]
    /\ UNCHANGED <<lane, moved, eval, submitting, cut>>

Judge(tests, outcome) ==
    eval' = [e \in Evaluation |->
                IF e \in tests
                THEN [eval[e] EXCEPT !.status = outcome, !.history = @ \cup {outcome}]
                ELSE eval[e]]

\* _grade_single up to update_score.
GradeSingle(g, e) ==
    /\ batch[g].step = "grade"
    /\ e \in batch[g].todo
    /\ \E verdict \in Verdict :
        /\ Judge({e}, verdict)
        /\ batch' = [batch EXCEPT ![g] = [@ EXCEPT !.step = "route", !.todo = batch[g].todo \ {e},
                                                   !.graded = e, !.verdict = verdict]]
    /\ UNCHANGED <<lane, moved, submitting, cut>>

\* An answer of the model that cannot be used is logged; the test stays submitted.
SkipSingle(g, e) ==
    /\ batch[g].step = "grade"
    /\ e \in batch[g].todo
    /\ batch' = [batch EXCEPT ![g] = [@ EXCEPT !.todo = batch[g].todo \ {e}]]
    /\ UNCHANGED <<lane, moved, eval, submitting, cut>>

\* Mistake: A failed test leads to the interview as well.
BugLaneOf(verdict) == "interview"
LaneOf(verdict) == IF verdict = "passed" THEN "interview" ELSE "rejected"

\* The rest of _grade_single; an error in it is logged.
RouteSingle(g) ==
    /\ batch[g].step = "route"
    /\ \/ lane' = [lane EXCEPT ![eval[batch[g].graded].app] = LaneOf(batch[g].verdict)]
       \/ UNCHANGED lane
    /\ batch' = [batch EXCEPT ![g] = [@ EXCEPT !.step = "grade", !.graded = NoEval, !.verdict = "failed"]]
    /\ UNCHANGED <<moved, eval, submitting, cut>>

\* The tests of the batch whose answers another test of the batch has.
Alike(g) == {e \in Evaluation :
                /\ <<e, TRUE>> \in batch[g].rows
                /\ \E f \in Evaluation \ {e} : <<f, TRUE>> \in batch[g].rows}

DetectCollusion(g) ==
    /\ batch[g].step = "grade"
    /\ batch[g].todo = {}
    /\ Judge(Alike(g), "flagged")
    /\ batch' = [batch EXCEPT ![g] = IF Alike(g) = {} THEN NoBatch ELSE [@ EXCEPT !.step = "revert"]]
    /\ UNCHANGED <<lane, moved, submitting, cut>>

\* The applications of the flagged tests.
Flagged(g) == {eval[e].app : e \in Alike(g)}

\* Mistake: Only the tests are flagged.
BugHeld(g) == lane

Held(g) == [a \in Application |-> IF a \in Flagged(g) THEN "on_hold" ELSE lane[a]]

RevertFlagged(g) ==
    /\ batch[g].step = "revert"
    /\ lane' = Held(g)
    /\ batch' = [batch EXCEPT ![g] = NoBatch]
    /\ UNCHANGED <<moved, eval, submitting, cut>>

GraderDies(g) ==
    /\ batch[g].step # "idle"
    /\ batch' = [batch EXCEPT ![g] = NoBatch]
    /\ cut' = IF batch[g].step = "revert" THEN cut \cup Alike(g) ELSE cut
    /\ UNCHANGED <<lane, moved, eval, submitting>>

-----------------------------------------------------------------------------

\* What module Applications does to the lane.
MoveElsewhere(a, to) ==
    /\ lane' = [lane EXCEPT ![a] = to]
    /\ moved' = moved \cup {a}
    /\ UNCHANGED <<eval, submitting, batch, cut>>

Candidates ==
    \E e \in Evaluation :
        \/ \E a \in Application : TriggerPreEvaluation(e, a)
        \/ \E copied \in BOOLEAN : CheckSubmission(e, copied) \/ WriteAnswers(e, copied)

Grade(g) ==
    \/ RouteSingle(g) \/ DetectCollusion(g) \/ RevertFlagged(g)
    \/ \E e \in Evaluation : GradeSingle(g, e) \/ SkipSingle(g, e)

Next ==
    \/ Candidates
    \/ \E g \in Grader : FetchBatch(g) \/ Grade(g) \/ GraderDies(g)
    \/ \E a \in Application, to \in Moves : MoveElsewhere(a, to)

Spec == Init /\ [][Next]_vars

\* The schedule starts batches, a batch goes on, and the model does not answer
\* nonsense about one test for ever.
LiveSpec ==
    /\ Spec
    /\ \A g \in Grader : WF_vars(FetchBatch(g)) /\ WF_vars(Grade(g))
    /\ \A e \in Evaluation : SF_vars(\E g \in Grader : GradeSingle(g, e))

-----------------------------------------------------------------------------

Outcomes(a) == UNION {eval[e].history : e \in {f \in Evaluation : eval[f].app = a}}

\* An application that nobody else moved is in a lane for the outcome of one of
\* its own tests, also when batches overlap or are cut between the score and the
\* lane (_grade_single, _detect_collusion).
LaneHasVerdict ==
    \A a \in Application \ moved :
        /\ lane[a] = "interview" => "passed" \in Outcomes(a)
        /\ lane[a] = "rejected" => "failed" \in Outcomes(a)
        /\ lane[a] = "on_hold" => "flagged" \in Outcomes(a)
        /\ lane[a] # "selected"

\* The only test of the application.
OnlyTest(e) == \A f \in Evaluation \ {e} : eval[f].app # eval[e].app

\* An application whose test a batch has flagged is on hold, wherever the same
\* batch or an earlier one had routed it, unless the batch was cut before it got
\* there or the application has been moved since (_detect_collusion reverts what
\* _grade_single did).
ColludersHeld ==
    (\A g \in Grader : batch[g].step # "revert")
    => \A e \in Evaluation \ cut :
        eval[e].status = "flagged" /\ OnlyTest(e) /\ eval[e].app \notin moved
        => lane[eval[e].app] = "on_hold"

\* Every submitted test is graded, though batches are cut and answers of the model
\* are unusable now and then (pre_eval_grade fetches it again).
SubmittedIsGraded ==
    \A e \in Evaluation : eval[e].status = "submitted" ~> eval[e].status # "submitted"
=============================================================================
