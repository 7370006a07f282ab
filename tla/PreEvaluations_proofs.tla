----------------------- MODULE PreEvaluations_proofs -----------------------
(***************************************************************************)
(* Proofs about PreEvaluations, for any number of tests, applications and  *)
(* grading batches that run at the same time.                              *)
(***************************************************************************)
EXTENDS PreEvaluations, TLAPS

\* The tests that were created.
Known == {e \in Evaluation : eval[e].status # "none"}

\* What a batch works on exists, and what it routes or reverts for has happened.
SoundBatch(g) ==
    /\ batch[g].todo \subseteq Known
    /\ \A row \in batch[g].rows : row[1] \in Known
    /\ batch[g].step = "route" => /\ batch[g].graded \in Known
                                  /\ batch[g].verdict \in eval[batch[g].graded].history
    /\ batch[g].step = "revert" => \A e \in Alike(g) : "flagged" \in eval[e].history

TestsInv ==
    /\ \A e \in Evaluation \ Known : eval[e].history = {}
    /\ \A e \in submitting : e[1] \in Known
    /\ \A g \in Grader : SoundBatch(g)

\* A test that exists stays one of the same application, and its outcomes stay.
RowsGrow ==
    \A e \in Evaluation :
        /\ eval[e].history \subseteq eval'[e].history
        /\ eval[e].status # "none" => eval'[e].status # "none" /\ eval'[e].app = eval[e].app

-----------------------------------------------------------------------------
(***************************************************************************)
(* Types.                                                                  *)
(***************************************************************************)

\* A verdict on a set of tests leaves rows.
LEMMA JudgeRows ==
    ASSUME TypeOK, NEW tests, NEW outcome \in Verdict \cup {"flagged"}, Judge(tests, outcome)
    PROVE  /\ eval' \in [Evaluation -> Row]
           /\ RowsGrow
           /\ \A e \in Evaluation : e \in tests => outcome \in eval'[e].history
           /\ \A e \in Evaluation : e \notin tests => eval'[e] = eval[e]
<1>1. \A e \in Evaluation : eval[e] \in Row
  BY DEF TypeOK
<1>2. ASSUME NEW e \in Evaluation
      PROVE  [eval[e] EXCEPT !.status = outcome, !.history = @ \cup {outcome}] \in Row
  BY <1>1 DEF Row, Verdict
<1>3. eval' \in [Evaluation -> Row]
  BY <1>1, <1>2 DEF Judge
<1>4. ASSUME NEW e \in Evaluation, e \in tests
      PROVE  /\ eval'[e].history = eval[e].history \cup {outcome}
             /\ eval'[e].status = outcome
             /\ eval'[e].app = eval[e].app
  BY <1>1, <1>4 DEF Judge, Row
<1>5. \A e \in Evaluation : e \notin tests => eval'[e] = eval[e]
  BY DEF Judge
<1>6. outcome # "none"
  BY DEF Verdict
<1> QED
  BY <1>3, <1>4, <1>5, <1>6 DEF RowsGrow

LEMMA BatchSteps ==
    ASSUME TypeOK, NEW g \in Grader
    PROVE  /\ batch' = [batch EXCEPT ![g] = NoBatch] => batch' \in [Grader -> Batch]
           /\ [batch[g] EXCEPT !.step = "revert"] \in Batch
           /\ [batch[g] EXCEPT !.step = "grade", !.graded = NoEval, !.verdict = "failed"] \in Batch
           /\ \A e \in Evaluation : [batch[g] EXCEPT !.todo = batch[g].todo \ {e}] \in Batch
           /\ \A e \in Evaluation, verdict \in Verdict :
                [batch[g] EXCEPT !.step = "route", !.todo = batch[g].todo \ {e},
                                 !.graded = e, !.verdict = verdict] \in Batch
<1>1. batch \in [Grader -> Batch] /\ NoBatch \in Batch
  BY DEF TypeOK, NoBatch, Batch, Verdict
<1>2. batch[g] \in Batch
  BY <1>1
<1> QED
  BY <1>1, <1>2 DEF Batch, Verdict

LEMMA TestTypeStep == TypeOK /\ [Next]_vars => TypeOK'
<1> SUFFICES ASSUME TypeOK, [Next]_vars PROVE TypeOK'
  OBVIOUS
<1> USE PreEvaluationsAssumption DEF PreEvaluationsAssumption
<1>1. ASSUME NEW e \in Evaluation, NEW a \in Application, TriggerPreEvaluation(e, a) PROVE TypeOK'
  <2>1. [NoRow EXCEPT !.status = "pending", !.app = a] \in Row
    BY DEF NoRow, Row, Verdict
  <2> QED
    BY <1>1, <2>1 DEF TriggerPreEvaluation, TypeOK
<1>2. ASSUME NEW e \in Evaluation, NEW copied \in BOOLEAN, CheckSubmission(e, copied) PROVE TypeOK'
  BY <1>2 DEF CheckSubmission, TypeOK
<1>3. ASSUME NEW e \in Evaluation, NEW copied \in BOOLEAN, WriteAnswers(e, copied) PROVE TypeOK'
  <2>1. [eval[e] EXCEPT !.status = "submitted", !.copied = copied] \in Row
    BY DEF TypeOK, Row
  <2>2. eval' = [eval EXCEPT ![e] = [eval[e] EXCEPT !.status = "submitted", !.copied = copied]]
    BY <1>3 DEF WriteAnswers, SubmitAnswers
  <2>3. eval' \in [Evaluation -> Row]
    BY <2>1, <2>2 DEF TypeOK
  <2> QED
    BY <1>3, <2>3 DEF WriteAnswers, TypeOK
<1>4. ASSUME NEW g \in Grader, FetchBatch(g) PROVE TypeOK'
  <2>1. {<<e, eval[e].copied>> : e \in Submitted} \subseteq Evaluation \X BOOLEAN
    BY DEF Submitted, TypeOK, Row
  <2>2. [NoBatch EXCEPT !.step = "grade", !.todo = Submitted,
                        !.rows = {<<e, eval[e].copied>> : e \in Submitted}] \in Batch
    BY <2>1 DEF NoBatch, Batch, Verdict, Submitted
  <2> QED
    BY <1>4, <2>2 DEF FetchBatch, TypeOK
<1>5. ASSUME NEW g \in Grader, NEW e \in Evaluation, GradeSingle(g, e) PROVE TypeOK'
  <2>1. PICK verdict \in Verdict :
          /\ Judge({e}, verdict)
          /\ batch' = [batch EXCEPT ![g] = [@ EXCEPT !.step = "route", !.todo = batch[g].todo \ {e},
                                                     !.graded = e, !.verdict = verdict]]
    BY <1>5 DEF GradeSingle
  <2>2. batch' \in [Grader -> Batch]
    BY <2>1, BatchSteps DEF TypeOK
  <2> QED
    BY <1>5, <2>1, <2>2, JudgeRows DEF GradeSingle, TypeOK
<1>6. ASSUME NEW g \in Grader, NEW e \in Evaluation, SkipSingle(g, e) PROVE TypeOK'
  BY <1>6, BatchSteps DEF SkipSingle, TypeOK
<1>7. ASSUME NEW g \in Grader, RouteSingle(g) PROVE TypeOK'
  <2>1. LaneOf(batch[g].verdict) \in Lanes
    BY DEF LaneOf, Lanes
  <2>2. lane' \in [Application -> Lanes]
    BY <1>7, <2>1 DEF RouteSingle, TypeOK
  <2> QED
    BY <1>7, <2>2, BatchSteps DEF RouteSingle, TypeOK
<1>8. ASSUME NEW g \in Grader, DetectCollusion(g) PROVE TypeOK'
  <2>1. batch' \in [Grader -> Batch]
    BY <1>8, BatchSteps DEF DetectCollusion, TypeOK
  <2> QED
    BY <1>8, <2>1, JudgeRows DEF DetectCollusion, TypeOK
<1>9. ASSUME NEW g \in Grader, RevertFlagged(g) PROVE TypeOK'
  BY <1>9, BatchSteps DEF RevertFlagged, Held, Lanes, TypeOK
<1>10. ASSUME NEW g \in Grader, GraderDies(g) PROVE TypeOK'
  BY <1>10, BatchSteps DEF GraderDies, Alike, TypeOK
<1>11. ASSUME NEW a \in Application, NEW to \in Moves, MoveElsewhere(a, to) PROVE TypeOK'
  BY <1>11 DEF MoveElsewhere, TypeOK
<1>12. CASE UNCHANGED vars
  BY <1>12 DEF vars, TypeOK
<1> QED
  BY <1>1, <1>2, <1>3, <1>4, <1>5, <1>6, <1>7, <1>8, <1>9, <1>10, <1>11, <1>12
  DEF Next, Candidates, Grade

-----------------------------------------------------------------------------
(***************************************************************************)
(* Tests and their outcomes.                                               *)
(***************************************************************************)

\* What a step does to one row keeps the row's outcomes.
LEMMA RowsStep == TypeOK /\ TestsInv /\ [Next]_vars => RowsGrow
<1> SUFFICES ASSUME TypeOK, TestsInv, [Next]_vars PROVE RowsGrow
  OBVIOUS
<1>1. CASE UNCHANGED eval
  BY <1>1 DEF RowsGrow
<1>2. ASSUME NEW e \in Evaluation, NEW a \in Application, TriggerPreEvaluation(e, a) PROVE RowsGrow
  BY <1>2 DEF TriggerPreEvaluation, TestsInv, Known, RowsGrow, TypeOK
<1>3. ASSUME NEW e \in Evaluation, NEW copied \in BOOLEAN, WriteAnswers(e, copied) PROVE RowsGrow
  BY <1>3 DEF WriteAnswers, SubmitAnswers, RowsGrow, TypeOK, Row
<1>4. ASSUME NEW g \in Grader, NEW e \in Evaluation, GradeSingle(g, e) PROVE RowsGrow
  BY <1>4, JudgeRows DEF GradeSingle
<1>5. ASSUME NEW g \in Grader, DetectCollusion(g) PROVE RowsGrow
  BY <1>5, JudgeRows DEF DetectCollusion
<1> QED
  BY <1>1, <1>2, <1>3, <1>4, <1>5
  DEF Next, Candidates, Grade, CheckSubmission, FetchBatch, SkipSingle, RouteSingle, RevertFlagged,
      GraderDies, MoveElsewhere, vars

\* The invariant of the tests holds after a step if it holds of what is new.
LEMMA TestsFrame ==
    ASSUME TypeOK, TestsInv, RowsGrow,
           \A e \in Evaluation : eval'[e] = eval[e] \/ eval'[e].status # "none",
           \A e \in submitting' : e \in submitting \/ e[1] \in Known',
           \A g \in Grader : batch'[g] = batch[g] \/ SoundBatch(g)'
    PROVE  TestsInv'
<1>1. Known \subseteq Known'
  BY DEF Known, RowsGrow
<1>2. \A e \in Evaluation \ Known' : eval'[e].history = {}
  BY DEF TestsInv, Known, RowsGrow
<1>3. ASSUME NEW g \in Grader, batch'[g] = batch[g] PROVE SoundBatch(g)'
  <2>1. SoundBatch(g) /\ batch[g] \in Batch
    BY DEF TestsInv, TypeOK
  <2>2. batch'[g].rows = batch[g].rows /\ batch[g].rows \subseteq Evaluation \X BOOLEAN
    BY <1>3, <2>1 DEF Batch
  <2>3. Alike(g)' = Alike(g) /\ Alike(g) \subseteq Evaluation
    BY <2>2 DEF Alike
  <2>4. batch[g].step = "revert" => \A e \in Alike(g) : "flagged" \in eval'[e].history
    BY <2>1, <2>3 DEF SoundBatch, RowsGrow
  <2>5. batch[g].step = "route" => batch[g].verdict \in eval'[batch[g].graded].history
    BY <2>1 DEF SoundBatch, RowsGrow, Known
  <2> QED
    BY <1>1, <1>3, <2>1, <2>2, <2>3, <2>4, <2>5 DEF SoundBatch
<1> QED
  BY <1>1, <1>2, <1>3 DEF TestsInv

LEMMA TestsStep == TypeOK /\ TestsInv /\ [Next]_vars => TestsInv'
<1> SUFFICES ASSUME TypeOK, TestsInv, [Next]_vars PROVE TestsInv'
  OBVIOUS
<1>1. RowsGrow
  BY RowsStep
<1>2. ASSUME NEW g \in Grader, batch'[g] = NoBatch PROVE SoundBatch(g)'
  BY <1>2 DEF SoundBatch, NoBatch
<1>3. ASSUME NEW e \in Evaluation, NEW a \in Application, TriggerPreEvaluation(e, a) PROVE TestsInv'
  BY <1>1, <1>3, TestsFrame DEF TriggerPreEvaluation, TypeOK, NoRow
<1>4. ASSUME NEW e \in Evaluation, NEW copied \in BOOLEAN, CheckSubmission(e, copied) PROVE TestsInv'
  BY <1>1, <1>4, TestsFrame DEF CheckSubmission, Known
<1>5. ASSUME NEW e \in Evaluation, NEW copied \in BOOLEAN, WriteAnswers(e, copied) PROVE TestsInv'
  BY <1>1, <1>5, TestsFrame DEF WriteAnswers, SubmitAnswers, TypeOK, Row
<1>6. ASSUME NEW g \in Grader, FetchBatch(g) PROVE TestsInv'
  <2>1. batch'[g] = [NoBatch EXCEPT !.step = "grade", !.todo = Submitted,
                                    !.rows = {<<e, eval[e].copied>> : e \in Submitted}]
    BY <1>6 DEF FetchBatch, TypeOK
  <2> DEFINE rows == {<<e, eval[e].copied>> : e \in Submitted}
  <2>2. Submitted \subseteq Known' /\ \A row \in rows : row[1] \in Submitted
    BY <1>6 DEF FetchBatch, Submitted, Known
  <2>3. batch'[g].step = "grade" /\ batch'[g].todo = Submitted /\ batch'[g].rows = rows
    BY <2>1 DEF NoBatch
  <2> HIDE DEF rows
  <2>4. SoundBatch(g)'
    BY <2>2, <2>3 DEF SoundBatch
  <2> QED
    BY <1>1, <1>6, <2>4, TestsFrame DEF FetchBatch, TypeOK
<1>7. ASSUME NEW g \in Grader, NEW e \in Evaluation, GradeSingle(g, e) PROVE TestsInv'
  <2>1. PICK verdict \in Verdict :
          /\ Judge({e}, verdict)
          /\ batch' = [batch EXCEPT ![g] = [@ EXCEPT !.step = "route", !.todo = batch[g].todo \ {e},
                                                     !.graded = e, !.verdict = verdict]]
    BY <1>7 DEF GradeSingle
  <2>2. batch[g] \in Batch /\ SoundBatch(g)
    BY DEF TypeOK, TestsInv
  <2>3. batch'[g] = [batch[g] EXCEPT !.step = "route", !.todo = batch[g].todo \ {e},
                                     !.graded = e, !.verdict = verdict]
    BY <2>1 DEF TypeOK
  <2>4. verdict \in eval'[e].history /\ \A f \in Evaluation : f # e => eval'[f] = eval[f]
    BY <2>1, JudgeRows
  <2>5. Known \subseteq Known' /\ e \in Known
    BY <1>1, <1>7, <2>2 DEF GradeSingle, RowsGrow, Known, SoundBatch
  <2>6. SoundBatch(g)'
    BY <2>2, <2>3, <2>4, <2>5 DEF SoundBatch, Batch
  <2> QED
    BY <1>1, <1>7, <2>1, <2>4, <2>5, <2>6, TestsFrame DEF GradeSingle, TypeOK, Known
<1>8. ASSUME NEW g \in Grader, NEW e \in Evaluation, SkipSingle(g, e) PROVE TestsInv'
  <2>1. batch[g] \in Batch /\ SoundBatch(g)
    BY DEF TypeOK, TestsInv
  <2>2. batch'[g] = [batch[g] EXCEPT !.todo = batch[g].todo \ {e}]
    BY <1>8 DEF SkipSingle, TypeOK
  <2>3. SoundBatch(g)'
    BY <1>8, <2>1, <2>2 DEF SkipSingle, SoundBatch, Alike, Batch, Known
  <2> QED
    BY <1>1, <1>8, <2>3, TestsFrame DEF SkipSingle, TypeOK
<1>9. ASSUME NEW g \in Grader, RouteSingle(g) PROVE TestsInv'
  <2>1. batch[g] \in Batch /\ SoundBatch(g)
    BY DEF TypeOK, TestsInv
  <2>2. batch'[g] = [batch[g] EXCEPT !.step = "grade", !.graded = NoEval, !.verdict = "failed"]
    BY <1>9 DEF RouteSingle, TypeOK
  <2>3. SoundBatch(g)'
    BY <1>9, <2>1, <2>2 DEF RouteSingle, SoundBatch, Batch, Known
  <2> QED
    BY <1>1, <1>9, <2>3, TestsFrame DEF RouteSingle, TypeOK
<1>10. ASSUME NEW g \in Grader, DetectCollusion(g) PROVE TestsInv'
  <2>1. batch[g] \in Batch /\ SoundBatch(g)
    BY DEF TypeOK, TestsInv
  <2>2. /\ \A e \in Evaluation : e \in Alike(g) => "flagged" \in eval'[e].history
        /\ \A e \in Evaluation : e \notin Alike(g) => eval'[e] = eval[e]
    BY <1>10, JudgeRows DEF DetectCollusion
  <2>3. Known \subseteq Known' /\ Alike(g) \subseteq Known
    BY <1>1, <2>1 DEF RowsGrow, Known, Alike, SoundBatch
  <2>4. CASE Alike(g) = {}
    <3>1. batch'[g] = NoBatch
      BY <1>10, <2>4 DEF DetectCollusion, TypeOK
    <3> QED
      BY <1>1, <1>2, <1>10, <2>2, <2>4, <3>1, TestsFrame DEF DetectCollusion, TypeOK
  <2>5. CASE Alike(g) # {}
    <3>1. batch'[g] = [batch[g] EXCEPT !.step = "revert"]
      BY <1>10, <2>5 DEF DetectCollusion, TypeOK
    <3>2. Alike(g)' = Alike(g)
      BY <2>1, <3>1 DEF Alike, Batch
    <3>3. SoundBatch(g)'
      BY <2>1, <2>2, <2>3, <3>1, <3>2 DEF SoundBatch, Batch, Alike
    <3>4. \A e \in Evaluation : eval'[e] = eval[e] \/ eval'[e].status # "none"
      BY <2>2, <2>3 DEF Known
    <3> QED
      BY <1>1, <1>10, <3>3, <3>4, TestsFrame DEF DetectCollusion, TypeOK
  <2> QED
    BY <2>4, <2>5
<1>11. ASSUME NEW g \in Grader, RevertFlagged(g) \/ GraderDies(g) PROVE TestsInv'
  <2>1. batch'[g] = NoBatch
    BY <1>11 DEF RevertFlagged, GraderDies, TypeOK
  <2> QED
    BY <1>1, <1>2, <1>11, <2>1, TestsFrame DEF RevertFlagged, GraderDies, TypeOK
<1>12. ASSUME NEW a \in Application, NEW to \in Moves, MoveElsewhere(a, to) PROVE TestsInv'
  BY <1>1, <1>12, TestsFrame DEF MoveElsewhere
<1>13. CASE UNCHANGED vars
  BY <1>1, <1>13, TestsFrame DEF vars
<1> QED
  BY <1>3, <1>4, <1>5, <1>6, <1>7, <1>8, <1>9, <1>10, <1>11, <1>12, <1>13
  DEF Next, Candidates, Grade

-----------------------------------------------------------------------------
(***************************************************************************)
(* Lanes.                                                                  *)
(***************************************************************************)

LEMMA OutcomesGrow ==
    ASSUME TypeOK, TestsInv, RowsGrow, NEW a \in Application
    PROVE  Outcomes(a) \subseteq Outcomes(a)'
<1> SUFFICES ASSUME NEW e \in Evaluation, eval[e].app = a, NEW o \in eval[e].history
             PROVE  o \in Outcomes(a)'
  BY DEF Outcomes
<1>1. eval[e].status # "none"
  BY DEF TestsInv, Known
<1> QED
  BY <1>1 DEF RowsGrow, Outcomes

\* An outcome of a test is one of its application.
LEMMA OutcomeOfTest ==
    ASSUME NEW e \in Evaluation, NEW o \in eval[e].history
    PROVE  o \in Outcomes(eval[e].app)
BY DEF Outcomes

LEMMA VerdictFrame ==
    ASSUME TypeOK, TestsInv, RowsGrow, LaneHasVerdict, moved \subseteq moved',
           \A a \in Application :
             \/ lane'[a] = lane[a]
             \/ a \in moved'
             \/ lane'[a] = "interview" /\ "passed" \in Outcomes(a)
             \/ lane'[a] = "rejected" /\ "failed" \in Outcomes(a)
             \/ lane'[a] = "on_hold" /\ "flagged" \in Outcomes(a)
    PROVE  LaneHasVerdict'
<1> SUFFICES ASSUME NEW a \in Application, a \notin moved'
             PROVE  /\ lane'[a] = "interview" => "passed" \in Outcomes(a)'
                    /\ lane'[a] = "rejected" => "failed" \in Outcomes(a)'
                    /\ lane'[a] = "on_hold" => "flagged" \in Outcomes(a)'
                    /\ lane'[a] # "selected"
  BY DEF LaneHasVerdict
<1>1. Outcomes(a) \subseteq Outcomes(a)'
  BY OutcomesGrow
<1>2. a \in Application \ moved
  OBVIOUS
<1> QED
  BY <1>1, <1>2 DEF LaneHasVerdict

LEMMA VerdictStep == TypeOK /\ TestsInv /\ LaneHasVerdict /\ [Next]_vars => LaneHasVerdict'
<1> SUFFICES ASSUME TypeOK, TestsInv, LaneHasVerdict, [Next]_vars PROVE LaneHasVerdict'
  OBVIOUS
<1>1. RowsGrow
  BY RowsStep
<1>2. ASSUME UNCHANGED <<lane, moved>> PROVE LaneHasVerdict'
  BY <1>1, <1>2, VerdictFrame
<1>3. CASE Candidates
  BY <1>2, <1>3 DEF Candidates, TriggerPreEvaluation, CheckSubmission, WriteAnswers
<1>4. ASSUME NEW g \in Grader, RouteSingle(g) PROVE LaneHasVerdict'
  <2> DEFINE e == batch[g].graded
             v == batch[g].verdict
  <2>1. e \in Evaluation /\ v \in eval[e].history /\ v \in Verdict
    <3>1. SoundBatch(g) /\ batch[g] \in Batch /\ batch[g].step = "route"
      BY <1>4 DEF RouteSingle, TestsInv, TypeOK
    <3> QED
      BY <3>1 DEF SoundBatch, Known, Batch
  <2>2. v \in Outcomes(eval[e].app)
    BY <2>1, OutcomeOfTest
  <2>3. \A a \in Application :
          \/ lane'[a] = lane[a]
          \/ a = eval[e].app /\ lane'[a] = LaneOf(v)
    BY <1>4 DEF RouteSingle, TypeOK
  <2>4. moved' = moved
    BY <1>4 DEF RouteSingle
  <2> HIDE DEF e, v
  <2> QED
    BY <1>1, <2>1, <2>2, <2>3, <2>4, VerdictFrame DEF LaneOf, Verdict
<1>5. ASSUME NEW g \in Grader, RevertFlagged(g) PROVE LaneHasVerdict'
  <2>1. \A e \in Alike(g) : e \in Evaluation /\ "flagged" \in eval[e].history
    BY <1>5 DEF RevertFlagged, TestsInv, SoundBatch, Alike
  <2>2. \A a \in Flagged(g) : "flagged" \in Outcomes(a)
    BY <2>1, OutcomeOfTest DEF Flagged
  <2>3. \A a \in Application : lane'[a] = lane[a] \/ (lane'[a] = "on_hold" /\ a \in Flagged(g))
    BY <1>5 DEF RevertFlagged, Held
  <2>4. moved' = moved
    BY <1>5 DEF RevertFlagged
  <2> QED
    BY <1>1, <2>2, <2>3, <2>4, VerdictFrame
<1>6. ASSUME NEW g \in Grader, FetchBatch(g) \/ DetectCollusion(g) \/ GraderDies(g) PROVE LaneHasVerdict'
  BY <1>2, <1>6 DEF FetchBatch, DetectCollusion, GraderDies
<1>7. ASSUME NEW g \in Grader, NEW e \in Evaluation, GradeSingle(g, e) \/ SkipSingle(g, e)
      PROVE  LaneHasVerdict'
  BY <1>2, <1>7 DEF GradeSingle, SkipSingle
<1>8. ASSUME NEW a \in Application, NEW to \in Moves, MoveElsewhere(a, to) PROVE LaneHasVerdict'
  <2>1. /\ moved \subseteq moved'
        /\ \A b \in Application : lane'[b] = lane[b] \/ b \in moved'
    BY <1>8 DEF MoveElsewhere, TypeOK
  <2> QED
    BY <1>1, <2>1, VerdictFrame
<1>9. CASE UNCHANGED vars
  BY <1>2, <1>9 DEF vars
<1> QED
  BY <1>3, <1>4, <1>5, <1>6, <1>7, <1>8, <1>9 DEF Next, Grade

\* The inductive invariant.
VerdictInv == TypeOK /\ TestsInv /\ LaneHasVerdict

LEMMA TestsStart == Init => VerdictInv
<1> SUFFICES ASSUME Init PROVE VerdictInv
  OBVIOUS
<1>1. TypeOK
  BY DEF Init, TypeOK, NoRow, Row, NoBatch, Batch, Lanes, Verdict
<1>2. TestsInv
  BY DEF Init, TestsInv, Known, SoundBatch, NoBatch, NoRow
<1> QED
  BY <1>1, <1>2 DEF Init, VerdictInv, LaneHasVerdict

\* An application nobody else moved is in a lane for the outcome of one of its
\* own tests, for any number of tests and of batches that overlap or are cut:
\* a verdict is written before the lane it leads to.
THEOREM LanesHaveVerdicts == Spec => []LaneHasVerdict
<1>1. VerdictInv /\ [Next]_vars => VerdictInv'
  BY TestTypeStep, TestsStep, VerdictStep DEF VerdictInv
<1>2. VerdictInv => LaneHasVerdict
  BY DEF VerdictInv
<1> QED
  BY <1>1, <1>2, TestsStart, PTL DEF Spec

\* Tests, batches and lanes keep their types.
THEOREM TestTypes == Spec => []TypeOK
<1>1. Init => TypeOK
  BY TestsStart DEF VerdictInv
<1> QED
  BY <1>1, TestTypeStep, PTL DEF Spec
-----------------------------------------------------------------------------
(***************************************************************************)
(* Colluders, when batches do not overlap.                                 *)
(***************************************************************************)

\* A test that is flagged, the only one of its application, which nobody else moved
\* and no batch was cut over.
Caught(e) ==
    /\ e \in Evaluation \ cut
    /\ eval[e].status = "flagged" /\ OnlyTest(e) /\ eval[e].app \notin moved

\* A batch is about to put it on hold.
Reverting(e) == \E g \in Grader : batch[g].step = "revert" /\ e \in Alike(g)

\* A flagged test's application is on hold or about to be, and the test that a batch
\* routes is not flagged.
HeldInv ==
    /\ \A e \in Evaluation : eval[e].status # "none" <=> eval[e].app \in Application
    /\ \A g \in Grader : batch[g].step = "route" => eval[batch[g].graded].status # "flagged"
    /\ \A e \in Evaluation : Caught(e) => lane[eval[e].app] = "on_hold" \/ Reverting(e)

\* What a step may do to the rows, the batches and the lanes.
LEMMA HeldFrame ==
    ASSUME TypeOK, RowsGrow, HeldInv, cut \subseteq cut', moved \subseteq moved',
           \A e \in Evaluation : eval'[e].status # "none" <=> eval'[e].app \in Application,
           \A g \in Grader : batch'[g].step = "route" => eval'[batch'[g].graded].status # "flagged",
           \A e \in Evaluation \ cut' : eval'[e].status = "flagged" => eval[e].status = "flagged" \/ Reverting(e)',
           \A e \in Evaluation \ cut' : Caught(e) /\ lane[eval[e].app] = "on_hold" => lane'[eval[e].app] = "on_hold" \/ Reverting(e)',
           \A e \in Evaluation \ cut' : Reverting(e) => lane'[eval[e].app] = "on_hold" \/ Reverting(e)'
    PROVE  HeldInv'
<1> SUFFICES ASSUME NEW e \in Evaluation, Caught(e)', ~Reverting(e)' PROVE lane'[eval'[e].app] = "on_hold"
  BY DEF HeldInv
<1>1. e \in Evaluation \ cut' /\ eval'[e].status = "flagged" /\ eval'[e].app \notin moved'
  BY DEF Caught
<1>2. eval[e].status = "flagged"
  BY <1>1
<1>3. eval'[e].app = eval[e].app /\ eval[e].app \in Application
  BY <1>2 DEF RowsGrow, HeldInv
<1>4. OnlyTest(e)
  <2> SUFFICES ASSUME NEW f \in Evaluation \ {e}, eval[f].app = eval[e].app PROVE FALSE
    BY DEF OnlyTest
  <2>1. eval'[f].app = eval[f].app
    BY <1>3 DEF RowsGrow, HeldInv
  <2> QED
    BY <1>3, <2>1 DEF Caught, OnlyTest
<1>5. Caught(e)
  BY <1>1, <1>2, <1>3, <1>4 DEF Caught
<1> QED
  BY <1>1, <1>3, <1>5 DEF HeldInv

\* Batches do not overlap.
OneBatch == \A g, h \in Grader : g = h

LEMMA HeldStep ==
    ASSUME OneBatch, TypeOK, TestsInv, HeldInv, [Next]_vars
    PROVE  HeldInv'
<1>1. RowsGrow
  BY RowsStep
<1>2. /\ \A e \in Evaluation : eval[e].status # "none" <=> eval[e].app \in Application
      /\ \A g \in Grader : batch[g].step = "route" => eval[batch[g].graded].status # "flagged"
      /\ \A g \in Grader : batch[g] \in Batch /\ SoundBatch(g)
      /\ \A e \in Evaluation : eval[e] \in Row
  BY DEF HeldInv, TestsInv, TypeOK
<1>3. ASSUME UNCHANGED <<lane, moved, batch, cut>>,
             \A e \in Evaluation : eval'[e].status # "none" <=> eval'[e].app \in Application,
             \A e \in Evaluation : eval'[e].status = "flagged" => eval[e].status = "flagged"
      PROVE  HeldInv'
  <2>1. \A e \in Evaluation : Reverting(e)' = Reverting(e)
    BY <1>3 DEF Reverting, Alike
  <2>2. \A g \in Grader : batch[g].step = "route" => batch[g].graded \in Evaluation
    BY <1>2 DEF SoundBatch, Known
  <2> QED
    BY <1>1, <1>2, <1>3, <2>1, <2>2, HeldFrame
<1>4. ASSUME NEW e \in Evaluation, NEW a \in Application, TriggerPreEvaluation(e, a) PROVE HeldInv'
  <2>1. eval' = [eval EXCEPT ![e] = [NoRow EXCEPT !.status = "pending", !.app = a]]
    BY <1>4 DEF TriggerPreEvaluation
  <2>2. \A f \in Evaluation : \/ eval'[f] = eval[f]
                              \/ eval'[f].status = "pending" /\ eval'[f].app \in Application
    BY <2>1 DEF TypeOK, NoRow
  <2> QED
    BY <1>2, <1>3, <1>4, <2>2 DEF TriggerPreEvaluation
<1>5. ASSUME NEW e \in Evaluation, NEW copied \in BOOLEAN, CheckSubmission(e, copied) PROVE HeldInv'
  BY <1>2, <1>3, <1>5 DEF CheckSubmission
<1>6. ASSUME NEW e \in Evaluation, NEW copied \in BOOLEAN, WriteAnswers(e, copied) PROVE HeldInv'
  <2>1. eval[e].status # "none"
    BY <1>6 DEF WriteAnswers, TestsInv, Known
  <2>2. eval' = [eval EXCEPT ![e] = [eval[e] EXCEPT !.status = "submitted", !.copied = copied]]
    BY <1>6 DEF WriteAnswers, SubmitAnswers
  <2>3. \A f \in Evaluation : \/ eval'[f] = eval[f]
                              \/ f = e /\ eval'[f].status = "submitted" /\ eval'[f].app = eval[f].app
    BY <1>2, <2>2 DEF TypeOK, Row
  <2> QED
    BY <1>2, <1>3, <1>6, <2>1, <2>3 DEF WriteAnswers
<1>7. ASSUME NEW g \in Grader, batch[g].step # "revert", UNCHANGED <<lane, moved, cut>>,
             batch'[g].step # "revert", batch'[g].step = "route" => eval'[batch'[g].graded].status # "flagged",
             \A e \in Evaluation : eval'[e].status # "none" <=> eval'[e].app \in Application,
             \A e \in Evaluation : eval'[e].status = "flagged" => eval[e].status = "flagged"
      PROVE  HeldInv'
  <2>1. \A h \in Grader : h = g
    BY DEF OneBatch
  <2>2. \A e \in Evaluation : ~Reverting(e)
    BY <1>7, <2>1 DEF Reverting
  <2>3. \A h \in Grader : batch'[h].step = "route" => eval'[batch'[h].graded].status # "flagged"
    BY <1>7, <2>1
  <2> QED
    BY <1>1, <1>7, <2>2, <2>3, HeldFrame
<1>8. ASSUME NEW g \in Grader, FetchBatch(g) PROVE HeldInv'
  <2>1. batch'[g].step = "grade"
    BY <1>8 DEF FetchBatch, TypeOK, NoBatch
  <2> QED
    BY <1>2, <1>7, <1>8, <2>1 DEF FetchBatch
<1>9. ASSUME NEW g \in Grader, NEW e \in Evaluation, GradeSingle(g, e) PROVE HeldInv'
  <2>1. PICK verdict \in Verdict :
          /\ Judge({e}, verdict)
          /\ batch' = [batch EXCEPT ![g] = [@ EXCEPT !.step = "route", !.todo = batch[g].todo \ {e},
                                                     !.graded = e, !.verdict = verdict]]
    BY <1>9 DEF GradeSingle
  <2>2. batch'[g].step = "route" /\ batch'[g].graded = e
    BY <1>2, <2>1 DEF TypeOK, Batch
  <2>3. e \in Known
    BY <1>2, <1>9 DEF GradeSingle, SoundBatch
  <2>4. /\ eval'[e].status = verdict /\ eval'[e].app = eval[e].app
        /\ \A f \in Evaluation : f # e => eval'[f] = eval[f]
    BY <1>2, <2>1 DEF Judge, Row
  <2>5. verdict # "flagged" /\ verdict # "none"
    BY DEF Verdict
  <2> QED
    BY <1>2, <1>7, <1>9, <2>2, <2>3, <2>4, <2>5 DEF GradeSingle, Known
<1>10. ASSUME NEW g \in Grader, NEW e \in Evaluation, SkipSingle(g, e) PROVE HeldInv'
  <2>1. batch'[g].step = "grade"
    BY <1>2, <1>10 DEF SkipSingle, TypeOK, Batch
  <2> QED
    BY <1>2, <1>7, <1>10, <2>1 DEF SkipSingle
<1>11. ASSUME NEW g \in Grader, RouteSingle(g) PROVE HeldInv'
  <2> DEFINE t == batch[g].graded
  <2>1. batch'[g].step = "grade" /\ UNCHANGED <<eval, moved, cut>> /\ batch[g].step = "route"
    BY <1>2, <1>11 DEF RouteSingle, TypeOK, Batch
  <2>2. \A h \in Grader : h = g
    BY DEF OneBatch
  <2>3. t \in Evaluation /\ eval[t].status # "none" /\ eval[t].status # "flagged" /\ eval[t].app \in Application
    BY <1>2, <2>1 DEF SoundBatch, Known
  <2>4. \A a \in Application : a # eval[t].app => lane'[a] = lane[a]
    BY <1>11 DEF RouteSingle, TypeOK
  <2>5. \A e \in Evaluation : Caught(e) => eval[e].app # eval[t].app
    BY <2>3 DEF Caught, OnlyTest
  <2>6. \A e \in Evaluation : Caught(e) => eval[e].app \in Application
    BY <1>2 DEF Caught
  <2>7. \A e \in Evaluation : ~Reverting(e)
    BY <2>1, <2>2 DEF Reverting
  <2>8. \A h \in Grader : batch'[h].step # "route"
    BY <2>1, <2>2
  <2>9. \A e \in Evaluation : Caught(e) => lane'[eval[e].app] = lane[eval[e].app]
    BY <2>4, <2>5, <2>6
  <2> HIDE DEF t
  <2> QED
    BY <1>1, <1>2, <2>1, <2>7, <2>8, <2>9, HeldFrame
<1>12. ASSUME NEW g \in Grader, DetectCollusion(g) PROVE HeldInv'
  <2>1. \A h \in Grader : h = g
    BY DEF OneBatch
  <2>2. /\ \A e \in Evaluation : e \notin Alike(g) => eval'[e] = eval[e]
        /\ \A e \in Alike(g) : eval'[e].status = "flagged" /\ eval'[e].app = eval[e].app
        /\ Alike(g) \subseteq Known
    BY <1>2, <1>12 DEF DetectCollusion, Judge, Alike, SoundBatch, Row
  <2>3. batch[g].step = "grade" /\ UNCHANGED <<lane, moved, cut>>
    BY <1>12 DEF DetectCollusion
  <2>4. batch'[g].step # "route"
    BY <1>2, <1>12 DEF DetectCollusion, TypeOK, NoBatch, Batch
  <2>5. Alike(g) # {} => batch'[g].step = "revert" /\ Alike(g)' = Alike(g)
    <3>1. Alike(g) # {} => batch'[g] = [batch[g] EXCEPT !.step = "revert"]
      BY <1>12 DEF DetectCollusion, TypeOK
    <3> QED
      BY <1>2, <3>1 DEF Alike, Batch
  <2>6. \A e \in Alike(g) : Reverting(e)'
    BY <2>5 DEF Reverting
  <2>7. \A e \in Evaluation : ~Reverting(e)
    BY <2>1, <2>3 DEF Reverting
  <2>8. \A e \in Evaluation : eval'[e].status # "none" <=> eval'[e].app \in Application
    BY <1>2, <2>2 DEF Known
  <2>9. \A h \in Grader : batch'[h].step # "route"
    BY <2>1, <2>4
  <2> QED
    BY <1>1, <2>2, <2>3, <2>6, <2>7, <2>8, <2>9, HeldFrame
<1>13. ASSUME NEW g \in Grader, RevertFlagged(g) PROVE HeldInv'
  <2>1. \A h \in Grader : h = g
    BY DEF OneBatch
  <2>2. batch'[g].step = "idle" /\ UNCHANGED <<eval, moved, cut>>
    BY <1>13 DEF RevertFlagged, TypeOK, NoBatch
  <2>3. \A a \in Application : lane'[a] = IF a \in Flagged(g) THEN "on_hold" ELSE lane[a]
    BY <1>13 DEF RevertFlagged, Held
  <2>4. \A e \in Evaluation : Reverting(e) => eval[e].app \in Application /\ eval[e].app \in Flagged(g)
    BY <1>2, <2>1 DEF Reverting, Flagged, Alike, SoundBatch, Known
  <2>5. \A e \in Evaluation : Caught(e) => eval[e].app \in Application
    BY <1>2 DEF Caught
  <2>6. \A h \in Grader : batch'[h].step # "route"
    BY <2>1, <2>2
  <2> QED
    BY <1>1, <1>2, <2>2, <2>3, <2>4, <2>5, <2>6, HeldFrame
<1>14. ASSUME NEW g \in Grader, GraderDies(g) PROVE HeldInv'
  <2>1. \A h \in Grader : h = g
    BY DEF OneBatch
  <2>2. batch'[g].step = "idle" /\ UNCHANGED <<eval, lane, moved>>
    BY <1>14 DEF GraderDies, TypeOK, NoBatch
  <2>3. cut \subseteq cut' /\ \A e \in Evaluation : Reverting(e) => e \in cut'
    BY <1>14, <2>1 DEF GraderDies, Reverting
  <2>4. \A h \in Grader : batch'[h].step # "route"
    BY <2>1, <2>2
  <2> QED
    BY <1>1, <1>2, <2>2, <2>3, <2>4, HeldFrame
<1>15. ASSUME NEW a \in Application, NEW to \in Moves, MoveElsewhere(a, to) PROVE HeldInv'
  <2>1. UNCHANGED <<eval, batch, cut>> /\ moved' = moved \cup {a} /\ lane' = [lane EXCEPT ![a] = to]
    BY <1>15 DEF MoveElsewhere
  <2>2. \A e \in Evaluation : Reverting(e)' = Reverting(e) /\ (OnlyTest(e)' => OnlyTest(e))
    BY <2>1 DEF Reverting, Alike, OnlyTest
  <2>3. \A e \in Evaluation : Caught(e)' => Caught(e) /\ eval[e].app # a /\ eval[e].app \in Application
    BY <1>2, <2>1, <2>2 DEF Caught
  <2>4. \A e \in Evaluation : Caught(e)' => lane'[eval[e].app] = lane[eval[e].app]
    BY <2>1, <2>3 DEF TypeOK
  <2>5. \A e \in Evaluation : Caught(e)' => lane'[eval'[e].app] = "on_hold" \/ Reverting(e)'
    BY <2>1, <2>2, <2>3, <2>4 DEF HeldInv
  <2> QED
    BY <1>2, <2>1, <2>5 DEF HeldInv
<1>16. CASE UNCHANGED vars
  BY <1>2, <1>3, <1>16 DEF vars
<1> QED
  BY <1>4, <1>5, <1>6, <1>8, <1>9, <1>10, <1>11, <1>12, <1>13, <1>14, <1>15, <1>16
  DEF Next, Candidates, Grade

\* When batches do not overlap, however they are cut, the application of a flagged
\* test is on hold once the batch is through, for any number of tests: what
\* _detect_collusion reverts is what _grade_single did.  With batches that overlap
\* another batch may still route a test after it was flagged.
THEOREM ColludersAreHeld ==
    ASSUME OneBatch
    PROVE  Spec => []ColludersHeld
<1> DEFINE Inv == TypeOK /\ TestsInv /\ HeldInv
<1>1. Init => Inv
  <2> SUFFICES ASSUME Init PROVE Inv
    OBVIOUS
  <2>1. TypeOK /\ TestsInv
    BY TestsStart DEF VerdictInv
  <2>2. HeldInv
    BY PreEvaluationsAssumption DEF Init, HeldInv, Caught, NoRow, NoBatch, PreEvaluationsAssumption
  <2> QED
    BY <2>1, <2>2
<1>2. Inv /\ [Next]_vars => Inv'
  BY TestTypeStep, TestsStep, HeldStep
<1>3. Inv => ColludersHeld
  <2> SUFFICES ASSUME HeldInv, \A g \in Grader : batch[g].step # "revert",
                      NEW e \in Evaluation \ cut, eval[e].status = "flagged", OnlyTest(e),
                      eval[e].app \notin moved
               PROVE  lane[eval[e].app] = "on_hold"
    BY DEF ColludersHeld
  <2>1. Caught(e) /\ ~Reverting(e)
    BY DEF Caught, Reverting
  <2> QED
    BY <2>1 DEF HeldInv
<1> QED
  BY <1>1, <1>2, <1>3, PTL DEF Spec
=============================================================================
