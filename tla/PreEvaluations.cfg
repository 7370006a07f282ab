\* Two applications, two tests, one batch at a time, under fairness.
CONSTANTS
    NoApp = NoApp
    NoEval = NoEval
    Application = {a1, a2}
    Evaluation = {e1, e2}
    Grader = {g1}
    Moves = {"screening"}
SPECIFICATION LiveSpec
INVARIANTS LaneHasVerdict ColludersHeld
PROPERTIES SubmittedIsGraded
