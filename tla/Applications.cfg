\* One application, two workers.
CONSTANTS
    NoApp = NoApp
    Application = {a1}
    Worker = {w1, w2}
    Retries <- MCRetries
    Moves = {"applied"}
SPECIFICATION Spec
SYMMETRY MCSymmetry
INVARIANTS NobodyForgotten LaneHasCause TestsAreEarned
