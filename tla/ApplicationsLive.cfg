\* One application, one worker, under fairness.
CONSTANTS
    NoApp = NoApp
    Application = {a1}
    Worker = {w1}
    Retries <- MCRetries
    Moves = {"applied"}
SPECIFICATION LiveSpec
PROPERTIES AppliedIsScored
