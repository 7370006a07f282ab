\* Two reviewers; one edits the JD while the other approves it.
CONSTANTS
    Reviewer = {"lead", "head"}
    StatusHead = {"head"}
    MaxJdText = 2
    MaxJdCalls = 1
SPECIFICATION JdReviewSpec
CHECK_DEADLOCK FALSE
PROPERTIES LockedOnceApproved
