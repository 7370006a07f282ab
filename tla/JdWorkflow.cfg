\* Two calls in flight on one position; the request was filed by a recruiter of today.
CONSTANTS
    lead = lead
    admin = admin
    head = head
    hr1 = hr1
    Nobody = Nobody
    NoPosition = NoPosition
    User = {admin, head, hr1}
    Role <- MCRole
    OtherDept = {}
    AutoApprove = {}
    Leaver = {admin}
    Requester = hr1
    HrReviewed = TRUE
    AdminReviewed = TRUE
    Position = {p1}
    Call = {c1, c2}
    StatusRequests = {"open", "on_hold"}
    MaxCycle = 1
SPECIFICATION Spec
SYMMETRY MCSymmetry
INVARIANTS PendingHasReviewer
PROPERTIES NoSelfApproval LateDecisionLoses
