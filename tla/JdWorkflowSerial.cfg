\* One call at a time on two positions, with decisions, deactivations and crashes between its steps.
CONSTANTS
    lead = lead
    admin = admin
    head = head
    hr1 = hr1
    Nobody = Nobody
    NoPosition = NoPosition
    User = {lead, head, hr1}
    Role <- MCRole
    OtherDept = {}
    AutoApprove = {lead}
    Leaver = {lead}
    Requester = lead
    HrReviewed = TRUE
    AdminReviewed = TRUE
    Position = {p1, p2}
    Call = {c1}
    StatusRequests = {"on_hold"}
    MaxCycle = 1
SPECIFICATION Spec
INVARIANTS FeedbackInChat
PROPERTIES SessionKeepsPosition
