\* One call at a time: the documented lifecycle, with time and the sweep in between.
CONSTANTS
    lead = lead
    adminA = adminA
    adminB = adminB
    head = head
    hr1 = hr1
    hr2 = hr2
    termsA = termsA
    termsB = termsB
    Nobody = Nobody
    NoPosition = NoPosition
    User <- MCUser
    Role <- MCRole
    Requester = lead
    Terms = {termsA, termsB}
    DeptAdminOf <- MCDeptAdminOf
    Position = {p1, p2}
    Call = {c1}
    StaleAfter = 1
    ExpireAfter = 3
SPECIFICATION Safety
INVARIANTS OneOutcome FulfilledIsLinked
PROPERTIES TerminalIsFinal FirstPickupWins TermsFrozenOnceReviewed
