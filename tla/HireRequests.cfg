\* Two calls in flight: every pair of handlers interleaved; the lock as a lease, under the
\* fairness of time and the sweep.
CONSTANTS
    lead = lead
    adminA = adminA
    adminB = adminB
    head = head
    hr1 = hr1
    hr2 = hr2
    termsA = termsA
    termsB = termsB
    Nobody = Nobody
    NoPosition = NoPosition
    User <- MCUser
    Role <- MCRole
    Requester = lead
    Terms = {termsA, termsB}
    DeptAdminOf <- MCDeptAdminOf
    Position = {p1}
    Call = {c1, c2}
    StaleAfter = 1
    ExpireAfter = 3
SPECIFICATION Spec
INVARIANTS LockIffReviewing PickupWasApproved
PROPERTIES DecidedNeverRequeued PickupNotCancelled LeaseSpec LockEventuallyFreed
