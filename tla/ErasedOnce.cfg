\* One verified request, carried out from two desks.
CONSTANTS
    NoTok = NoTok
    NoRow = NoRow
    Cand = {c}
    ETok = {e}
    Visitor = {v}
    ErDesk = {d1, d2}
SPECIFICATION ErasureSpec
CHECK_DEADLOCK FALSE
INVARIANTS ErasedOnce
