---------------------------- MODULE ReviewLease ----------------------------
(***************************************************************************)
(* What the admin-review lock of a hire request promises, whatever the     *)
(* handlers around it do: a lease with at most one holder, which nobody    *)
(* else can take while it is fresh, and which always ends.                 *)
(*                                                                         *)
(* Ages are counted in ticks of an arbitrary unit and saturate one tick    *)
(* after ExpireAfter, because nothing distinguishes older leases.          *)
(***************************************************************************)
EXTENDS Naturals

CONSTANTS
    Holder,       \* those who may hold the lease
    Nobody,       \* the value of a free lease, not a holder
    StaleAfter,   \* a lease older than this may be taken over
    ExpireAfter   \* a lease older than this, longer, is ended by the system

VARIABLES
    holder,   \* the holder, or Nobody
    age       \* ticks since the holder took it

vars == <<holder, age>>

MaxAge == ExpireAfter + 1

Init == holder = Nobody /\ age = 0

Acquire(h) ==
    /\ holder = Nobody
    /\ holder' = h
    /\ age' = 0

TakeOver(h) ==
    /\ holder # Nobody
    /\ age > StaleAfter
    /\ holder' = h
    /\ age' = 0

\* The lease ends: its holder, a decision or an org head ends it.
End ==
    /\ holder # Nobody
    /\ holder' = Nobody
    /\ age' = 0

\* The system ends an expired lease.
Expire == age > ExpireAfter /\ End

Tick ==
    /\ holder # Nobody
    /\ age < MaxAge
    /\ age' = age + 1
    /\ UNCHANGED holder

Next ==
    \/ \E h \in Holder : Acquire(h) \/ TakeOver(h)
    \/ End
    \/ Tick

Safety == Init /\ [][Next]_vars

Spec == Safety /\ WF_vars(Tick) /\ WF_vars(Expire)
=============================================================================
