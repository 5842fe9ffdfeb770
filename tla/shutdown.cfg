SPECIFICATION FairSpec
CONSTANTS
    Reasons = {r1, r2}
    NoReason = NoReason
    Tokens = {k1, k2}
    Triggers = {g1}
    MaxCopies = 2
    Tasks = {t1, t2}
    Waiters = {w1, w2}
INVARIANTS
    NoLostWakeup
PROPERTIES
    KeepsPromise
    AllWaitersReleased
