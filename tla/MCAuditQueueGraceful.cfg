\* What the comment on graceful shutdown says, against the code.
SPECIFICATION Spec
CONSTANTS
    Entries = {e1, e2}
    Ticks = {t1}
    Signals = {s1, s2}
    Handler = handler
    MaxAttempts = 3
    MaxDrain = 10
    MaxDisputed = 0
INVARIANTS
    GracefulDrain
CHECK_DEADLOCK FALSE
