\* Three entries, overlapping ticks, two signals; all safety properties.
SPECIFICATION Spec
CONSTANTS
    Entries = {e1, e2, e3}
    Ticks = {t1, t2}
    Signals = {s1, s2}
    Handler = handler
    MaxAttempts = 2
    MaxDrain = 2
    MaxDisputed = 1
SYMMETRY Symmetry
INVARIANTS
    OneFlush
    OnePlace
    FifoUnlessRequeued
    DuplicatesOnlyFromDisputes
    FailedArePending
PROPERTIES
    ImplementsAuditLog
CHECK_DEADLOCK FALSE
