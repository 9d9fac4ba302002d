\* Delivery to a chain that comes back, and shutdown with one that does not.
SPECIFICATION FairSpec
CONSTANTS
    Entries = {e1, e2}
    Ticks = {t1}
    Signals = {s1, s2}
    Handler = handler
    MaxAttempts = 2
    MaxDrain = 3
    MaxDisputed = 1
PROPERTIES
    EntryEventuallyWritten
    ShutdownTerminates
CHECK_DEADLOCK FALSE
