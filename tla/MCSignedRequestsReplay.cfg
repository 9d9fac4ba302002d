SPECIFICATION Spec
CONSTANTS
    Agents = {a1, a2}
    Nonces = {n1}
    NaN = NaN
    None = None
    Timestamps = {0, 2}
    Slots = {s1, s2}
    Window = 1
    MaxTime = 4
SYMMETRY Symmetry
INVARIANTS
    NoReplay
    AcceptedIsCovered
PROPERTIES
    AcceptedNoncesExpire
    ReplaysEnd
