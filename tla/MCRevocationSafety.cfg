\* A revocation with fallback and delayed mining, over two overlapping gets.
SPECIFICATION RevocationSpec
CONSTANTS
    agent = agent
    plain = plain
    checksummed = checksummed
    Agents <- OneAgent
    Keys <- Spellings
    AgentOf <- SameAgent
    Roles = {admin}
    NoRole = NoRole
    Gets = {g1, g2}
    Unavailable = Unavailable
    None = None
    Revokes = {v1}
    AutoMine = FALSE
    MineTime = 1
    MaxAttempts = 1
    TTL = 1
    ReadTimeout = 1
    MaxTime = 3
SYMMETRY Symmetry
INVARIANTS
    ReportedAreRefused
PROPERTIES
    ImplementsPermissionCache
