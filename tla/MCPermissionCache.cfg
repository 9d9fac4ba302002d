\* Two overlapping calls of get(), one agent with two spellings, one role.
SPECIFICATION Spec
CONSTANTS
    agent = agent
    plain = plain
    checksummed = checksummed
    Agents <- OneAgent
    Keys <- Spellings
    AgentOf <- SameAgent
    Roles = {admin}
    NoRole = NoRole
    Gets = {g1, g2}
    Unavailable = Unavailable
    None = None
    MaxAttempts = 2
    TTL = 2
    ReadTimeout = 1
    MaxTime = 4
SYMMETRY Symmetry
INVARIANTS
    BoundedStaleness
    EntriesExpireInTime
PROPERTIES
    GoneStaysGone
    ImplementsOracle
