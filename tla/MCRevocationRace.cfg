\* A read under way while the revocation is mined and reported.
SPECIFICATION RevocationSpec
CONSTANTS
    agent = agent
    plain = plain
    checksummed = checksummed
    Agents <- OneAgent
    Keys <- OneSpelling
    AgentOf <- SameAgent
    Roles = {admin}
    NoRole = NoRole
    Gets = {g1}
    Unavailable = Unavailable
    None = None
    Revokes = {v1}
    AutoMine = TRUE
    MineTime = 0
    MaxAttempts = 2
    TTL = 2
    ReadTimeout = 1
    MaxTime = 3
SYMMETRY Symmetry
INVARIANT NextRequestSeesRevocation

