\* One request through every handler, with the contract, the queue and the clock.
SPECIFICATION GatewayFairSpec
CONSTANTS
    Requests = {r1}
    UpstreamStatuses = {200, 404, 503}
    None = None
    alice = alice
    developer = developer
    Agents = {alice}
    RoleIds = {developer, guest, Zero}
    Zero = Zero
    AgentOf <- OfAlice
    Permitting <- ByDeveloper
    Staleness = 2
    RequestTimeout = 2
    LongAgo <- Never
    MaxTime = 4
    MaxRecords = 2
INVARIANTS
    TypeOK
    OnlyPermittedCalls
    AnsweredCallsAreAudited
    RefusalsAreAudited
    AuthenticatedAreAudited
    TrailIsTrue
PROPERTIES
    FreshAuthority
    RequestsAreAnswered
    EveryCallIsRecorded
CHECK_DEADLOCK FALSE
