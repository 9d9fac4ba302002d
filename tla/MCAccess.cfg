\* Two agents and two test accounts; up to three tools, three roles.
SPECIFICATION Spec
CONSTANTS
    alice = alice
    bob = bob
    Configs <- SomeConfigs
    Envs <- SomeEnvs
    Unset = Unset
    Empty = Empty
    None = None
    Agents <- BothAgents
    Accounts <- TwoAccounts
    LongIds = {"long"}
    Foreign <- SomeHashes
    Targets <- SomeTargets
    Chains = {"hedera", "base", "local"}
    Zero = Zero
    MaxRecent = 3
INVARIANTS
    LongestPrefixWins
    ServingHasKeys
    KeyIsTheToolsOwn
    AccessFollowsTheContract
    OffersAreKept
    RegisteredHaveTheirRole
