\* Searches with an offset or a limit of their own.
SPECIFICATION Spec
CONSTANTS
    Agents = {alice, bob}
    Requests <- SomeRequests
    CliOptions <- SomeOptions
    Drivers = {"hedera", "base"}
    EncryptionKeys = {k1, k2}
    PageMax = 2
    DefaultLimit = 1
    MaxEntries = 3
    MaxTime = 1
    NotANumber = NotANumber
    BadAgent = BadAgent
    None = None
SYMMETRY Symmetry
INVARIANT PageIsAsAsked
