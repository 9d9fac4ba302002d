# A verification project for zuul-proxy

Zuul is an HTTP gateway between AI agents and the tools they call. An agent signs
each request; the proxy recovers the signer, looks its role up on a contract,
injects the key of the tool, forwards the call and writes an encrypted audit entry
to a second contract. This directory holds TLA+ modules translated from that code
(`src/src`, `src/contracts`), the TLC configurations that check them, and proofs
for TLAPS.

## 1. Inventory

Everything runs in one Node.js process, so code interleaves at `await`s and timer
or signal callbacks only. The chain is reached over a JSON-RPC client that times
out.

| Component (source) | State | Operations | Talks to | What is hard | What makes it correct |
|---|---|---|---|---|---|
| Request pipeline (`api/server.ts`, `api/middleware/*`, `api/handlers/forward.ts`) | the context of each request | signature, permission check, audit, forward | all below | refusals are flags for a later handler; five awaits with failures; roles change meanwhile | no call without a recent permission; the trail says what happened; every request answered |
| ProxyExecutor (`proxy/executor.ts`) | the abort timer of a call | execute | the tools, KeyVault | timer against late headers, unbounded body | one call per request, with its own key |
| Signature verification (`auth/signature.ts`) | `nonceStore` | verify, cleanup (interval), destroy | pipeline | two deliveries at once, clock differences, expiry of nonces, restarts | a message is accepted once per run, and within its window |
| PermissionCache (`rbac/cache.ts`) | entries with expiry | get, invalidate, clear | chain driver, RBAC contract | overlapping reads, late answers, retries | staleness bounded, fail closed |
| RBAC contract (`contracts/RBAC.sol`) | role of each agent, as a hash | setAgentRole, emergencyRevoke | – | transactions are mined later; who hashes how | – |
| Emergency revocation (`api/handlers/admin.ts`) | – | direct write, fallback write, invalidate | chain, cache | two writes, either perhaps to another chain; lost answers, mining delay | what was reported as done is obeyed in bounded time |
| AuditQueue (`audit/store.ts`) | queue, flags, failed entries | enqueue, flush, writeWithRetry, drain, signal listener | audit contract | interval, drain and signals interleave; retries; requeue; lost answers | nothing lost or doubled inside; order; every entry written; shutdown ends |
| Audit contract and search (`contracts/Audit.sol`, `admin.ts`, `scripts/search-audit.ts`) | entries, index by agent | recordEntry, two paginated queries, search | chain driver, encryption | pages over a growing trail, two-pass scan, bad parameters, empty answers, another key | pages exact and stable; answers of one moment |
| Start (`index.ts`, `config/*`) | – | loadConfig, keys, createServer | environment | unset, empty and substituted names | no service without all keys |
| Tool registry, action mapper (`proxy/`) | immutable | findTool, getTool, inferAction | pipeline | overlapping and equal base URLs, duplicate keys | longest prefix |
| Key custody (`custody/`) | keys by tool | getKey, inject | executor | handles cut at colons, duplicates | each tool its own key |
| RPC discovery (`api/handlers/rpc.ts`) | – | tools/list, tools/describe | cache, registry | failed or earlier answers of the cache | offers what is permitted |
| Chain drivers (`chain/*`) | clients | callContract, writeContract, getRoleForAgent | – | time-outs; hash of role ids; two of three are simulations | the role that was registered is the role that is found |
| Encryption, logging, errors | the key | – | – | – | – |

PROJECT.json lists each with its status, and under "hazards" the places in the code
that tests hardly reach.

## 2. Modules

```
AuditLog <--------- implemented by --- AuditQueue       <-- AuditQueueProofs
    ^                                  SignedRequests   <-- SignedRequestsProofs
    |    PermissionOracle <-- impl. by --- PermissionCache <-- PermissionCacheProofs
    |        ^                                ^
    |        |                                +-- extended and implemented by --- Revocation <-- RevocationProofs
    |        |                         Pipeline         <-- PipelineProofs
    |        |                            ^                     ^
    +--------+------- used by ----------- Gateway       <-- GatewayProofs
                                       Registry <-- Access  <-- AccessProofs
                                       AuditSearch      <-- AuditSearchProofs
```

An `MC...` module extends each specification with symmetry and instance values; each
`.cfg` is one run. Definitions headed "Variant:" are plausible mistakes in the code
next to them. No action uses them; they serve to see that the properties notice.

**AuditQueue** (`audit/store.ts`, the two signal listeners). One action is the code
between two awaits. A call of `flush()` is named after its caller: a tick of the
interval, the drain of the queue's own listener (`Handler`), or the drain that the
server's listener makes for one delivered signal. `phase`, `batch` and `attempt` are
its local variables; `drainPc` and `drainAttempts` those of `drain()`. The answer of
a write is separate from the chain taking it (`ChainAccepts`, then `WriteOk`, or
`WriteDisputed` when the answer is lost). `FirstSignal` does what both listeners do
in one turn, in the order in which they were registered. **AuditLog** is what the
queue promises: a log that records every accepted entry at least once and
acknowledges only what was recorded.

**SignedRequests** (`auth/signature.ts`). `Deliver` puts a message into the recovery
of its signer; from the end of that await to the result the code does not yield, so
`RejectNonce`, `RejectDrift` and `Accept` check and store in one step. Messages can be
delivered any number of times, in parallel and late. `Cleanup` is the interval,
`Restart` empties the store.

**PermissionCache** (`rbac/cache.ts` in front of `contracts/RBAC.sol`). Calls of `get()`
overlap. `ChainReads` is the moment at which the node reads the role, `ReadOk` the later
one at which the answer arrives and is cached. Keys are spellings of addresses.
`lastHeld` remembers when the contract gave a role up, so that the age of an answer
can be stated. **PermissionOracle** is what the cache promises: a question is answered
with a role that the contract held less than `Staleness` ago, or refused. It knows no
entries, reads or retries; the cache implements it with `Staleness = TTL + ReadTimeout`.

**Revocation** (`performEmergencyRevoke`) extends the cache with the two writes, the
chain's pool of unmined transactions, lost answers and the invalidation. The direct write
goes to a node at a fixed address (`admin.ts:318`) and the fallback through the driver,
two of which only make up a hash (`evm.ts:120`, `local.ts:98`); `reaching` says which of the
writes go to the chain that the cache reads. It is fixed by the deployment, and any of
the four combinations. A write that does not reach that chain is `TakenElsewhere`.

**Pipeline** (`api/middleware`, `api/handlers/forward.ts`, `proxy/executor.ts`). `pc` names
the await a request is suspended in, `context` holds the keys that middlewares leave
for each other, `timer` is the abort timer. What verification and `get()` answer is
any of their results (the modules above say which can occur). The web framework
is external: it sends the response when all middlewares have returned, and 500 if no
handler returned one. `RequestStep` is the whole path.

**Gateway** is the pipeline together with what it relies on, each by its promise only:
`get()` answers with a role id that `PermissionOracle` allows (`ChecksRole`; `basis` and
`checkedAt` remember which and when), and the entry that the audit middleware enqueues is
accepted by an `AuditLog` (`Records`, `Acknowledges`). Roles change (`SetsRole`) and time
passes (`Passes`) between any two steps, and the process may exit.

**Registry** (`index.ts`, `config/*`, `proxy/tool-registry.ts`, `custody/*`) is the start of
the process: the configuration is loaded and checked, the keys are read from the
environment, the registry is built, and each of these may end the process instead. A URL
is a sequence of pieces and a tool key a sequence of words, cut where the code tells
them apart (`startsWith`, `split(':')`). **Access** puts what an agent may use on top of it:
the hash that the RBAC contract holds, the role that a driver finds for it, what
`tools/list` offers and what the permission check decides (`chain/*`, `api/handlers/rpc.ts`,
`api/middleware/rbac.ts`, `scripts/register-agents.ts`). A lookup (`Lookups`) is what PermissionOracle
allows: it finds the role of a hash that the contract holds or held until recently (`recent`,
from which `Forgets` drops the earlier ones, as time does in PermissionCache), or it fails.

**AuditSearch** (`contracts/Audit.sol`, `performAuditSearch`, `scripts/search-audit.ts`). Writes
are mined after they were taken; a search is evaluated by the node at one moment
(`NodeReads`) and answered at a later one. The driver turns an answer without data, or one
that it cannot decode, into an empty list (`hedera.ts:120`, `:132`). An entry is its agent,
time, identity and the key that sealed it.

## 3. Runs

| Run | Checks | Shows |
|---|---|---|
| `audit_safety` | `OneFlush`, `OnePlace`, `FifoUnlessRequeued`, `DuplicatesOnlyFromDisputes`, `FailedArePending`, `ImplementsAuditLog` | ticks, drains, signals, failures, lost answers and crashes over three entries lose, double or reorder nothing inside the queue |
| `audit_liveness` | `EntryEventuallyWritten`, `ShutdownTerminates` | entries are written if the chain does not refuse them for ever; a signal ends the process even if it does |
| `audit_graceful` (violated) | `GracefulDrain` | a drain that finds another flush in progress over an empty queue lets the process exit with the batch unwritten |
| `nonce_replay` | `NoReplay`, `AcceptedIsCovered`, `AcceptedNoncesExpire`, `ReplaysEnd` | nonce store and timestamp window hand over without a gap; restarts let a message in again only for two windows |
| `cache_staleness` | `BoundedStaleness`, `EntriesExpireInTime`, `GoneStaysGone`, `ImplementsOracle` | an answered role was held less than TTL + read time-out ago; a role that is gone stays gone |
| `revocation_safety` | `ReportedAreRefused`, `ImplementsPermissionCache` | an agent is refused mining time + TTL + read time-out after its revocation was reported by a write to the cache's chain |
| `revocation_race` (violated) | `NextRequestSeesRevocation` | a read of before the revocation fills the cache after the invalidation |
| `pipeline_binary` (violated) | `BodiesAreForwarded` | a text or binary body never reaches the agent |
| `gateway` | `TypeOK`, `OnlyPermittedCalls`, `AnsweredCallsAreAudited`, `RefusalsAreAudited`, `AuthenticatedAreAudited`, `RequestsAreAnswered` (of Pipeline); `TrailIsTrue`, `FreshAuthority`, `EveryCallIsRecorded` | refusals end in the forward handler and in the log, calls are recorded as they were answered, nothing stays suspended if the tools end their bodies; tools are called on a role held a bounded time ago; what is on the chain about a request is what happened, and calls come to be on it |
| `access` | `LongestPrefixWins`, `ServingHasKeys`, `KeyIsTheToolsOwn`, `AccessFollowsTheContract`, `OffersAreKept`, `RegisteredHaveTheirRole` | tool, key and decision are the right ones for overlapping tools, duplicate keys and permissions, unset variables and foreign hashes, while lookups fail or find earlier roles |
| `audit_search` | `TypeOK`, `PagesAreExact`, `SearchIsCurrent`, `PagesAreStable` | pages are those of a plain selection and never shift; an answer with rows is a whole first page of one moment |
| `search_paging` (violated) | `PageIsAsAsked` | the search drops the offset and the limit that it checked and repeats |

Every module has a type invariant (`TypeOK`, `RevocationTypeOK`, `GatewayTypeOK`); all are
theorems, and only two runs check one again.

The violated ones state a comment of the repository; PROJECT.json "findings" quotes the
lines. Several properties name in their text what they except, because the code does it:

- An event stream of a tool ends after the governance event (`StreamArrives`), because a
  web stream has no `pipe`.
- A revocation is reported before its transaction is mined, and it invalidates the
  spelling the admin used only; `ReportedAreRefused` therefore grants it the mining time
  and the staleness of the cache. It is about writes that reach the chain of the cache.
  The report looks the same when the write went elsewhere (another chain behind
  127.0.0.1:8545, `admin.ts:318`; a hash made up by the EVM or local driver, `evm.ts:120`,
  `local.ts:98`), and then the agent keeps its role: the "Immediately block a compromised
  agent" of the repository's README.md:145 does not hold. `TakenElsewhere` has these
  behaviours; no property could hold of them.
- `cleanup()` counts from the timestamp of the message, so a nonce lives up to two
  windows, not one (`AcceptedNoncesExpire`). A timestamp that is NaN passes the window
  check (`signature.ts:265`) and is never expired, so only the nonce store guards it:
  `NoReplay` covers it, `ReplaysEnd` speaks of numeric timestamps.
- The 503 of a failed permission lookup leaves no entry (`rbac.ts:124`), against the remark
  at `rbac.ts:149`; `AuthenticatedAreAudited` holds for everything else.
- The abort timer is cleared when the headers arrive (`executor.ts:110`), so the time-out of
  `executor.ts:34` does not cover the body; liveness needs `ToolFairness`.
- The search checks its limit and offset and then asks for the first 100 entries
  (`admin.ts:121`), so entries behind those are out of its reach (`search_paging`). A
  time that is no number passes the checks and ends in 500.
- An empty answer of a search may mean that the node's answer had no data or did not
  decode, and `SearchIsCurrent` says nothing else of it. In the same way an empty
  `tools/list` may mean that the lookup failed (`rpc.ts:112`): `OffersAreKept` is about lists
  from a lookup that succeeded, and about requests whose own lookup does (503 otherwise).
  It and `RegisteredHaveTheirRole` speak of agents whose earlier roles the cache has forgotten.
- JSON without a body, as for HEAD or 204, is answered like a text body: not at all
  (`BodyIsAbsent`, `executor.ts:126`).
- The EVM and local drivers are simulations: they acknowledge writes that go nowhere, and
  their `{}` in answer to a search ends in 500. On them, no agent of `register-agents.ts` is
  known: that script pads role ids before it hashes them, the EVM driver does not.
  `RegisteredHaveTheirRole` is about the Hedera driver.
- A tool key with a colon gets the key of another tool or none (`key-vault.ts:79`);
  `KeyIsTheToolsOwn` is about the others. With one base URL for two tools the second is
  offered by `tools/list` and never reached (`OffersAreKept`).

### Bounds

Constants only bound the instance that TLC sees; the proofs hold for all.

- `AuditQueue`: 2 or 3 entries (a batch of more than one, and one that arrives during
  a flush), 1 or 2 ticks and 2 signals (each can meet a flush of any other),
  `MaxAttempts` 2 (one retry, then requeue; 3 in `audit_graceful`, as in the code),
  `MaxDrain` 2, 3 or 10 (reached by requeues), `MaxDisputed` 0 or 1 lost answers: one
  is enough for a duplicate, and each duplicate needs its own.
- `SignedRequests`: window 1, times up to 4, timestamps 0 and 2 (behind, at and ahead of
  the clock) and NaN, two requests at once and two agents with one nonce: a message can be
  accepted, forgotten and delivered again, and both its windows end.
- `PermissionCache`, `Revocation`: read time-out 1; TTL 2 and times up to 4 for the cache (an
  entry expires while a read is under way); TTL 1, mining time 1 and times up to 3 for
  `revocation_safety`, so that the bound of `ReportedAreRefused` ends within the run, and TTL 2
  for `revocation_race`. Two calls of `get()`, two spellings, one agent: agents share nothing.
- `Gateway`, and `Pipeline` in it: one request, since requests share only the clock, the
  contract and the process, which all change on their own here (the theorems are about
  any number, and `pipeline_binary` has two); the tool's status is 200, 404 or 503, one of
  each class that `errorType` distinguishes; three roles (one that permits, one that does not,
  zero), staleness 2 and request time-out 2 within times up to 4, so a role can be given
  up, answered and used at the edge of both; an entry recorded up to twice.
- `Access`: lists of up to three tools that overlap (in both orders), share a base URL or a
  key, or have a colon; lists of roles with a permission twice and an id that does not
  fit; every variable once unset and once empty; two agents and accounts; one foreign
  hash, which the EVM driver knows and the Hedera driver does not; `MaxRecent` 3, so that
  one agent at a time has an earlier role that is still answered.
- `AuditSearch`: pages of two entries and three writes, so a page overflows, and a default
  limit of one, smaller than a page, as in the code; two agents, two times, two keys; requests with each filter and each kind of bad parameter.

`CHECK_DEADLOCK FALSE` is set where the program may stop: an audit queue whose process
exited, and requests that all have been answered.

### Fairness

`SchedulingFairness` (AuditQueue): timers fire, and a write is always answered, since the
client times out. Nothing makes clients enqueue, users signal or the process crash.
`ChainFairness`, which only `EntryEventuallyWritten` assumes, is strong: the chain takes an
entry that is submitted again and again. Without it nothing could be delivered.
`Fairness` (Pipeline): recovery, `get()` (bounded retries, reads time out) and the audit end,
Node bounds the time an agent may take to send its request, and the abort timer fires.
`ToolFairness` (the tools end the bodies they began) is a premise of `RequestsAreAnswered` and
`EveryCallIsRecorded` only. `LogFairness` (Gateway) is what `EntryEventuallyWritten` gives: the
log records what it accepted.

## 4. Proofs

| Module | Theorem | States |
|---|---|---|
| `AuditQueueProofs` | `TypeCorrect`, `FlushIsExclusive`, `NothingLostInside`, `Refinement`, `FailedStayPending`, `DuplicatesAreDisputed`, `WrittenInOrder` | `TypeOK`, `OneFlush`, `OnePlace`, `ImplementsAuditLog`, `FailedArePending`, `DuplicatesOnlyFromDisputes`, `FifoUnlessRequeued` |
| `SignedRequestsProofs` | `TypeCorrect`, `CoverIsKept`, `ReplayFree`, `ReplayIsBounded`, `NoncesExpire` | `TypeOK`, `AcceptedIsCovered`, `NoReplay`, `ReplaysEnd`, `AcceptedNoncesExpire` |
| `PermissionCacheProofs` | `TypeCorrect`, `ExpiryIsInTime`, `StalenessIsBounded`, `GoneIsStable`, `CacheRefinesOracle` | `TypeOK`, `EntriesExpireInTime`, `BoundedStaleness`, `GoneStaysGone`, `ImplementsOracle` |
| `RevocationProofs` | `RevocationTypeCorrect`, `Refinement`, `RevokedAreRefused`, `RevocationKeepsOracle`, `ReportsHold` | `RevocationTypeOK`, `ImplementsPermissionCache`, `BoundedStaleness` and `ImplementsOracle` of the composition, `ReportedAreRefused` |
| `PipelineProofs` | `TypeCorrect`, `PermittedOnly`, `CallsLeaveEntries`, `RefusalsLeaveEntries`, `AuthenticatedLeaveEntries` | `TypeOK`, `OnlyPermittedCalls`, `AnsweredCallsAreAudited`, `RefusalsAreAudited`, `AuthenticatedAreAudited` |
| `GatewayProofs` | `GatewayIsPipeline`, `GatewayTypeCorrect`, `TrailTellsTheTruth`, `AuthorityIsFresh`, `LogIsKept` | `Spec` of Pipeline, `GatewayTypeOK`, `TrailIsTrue`, `FreshAuthority`, `Spec` of AuditLog |
| `AccessProofs` | `TypeCorrect`, `LongestWins`, `AllKeysLoaded`, `OwnKey`, `ContractDecides`, `DiscoveryIsAccess`, `RegistrationHolds` | `TypeOK`, `LongestPrefixWins`, `ServingHasKeys`, `KeyIsTheToolsOwn`, `AccessFollowsTheContract`, `OffersAreKept`, `RegisteredHaveTheirRole` |
| `AuditSearchProofs` | `TypeCorrect`, `ExactPages`, `CurrentAnswers`, `StablePages` | `TypeOK`, `PagesAreExact`, `SearchIsCurrent`, `PagesAreStable` |

All are proved from the safety specification, without fairness. The assumptions are the
named ASSUMEs of the modules: the callers are distinct (`CallersAssumption`); limits and times
are numbers, and retry limits, staleness and the request time-out are positive
(`BoundsAssumption`, `AttemptsAssumption`, `TimeAssumption`, `WindowAssumption`,
`StatusAssumption`, `GatewayTimeAssumption`), a page has room for an entry and the default limit
fits on it; every key names an
agent (`KeyAssumption`) and every request of the pipeline an agent and its permitting roles; a search
is a record of its parameters, each of which may be missing or malformed (`RequestAssumption`); `AutoMine` is a Boolean and the
mining time a number (`MiningAssumption`); `MaxRecent` is one (`RecentAssumption`); the markers for "nothing", "not a number" and "no role" are not values of
the sets they mark (`NoneAssumption`, `NaNAssumption`, `RoleAssumption`, `NoneIsNoRevoke`,
`NoRoleAssumption`, `ParameterAssumption`); configurations are lists of tools and roles whose key
variables the environments know (`ConfigAssumption`), with the four actions
(`PermissionAssumption`); accounts are agents, chains are the three, and the zero hash is no
role's (`AccountAssumption`, `ChainAssumption`, `HashAssumption`). TLC evaluates them in every run.

- *Audit queue.* `OneFlush` is not inductive: that a drain resumes only its own flush needs
  `DrainShape`, which ties `drainPc` to `phase`. `FlushInv` is `TypeOK`, `OneFlush` and
  `DrainShape`. `OnePlace` then follows action by action (`PlaceInv`), since only one batch
  is non-empty; the refinement needs that an accepted write is in the ledger (`LogInv`).
- *Audit delivery.* From one place: what is held is not written, so a failed entry is still
  held (`FailedInv`) and its transactions are counted by its lost answers and the write
  under way (`CountInv`); order is kept because what is enqueued, in a batch or written without
  requeue stands in the order of `enqueued` across all three (`OrderInv`).
- *Signed requests.* An accepted message stays covered by its stored nonce or its expired
  timestamp (`AcceptedIsCovered`); so when it comes again it is either known or outside
  the window. The proof rests on `cleanup()` and the window comparing with one constant.
  That acceptances are within a window of the timestamp bounds them over restarts, too.
- *Permission cache.* A cached role expires at most TTL + read time-out after the contract
  last held it, because a read is no older than the time-out: `EntriesExpireInTime` is the
  strengthening from which `BoundedStaleness` follows, and from it the refinement of
  `PermissionOracle`, step by step.
- *Revocation.* Each step of the composition is a step of the cache or leaves it alone, which
  gives the refinement and the staleness bound after the mining. `RevocationInv` adds that
  what a node of the chain took is mined or in the pool, and in the pool no longer than the
  mining time, and that no role came back since: so when the time of `ReportedAreRefused` is
  over, the contract has lacked the role for as long as any answer may be old (`AnsweredInTime`).
- *Pipeline.* `Stage` says what context, role and calls are at every await, `Apart` that
  calls and refusals exclude each other, `Recorded` what the audit leaves. One request at a
  time: `OthersKept` shows that requests do not touch each other.
- *Gateway.* Each step is one of the pipeline or leaves it alone, so `PipelineInv` holds.
  `Based` ties the flags of a request to the role that was answered, `Earned` a success to a call,
  `Sealed` the entry to both. That entries are enqueued once, by a living process, makes every step one of
  `AuditLog` (`GatewayLogStep`), so the promise that AuditQueue keeps is all that the gateway
  uses. `Authority` is what ages while the body is awaited: the role was fresh at
  `checkedAt`, which is at most a request time-out ago; `HeldInv` keeps it from being backdated.
- *Access.* That a sort by length has a result is shown by counting, for each tool, the tools
  that sort before it (`SortExists`); its first hit is the closest tool (`ClosestTool`).
  `AccessInv` keeps registry and vault as the start left them (`Started`), the current hash among
  the recent ones (`RecentInv`), each offer one that a lookup which finds a role still gives
  (`OffersInv`), registered agents with their hash (`OwnInv`), and each answer one that the
  current state could give (`AnswerInv`). With one recent hash, offer and decision come from one
  role (`SettledLookup`, `SettledVerdict`); what a duplicate permission leaves is `MapIsLast`.
- *Audit search.* A page is the positions whose rank among the wanted ones is `offset` to
  `offset + limit - 1` (`PageOf`). `IndexInv` keeps the index of an agent listing its entries by rank,
  so its slice is the page. For the two passes of the time range, what the scan has after `i`
  entries is stated by ranks and shown by induction over the set of numbers for which it is so
  (`Induction`, by a least missing one; `ScanExists`, `ScanStep`). Ranks of old positions do not
  change when an entry is mined (`RankAgrees`), so pages only grow (`PageGrows`). For the search,
  `IdInv` numbers the entries in their order, and `SearchInv` says that what a search got is empty
  or the first page of some moment since it began.

Only model-checked: the liveness properties (`EntryEventuallyWritten`, `ShutdownTerminates`,
`RequestsAreAnswered`, `EveryCallIsRecorded`) with their fairness, since TLAPS does not do ENABLED.
Every other property of a passing run is a theorem.

## 5. Not modelled

- `destroy()` of queue and cache: called by tests, or on the way to exit.
- Clocks that are set back. Lengths of time-outs and back-offs.
- A limit of the audit queue: the code has none, so no property bounds it.
- Contract access control: the proxy is assumed to be the account that may write.
- Hashing and encryption beyond which key sealed an entry. The hash of the request that the
  audit middleware records is that of a stream object, the same for all (`audit.ts:49`), so
  nothing could be said about it.
- `rbac/contract.ts` and `rbac/permission.ts`: no running code uses them, and
  `hasPermission` always answers true.
- Wording and layout of answers, logging, error codes, health.
- The demo and the deployment scripts. `setup-agents.ts` first calls a function that `RBAC.sol`
  does not have and stops when that call fails; the unpadded hashes it would register are
  among the foreign ones of `Access`.
- `loadKeysFromEnv` is not called; `main` has a loop of its own that does the same, and both
  are `KeysFromEnv`.

## 6. Plan

Done: the core (AuditQueue with AuditLog, SignedRequests, PermissionCache, Revocation,
Pipeline), then PermissionOracle, AuditSearch, Registry and Access, and the composition in
Gateway, with proofs of all safety properties, action properties and refinements.

Left:

1. The gateway with real messages of `SignedRequests` in front of it, so that a trail entry is tied to
   a signed message.
2. Lengths of the back-offs, for a bound on the time that a shutdown takes.
