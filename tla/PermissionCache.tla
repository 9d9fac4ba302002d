-------------------------- MODULE PermissionCache --------------------------
(***************************************************************************)
(* The permission cache of src/src/rbac/cache.ts in front of the RBAC      *)
(* contract (src/contracts/RBAC.sol), read through the chain driver.       *)
(*                                                                         *)
(* Calls of get() overlap: the RBAC middleware and the RPC handler await   *)
(* them, nothing joins two reads of the same agent, and a read can be      *)
(* under way while its entry is replaced, invalidated or expires.  A read  *)
(* is evaluated by the chain node at one moment (ChainReads) and answered  *)
(* at a later one (ReadOk, ReadFails).                                     *)
(*                                                                         *)
(* A role is abstracted to its id.  The cache is keyed by the address as   *)
(* the caller spells it, and several spellings may name one agent.         *)
(***************************************************************************)
EXTENDS Integers

CONSTANTS
    Agents,
    Keys,           \* spellings of addresses that callers use
    AgentOf,        \* the agent a key names
    Roles,          \* role ids that can be set on the contract
    NoRole,         \* the zero role id: never set, or revoked
    Gets,           \* calls of get() that may overlap
    Unavailable,    \* the 503 result of get()
    None,           \* no entry, no call, no answer
    MaxAttempts,    \* retryConfig.maxAttempts (3 in the code)
    TTL,            \* ttlSeconds
    ReadTimeout,    \* the chain client answers or gives up within this time
    MaxTime         \* bound: the clock stops here

RoleIds == Roles \union {NoRole}
Entry   == [role : RoleIds, expiresAt : Int]
Call    == [at : {"reading", "read", "backoff"}, key : Keys,
            attempt : 0 .. MaxAttempts - 1, \* failed reads so far
            since : Int,                    \* when the current read was sent
            got : RoleIds]                  \* what the node read, once it did
Result  == [agent : Agents, role : RoleIds \union {Unavailable}, age : Int]

ASSUME KeyAssumption  == AgentOf \in [Keys -> Agents]
ASSUME TimeAssumption ==
    TTL \in Nat \ {0} /\ ReadTimeout \in Nat \ {0} /\ MaxTime \in Nat
ASSUME AttemptsAssumption == MaxAttempts \in Nat \ {0}
ASSUME RoleAssumption == Unavailable \notin RoleIds
ASSUME NoneAssumption == None \notin Entry \union Call \union Result

VARIABLES
    now,            \* Date.now()
    agentRoles,     \* the mapping of the RBAC contract
    cache,          \* per key, the cached role and its expiry
    call,           \* per get(), its suspended call
    \* history, read by the properties only
    lastHeld,       \* per agent and role, when the contract last gave it up
    answer          \* what the last step returned from a get(), if it did

chainVars == <<agentRoles, lastHeld>>
vars == <<now, chainVars, cache, call, answer>>

\* Before any moment that a role could be answered for.
LongAgo == 0 - (TTL + ReadTimeout + 1)

\* The latest moment so far at which agent a had role r on the contract.
HeldUntil(a, r) == IF agentRoles[a] = r THEN now ELSE lastHeld[a][r]

Init ==
    /\ now = 0
    /\ agentRoles \in [Agents -> RoleIds]
    /\ cache = [k \in Keys |-> None]
    /\ call = [g \in Gets |-> None]
    /\ lastHeld = [a \in Agents |-> [r \in RoleIds |-> LongAgo]]
    /\ answer = None

-----------------------------------------------------------------------------
(* The RBAC contract *)

\* setAgentRole or emergencyRevoke (r = NoRole) takes effect on the chain.
SetAgentRole(a, r) ==
    /\ agentRoles' = [agentRoles EXCEPT ![a] = r]
    /\ lastHeld' = [lastHeld EXCEPT ![a][agentRoles[a]] = now]
    /\ answer' = None
    /\ UNCHANGED <<now, cache, call>>

-----------------------------------------------------------------------------
(* get() *)

\* An entry is there and it has not expired.
Usable(k) == cache[k] # None /\ cache[k].expiresAt > now

\* get() returns role r.  Its age is the time since the contract last held it.
Return(k, r) ==
    answer' = [agent |-> AgentOf[k], role |-> r, age |-> now - HeldUntil(AgentOf[k], r)]

\* Variant: a hit renews the expiry of the entry.
GetHitRenews(g, k) ==
    /\ call[g] = None
    /\ Usable(k)
    /\ Return(k, cache[k].role)
    /\ cache' = [cache EXCEPT ![k].expiresAt = now + TTL]
    /\ UNCHANGED <<now, chainVars, call>>

GetHit(g, k) ==
    /\ call[g] = None
    /\ Usable(k)
    /\ Return(k, cache[k].role)
    /\ UNCHANGED <<now, chainVars, cache, call>>

GetMiss(g, k) ==
    /\ call[g] = None
    /\ ~Usable(k)
    /\ call' = [call EXCEPT ![g] =
           [at |-> "reading", key |-> k, attempt |-> 0, since |-> now, got |-> NoRole]]
    /\ answer' = None
    /\ UNCHANGED <<now, chainVars, cache>>

\* The chain node evaluates getAgentRole.
ChainReads(g) ==
    /\ call[g] # None
    /\ call[g].at = "reading"
    /\ call' = [call EXCEPT ![g].at = "read", ![g].got = agentRoles[AgentOf[call[g].key]]]
    /\ answer' = None
    /\ UNCHANGED <<now, chainVars, cache>>

\* The answer of the node arrives: the role is cached, from now on, and returned.
ReadOk(g) ==
    /\ call[g] # None
    /\ call[g].at = "read"
    /\ cache' = [cache EXCEPT ![call[g].key] =
           [role |-> call[g].got, expiresAt |-> now + TTL]]
    /\ call' = [call EXCEPT ![g] = None]
    /\ Return(call[g].key, call[g].got)
    /\ UNCHANGED <<now, chainVars>>

\* The read is under way, at the node or on its way back.
Reading(g) == call[g] # None /\ call[g].at \in {"reading", "read"}

\* The read fails and there are attempts left.
ReadRetries(g) ==
    /\ Reading(g)
    /\ call[g].attempt + 1 < MaxAttempts
    /\ call' = [call EXCEPT ![g].at = "backoff", ![g].attempt = @ + 1, ![g].got = NoRole]
    /\ answer' = None
    /\ UNCHANGED <<now, chainVars, cache>>

\* Variant: when the chain is down, get() falls back on the expired entry.
ReadGivesUpStale(g) ==
    /\ Reading(g)
    /\ call[g].attempt + 1 >= MaxAttempts
    /\ call' = [call EXCEPT ![g] = None]
    /\ IF cache[call[g].key] # None
       THEN Return(call[g].key, cache[call[g].key].role)
       ELSE answer' = [agent |-> AgentOf[call[g].key], role |-> Unavailable, age |-> 0]
    /\ UNCHANGED <<now, chainVars, cache>>

\* The last attempt fails: get() fails closed, and the cache is left alone.
ReadGivesUp(g) ==
    /\ Reading(g)
    /\ call[g].attempt + 1 >= MaxAttempts
    /\ call' = [call EXCEPT ![g] = None]
    /\ answer' = [agent |-> AgentOf[call[g].key], role |-> Unavailable, age |-> 0]
    /\ UNCHANGED <<now, chainVars, cache>>

BackoffEnds(g) ==
    /\ call[g] # None
    /\ call[g].at = "backoff"
    /\ call' = [call EXCEPT ![g].at = "reading", ![g].since = now]
    /\ answer' = None
    /\ UNCHANGED <<now, chainVars, cache>>

-----------------------------------------------------------------------------
(* invalidate(), clear(), and time *)

Invalidate(k) ==
    /\ cache' = [cache EXCEPT ![k] = None]
    /\ answer' = None
    /\ UNCHANGED <<now, chainVars, call>>

Clear ==
    /\ cache' = [k \in Keys |-> None]
    /\ answer' = None
    /\ UNCHANGED <<now, chainVars, call>>

\* Time does not pass a read that is older than the client's time-out: the read
\* fails before.
Tick ==
    /\ now < MaxTime
    /\ \A g \in Gets : Reading(g) => now < call[g].since + ReadTimeout
    /\ now' = now + 1
    /\ answer' = None
    /\ UNCHANGED <<chainVars, cache, call>>

GetStep(g) ==
    \/ \E k \in Keys : GetHit(g, k) \/ GetMiss(g, k)
    \/ ChainReads(g)
    \/ ReadOk(g)
    \/ ReadRetries(g)
    \/ ReadGivesUp(g)
    \/ BackoffEnds(g)

Next ==
    \/ \E a \in Agents, r \in RoleIds : SetAgentRole(a, r)
    \/ \E g \in Gets : GetStep(g)
    \/ \E k \in Keys : Invalidate(k)
    \/ Clear
    \/ Tick

Spec == Init /\ [][Next]_vars

-----------------------------------------------------------------------------
(* Properties *)

TypeOK ==
    /\ now \in 0 .. MaxTime
    /\ agentRoles \in [Agents -> RoleIds]
    /\ cache \in [Keys -> Entry \union {None}]
    /\ call \in [Gets -> Call \union {None}]
    /\ lastHeld \in [Agents -> [RoleIds -> Int]]
    /\ answer \in Result \union {None}

(* A role that get() returns was the agent's role on the contract less than     *)
(* TTL + ReadTimeout ago, whatever reads overlap, arrive late or are            *)
(* invalidated meanwhile, and however long the chain is down: a change of role  *)
(* (a revocation above all) is obeyed after that time at the latest, and an     *)
(* expired entry never stands in for a failed read (fail closed).               *)
BoundedStaleness == answer # None => answer.age < TTL + ReadTimeout

\* The node has read a role for call g, and the answer is on its way.
Bringing(g) == call[g] # None /\ call[g].at = "read"

(* The same for what may be answered later: an entry expires at most            *)
(* TTL + ReadTimeout after the contract last held the cached role, and a role   *)
(* on its way from the node is not older than its read.                         *)
EntriesExpireInTime ==
    /\ \A k \in Keys : cache[k] # None =>
           cache[k].expiresAt <= HeldUntil(AgentOf[k], cache[k].role) + TTL + ReadTimeout
    /\ \A g \in Gets : Bringing(g) =>
           call[g].since <= HeldUntil(AgentOf[call[g].key], call[g].got)

\* Nobody can be given role r of agent a any more: the contract does not hold it,
\* no usable entry has it and no read is bringing it.
Gone(a, r) ==
    /\ agentRoles[a] # r
    /\ \A k \in Keys : AgentOf[k] = a /\ Usable(k) => cache[k].role # r
    /\ \A g \in Gets : Bringing(g) /\ AgentOf[call[g].key] = a => call[g].got # r

(* Once a role is gone from the contract, the usable entries and the reads      *)
(* under way, only the contract can bring it back: no retry, expiry, overlap or *)
(* failure revives it, and no get() answers it in between.                      *)
GoneStaysGone ==
    [][\A a \in Agents, r \in RoleIds :
        Gone(a, r) /\ agentRoles'[a] # r =>
            /\ Gone(a, r)'
            /\ answer' # None /\ answer'.agent = a => answer'.role # r]_vars

-----------------------------------------------------------------------------
(* Refinement *)

Oracle == INSTANCE PermissionOracle WITH Staleness <- TTL + ReadTimeout

(* The cache keeps the promise of PermissionOracle: entries, expiries, retries, *)
(* overlaps and invalidations cannot be told from a direct question, except     *)
(* that the role answered may be TTL + ReadTimeout old.                         *)
ImplementsOracle == Oracle!Spec
=============================================================================
