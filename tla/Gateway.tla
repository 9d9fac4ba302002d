------------------------------ MODULE Gateway ------------------------------
(***************************************************************************)
(* The requests to /forward together with what they rely on: the           *)
(* permission cache, of which only the promise of PermissionOracle is used *)
(* (PermissionCache implements it), and the audit queue, of which only the *)
(* promise of AuditLog is used (AuditQueue implements it).  The process    *)
(* may exit at any moment, the owner of the RBAC contract may change a     *)
(* role at any moment, and time passes while requests are suspended.       *)
(*                                                                         *)
(* The steps of a request are those of Pipeline.  What get() answers is no *)
(* longer arbitrary but a role id that the contract held for the agent     *)
(* less than Staleness ago; an audit entry that is enqueued is accepted by *)
(* the log.                                                                *)
(***************************************************************************)
EXTENDS Pipeline

CONSTANTS
    Agents,
    RoleIds,
    Zero,           \* the role id of a revoked agent
    AgentOf,        \* per request, the agent that signed it
    Permitting,     \* per request, the roles that permit its action on its tool
    Staleness,      \* of the permission cache: its TTL and the time-out of a read
    RequestTimeout, \* Node closes a connection whose request takes longer
    LongAgo,        \* before any moment that a role could be answered for
    MaxTime,        \* bound: the clock stops here
    MaxRecords      \* bound: an entry is recorded at most so often

ASSUME RequestAssumption ==
    /\ AgentOf \in [Requests -> Agents]
    /\ Permitting \in [Requests -> SUBSET (RoleIds \ {Zero})]
    /\ Zero \in RoleIds /\ None \notin RoleIds
ASSUME GatewayTimeAssumption ==
    /\ Staleness \in Nat \ {0} /\ RequestTimeout \in Nat \ {0}
    /\ MaxTime \in Nat /\ MaxRecords \in Nat
    /\ LongAgo \in Int /\ LongAgo <= 0 - Staleness

VARIABLES
    now,            \* the clock
    agentRoles,     \* the RBAC contract
    lastHeld,       \* per agent and role, when the contract last gave it up
    recorded,       \* per request, how often its entry is on the chain
    acknowledged,   \* requests whose entry the queue knows to be on the chain
    \* history, read by the properties only
    basis,          \* per request, the role id that get() answered
    checkedAt       \* per request, when it did

oracleVars  == <<now, agentRoles, lastHeld>>
logVars     == <<recorded, acknowledged>>
basisVars   == <<basis, checkedAt>>
gatewayVars == <<vars, oracleVars, logVars, basisVars>>

\* An answer of the cache is used up in the step that gives it.
Oracle == INSTANCE PermissionOracle WITH Unavailable <- None, answer <- None

\* The queue accepts the entry of a request when the audit middleware enqueues it.
Log == INSTANCE AuditLog
           WITH Entries <- Requests, accepted <- {r \in Requests : entry[r] # None},
                open <- alive

GatewayInit ==
    /\ Init
    /\ Oracle!Init
    /\ recorded = [r \in Requests |-> 0]
    /\ acknowledged = {}
    /\ basis = [r \in Requests |-> None]
    /\ checkedAt = [r \in Requests |-> 0]

\* What the permission check makes of role id q for request r.
Verdict(r, q) ==
    CASE q = Zero                         -> "inactive"
      [] q # Zero /\ q \in Permitting[r]    -> "permits"
      [] q # Zero /\ q \notin Permitting[r] -> "forbids"

-----------------------------------------------------------------------------

\* get() answers the middleware of request r.
ChecksRole(r, q) ==
    /\ Oracle!Fresh(AgentOf[r], q)
    /\ CheckAnswers(r, Verdict(r, q))
    /\ basis' = [basis EXCEPT ![r] = q]
    /\ checkedAt' = [checkedAt EXCEPT ![r] = now]
    /\ UNCHANGED <<oracleVars, logVars>>

\* Every other step of a request.
GoesOn(r) ==
    /\ \/ \E s \in {400, 401, 500} : Reject(r, s)
       \/ StartVerification(r)
       \/ VerificationEnds(r)
       \/ CheckFails(r)
       \/ RequestBodyEnds(r)
       \/ FetchEnds(r)
       \/ ResponseBodyEnds(r)
       \/ AuditEnds(r)
    /\ UNCHANGED <<oracleVars, logVars, basisVars>>

Exits == Exit /\ UNCHANGED <<oracleVars, logVars, basisVars>>

\* The contract changes a role.
SetsRole(a, q) ==
    /\ Oracle!SetAgentRole(a, q)
    /\ UNCHANGED <<vars, logVars, basisVars>>

\* The queue writes the entry of a request to the chain, or learns that it did.
Records(r) ==
    /\ recorded[r] < MaxRecords
    /\ UNCHANGED <<vars, oracleVars, basisVars>>
    /\ Log!Record(r)

Acknowledges(r) ==
    /\ UNCHANGED <<vars, oracleVars, basisVars>>
    /\ Log!Acknowledge(r)

\* Time passes; a body for which the handler waits has come or has failed before
\* the time of its request is over.
Passes ==
    /\ now < MaxTime
    /\ \A r \in Requests : At(r, "requestBody") => now < checkedAt[r] + RequestTimeout
    /\ Oracle!Tick
    /\ UNCHANGED <<vars, logVars, basisVars>>

GatewayNext ==
    \/ \E r \in Requests :
          \/ \E q \in RoleIds : ChecksRole(r, q)
          \/ GoesOn(r)
          \/ Records(r)
          \/ Acknowledges(r)
    \/ \E a \in Agents, q \in RoleIds : SetsRole(a, q)
    \/ Passes
    \/ Exits

GatewaySpec == GatewayInit /\ [][GatewayNext]_gatewayVars

(* Fairness.  That of the requests, and the log records what it accepted: the   *)
(* queue does so under its own fairness (AuditQueue, EntryEventuallyWritten).   *)
LogFairness ==
    \A r \in Requests : WF_gatewayVars(recorded[r] = 0 /\ Records(r))

GatewayFairSpec == GatewaySpec /\ Fairness /\ LogFairness

-----------------------------------------------------------------------------
(* Properties *)

GatewayTypeOK ==
    /\ TypeOK
    /\ now \in 0 .. MaxTime
    /\ agentRoles \in [Agents -> RoleIds]
    /\ lastHeld \in [Agents -> [RoleIds -> Int]]
    /\ recorded \in [Requests -> 0 .. MaxRecords]
    /\ acknowledged \subseteq {r \in Requests : entry[r] # None}
    /\ basis \in [Requests -> RoleIds \union {None}]
    /\ checkedAt \in [Requests -> 0 .. MaxTime]

(* A tool is called on the authority of a role that permits it and that the     *)
(* contract held for the agent a bounded time ago, although the permission is   *)
(* checked before the handler waits for the agent's body and nothing looks at   *)
(* the contract again (forward.ts:155): the bound is the age of a cached role   *)
(* plus the time that Node gives a request.                                     *)
FreshAuthority ==
    [][\A r \in Requests :
        calls'[r] # calls[r] =>
            /\ basis[r] # None
            /\ Verdict(r, basis[r]) = "permits"
            /\ now - Oracle!HeldUntil(AgentOf[r], basis[r])
                   < Staleness + RequestTimeout]_gatewayVars

(* What the trail on the chain says of a request is true: a success was called  *)
(* and was permitted by the role that get() answered, a revoked agent had the   *)
(* zero role, a denied one a role without the permission, and no refused        *)
(* request reached a tool.                                                      *)
TrailIsTrue ==
    \A r \in Requests :
        recorded[r] > 0 =>
            CASE entry[r].error = "" ->
                     calls[r] = 1 /\ basis[r] \in Permitting[r]
              [] entry[r].error = "permission/agent_revoked" ->
                     calls[r] = 0 /\ basis[r] = Zero
              [] entry[r].error = "permission/no_action_access" ->
                     calls[r] = 0 /\ basis[r] \in RoleIds \ (Permitting[r] \union {Zero})
              [] entry[r].error = "request/unknown_tool" ->
                     calls[r] = 0 /\ basis[r] = None
              [] OTHER -> calls[r] = 0 \/ basis[r] \in Permitting[r]

(* If the tools end the bodies they begin, every call of a tool comes to be on  *)
(* the chain, unless the process ends before (server.ts:297 waits for the queue *)
(* and not for requests under way) or its payload cannot be encrypted.          *)
EveryCallIsRecorded ==
    ToolFairness =>
        \A r \in Requests :
            calls[r] > 0 ~> (recorded[r] > 0 \/ r \in unsealed \/ ~alive)
=============================================================================
