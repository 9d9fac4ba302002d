------------------------------- MODULE Access -------------------------------
(***************************************************************************)
(* What an agent may use, from the RBAC contract through the chain driver  *)
(* to the two places that read it: the discovery of tools                  *)
(* (src/src/api/handlers/rpc.ts) and the permission check of a request     *)
(* (src/src/api/middleware/rbac.ts), on top of the registry and the vault  *)
(* of the running process.                                                 *)
(*                                                                         *)
(* The contract holds a hash of a role id.  The hash depends on how the id *)
(* is encoded, padded to 32 bytes or not, and the drivers and scripts do   *)
(* not all do it the same way.  A lookup goes through the permission cache  *)
(* and the driver: it is answered with a hash that the contract holds or   *)
(* held until recently, as PermissionOracle promises, or it fails.         *)
(***************************************************************************)
EXTENDS Registry

CONSTANTS
    Agents,
    Accounts,       \* the test accounts of register-agents.ts, in order
    LongIds,        \* role ids of more than 32 bytes
    Foreign,        \* hashes that others may put on the contract
    Targets,        \* target URLs that agents ask for
    Chains,         \* chain.name of the configuration
    Zero,           \* the zero hash: never set, or revoked
    MaxRecent       \* bound: hashes that lookups may find, of all agents

Methods == {"GET", "HEAD", "POST", "PUT", "PATCH", "DELETE"}
Actions == {"read", "create", "update", "delete"}

RoleIds == {h.id : h \in Foreign} \union
           UNION {{c.roles[i].id : i \in DOMAIN c.roles} : c \in Configs}
Hash    == [id : RoleIds, padded : BOOLEAN]

ASSUME AccountAssumption == Accounts \in Seq(Agents)
ASSUME PermissionAssumption ==
    \A c \in Configs : \A i \in DOMAIN c.roles : \A m \in DOMAIN c.roles[i].permissions :
        c.roles[i].permissions[m].actions \subseteq Actions
ASSUME ChainAssumption == Chains \subseteq {"hedera", "base", "local"}
ASSUME HashAssumption == Foreign \subseteq Hash /\ Zero \notin Hash
ASSUME RecentAssumption == MaxRecent \in Nat

VARIABLES
    chain,          \* the chain the process is configured for
    agentRoles,     \* the mapping of the RBAC contract
    recent,         \* per agent, the hashes that a lookup may be answered with
    registered,     \* roles that register-agents.ts has registered so far
    \* history, read by the properties only
    own,            \* per agent, the role that the script gave it and it still has
    offered,        \* per agent, what the last tools/list that found a role
                    \* offered since the agent's recent hashes changed
    answer          \* what the last step answered, if it did

vars == <<startVars, chain, agentRoles, recent, registered, own, offered, answer>>

Init ==
    /\ StartInit
    /\ chain \in Chains
    /\ agentRoles = [a \in Agents |-> Zero]
    /\ recent = [a \in Agents |-> {Zero}]
    /\ registered = 0
    /\ own = [a \in Agents |-> 0]
    /\ offered = [a \in Agents |-> None]
    /\ answer = None

Starts ==
    /\ Start
    /\ answer' = None
    /\ UNCHANGED <<chain, agentRoles, recent, registered, own, offered>>

-----------------------------------------------------------------------------
(* The RBAC contract and register-agents.ts *)

Changed(a, h, i) ==
    /\ agentRoles' = [agentRoles EXCEPT ![a] = h]
    /\ recent' = [recent EXCEPT ![a] = @ \union {h}]
    /\ Cardinality(UNION {{b} \X recent'[b] : b \in Agents}) <= MaxRecent
    /\ own' = [own EXCEPT ![a] = i]
    /\ offered' = [offered EXCEPT ![a] = None]
    /\ answer' = None
    /\ UNCHANGED <<startVars, chain>>

SetAgentRole(a, h) ==
    /\ Changed(a, h, 0)
    /\ UNCHANGED registered

EmergencyRevoke(a) ==
    /\ Changed(a, Zero, 0)
    /\ UNCHANGED registered

\* Variant: the script hashes without padding, as setup-agents.ts does.
RegisterUnpadded ==
    LET i == registered + 1 IN
    /\ i <= Len(Accounts) /\ i <= Len(config.roles)
    /\ config.roles[i].id \notin LongIds
    /\ Changed(Accounts[i], [id |-> config.roles[i].id, padded |-> FALSE], i)
    /\ registered' = i

\* The next role goes to the next account, hashed with padding.  A failed
\* transaction or an id that does not fit ends the script where it is.
RegisterNext ==
    LET i == registered + 1 IN
    /\ i <= Len(Accounts) /\ i <= Len(config.roles)
    /\ config.roles[i].id \notin LongIds
    /\ Changed(Accounts[i], [id |-> config.roles[i].id, padded |-> TRUE], i)
    /\ registered' = i

\* What the cache and the reads under way kept of the roles before has expired:
\* from now on a lookup finds the current one.
Forgets(a) ==
    /\ recent[a] # {agentRoles[a]}
    /\ recent' = [recent EXCEPT ![a] = {agentRoles[a]}]
    /\ offered' = [offered EXCEPT ![a] = None]
    /\ answer' = None
    /\ UNCHANGED <<startVars, chain, agentRoles, registered, own>>

-----------------------------------------------------------------------------
(* getRoleForAgent() of the drivers, and what the cache makes of it *)

\* The permissions by tool: Map.set leaves the last entry for a tool.
PermissionMap(role) ==
    LET entries(t) == {i \in DOMAIN role.permissions : role.permissions[i].tool = t}
    IN  [t \in {role.permissions[i].tool : i \in DOMAIN role.permissions} |->
            role.permissions[Max(entries(t))].actions]

Unavailable == [isActive |-> FALSE, permissions |-> None]
WithoutPermissions(isActive) == [isActive |-> isActive, permissions |-> << >>]

\* Variant: a hash without a matching role stands for the first role.
HederaRoleOrFirst(h) ==
    LET Stops(i) == config.roles[i].id \in LongIds
                    \/ h = [id |-> config.roles[i].id, padded |-> TRUE]
        stops == {i \in DOMAIN config.roles : Stops(i)}
    IN  IF stops = {} THEN [isActive |-> h # Zero, permissions |-> PermissionMap(config.roles[1])]
        ELSE IF config.roles[Min(stops)].id \in LongIds THEN Unavailable
        ELSE [isActive |-> h # Zero, permissions |-> PermissionMap(config.roles[Min(stops)])]

\* The first role of the configuration with this hash.  The hash of an id that
\* does not fit into 32 bytes throws, and so does the search that comes to it.
HederaRole(h) ==
    LET Stops(i) == config.roles[i].id \in LongIds
                    \/ h = [id |-> config.roles[i].id, padded |-> TRUE]
        stops == {i \in DOMAIN config.roles : Stops(i)}
    IN  IF stops = {} THEN WithoutPermissions(h # Zero)
        ELSE IF config.roles[Min(stops)].id \in LongIds THEN Unavailable
        ELSE [isActive |-> h # Zero, permissions |-> PermissionMap(config.roles[Min(stops)])]

\* The same without padding.
EvmRole(h) ==
    LET stops == {i \in DOMAIN config.roles : h = [id |-> config.roles[i].id, padded |-> FALSE]}
    IN  IF stops = {} THEN WithoutPermissions(h # Zero)
        ELSE [isActive |-> h # Zero, permissions |-> PermissionMap(config.roles[Min(stops)])]

\* The mock knows no agent outside of tests.
LocalRole == WithoutPermissions(FALSE)

RoleRead(h) ==
    CASE chain = "hedera" -> HederaRole(h)
      [] chain = "base"   -> EvmRole(h)
      [] chain = "local"  -> LocalRole

\* What get() may return: the role of a recent hash, or an error once every
\* attempt to reach the node has failed.  The mock needs no node.
Lookups(a) ==
    {RoleRead(h) : h \in recent[a]} \union (IF chain = "local" THEN {} ELSE {Unavailable})

-----------------------------------------------------------------------------
(* Discovery: POST /rpc *)

OfferOf(role, shown) ==
    UNION {{[tool |-> k, action |-> act] : act \in role.permissions[k]} : k \in shown}

\* Variant: a tool with a single action is left out.
OfferSeveral(role) ==
    OfferOf(role, {k \in DOMAIN tools \intersect DOMAIN role.permissions :
                      Cardinality(role.permissions[k]) > 1})

\* The tools of the registry for which the role has a permission.
Offer(role) ==
    OfferOf(role, {k \in DOMAIN tools \intersect DOMAIN role.permissions :
                      role.permissions[k] # {}})

\* What tools/list shows: nothing if the role is unknown or not active, and
\* nothing, with the same status, if there was no role to be had.
Offers(role) == IF role.isActive THEN Offer(role) ELSE {}

ToolsList(a) ==
    /\ phase = "serving"
    /\ \E role \in Lookups(a) :
          /\ offered' = [offered EXCEPT ![a] = IF role = Unavailable THEN @ ELSE Offers(role)]
          /\ answer' = [kind |-> "list", agent |-> a, status |-> 200, tools |-> Offers(role)]
    /\ UNCHANGED <<startVars, chain, agentRoles, recent, registered, own>>

\* tools/describe, without a key, with a key that no tool has, or with one.
ToolsDescribe(k) ==
    /\ phase = "serving"
    /\ answer' = IF k = None THEN [kind |-> "describe", status |-> 400]
                 ELSE IF GetTool(k) = None THEN [kind |-> "describe", status |-> 404]
                 ELSE [kind |-> "describe", status |-> 200]
    /\ UNCHANGED <<startVars, chain, agentRoles, recent, registered, own, offered>>

\* No JSON-RPC 2.0 request with one of the two methods (400); a body that is no
\* JSON, or null, throws (500).
RpcMalformed ==
    /\ phase = "serving"
    /\ \E s \in {400, 500} : answer' = [kind |-> "malformed", status |-> s]
    /\ UNCHANGED <<startVars, chain, agentRoles, recent, registered, own, offered>>

-----------------------------------------------------------------------------
(* A request to /forward, as far as the decision and the key *)

InferAction(method) ==
    CASE method \in {"GET", "HEAD"} -> "read"
      [] method = "POST" -> "create"
      [] method \in {"PUT", "PATCH"} -> "update"
      [] method = "DELETE" -> "delete"

Verdict(role, tool, action) ==
    IF role = Unavailable THEN "unavailable"
    ELSE IF ~role.isActive THEN "revoked"
    ELSE IF tool \in DOMAIN role.permissions /\ action \in role.permissions[tool] THEN "permits"
    ELSE "denies"

\* What the request leads to, with the key that it is forwarded with.
ForwardAnswer(a, target, method, role) ==
    LET tool    == FindTool(target)
        action  == InferAction(method)
        verdict == IF tool = None THEN "unknownTool" ELSE Verdict(role, tool.key, action)
    IN  [kind |-> "forward", agent |-> a, target |-> target, action |-> action,
         verdict |-> verdict, tool |-> IF tool = None THEN None ELSE tool.key,
         key |-> IF verdict = "permits" THEN Inject(tool.key) ELSE None]

Forward(a, target, method) ==
    /\ phase = "serving"
    /\ \E role \in Lookups(a) : answer' = ForwardAnswer(a, target, method, role)
    /\ UNCHANGED <<startVars, chain, agentRoles, recent, registered, own, offered>>

-----------------------------------------------------------------------------

Next ==
    \/ Starts
    \/ \E a \in Agents :
          \/ \E h \in Foreign : SetAgentRole(a, h)
          \/ EmergencyRevoke(a)
          \/ Forgets(a)
          \/ ToolsList(a)
          \/ \E target \in Targets, m \in Methods : Forward(a, target, m)
    \/ RegisterNext
    \/ \E k \in ToolKeysOf(config) \union {<<"nosuchtool">>, None} : ToolsDescribe(k)
    \/ RpcMalformed

Spec == Init /\ [][Next]_vars

-----------------------------------------------------------------------------
(* Properties *)

Secrets == (UNION {{e[n] : n \in DOMAIN e} : e \in Envs}) \ {Unset, Empty}

TypeOK ==
    /\ phase \in {"starting", "configured", "keyed", "serving", "exited"}
    /\ config \in Configs /\ env \in Envs /\ chain \in Chains
    /\ agentRoles \in [Agents -> Hash \union {Zero}]
    /\ recent \in [Agents -> SUBSET (Hash \union {Zero})]
    /\ registered \in 0 .. Len(Accounts)
    /\ DOMAIN keys \subseteq ToolKeysOf(config)
    /\ \A k \in DOMAIN keys : keys[k] \in Secrets
    /\ DOMAIN tools \subseteq ToolKeysOf(config)
    /\ own \in [Agents -> 0 .. Len(Accounts)]
    /\ \A a \in Agents : offered[a] # None =>
           offered[a] \subseteq [tool : DOMAIN tools, action : Actions]

Answered(kind) == answer # None /\ answer.kind = kind

\* The tools of the configuration that cover the target, and the closest of them.
Fits(target) == {i \in DOMAIN config.tools : IsPrefix(config.tools[i].baseUrl, target)}
Longest(target) ==
    {i \in Fits(target) : \A j \in Fits(target) :
        Len(config.tools[j].baseUrl) <= Len(config.tools[i].baseUrl)}

(* A request goes to the tool with the longest base URL that its target starts  *)
(* with, the first such one of the configuration, and is an unknown tool only   *)
(* if no base URL fits: whatever the order of the configuration, and with equal *)
(* keys or equal base URLs in it.                                               *)
LongestPrefixWins ==
    Answered("forward") =>
        IF Fits(answer.target) = {} THEN answer.verdict = "unknownTool"
        ELSE answer.tool = config.tools[Min(Longest(answer.target))].key

(* A process that serves has a usable key for every tool of the configuration:  *)
(* one that is set but empty passes the schema and must still stop the start.   *)
ServingHasKeys ==
    phase = "serving" => \A k \in ToolKeysOf(config) :
        k \in DOMAIN keys /\ keys[k] \notin {Unset, Empty}

(* A permitted request carries the key that the environment has for its tool's  *)
(* configuration, and no other tool's: the key of a tool whose name has no      *)
(* colon survives the way through the handle, also if the name appears twice.   *)
KeyIsTheToolsOwn ==
    Answered("forward") /\ answer.verdict = "permits" /\ Len(answer.tool) = 1 =>
        answer.key = env[tools[answer.tool].keyRef]

\* A role of the configuration grants the action on the tool.
Grants(i, tool, action) ==
    \E p \in ToSet(config.roles[i].permissions) : p.tool = tool /\ action \in p.actions

\* A hash that the contract holds for agent a, or held until recently, is that
\* of such a role.
Granted(a, tool, action) ==
    \E i \in DOMAIN config.roles, padded \in BOOLEAN :
        /\ [id |-> config.roles[i].id, padded |-> padded] \in recent[a]
        /\ Grants(i, tool, action)

(* No decision without the contract: a request is permitted only if a hash that *)
(* the contract holds for the agent, or held within the cache's bound, is that  *)
(* of a role of the configuration that grants it, whatever else is on the       *)
(* contract and whichever reads fail; and tools/list offers nothing else.       *)
AccessFollowsTheContract ==
    /\ \A a \in Agents : offered[a] # None =>
           \A o \in offered[a] : Granted(a, o.tool, o.action)
    /\ Answered("list") =>
           \A o \in answer.tools : Granted(answer.agent, o.tool, o.action)
    /\ Answered("forward") /\ answer.verdict = "permits" =>
           Granted(answer.agent, answer.tool, answer.action)

\* A lookup that succeeds finds the current role.
Settled(a) == recent[a] = {agentRoles[a]}

DistinctBaseUrls ==
    \A i, j \in DOMAIN config.tools :
        config.tools[i].baseUrl = config.tools[j].baseUrl => i = j

(* Discovery and access agree: while the current role is the only one that a   *)
(* lookup finds, an agent whose tools/list found that role is permitted what it *)
(* was offered, at the base URL of the tool, and nothing else, unless the       *)
(* lookup of the request fails (503).  An empty list after a failing lookup,    *)
(* which looks the same to the agent, is no offer and does not take one back.   *)
(* (With one base URL for two tools, the second is offered and never reached.)  *)
OffersAreKept ==
    Answered("forward") /\ Settled(answer.agent) /\ offered[answer.agent] # None
        /\ answer.tool # None /\ answer.verdict # "unavailable" =>
            LET request == [tool |-> answer.tool, action |-> answer.action]
            IN  /\ answer.verdict = "permits" <=> request \in offered[answer.agent]
                /\ DistinctBaseUrls =>
                       \A k \in DOMAIN tools : tools[k].baseUrl = answer.target => answer.tool = k

DistinctRoles ==
    \A i, j \in DOMAIN config.roles : config.roles[i].id = config.roles[j].id => i = j

\* The last permission that the role has for the tool has the action.
LastGrants(i, tool, action) ==
    \E n \in DOMAIN config.roles[i].permissions :
        LET p == config.roles[i].permissions IN
        /\ p[n].tool = tool /\ action \in p[n].actions
        /\ \A m \in DOMAIN p : p[m].tool = tool => m <= n

(* An agent that register-agents.ts has registered has the role it was given,   *)
(* on the Hedera driver: the driver can hash the ids up to that role, even if   *)
(* the script ended early at one that it cannot, so that only a read that does  *)
(* not reach the node is answered with 503; and once no lookup finds an earlier *)
(* role, the agent is permitted exactly what its own role grants, by the last   *)
(* of its permissions for the tool, and is never taken for revoked.             *)
RegisteredHaveTheirRole ==
    chain = "hedera" /\ DistinctRoles =>
        \A a \in Agents : own[a] # 0 =>
            /\ RoleRead(agentRoles[a]) # Unavailable
            /\ Answered("forward") /\ answer.agent = a /\ answer.tool # None
                 /\ Settled(a) /\ answer.verdict # "unavailable" =>
                    /\ answer.verdict \in {"permits", "denies"}
                    /\ answer.verdict = "permits"
                           <=> LastGrants(own[a], answer.tool, answer.action)
=============================================================================
