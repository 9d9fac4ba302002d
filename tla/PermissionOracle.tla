-------------------------- MODULE PermissionOracle --------------------------
(***************************************************************************)
(* What the permission cache promises to the middlewares: each question    *)
(* for an agent is answered with a role that the RBAC contract held for it *)
(* less than Staleness ago, or refused.  It says nothing of entries,       *)
(* expiries, reads, retries or invalidations; PermissionCache is shown to  *)
(* implement it.                                                           *)
(***************************************************************************)
EXTENDS Integers

CONSTANTS
    Agents,
    RoleIds,
    Unavailable,    \* the refusal
    None,           \* no answer
    Staleness,      \* an answered role was held less than this time ago
    LongAgo         \* before any moment that a role could be answered for

VARIABLES
    now,
    agentRoles,     \* the roles on the contract
    lastHeld,       \* per agent and role, when the contract last gave it up
    answer          \* what the last step answered, if it did

vars == <<now, agentRoles, lastHeld, answer>>

HeldUntil(a, r) == IF agentRoles[a] = r THEN now ELSE lastHeld[a][r]

Init ==
    /\ now = 0
    /\ agentRoles \in [Agents -> RoleIds]
    /\ lastHeld = [a \in Agents |-> [r \in RoleIds |-> LongAgo]]
    /\ answer = None

SetAgentRole(a, r) ==
    /\ agentRoles' = [agentRoles EXCEPT ![a] = r]
    /\ lastHeld' = [lastHeld EXCEPT ![a][agentRoles[a]] = now]
    /\ answer' = None
    /\ UNCHANGED now

Fresh(a, r) == now - HeldUntil(a, r) < Staleness

Answer(a, r) ==
    /\ Fresh(a, r)
    /\ answer' = [agent |-> a, role |-> r, age |-> now - HeldUntil(a, r)]
    /\ UNCHANGED <<now, agentRoles, lastHeld>>

Refuse(a) ==
    /\ answer' = [agent |-> a, role |-> Unavailable, age |-> 0]
    /\ UNCHANGED <<now, agentRoles, lastHeld>>

\* The oracle works on a question.
Silent ==
    /\ answer' = None
    /\ UNCHANGED <<now, agentRoles, lastHeld>>

Tick ==
    /\ now' = now + 1
    /\ answer' = None
    /\ UNCHANGED <<agentRoles, lastHeld>>

Next ==
    \/ \E a \in Agents, r \in RoleIds : SetAgentRole(a, r) \/ Answer(a, r)
    \/ \E a \in Agents : Refuse(a)
    \/ Silent
    \/ Tick

Spec == Init /\ [][Next]_vars
=============================================================================
