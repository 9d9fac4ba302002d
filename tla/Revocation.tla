----------------------------- MODULE Revocation -----------------------------
(***************************************************************************)
(* Emergency revocation: performEmergencyRevoke of                         *)
(* src/src/api/handlers/admin.ts, composed with the permission cache and   *)
(* the RBAC contract.                                                      *)
(*                                                                         *)
(* The handler submits emergencyRevoke directly, to a node at a fixed      *)
(* local address, and, if that fails, once more through the chain driver.  *)
(* Neither need go to the chain that the cache reads: the local node may   *)
(* be of another chain, and the EVM and local drivers make up a hash and   *)
(* send nothing.  Either write is answered when a node took the            *)
(* transaction, not when it was mined, and may be reported as failed       *)
(* although the node took it.  After a success the handler invalidates the *)
(* cache entry under the address as the admin spelled it.                  *)
(*                                                                         *)
(* The refusals that come before the first write (address format, no       *)
(* signer key, no contract address) change no state.  Agents are not       *)
(* registered while the model runs.                                        *)
(***************************************************************************)
EXTENDS PermissionCache

CONSTANTS
    Revokes,        \* calls of performEmergencyRevoke
    AutoMine,       \* the node mines a transaction as it takes it (a dev chain)
    MineTime        \* the chain mines what a node took within this time

ASSUME MiningAssumption == AutoMine \in BOOLEAN /\ MineTime \in Nat
ASSUME NoRoleAssumption == NoRole \notin Roles

VARIABLES
    reaching,       \* the writes that go to the chain the cache reads: fixed by the
                    \* address of that chain's node and by the driver
    revoke,         \* per call, its write that is under way, or its result
    mempool         \* transactions taken by a node of the chain and not yet mined

revVars == <<reaching, revoke, mempool>>
allVars == <<vars, revVars>>

Legs == {"direct", "fallback"}

\* A revocation: the spelling given by the admin, the write it is at, whether that
\* write was taken, the result, and when it was reported as done.
Revoke == [key : Keys, leg : Legs, taken : BOOLEAN, result : {"pending", "ok", "failed"},
           at : Int]
Transaction == [call : Revokes, leg : Legs, since : Int]

ASSUME NoneIsNoRevoke == None \notin Revoke

RevocationInit ==
    /\ Init
    /\ reaching \in SUBSET Legs
    /\ revoke = [v \in Revokes |-> None]
    /\ mempool = {}

AgentRevoked(v) == AgentOf[revoke[v].key]

Pending(v) == revoke[v] # None /\ revoke[v].result = "pending"

\* The handler has validated its input and sends the direct write.
RevokeStarts(v, k) ==
    /\ revoke[v] = None
    /\ revoke' = [revoke EXCEPT ![v] =
           [key |-> k, leg |-> "direct", taken |-> FALSE, result |-> "pending", at |-> 0]]
    /\ UNCHANGED <<vars, reaching, mempool>>

\* A node of the chain takes the write under way; with AutoMine it is mined at once.
NodeTakes(v) ==
    /\ Pending(v)
    /\ ~revoke[v].taken
    /\ revoke[v].leg \in reaching
    /\ revoke' = [revoke EXCEPT ![v].taken = TRUE]
    /\ IF AutoMine
       THEN /\ SetAgentRole(AgentRevoked(v), NoRole)
            /\ UNCHANGED mempool
       ELSE /\ mempool' = mempool \union {[call |-> v, leg |-> revoke[v].leg, since |-> now]}
            /\ UNCHANGED vars
    /\ UNCHANGED reaching

\* The write goes elsewhere: the node at the fixed address is of another chain, or
\* the driver makes up a hash.
TakenElsewhere(v) ==
    /\ Pending(v)
    /\ ~revoke[v].taken
    /\ revoke[v].leg \notin reaching
    /\ revoke' = [revoke EXCEPT ![v].taken = TRUE]
    /\ UNCHANGED <<vars, reaching, mempool>>

\* A transaction of the mempool takes effect.
Mine(tx) ==
    /\ mempool' = mempool \ {tx}
    /\ SetAgentRole(AgentRevoked(tx.call), NoRole)
    /\ UNCHANGED <<reaching, revoke>>

\* Variant: success is reported without waiting for the write.
RevokeOkUnsent(v) ==
    /\ Pending(v)
    /\ revoke' = [revoke EXCEPT ![v].result = "ok", ![v].at = now]
    /\ Invalidate(revoke[v].key)
    /\ UNCHANGED <<reaching, mempool>>

\* Variant: the entry is replaced by one without a role instead of being dropped.
RevokeOkTombstone(v) ==
    /\ Pending(v)
    /\ revoke[v].taken
    /\ revoke' = [revoke EXCEPT ![v].result = "ok", ![v].at = now]
    /\ cache' = [cache EXCEPT ![revoke[v].key] = [role |-> NoRole, expiresAt |-> now + TTL]]
    /\ answer' = None
    /\ UNCHANGED <<now, chainVars, call, reaching, mempool>>

\* The write is answered with a transaction hash: the cache entry is dropped and
\* the admin gets ok.  The direct and the fallback path do the same.
RevokeOk(v) ==
    /\ Pending(v)
    /\ revoke[v].taken
    /\ revoke' = [revoke EXCEPT ![v].result = "ok", ![v].at = now]
    /\ Invalidate(revoke[v].key)
    /\ UNCHANGED <<reaching, mempool>>

\* The direct write fails, or is reported so: the handler falls back.
DirectFails(v) ==
    /\ Pending(v)
    /\ revoke[v].leg = "direct"
    /\ revoke' = [revoke EXCEPT ![v].leg = "fallback", ![v].taken = FALSE]
    /\ UNCHANGED <<vars, reaching, mempool>>

\* The fallback fails too, which it does on a real driver only: 503, and the cache
\* is left alone.
FallbackFails(v) ==
    /\ Pending(v)
    /\ revoke[v].leg = "fallback"
    /\ "fallback" \in reaching
    /\ revoke' = [revoke EXCEPT ![v].result = "failed"]
    /\ UNCHANGED <<vars, reaching, mempool>>

\* Time passes; what a node took is mined in time.
Passes ==
    /\ \A tx \in mempool : now < tx.since + MineTime
    /\ Tick
    /\ UNCHANGED revVars

RevokeStep(v) ==
    \/ \E k \in Keys : RevokeStarts(v, k)
    \/ NodeTakes(v)
    \/ TakenElsewhere(v)
    \/ RevokeOk(v)
    \/ DirectFails(v)
    \/ FallbackFails(v)

RevocationNext ==
    \/ \E g \in Gets : GetStep(g) /\ UNCHANGED revVars
    \/ \E v \in Revokes : RevokeStep(v)
    \/ \E tx \in mempool : Mine(tx)
    \/ Passes

RevocationSpec == RevocationInit /\ [][RevocationNext]_allVars

-----------------------------------------------------------------------------
(* Properties *)

RevocationTypeOK ==
    /\ TypeOK
    /\ reaching \subseteq Legs
    /\ revoke \in [Revokes -> Revoke \union {None}]
    /\ mempool \subseteq Transaction

\* The admin was told that revocation v is done, by a write to the chain that the
\* cache reads.  (Of a success that went elsewhere no more is true than before it.)
ReportedDone(v) ==
    /\ revoke[v] # None
    /\ revoke[v].result = "ok"
    /\ revoke[v].leg \in reaching

(* A revocation that was reported as done is obeyed MineTime + TTL +           *)
(* ReadTimeout after the report, although the report comes before the          *)
(* transaction is mined (admin.ts:376), only one spelling is invalidated       *)
(* (admin.ts:392), reads under way fill the cache again and a lost answer      *)
(* makes the handler write twice (admin.ts:397).                               *)
ReportedAreRefused ==
    \A v \in Revokes :
        ReportedDone(v) /\ now >= revoke[v].at + MineTime + TTL + ReadTimeout =>
            \/ answer = None
            \/ answer.agent # AgentRevoked(v)
            \/ answer.role \notin Roles

(* Every behaviour with revocations is one of the permission cache, so what     *)
(* PermissionCache guarantees (BoundedStaleness above all) holds for revoked    *)
(* agents: they are refused TTL + ReadTimeout after the transaction was mined.  *)
ImplementsPermissionCache == Spec

(* "Invalidate permission cache so next request re-reads from chain and sees    *)
(* revocation" (admin.ts:390): once the revocation is on the chain and success  *)
(* was reported, no usable entry grants the agent a role.                       *)
NextRequestSeesRevocation ==
    \A k \in Keys, v \in Revokes :
        ReportedDone(v) /\ AgentRevoked(v) = AgentOf[k] /\ Usable(k)
            => cache[k].role = NoRole
=============================================================================
