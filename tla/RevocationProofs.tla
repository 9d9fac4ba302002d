-------------------------- MODULE RevocationProofs --------------------------
(***************************************************************************)
(* Theorems about Revocation: for any number of overlapping revocations    *)
(* and reads, any spellings, chains that mine at once or later, and any    *)
(* set of writes that reach the chain.                                     *)
(***************************************************************************)
EXTENDS Revocation, PermissionCacheProofs

(* The invariant.  A write that the chain took stands for something: its agent  *)
(* has no role, and lost its last one in time, or a transaction will see to it. *)

\* Transactions were sent by calls, and are mined in time.
Sent == \A tx \in mempool : revoke[tx.call] # None
MinesInTime == \A tx \in mempool : tx.since <= now /\ now <= tx.since + MineTime

MinedBy(a, t) == agentRoles[a] = NoRole /\ \A r \in Roles : lastHeld[a][r] <= t

InPool(v, t) ==
    \E tx \in mempool : tx.call = v /\ tx.leg = revoke[v].leg /\ tx.since <= t

\* The report of call v, or now if it is still to come.
Reported(v) == IF revoke[v].result = "ok" THEN revoke[v].at ELSE now

Stands(v) == MinedBy(AgentRevoked(v), Reported(v) + MineTime) \/ InPool(v, Reported(v))

Taken(v) == revoke[v] # None /\ revoke[v].taken /\ revoke[v].leg \in reaching

TakenStands == \A v \in Revokes : Taken(v) => Stands(v)

OkIsTaken == \A v \in Revokes : ReportedDone(v) => revoke[v].taken

RevocationInv ==
    RevocationTypeOK /\ StalenessInv /\ Sent /\ MinesInTime /\ TakenStands /\ OkIsTaken

LEMMA NoneIsNotARevoke == RevocationInv => \A v \in Revokes : revoke[v] # None => revoke[v] \in Revoke
BY DEF RevocationInv, RevocationTypeOK

\* What the parts below need to know of the types.
LEMMA Types ==
    ASSUME RevocationInv
    PROVE  /\ now \in Int /\ MineTime \in Nat
           /\ agentRoles \in [Agents -> RoleIds]
           /\ lastHeld \in [Agents -> [RoleIds -> Int]]
           /\ \A v \in Revokes : revoke[v] # None =>
                  /\ AgentRevoked(v) \in Agents /\ revoke[v].at \in Int
                  /\ Reported(v) \in Int
           /\ Roles \subseteq RoleIds /\ NoRole \in RoleIds
<1>1. now \in Int /\ MineTime \in Nat
  BY TimeAssumption, MiningAssumption DEF RevocationInv, RevocationTypeOK, TypeOK
<1>2. ASSUME NEW v \in Revokes, revoke[v] # None
      PROVE  AgentRevoked(v) \in Agents /\ revoke[v].at \in Int /\ Reported(v) \in Int
  BY <1>1, <1>2, NoneIsNotARevoke, KeyAssumption DEF AgentRevoked, Revoke, Reported
<1> QED
  BY <1>1, <1>2 DEF RevocationInv, RevocationTypeOK, TypeOK, RoleIds

-----------------------------------------------------------------------------
(* Every step is a step of the permission cache. *)

LEMMA RevokeStepIsCacheStep ==
    ASSUME RevocationInv, NEW v \in Revokes, RevokeStep(v)
    PROVE  [Next]_vars
<1>1. CASE \/ \E k \in Keys : RevokeStarts(v, k)
           \/ TakenElsewhere(v) \/ DirectFails(v) \/ FallbackFails(v)
  BY <1>1 DEF RevokeStarts, TakenElsewhere, DirectFails, FallbackFails
<1>2. CASE NodeTakes(v)
  <2>1. AgentRevoked(v) \in Agents
    BY <1>2, Types DEF NodeTakes, Pending
  <2>2. UNCHANGED vars \/ SetAgentRole(AgentRevoked(v), NoRole)
    BY <1>2 DEF NodeTakes
  <2> QED
    BY <2>1, <2>2 DEF Next, RoleIds
<1>3. CASE RevokeOk(v)
  <2>1. revoke[v].key \in Keys /\ Invalidate(revoke[v].key)
    BY <1>3, NoneIsNotARevoke DEF RevokeOk, Pending, Revoke
  <2> QED
    BY <2>1 DEF Next
<1> QED
  BY <1>1, <1>2, <1>3 DEF RevokeStep

LEMMA MineIsCacheStep ==
    ASSUME RevocationInv, NEW tx \in mempool, Mine(tx)
    PROVE  /\ tx \in Transaction /\ AgentRevoked(tx.call) \in Agents
           /\ [Next]_vars
<1>1. tx \in Transaction /\ tx.call \in Revokes /\ revoke[tx.call] # None
  BY DEF Mine, RevocationInv, RevocationTypeOK, Sent, Transaction
<1>2. AgentRevoked(tx.call) \in Agents
  BY <1>1, Types
<1>3. SetAgentRole(AgentRevoked(tx.call), NoRole)
  BY DEF Mine
<1> QED
  BY <1>1, <1>2, <1>3 DEF Next, RoleIds

LEMMA RevocationStepIsCacheStep ==
    ASSUME RevocationInv, [RevocationNext]_allVars
    PROVE  [Next]_vars
<1>1. CASE \E g \in Gets : GetStep(g) /\ UNCHANGED revVars
  BY <1>1 DEF Next
<1>2. CASE Passes
  BY <1>2 DEF Next, Passes
<1>3. CASE UNCHANGED allVars
  BY <1>3 DEF allVars
<1> QED
  BY <1>1, <1>2, <1>3, RevokeStepIsCacheStep, MineIsCacheStep DEF RevocationNext

-----------------------------------------------------------------------------
(* The invariant is inductive. *)

\* What stays true of the contract: nobody gets a role, so a role that was lost by
\* time t was lost by then.
LossesOnly ==
    \/ UNCHANGED <<agentRoles, lastHeld>>
    \/ \E b \in Agents : SetAgentRole(b, NoRole)

LEMMA MinedStays ==
    ASSUME RevocationInv, LossesOnly, NEW a \in Agents, NEW t \in Int, NEW u \in Int,
           t <= u, MinedBy(a, t)
    PROVE  MinedBy(a, u)'
<1>1. /\ agentRoles \in [Agents -> RoleIds] /\ lastHeld \in [Agents -> [RoleIds -> Int]]
      /\ Roles \subseteq RoleIds
  BY Types
<1>2. agentRoles'[a] = NoRole
  BY <1>1 DEF LossesOnly, SetAgentRole, MinedBy
<1>3. ASSUME NEW r \in Roles
      PROVE  lastHeld'[a][r] = lastHeld[a][r]
  <2>1. r # agentRoles[a]
    BY NoRoleAssumption DEF MinedBy
  <2>2. r \in RoleIds
    BY <1>1
  <2>3. CASE UNCHANGED <<agentRoles, lastHeld>>
    BY <2>3
  <2>4. ASSUME NEW b \in Agents, SetAgentRole(b, NoRole)
        PROVE  lastHeld'[a][r] = lastHeld[a][r]
    BY <1>1, <2>1, <2>2, <2>4 DEF SetAgentRole
  <2> QED
    BY <2>3, <2>4 DEF LossesOnly
<1>4. ASSUME NEW r \in Roles
      PROVE  lastHeld'[a][r] <= u
  <2>1. lastHeld[a][r] \in Int /\ lastHeld[a][r] <= t
    BY <1>1 DEF MinedBy
  <2>2. lastHeld[a][r] <= u
    BY <2>1
  <2> QED
    BY <2>2, <1>3
<1> QED
  BY <1>2, <1>4 DEF MinedBy

\* A call whose record a step leaves alone.
LEMMA StandsStays ==
    ASSUME RevocationInv, LossesOnly, NEW v \in Revokes, revoke[v] # None, Stands(v),
           revoke'[v] = revoke[v], mempool \subseteq mempool',
           now' \in Int, now <= now'
    PROVE  Stands(v)'
<1>1. /\ now \in Int /\ MineTime \in Nat
      /\ AgentRevoked(v) \in Agents /\ Reported(v) \in Int
      /\ mempool \subseteq Transaction
  BY Types DEF RevocationInv, RevocationTypeOK
<1>2. AgentRevoked(v)' = AgentRevoked(v)
  BY DEF AgentRevoked
<1>3. PICK n \in Int : n = now'
  OBVIOUS
<1>4. Reported(v)' = IF revoke[v].result = "ok" THEN revoke[v].at ELSE n
  BY <1>3 DEF Reported
<1>5. PICK t \in Int : t = Reported(v)
  BY <1>1
<1>6. PICK u \in Int : u = Reported(v)' /\ t <= u
  BY <1>1, <1>3, <1>4, <1>5 DEF Reported
<1>7. CASE MinedBy(AgentRevoked(v), Reported(v) + MineTime)
  <2>1. PICK a \in Agents : a = AgentRevoked(v)
    BY <1>1
  <2>2. PICK t1 \in Int : t1 = t + MineTime
    BY <1>1
  <2>3. PICK u1 \in Int : u1 = u + MineTime /\ t1 <= u1
    BY <1>1, <1>6, <2>2
  <2>4. MinedBy(a, t1)
    BY <1>5, <1>7, <2>1, <2>2
  <2>5. MinedBy(a, u1)'
    BY <2>3, <2>4, MinedStays
  <2> QED
    BY <1>2, <1>6, <2>1, <2>3, <2>5 DEF Stands, MinedBy
<1>8. CASE InPool(v, Reported(v))
  <2>1. PICK tx \in mempool : tx.call = v /\ tx.leg = revoke[v].leg /\ tx.since <= t
    BY <1>5, <1>8 DEF InPool
  <2>2. tx.since \in Int
    BY <1>1, <2>1 DEF Transaction
  <2>3. tx.since <= u
    BY <1>6, <2>1, <2>2
  <2> QED
    BY <1>6, <2>1, <2>3 DEF Stands, InPool
<1> QED
  BY <1>7, <1>8 DEF Stands

\* Steps that neither pass time nor mine.
LEMMA PoolStays ==
    ASSUME RevocationInv, now' = now, UNCHANGED <<revoke, mempool>>
    PROVE  Sent' /\ MinesInTime'
BY DEF RevocationInv, Sent, MinesInTime

\* Steps that leave the revocations alone: calls of get(), and time.
LEMMA QuietStep ==
    ASSUME RevocationInv, UNCHANGED <<revVars, agentRoles, lastHeld>>, now' \in Int, now <= now'
    PROVE  TakenStands' /\ OkIsTaken' /\ Sent'
<1>1. UNCHANGED <<reaching, revoke, mempool>> /\ LossesOnly
  BY DEF revVars, LossesOnly
<1>2. ASSUME NEW v \in Revokes, Taken(v)'
      PROVE  Stands(v)'
  <2>1. Taken(v) /\ revoke'[v] = revoke[v] /\ revoke[v] # None /\ mempool \subseteq mempool'
    BY <1>1, <1>2 DEF Taken
  <2>2. Stands(v)
    BY <2>1 DEF RevocationInv, TakenStands
  <2> QED
    BY <1>1, <2>1, <2>2, StandsStays
<1> QED
  BY <1>1, <1>2 DEF RevocationInv, TakenStands, OkIsTaken, ReportedDone, Sent

\* What a step of call v may do: replace its record by r.
LEMMA OneCallChanges ==
    ASSUME RevocationInv, LossesOnly, NEW v \in Revokes, NEW r \in Revoke,
           revoke' = [revoke EXCEPT ![v] = r], now' = now, reaching' = reaching,
           mempool' \in {mempool, mempool \union {[call |-> v, leg |-> r.leg, since |-> now]}},
           r.result = "ok" => r.taken,
           r.taken /\ r.leg \in reaching => Stands(v)'
    PROVE  /\ revoke' \in [Revokes -> Revoke \union {None}]
           /\ mempool' \subseteq Transaction
           /\ Sent' /\ MinesInTime' /\ TakenStands' /\ OkIsTaken'
<1>1. /\ revoke \in [Revokes -> Revoke \union {None}]
      /\ mempool \subseteq Transaction
      /\ now \in Int /\ MineTime \in Nat /\ now <= now + MineTime
  BY Types DEF RevocationInv, RevocationTypeOK
<1>2. [call |-> v, leg |-> r.leg, since |-> now] \in Transaction
  BY <1>1 DEF Revoke, Transaction
<1>3. revoke' \in [Revokes -> Revoke \union {None}] /\ mempool' \subseteq Transaction
  BY <1>1, <1>2
<1>4. /\ revoke'[v] = r /\ r # None /\ \A u \in Revokes \ {v} : revoke'[u] = revoke[u]
      /\ mempool \subseteq mempool'
  BY <1>1, NoneIsNoRevoke
<1>5. OkIsTaken'
  BY <1>4 DEF RevocationInv, OkIsTaken, ReportedDone
<1>6. ASSUME NEW u \in Revokes, Taken(u)'
      PROVE  Stands(u)'
  <2>1. CASE u = v
    BY <1>4, <1>6, <2>1 DEF Taken
  <2>2. CASE u # v
    <3>1. revoke'[u] = revoke[u] /\ Taken(u) /\ revoke[u] # None
      BY <1>4, <1>6, <2>2 DEF Taken
    <3>2. Stands(u)
      BY <3>1 DEF RevocationInv, TakenStands
    <3>3. now' \in Int /\ now <= now'
      BY <1>1
    <3> QED
      BY <1>4, <3>1, <3>2, <3>3, StandsStays
  <2> QED
    BY <2>1, <2>2
<1>7. \A tx \in mempool' : tx \in mempool \/ (tx.call = v /\ tx.since = now)
  OBVIOUS
<1>8. Sent'
  <2>1. \A tx \in mempool : tx.call \in Revokes
    BY <1>1 DEF Transaction
  <2> QED
    BY <1>4, <1>7, <2>1 DEF RevocationInv, Sent
<1>9. MinesInTime'
  BY <1>1, <1>7 DEF RevocationInv, MinesInTime
<1> QED
  BY <1>3, <1>5, <1>6, <1>8, <1>9 DEF TakenStands

LEMMA RevokeStepInv ==
    ASSUME RevocationInv, StalenessInv', NEW v \in Revokes, RevokeStep(v)
    PROVE  /\ revoke' \in [Revokes -> Revoke \union {None}]
           /\ mempool' \subseteq Transaction
           /\ Sent' /\ MinesInTime' /\ TakenStands' /\ OkIsTaken'
<1> DEFINE Goal == /\ revoke' \in [Revokes -> Revoke \union {None}]
                   /\ mempool' \subseteq Transaction
                   /\ Sent' /\ MinesInTime' /\ TakenStands' /\ OkIsTaken'
<1>1. ASSUME NEW k \in Keys, RevokeStarts(v, k)
      PROVE  Goal
  <2> DEFINE r == [key |-> k, leg |-> "direct", taken |-> FALSE, result |-> "pending", at |-> 0]
  <2>1. r \in Revoke /\ ~r.taken /\ r.result = "pending"
    BY DEF Revoke, Legs
  <2>2. /\ revoke' = [revoke EXCEPT ![v] = r] /\ LossesOnly
        /\ now' = now /\ reaching' = reaching /\ mempool' = mempool
    BY <1>1 DEF RevokeStarts, vars, chainVars, LossesOnly
  <2> HIDE DEF r
  <2> QED
    BY <2>1, <2>2, OneCallChanges
<1>2. ASSUME Pending(v)
      PROVE  /\ revoke[v] # None /\ revoke[v] \in Revoke /\ revoke[v].result = "pending"
             /\ AgentRevoked(v) = AgentOf[revoke[v].key] /\ AgentRevoked(v) \in Agents
             /\ revoke \in [Revokes -> Revoke \union {None}]
             /\ Reported(v) = now /\ now \in Int /\ MineTime \in Nat
  BY <1>2, NoneIsNotARevoke, Types
  DEF Pending, AgentRevoked, Reported, RevocationInv, RevocationTypeOK
<1>3. CASE NodeTakes(v)
  <2> DEFINE r == [revoke[v] EXCEPT !.taken = TRUE]
  <2>0. Pending(v)
    BY <1>3 DEF NodeTakes
  <2>1. /\ r \in Revoke /\ r.key = revoke[v].key /\ r.leg = revoke[v].leg
        /\ r.taken /\ r.result = "pending"
    BY <1>2, <2>0 DEF Revoke
  <2>2. revoke' = [revoke EXCEPT ![v] = r] /\ reaching' = reaching
    BY <1>3 DEF NodeTakes
  <2> HIDE DEF r
  <2>3. revoke'[v] = r
    BY <1>2, <2>0, <2>2
  <2>4. CASE AutoMine
    <3>1. /\ SetAgentRole(AgentRevoked(v), NoRole) /\ mempool' = mempool
          /\ now' = now /\ LossesOnly
      BY <1>2, <1>3, <2>0, <2>4 DEF NodeTakes, SetAgentRole, LossesOnly
    <3>2. agentRoles'[AgentRevoked(v)] = NoRole
      BY <1>2, <2>0, <3>1, Types DEF SetAgentRole
    <3>3. AgentRevoked(v)' = AgentRevoked(v)
      BY <1>2, <2>0, <2>1, <2>3 DEF AgentRevoked
    <3>4. Reported(v)' = now
      BY <2>1, <2>3, <3>1 DEF Reported
    <3>5. PICK n \in Int : n = now /\ n <= n + MineTime
      BY <1>2, <2>0
    <3>6. lastHeld' \in [Agents -> [RoleIds -> Int]] /\ Roles \subseteq RoleIds
      BY DEF StalenessInv, TypeOK, RoleIds
    <3>7. \A a \in Agents, q \in RoleIds : lastHeld'[a][q] <= n
      BY <3>1, <3>5 DEF StalenessInv, HeldInPast
    <3>8. \A q \in Roles : lastHeld'[AgentRevoked(v)][q] <= n + MineTime
      <4>1. TAKE q \in Roles
      <4>2. PICK h \in Int : h = lastHeld'[AgentRevoked(v)][q]
        BY <1>2, <2>0, <3>6
      <4>3. h <= n
        BY <1>2, <2>0, <3>6, <3>7, <4>2
      <4>4. MineTime \in Nat
        BY <1>2, <2>0
      <4> QED
        BY <4>2, <4>3, <4>4
    <3>9. Stands(v)'
      BY <3>2, <3>3, <3>4, <3>5, <3>8 DEF Stands, MinedBy
    <3> QED
      BY <2>1, <2>2, <3>1, <3>9, OneCallChanges
  <2>5. CASE ~AutoMine
    <3> DEFINE tx == [call |-> v, leg |-> r.leg, since |-> now]
    <3>1. /\ mempool' = mempool \union {tx} /\ now' = now /\ LossesOnly
      BY <1>3, <2>1, <2>5 DEF NodeTakes, vars, chainVars, LossesOnly
    <3>2. Reported(v)' = now
      BY <2>1, <2>3, <3>1 DEF Reported
    <3>3. now <= now
      BY <1>2, <2>0
    <3>4. tx \in mempool' /\ tx.call = v /\ tx.leg = revoke'[v].leg /\ tx.since = now
      BY <2>3, <3>1
    <3>5. Stands(v)'
      BY <3>2, <3>3, <3>4 DEF Stands, InPool
    <3> QED
      BY <2>1, <2>2, <3>1, <3>5, OneCallChanges
  <2> QED
    BY <2>4, <2>5
<1>4. ASSUME NEW r \in Revoke, Pending(v), revoke' = [revoke EXCEPT ![v] = r],
             r.key = revoke[v].key, r.leg = revoke[v].leg, r.taken = revoke[v].taken,
             r.result = "ok" => r.at = now,
             now' = now, UNCHANGED <<reaching, mempool, agentRoles, lastHeld>>,
             r.taken, r.leg \in reaching
      PROVE  Stands(v)'
  <2>1. revoke'[v] = r
    BY <1>2, <1>4
  <2>2. Reported(v)' = Reported(v) /\ AgentRevoked(v)' = AgentRevoked(v)
    BY <1>2, <1>4, <2>1 DEF Reported, AgentRevoked
  <2>3. Stands(v)
    BY <1>2, <1>4 DEF RevocationInv, TakenStands, Taken
  <2>4. InPool(v, Reported(v)) => InPool(v, Reported(v))'
    BY <1>4, <2>1, <2>2 DEF InPool
  <2>5. MinedBy(AgentRevoked(v), Reported(v) + MineTime)
            => MinedBy(AgentRevoked(v), Reported(v) + MineTime)'
    BY <1>4, <2>2 DEF MinedBy
  <2> QED
    BY <2>3, <2>4, <2>5 DEF Stands
<1>5. CASE RevokeOk(v)
  <2> DEFINE r == [revoke[v] EXCEPT !.result = "ok", !.at = now]
  <2>0. Pending(v)
    BY <1>5 DEF RevokeOk
  <2>1. /\ r \in Revoke /\ r.key = revoke[v].key /\ r.leg = revoke[v].leg
        /\ r.taken = revoke[v].taken /\ r.taken /\ r.at = now
    BY <1>2, <1>5, <2>0 DEF RevokeOk, Revoke
  <2>2. /\ revoke' = [revoke EXCEPT ![v] = r] /\ now' = now
        /\ UNCHANGED <<reaching, mempool, agentRoles, lastHeld>> /\ LossesOnly
    BY <1>5 DEF RevokeOk, Invalidate, chainVars, LossesOnly
  <2> HIDE DEF r
  <2>3. r.leg \in reaching => Stands(v)'
    BY <1>4, <2>0, <2>1, <2>2
  <2> QED
    BY <2>1, <2>2, <2>3, OneCallChanges
<1>6. CASE TakenElsewhere(v)
  <2> DEFINE r == [revoke[v] EXCEPT !.taken = TRUE]
  <2>1. r \in Revoke /\ r.leg = revoke[v].leg /\ r.leg \notin reaching /\ r.result = "pending"
    BY <1>2, <1>6 DEF TakenElsewhere, Revoke
  <2>2. /\ revoke' = [revoke EXCEPT ![v] = r] /\ LossesOnly
        /\ now' = now /\ reaching' = reaching /\ mempool' = mempool
    BY <1>6 DEF TakenElsewhere, vars, chainVars, LossesOnly
  <2> HIDE DEF r
  <2> QED
    BY <2>1, <2>2, OneCallChanges
<1>7. CASE DirectFails(v)
  <2> DEFINE r == [revoke[v] EXCEPT !.leg = "fallback", !.taken = FALSE]
  <2>1. r \in Revoke /\ ~r.taken /\ r.result = "pending"
    BY <1>2, <1>7 DEF DirectFails, Revoke, Legs
  <2>2. /\ revoke' = [revoke EXCEPT ![v] = r] /\ LossesOnly
        /\ now' = now /\ reaching' = reaching /\ mempool' = mempool
    BY <1>7 DEF DirectFails, vars, chainVars, LossesOnly
  <2> HIDE DEF r
  <2> QED
    BY <2>1, <2>2, OneCallChanges
<1>8. CASE FallbackFails(v)
  <2> DEFINE r == [revoke[v] EXCEPT !.result = "failed"]
  <2>0. Pending(v)
    BY <1>8 DEF FallbackFails
  <2>1. /\ r \in Revoke /\ r.key = revoke[v].key /\ r.leg = revoke[v].leg
        /\ r.taken = revoke[v].taken /\ r.result = "failed"
    BY <1>2, <2>0 DEF Revoke
  <2>2. /\ revoke' = [revoke EXCEPT ![v] = r] /\ now' = now
        /\ UNCHANGED <<reaching, mempool, agentRoles, lastHeld>> /\ LossesOnly
    BY <1>8 DEF FallbackFails, vars, chainVars, LossesOnly
  <2> HIDE DEF r
  <2>3. r.taken /\ r.leg \in reaching => Stands(v)'
    BY <1>4, <2>0, <2>1, <2>2
  <2> QED
    BY <2>1, <2>2, <2>3, OneCallChanges
<1> QED
  BY <1>1, <1>3, <1>5, <1>6, <1>7, <1>8 DEF RevokeStep

LEMMA MineInv ==
    ASSUME RevocationInv, StalenessInv', NEW tx \in mempool, Mine(tx)
    PROVE  Sent' /\ MinesInTime' /\ TakenStands' /\ OkIsTaken'
<1>1. /\ UNCHANGED <<reaching, revoke>> /\ mempool' = mempool \ {tx} /\ now' = now
      /\ SetAgentRole(AgentRevoked(tx.call), NoRole)
      /\ tx \in Transaction /\ AgentRevoked(tx.call) \in Agents
      /\ mempool \subseteq Transaction
  BY MineIsCacheStep DEF Mine, SetAgentRole, RevocationInv, RevocationTypeOK
<1>2. Sent' /\ OkIsTaken' /\ MinesInTime' /\ LossesOnly
  BY <1>1 DEF RevocationInv, Sent, OkIsTaken, ReportedDone, MinesInTime, LossesOnly
<1>3. ASSUME NEW v \in Revokes, Taken(v)'
      PROVE  Stands(v)'
  <2>1. /\ AgentRevoked(v) \in Agents /\ AgentRevoked(v)' = AgentRevoked(v)
        /\ Reported(v) \in Int /\ Reported(v)' = Reported(v)
        /\ Stands(v) /\ MineTime \in Nat /\ now \in Int
    BY <1>1, <1>3, Types DEF AgentRevoked, Reported, Taken, RevocationInv, TakenStands
  <2>2. PICK t \in Int : t = Reported(v)
    BY <2>1
  <2>3. CASE MinedBy(AgentRevoked(v), Reported(v) + MineTime)
    <3>1. t + MineTime \in Int /\ t + MineTime <= t + MineTime
      BY <2>1
    <3>2. MinedBy(AgentRevoked(v), t + MineTime)'
      BY <1>2, <2>1, <2>2, <2>3, <3>1, MinedStays
    <3> QED
      BY <2>1, <2>2, <3>2 DEF Stands, MinedBy
  <2>4. ASSUME NEW w \in mempool, w.call = v, w.leg = revoke[v].leg, w.since <= t, w # tx
        PROVE  Stands(v)'
    <3>1. w \in mempool' /\ w.leg = revoke'[v].leg
      BY <1>1, <2>4
    <3> QED
      BY <2>1, <2>2, <2>4, <3>1 DEF Stands, InPool
  <2>5. ASSUME tx.call = v, tx.since <= t
        PROVE  Stands(v)'
    <3>1. agentRoles'[AgentRevoked(v)] = NoRole
      BY <1>1, <2>1, <2>5, Types DEF SetAgentRole
    <3>2. tx.since \in Int /\ now <= tx.since + MineTime
      BY <1>1 DEF RevocationInv, MinesInTime, Transaction
    <3>3. now <= t + MineTime
      BY <2>1, <2>5, <3>2
    <3>4. lastHeld' \in [Agents -> [RoleIds -> Int]] /\ Roles \subseteq RoleIds
      BY DEF StalenessInv, TypeOK, RoleIds
    <3>5. \A q \in Roles : lastHeld'[AgentRevoked(v)][q] <= t + MineTime
      <4>1. TAKE q \in Roles
      <4>2. PICK h \in Int : h = lastHeld'[AgentRevoked(v)][q]
        BY <2>1, <3>4
      <4>3. h <= now
        BY <1>1, <2>1, <3>4, <4>2 DEF StalenessInv, HeldInPast
      <4>4. h <= t + MineTime
        BY <2>1, <3>3, <4>3
      <4> QED
        BY <4>2, <4>4
    <3> QED
      BY <2>1, <2>2, <3>1, <3>5 DEF Stands, MinedBy
  <2>6. CASE InPool(v, Reported(v))
    <3>1. PICK w \in mempool : w.call = v /\ w.leg = revoke[v].leg /\ w.since <= t
      BY <2>2, <2>6 DEF InPool
    <3> QED
      BY <2>4, <2>5, <3>1
  <2> QED
    BY <2>1, <2>3, <2>6 DEF Stands
<1> QED
  BY <1>2, <1>3 DEF TakenStands

LEMMA PassesInv ==
    ASSUME RevocationInv, Passes
    PROVE  Sent' /\ MinesInTime' /\ TakenStands' /\ OkIsTaken'
<1>1. /\ UNCHANGED revVars /\ UNCHANGED <<agentRoles, lastHeld>>
      /\ now' = now + 1 /\ now \in Int /\ MineTime \in Nat
  BY Types DEF Passes, Tick, chainVars
<1>2. PICK n \in Int : n = now' /\ now <= n
  BY <1>1
<1>3. Sent' /\ TakenStands' /\ OkIsTaken'
  BY <1>1, <1>2, QuietStep
<1>4. ASSUME NEW tx \in mempool
      PROVE  tx.since <= n /\ n <= tx.since + MineTime
  <2>1. tx.since \in Int
    BY DEF RevocationInv, RevocationTypeOK, Transaction
  <2>2. tx.since <= now /\ now < tx.since + MineTime
    BY DEF Passes, RevocationInv, MinesInTime
  <2> QED
    BY <1>1, <1>2, <2>1, <2>2
<1>5. MinesInTime'
  BY <1>1, <1>2, <1>4 DEF MinesInTime, revVars
<1> QED
  BY <1>3, <1>5

LEMMA NextRevocationInv ==
    ASSUME RevocationInv, [RevocationNext]_allVars
    PROVE  RevocationInv'
<1>1. StalenessInv' /\ TypeOK'
  BY RevocationStepIsCacheStep, NextStalenessInv DEF RevocationInv, StalenessInv
<1>2. CASE \E v \in Revokes : RevokeStep(v)
  <2>1. reaching' = reaching
    BY <1>2 DEF RevokeStep, RevokeStarts, NodeTakes, TakenElsewhere, RevokeOk, DirectFails,
                FallbackFails
  <2> QED
    BY <1>1, <1>2, <2>1, RevokeStepInv DEF RevocationInv, RevocationTypeOK
<1>3. CASE \E tx \in mempool : Mine(tx)
  <2>1. UNCHANGED <<reaching, revoke>> /\ mempool' \subseteq mempool
    BY <1>3 DEF Mine
  <2> QED
    BY <1>1, <1>3, <2>1, MineInv DEF RevocationInv, RevocationTypeOK
<1>4. CASE Passes
  <2>1. UNCHANGED <<reaching, revoke, mempool>>
    BY <1>4 DEF Passes, revVars
  <2> QED
    BY <1>1, <1>4, <2>1, PassesInv DEF RevocationInv, RevocationTypeOK
<1>5. CASE \/ \E g \in Gets : GetStep(g) /\ UNCHANGED revVars
           \/ UNCHANGED allVars
  <2>1. UNCHANGED revVars /\ UNCHANGED <<now, agentRoles, lastHeld>>
    BY <1>5 DEF GetStep, GetHit, GetMiss, ChainReads, ReadOk, ReadRetries, ReadGivesUp,
                BackoffEnds, allVars, vars, chainVars
  <2>2. UNCHANGED <<reaching, revoke, mempool>>
    BY <2>1 DEF revVars
  <2>3. now' \in Int /\ now <= now'
    BY <2>1, Types
  <2>4. TakenStands' /\ OkIsTaken' /\ Sent'
    BY <2>1, <2>3, QuietStep
  <2> QED
    BY <1>1, <2>1, <2>2, <2>4, PoolStays DEF RevocationInv, RevocationTypeOK
<1> QED
  BY <1>2, <1>3, <1>4, <1>5 DEF RevocationNext

LEMMA InitRevocationInv == RevocationInit => RevocationInv
BY InitTypeOK, InitStalenessInv
DEF RevocationInit, RevocationInv, RevocationTypeOK, Sent, MinesInTime, TakenStands, Taken,
    OkIsTaken, ReportedDone

LEMMA SpecRevocationInv == RevocationSpec => []RevocationInv
BY InitRevocationInv, NextRevocationInv, PTL DEF RevocationSpec

-----------------------------------------------------------------------------

(* The states of revocation calls and of the mempool keep their types.         *)
THEOREM RevocationTypeCorrect == RevocationSpec => []RevocationTypeOK
BY SpecRevocationInv, PTL DEF RevocationInv

(* The handler uses the cache as PermissionCache specifies.                    *)
THEOREM Refinement == RevocationSpec => ImplementsPermissionCache
<1>1. RevocationInit => Init
  BY DEF RevocationInit
<1> QED
  BY SpecRevocationInv, <1>1, RevocationStepIsCacheStep, PTL
  DEF RevocationSpec, ImplementsPermissionCache, Spec

(* So a role is refused TTL + ReadTimeout after its revocation was mined, also *)
(* when a read was under way, when the spelling differed and when the fallback *)
(* failed.                                                                     *)
THEOREM RevokedAreRefused == RevocationSpec => []BoundedStaleness
BY Refinement, StalenessIsBounded, PTL DEF ImplementsPermissionCache

(* The admin's writes and invalidations (admin.ts:392) interleave with every    *)
(* read without breaking what the middlewares are promised: a role that is      *)
(* answered was on the contract less than TTL + ReadTimeout ago.                *)
THEOREM RevocationKeepsOracle == RevocationSpec => ImplementsOracle
BY Refinement, CacheRefinesOracle, PTL DEF ImplementsPermissionCache

-----------------------------------------------------------------------------
(* What the admin is told, and when the agent is refused. *)

\* The age of an answer is counted to the state it is given in.
AnswerAge ==
    answer # None /\ answer.role \in RoleIds =>
        /\ answer.agent \in Agents
        /\ answer.age = now - HeldUntil(answer.agent, answer.role)

LEMMA ReturnAge ==
    ASSUME TypeOK, NEW k \in Keys, NEW r \in RoleIds, Return(k, r),
           UNCHANGED <<now, agentRoles, lastHeld>>
    PROVE  AnswerAge'
<1>1. answer' = [agent |-> AgentOf[k], role |-> r, age |-> now - HeldUntil(AgentOf[k], r)]
  BY DEF Return
<1>2. HeldUntil(AgentOf[k], r)' = HeldUntil(AgentOf[k], r) /\ AgentOf[k] \in Agents
  BY KeyAssumption DEF HeldUntil
<1> QED
  BY <1>1, <1>2 DEF AnswerAge, HeldUntil

LEMMA NextAnswerAge ==
    ASSUME TypeOK, AnswerAge, [Next]_vars
    PROVE  AnswerAge'
<1>1. ASSUME NEW g \in Gets, NEW k \in Keys, GetHit(g, k)
      PROVE  AnswerAge'
  <2>1. cache[k].role \in RoleIds
    BY <1>1 DEF GetHit, Usable, TypeOK, Entry
  <2> QED
    BY <1>1, <2>1, ReturnAge DEF GetHit, chainVars
<1>2. ASSUME NEW g \in Gets, ReadOk(g)
      PROVE  AnswerAge'
  <2>1. call[g].key \in Keys /\ call[g].got \in RoleIds
    BY <1>2, CallType DEF ReadOk, Call
  <2> QED
    BY <1>2, <2>1, ReturnAge DEF ReadOk, chainVars
<1>3. ASSUME NEW g \in Gets, ReadGivesUp(g)
      PROVE  AnswerAge'
  BY <1>3, RoleAssumption DEF ReadGivesUp, AnswerAge
<1>4. CASE answer' = None
  BY <1>4 DEF AnswerAge
<1>5. CASE UNCHANGED vars
  BY <1>5 DEF AnswerAge, HeldUntil, vars, chainVars
<1> QED
  BY <1>1, <1>2, <1>3, <1>4, <1>5 DEF Next, GetStep, GetMiss, ChainReads, ReadRetries, BackoffEnds,
     SetAgentRole, Invalidate, Clear, Tick

LEMMA AnsweredInTime ==
    ASSUME RevocationInv, AnswerAge, NEW v \in Revokes, ReportedDone(v),
           answer # None, answer.agent = AgentRevoked(v), answer.role \in Roles
    PROVE  ~(now >= revoke[v].at + MineTime + TTL + ReadTimeout)
<1>1. PICK t \in Int : t = revoke[v].at
  BY Types DEF ReportedDone
<1>2. /\ Stands(v) /\ Reported(v) = t /\ AgentRevoked(v) \in Agents
      /\ now \in Int /\ MineTime \in Nat /\ TTL \in Nat \ {0} /\ ReadTimeout \in Nat \ {0}
  BY <1>1, Types, TimeAssumption
  DEF ReportedDone, RevocationInv, OkIsTaken, TakenStands, Taken, Reported
<1>3. CASE MinedBy(AgentRevoked(v), t + MineTime)
  <2>1. answer.role # NoRole /\ answer.role \in RoleIds
    BY NoRoleAssumption DEF RoleIds
  <2>2. PICK h \in Int : h = lastHeld[AgentRevoked(v)][answer.role]
    BY <1>2, <2>1, Types
  <2>3. h = HeldUntil(answer.agent, answer.role) /\ h <= t + MineTime
    BY <1>3, <2>1, <2>2 DEF MinedBy, HeldUntil
  <2>4. now - h < TTL + ReadTimeout
    BY <2>1, <2>3 DEF AnswerAge, RevocationInv, StalenessInv, BoundedStaleness
  <2> QED
    BY <1>1, <1>2, <2>2, <2>3, <2>4
<1>4. CASE InPool(v, t)
  <2>1. PICK tx \in mempool : tx.since <= t
    BY <1>4 DEF InPool
  <2>2. tx.since \in Int /\ now <= tx.since + MineTime
    BY DEF RevocationInv, RevocationTypeOK, Transaction, MinesInTime
  <2> QED
    BY <1>1, <1>2, <2>1, <2>2
<1> QED
  BY <1>2, <1>3, <1>4 DEF Stands

(* An admin who was told that a write to the chain of the cache succeeded       *)
(* (admin.ts:390, :415) can rely on it: MineTime + TTL + ReadTimeout later the  *)
(* agent is answered no role, under no spelling and from no read.               *)
THEOREM ReportsHold == RevocationSpec => []ReportedAreRefused
<1>1. RevocationInit => AnswerAge
  BY DEF RevocationInit, Init, AnswerAge
<1>2. RevocationInv /\ AnswerAge /\ [RevocationNext]_allVars => AnswerAge'
  BY RevocationStepIsCacheStep, NextAnswerAge DEF RevocationInv, StalenessInv
<1>3. RevocationInv /\ AnswerAge => ReportedAreRefused
  BY AnsweredInTime DEF ReportedAreRefused
<1> QED
  BY SpecRevocationInv, <1>1, <1>2, <1>3, PTL DEF RevocationSpec
=============================================================================
