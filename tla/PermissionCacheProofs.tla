----------------------- MODULE PermissionCacheProofs -----------------------
(***************************************************************************)
(* Theorems about PermissionCache: for any agents, spellings, roles,       *)
(* number of overlapping calls, TTL and client time-out.                   *)
(***************************************************************************)
EXTENDS PermissionCache, TLAPS

(* Typing.                                                                 *)

LEMMA InitTypeOK == Init => TypeOK
BY TimeAssumption DEF Init, TypeOK, LongAgo

\* The age of a role is an integer.
LEMMA HeldUntilType ==
    ASSUME TypeOK, NEW a \in Agents, NEW r \in RoleIds
    PROVE  HeldUntil(a, r) \in Int
BY TimeAssumption DEF TypeOK, HeldUntil

\* A returned role is a well-typed result.
LEMMA ReturnType ==
    ASSUME TypeOK, NEW k \in Keys, NEW r \in RoleIds, Return(k, r)
    PROVE  answer' \in Result
<1>1. AgentOf[k] \in Agents
  BY KeyAssumption
<1>2. now - HeldUntil(AgentOf[k], r) \in Int
  BY <1>1, HeldUntilType, TimeAssumption DEF TypeOK
<1> QED
  BY <1>1, <1>2 DEF Return, Result

LEMMA CallType ==
    ASSUME TypeOK, NEW g \in Gets, call[g] # None
    PROVE  call[g] \in Call
BY DEF TypeOK

LEMMA NextTypeOK ==
    ASSUME TypeOK, [Next]_vars
    PROVE  TypeOK'
<1>1. ASSUME NEW a \in Agents, NEW r \in RoleIds, SetAgentRole(a, r)
      PROVE  TypeOK'
  BY <1>1, TimeAssumption DEF TypeOK, SetAgentRole
<1>2. ASSUME NEW g \in Gets, NEW k \in Keys, GetHit(g, k)
      PROVE  TypeOK'
  <2>1. cache[k].role \in RoleIds
    BY <1>2 DEF GetHit, Usable, TypeOK, Entry
  <2>2. answer' \in Result
    BY <1>2, <2>1, ReturnType DEF GetHit
  <2> QED
    BY <1>2, <2>2 DEF GetHit, TypeOK, chainVars
<1>3. ASSUME NEW g \in Gets, NEW k \in Keys, GetMiss(g, k)
      PROVE  TypeOK'
  <2>1. [at |-> "reading", key |-> k, attempt |-> 0, since |-> now, got |-> NoRole] \in Call
    BY TimeAssumption, AttemptsAssumption DEF TypeOK, Call, RoleIds
  <2> QED
    BY <1>3, <2>1 DEF GetMiss, TypeOK, chainVars
<1>4. ASSUME NEW g \in Gets, ChainReads(g)
      PROVE  TypeOK'
  <2>1. call[g] \in Call
    BY <1>4, CallType DEF ChainReads
  <2>2. agentRoles[AgentOf[call[g].key]] \in RoleIds
    BY <2>1, KeyAssumption DEF Call, TypeOK
  <2>3. [[call[g] EXCEPT !.at = "read"] EXCEPT !.got = agentRoles[AgentOf[call[g].key]]] \in Call
    BY <2>1, <2>2 DEF Call
  <2>4. call' \in [Gets -> Call \union {None}]
    BY <1>4, <2>3 DEF ChainReads, TypeOK
  <2> QED
    BY <1>4, <2>4 DEF ChainReads, TypeOK, chainVars
<1>5. ASSUME NEW g \in Gets, ReadOk(g)
      PROVE  TypeOK'
  <2>1. call[g] \in Call
    BY <1>5, CallType DEF ReadOk
  <2>2. call[g].key \in Keys /\ call[g].got \in RoleIds
    BY <2>1 DEF Call
  <2>3. answer' \in Result
    BY <1>5, <2>2, ReturnType DEF ReadOk
  <2>4. [role |-> call[g].got, expiresAt |-> now + TTL] \in Entry
    BY <2>2, TimeAssumption DEF TypeOK, Entry
  <2> QED
    BY <1>5, <2>3, <2>4 DEF ReadOk, TypeOK, chainVars
<1>6. ASSUME NEW g \in Gets, ReadRetries(g)
      PROVE  TypeOK'
  <2>1. call[g] \in Call
    BY <1>6, CallType DEF ReadRetries, Reading
  <2>2. call[g].attempt + 1 \in 0 .. MaxAttempts - 1
    BY <1>6, <2>1, AttemptsAssumption DEF ReadRetries, Call
  <2>3. [[[call[g] EXCEPT !.at = "backoff"] EXCEPT !.attempt = @ + 1] EXCEPT !.got = NoRole] \in Call
    BY <2>1, <2>2 DEF Call, RoleIds
  <2>4. call' \in [Gets -> Call \union {None}]
    BY <1>6, <2>3 DEF ReadRetries, TypeOK
  <2> QED
    BY <1>6, <2>4 DEF ReadRetries, TypeOK, chainVars
<1>7. ASSUME NEW g \in Gets, ReadGivesUp(g)
      PROVE  TypeOK'
  <2>1. call[g] \in Call
    BY <1>7, CallType DEF ReadGivesUp, Reading
  <2>2. AgentOf[call[g].key] \in Agents
    BY <2>1, KeyAssumption DEF Call
  <2>3. answer' \in Result
    BY <1>7, <2>2 DEF ReadGivesUp, Result
  <2> QED
    BY <1>7, <2>3 DEF ReadGivesUp, TypeOK, chainVars
<1>8. ASSUME NEW g \in Gets, BackoffEnds(g)
      PROVE  TypeOK'
  <2>1. call[g] \in Call
    BY <1>8, CallType DEF BackoffEnds
  <2>2. [[call[g] EXCEPT !.at = "reading"] EXCEPT !.since = now] \in Call
    <3>1. now \in Int
      BY TimeAssumption DEF TypeOK
    <3> QED
      BY <2>1, <3>1 DEF Call
  <2>3. call' \in [Gets -> Call \union {None}]
    BY <1>8, <2>2 DEF BackoffEnds, TypeOK
  <2> QED
    BY <1>8, <2>3 DEF BackoffEnds, TypeOK, chainVars
<1>9. ASSUME NEW k \in Keys, Invalidate(k)
      PROVE  TypeOK'
  BY <1>9 DEF Invalidate, TypeOK, chainVars
<1>10. CASE Clear
  BY <1>10 DEF Clear, TypeOK, chainVars
<1>11. CASE Tick
  BY <1>11, TimeAssumption DEF Tick, TypeOK, chainVars
<1>12. CASE UNCHANGED vars
  BY <1>12 DEF vars, TypeOK, chainVars
<1> QED
  BY <1>1, <1>2, <1>3, <1>4, <1>5, <1>6, <1>7, <1>8, <1>9, <1>10, <1>11, <1>12
     DEF Next, GetStep

(* The variables of PermissionCache keep their types.                      *)
THEOREM TypeCorrect == Spec => []TypeOK
BY InitTypeOK, NextTypeOK, PTL DEF Spec
-----------------------------------------------------------------------------
(* Bounded staleness.  The expiry of an entry and the age of a read bound   *)
(* the time since the contract held the role; besides that, the argument    *)
(* needs that no read outlives the client's time-out and that lastHeld lies *)
(* in the past.                                                             *)

ReadsInTime ==
    \A g \in Gets : Reading(g) =>
        call[g].since <= now /\ now <= call[g].since + ReadTimeout

HeldInPast == \A a \in Agents, r \in RoleIds : lastHeld[a][r] <= now

StalenessInv ==
    /\ TypeOK
    /\ HeldInPast
    /\ ReadsInTime
    /\ EntriesExpireInTime
    /\ BoundedStaleness

LEMMA InitStalenessInv == Init => StalenessInv
<1>1. Init => HeldInPast
  BY TimeAssumption DEF Init, HeldInPast, LongAgo
<1>2. Init => ReadsInTime /\ EntriesExpireInTime /\ BoundedStaleness
  BY DEF Init, ReadsInTime, Reading, EntriesExpireInTime, Bringing, BoundedStaleness
<1> QED
  BY <1>1, <1>2, InitTypeOK DEF StalenessInv

LEMMA NextHeldInPast ==
    ASSUME TypeOK, HeldInPast, [Next]_vars
    PROVE  HeldInPast'
<1>0. now \in Int /\ \A a \in Agents, r \in RoleIds : lastHeld[a][r] \in Int
  BY TimeAssumption DEF TypeOK
<1>1. ASSUME NEW a \in Agents, NEW r \in RoleIds, SetAgentRole(a, r)
      PROVE  HeldInPast'
  BY <1>1, <1>0 DEF SetAgentRole, HeldInPast, TypeOK
<1>2. CASE Tick
  BY <1>2, <1>0 DEF Tick, HeldInPast, chainVars
<1>3. CASE UNCHANGED <<now, lastHeld>>
  BY <1>3 DEF HeldInPast
<1> QED
  BY <1>1, <1>2, <1>3 DEF Next, GetStep, GetHit, GetMiss, ChainReads, ReadOk, ReadRetries,
     ReadGivesUp, BackoffEnds, Invalidate, Clear, vars, chainVars

\* The moment until which a role was held never moves back.
LEMMA HeldUntilGrows ==
    ASSUME TypeOK, HeldInPast, [Next]_vars, NEW a \in Agents, NEW r \in RoleIds
    PROVE  HeldUntil(a, r) <= HeldUntil(a, r)'
<1>0. now \in Int /\ lastHeld[a][r] \in Int /\ lastHeld[a][r] <= now
  BY TimeAssumption DEF TypeOK, HeldInPast
<1>1. ASSUME NEW b \in Agents, NEW q \in RoleIds, SetAgentRole(b, q)
      PROVE  HeldUntil(a, r) <= HeldUntil(a, r)'
  <2>1. agentRoles' = [agentRoles EXCEPT ![b] = q] /\ now' = now
    BY <1>1 DEF SetAgentRole
  <2>2. lastHeld'[a][r] = IF a = b /\ r = agentRoles[b] THEN now ELSE lastHeld[a][r]
    BY <1>1 DEF SetAgentRole, TypeOK
  <2> QED
    BY <1>0, <2>1, <2>2 DEF HeldUntil, TypeOK
<1>2. CASE Tick
  BY <1>2, <1>0 DEF Tick, HeldUntil, chainVars
<1>3. CASE UNCHANGED <<now, agentRoles, lastHeld>>
  BY <1>3, <1>0 DEF HeldUntil
<1> QED
  BY <1>1, <1>2, <1>3 DEF Next, GetStep, GetHit, GetMiss, ChainReads, ReadOk, ReadRetries,
     ReadGivesUp, BackoffEnds, Invalidate, Clear, vars, chainVars

LEMMA NextReadsInTime ==
    ASSUME TypeOK, ReadsInTime, [Next]_vars
    PROVE  ReadsInTime'
<1>0. now \in Int
  BY TimeAssumption DEF TypeOK
<1>1. ASSUME NEW g \in Gets, NEW k \in Keys, GetMiss(g, k)
      PROVE  ReadsInTime'
  BY <1>1, <1>0, TimeAssumption DEF GetMiss, ReadsInTime, Reading, TypeOK
<1>2. ASSUME NEW g \in Gets, ChainReads(g) \/ ReadOk(g) \/ ReadRetries(g) \/ ReadGivesUp(g)
      PROVE  ReadsInTime'
  <2>1. \A h \in Gets : Reading(h)' => Reading(h) /\ call'[h].since = call[h].since
    BY <1>2, NoneAssumption, CallType
       DEF ChainReads, ReadOk, ReadRetries, ReadGivesUp, Reading, TypeOK, Call
  <2>2. now' = now
    BY <1>2 DEF ChainReads, ReadOk, ReadRetries, ReadGivesUp
  <2> QED
    BY <2>1, <2>2 DEF ReadsInTime
<1>3. ASSUME NEW g \in Gets, BackoffEnds(g)
      PROVE  ReadsInTime'
  <2>1. \A h \in Gets : call'[h] = IF h = g THEN [[call[g] EXCEPT !.at = "reading"] EXCEPT !.since = now]
                                           ELSE call[h]
    BY <1>3 DEF BackoffEnds, TypeOK
  <2>2. call'[g].since = now
    <3>1. call[g] \in Call
      BY <1>3, CallType DEF BackoffEnds
    <3> QED
      BY <2>1, <3>1 DEF Call
  <2>3. now' = now /\ now <= now + ReadTimeout
    BY <1>3, <1>0, TimeAssumption DEF BackoffEnds
  <2> QED
    BY <2>1, <2>2, <2>3, <1>0 DEF ReadsInTime, Reading
<1>4. CASE Tick
  <2>1. ASSUME NEW g \in Gets, Reading(g)
        PROVE  call[g].since <= now + 1 /\ now + 1 <= call[g].since + ReadTimeout
    <3>1. call[g].since \in Int
      BY <2>1, CallType DEF Reading, Call
    <3>2. now < call[g].since + ReadTimeout /\ call[g].since <= now
      BY <1>4, <2>1 DEF Tick, ReadsInTime
    <3> QED
      BY <1>0, <3>1, <3>2, TimeAssumption
  <2> QED
    BY <1>4, <2>1 DEF Tick, ReadsInTime, Reading
<1>5. CASE UNCHANGED <<now, call>>
  BY <1>5 DEF ReadsInTime, Reading
<1> QED
  BY <1>1, <1>2, <1>3, <1>4, <1>5 DEF Next, GetStep, GetHit, SetAgentRole, Invalidate, Clear,
     vars, chainVars

\* An expiry that was in time stays so, and so does a read.
LEMMA StaysInTime ==
    ASSUME NEW x \in Int, NEW h \in Int, NEW later \in Int, h <= later
    PROVE  /\ x <= h => x <= later
           /\ x <= h + TTL + ReadTimeout => x <= later + TTL + ReadTimeout
BY TimeAssumption

\* The moment until which a role was held is an integer after the step as well,
\* and not earlier than before.
LEMMA HeldUntilNext ==
    ASSUME TypeOK, HeldInPast, [Next]_vars, NEW a \in Agents, NEW r \in RoleIds
    PROVE  /\ HeldUntil(a, r) \in Int
           /\ HeldUntil(a, r)' \in Int
           /\ HeldUntil(a, r) <= HeldUntil(a, r)'
<1>1. TypeOK'
  BY NextTypeOK
<1>2. HeldUntil(a, r)' \in Int
  BY <1>1, TimeAssumption DEF TypeOK, HeldUntil
<1> QED
  BY <1>2, HeldUntilType, HeldUntilGrows

LEMMA NextEntriesExpireInTime ==
    ASSUME TypeOK, HeldInPast, ReadsInTime, EntriesExpireInTime, [Next]_vars
    PROVE  EntriesExpireInTime'
<1>1. now \in Int
  BY TimeAssumption DEF TypeOK
\* what was cached or read before the step is still in time after it
<1>2. ASSUME NEW k \in Keys, NEW e \in Entry, cache[k] = e
      PROVE  e.expiresAt <= HeldUntil(AgentOf[k], e.role)' + TTL + ReadTimeout
  <2>1. e.role \in RoleIds /\ e.expiresAt \in Int /\ AgentOf[k] \in Agents
    BY KeyAssumption DEF Entry
  <2>2. e.expiresAt <= HeldUntil(AgentOf[k], e.role) + TTL + ReadTimeout
    BY <1>2, NoneAssumption DEF EntriesExpireInTime
  <2> QED
    BY <2>1, <2>2, HeldUntilNext, StaysInTime
<1>3. ASSUME NEW g \in Gets, NEW c \in Call, call[g] = c, c.at = "read"
      PROVE  c.since <= HeldUntil(AgentOf[c.key], c.got)'
  <2>1. c.since \in Int /\ c.got \in RoleIds /\ AgentOf[c.key] \in Agents
    BY KeyAssumption DEF Call
  <2>2. c.since <= HeldUntil(AgentOf[c.key], c.got)
    BY <1>3, NoneAssumption DEF EntriesExpireInTime, Bringing
  <2> QED
    BY <2>1, <2>2, HeldUntilNext, StaysInTime
\* so only new entries and new reads remain to be considered
<1>4. SUFFICES
        /\ \A k \in Keys : \A e \in Entry : cache'[k] = e /\ cache[k] # e =>
              e.expiresAt <= HeldUntil(AgentOf[k], e.role)' + TTL + ReadTimeout
        /\ \A g \in Gets : \A c \in Call : call'[g] = c /\ call[g] # c /\ c.at = "read" =>
              c.since <= HeldUntil(AgentOf[c.key], c.got)'
  <2>1. TypeOK'
    BY NextTypeOK
  <2>2. ASSUME NEW k \in Keys, cache'[k] # None
        PROVE  cache'[k].expiresAt <= HeldUntil(AgentOf[k], cache[k].role)' + TTL + ReadTimeout
    <3>1. PICK e \in Entry : cache'[k] = e
      BY <2>1, <2>2 DEF TypeOK
    <3> QED
      BY <1>2, <1>4, <3>1
  <2>3. ASSUME NEW g \in Gets, Bringing(g)'
        PROVE  call'[g].since <= HeldUntil(AgentOf[call[g].key], call[g].got)'
    <3>1. PICK c \in Call : call'[g] = c /\ c.at = "read"
      BY <2>1, <2>3 DEF TypeOK, Bringing
    <3> QED
      BY <1>3, <1>4, <3>1
  <2> QED
    BY <2>2, <2>3 DEF EntriesExpireInTime
<1>5. CASE \E g \in Gets : ReadOk(g)
  <2>1. PICK g \in Gets : ReadOk(g)
    BY <1>5
  <2>2. PICK c \in Call : call[g] = c /\ c.at = "read"
    BY <2>1, CallType DEF ReadOk
  <2>3. c.key \in Keys /\ c.got \in RoleIds /\ c.since \in Int /\ AgentOf[c.key] \in Agents
    BY KeyAssumption DEF Call
  <2>4. \A k \in Keys : cache'[k] = IF k = c.key THEN [role |-> c.got, expiresAt |-> now + TTL]
                                               ELSE cache[k]
    BY <2>1, <2>2 DEF ReadOk, TypeOK
  <2>5. c.since <= HeldUntil(AgentOf[c.key], c.got)'
    BY <1>3, <2>2
  <2>6. now <= c.since + ReadTimeout
    BY <2>2, NoneAssumption DEF ReadsInTime, Reading
  <2>7. HeldUntil(AgentOf[c.key], c.got)' \in Int
    BY <2>3, HeldUntilNext
  <2>8. PICK h \in Int : h = HeldUntil(AgentOf[c.key], c.got)'
    BY <2>7
  <2>9. now + TTL <= h + TTL + ReadTimeout
    BY <1>1, <2>3, <2>5, <2>6, <2>8, TimeAssumption
  <2>10. \A h2 \in Gets : \A d \in Call : call'[h2] = d => call[h2] = d
    BY <2>1, NoneAssumption DEF ReadOk, TypeOK
  <2> QED
    BY <2>4, <2>8, <2>9, <2>10
<1>6. CASE \E g \in Gets : ChainReads(g)
  <2>1. PICK g \in Gets : ChainReads(g)
    BY <1>6
  <2>2. PICK c \in Call : call[g] = c /\ c.at = "reading"
    BY <2>1, CallType DEF ChainReads
  <2>3. c.key \in Keys /\ c.since \in Int /\ AgentOf[c.key] \in Agents
    BY KeyAssumption DEF Call
  <2>4. \A h \in Gets : h # g => call'[h] = call[h]
    BY <2>1 DEF ChainReads, TypeOK
  <2>5. /\ call'[g].key = c.key
        /\ call'[g].since = c.since
        /\ call'[g].got = agentRoles[AgentOf[c.key]]
    BY <2>1, <2>2 DEF ChainReads, TypeOK, Call
  <2>6. c.since <= now
    BY <2>2, NoneAssumption DEF ReadsInTime, Reading
  <2>7. ASSUME NEW d \in Call, call'[g] = d
        PROVE  d.since <= HeldUntil(AgentOf[d.key], d.got)'
    <3>1. agentRoles' = agentRoles /\ now' = now
      BY <2>1 DEF ChainReads, chainVars
    <3> QED
      BY <2>5, <2>6, <2>7, <3>1 DEF HeldUntil
  <2>8. cache' = cache
    BY <2>1 DEF ChainReads
  <2> QED
    BY <2>4, <2>7, <2>8
<1>7. ASSUME NEW g \in Gets, NEW k \in Keys, GetMiss(g, k)
      PROVE  \A h \in Gets : \A c \in Call : call'[h] = c /\ c.at = "read" => call[h] = c
  BY <1>7 DEF GetMiss, TypeOK
<1>8. ASSUME NEW g \in Gets, ReadRetries(g) \/ ReadGivesUp(g) \/ BackoffEnds(g)
      PROVE  \A h \in Gets : \A c \in Call : call'[h] = c /\ c.at = "read" => call[h] = c
  <2>1. call[g] \in Call
    BY <1>8, CallType DEF ReadRetries, ReadGivesUp, BackoffEnds, Reading
  <2>2. \A h \in Gets : h # g => call'[h] = call[h]
    BY <1>8 DEF ReadRetries, ReadGivesUp, BackoffEnds, TypeOK
  <2>3. call'[g] = None \/ call'[g].at # "read"
    BY <1>8, <2>1 DEF ReadRetries, ReadGivesUp, BackoffEnds, TypeOK, Call
  <2> QED
    BY <2>2, <2>3, NoneAssumption
<1>9. CASE UNCHANGED cache /\ \A h \in Gets : \A c \in Call :
               call'[h] = c /\ c.at = "read" => call[h] = c
  BY <1>9
<1>10. CASE Clear \/ \E k \in Keys : Invalidate(k)
  <2>1. call' = call
    BY <1>10 DEF Clear, Invalidate
  <2>2. \A l \in Keys : \A e \in Entry : cache'[l] = e => cache[l] = e
    BY <1>10, NoneAssumption DEF Invalidate, Clear, TypeOK
  <2> QED
    BY <2>1, <2>2
<1>11. CASE \E g \in Gets : \/ \E k \in Keys : GetMiss(g, k)
                            \/ ReadRetries(g) \/ ReadGivesUp(g) \/ BackoffEnds(g)
  BY <1>7, <1>8, <1>9, <1>11 DEF GetMiss, ReadRetries, ReadGivesUp, BackoffEnds
<1>12. CASE UNCHANGED <<cache, call>>
  BY <1>12
<1> QED
  BY <1>5, <1>6, <1>10, <1>11, <1>12 DEF Next, GetStep, GetHit, SetAgentRole, Tick, vars, chainVars

LEMMA NextBoundedStaleness ==
    ASSUME StalenessInv, [Next]_vars
    PROVE  BoundedStaleness'
<1> USE DEF StalenessInv
<1>1. now \in Int
  BY TimeAssumption DEF TypeOK
<1>2. ASSUME NEW g \in Gets, NEW k \in Keys, GetHit(g, k)
      PROVE  BoundedStaleness'
  <2>1. PICK e \in Entry : cache[k] = e /\ e.expiresAt > now
    BY <1>2 DEF GetHit, Usable, TypeOK
  <2>2. e.role \in RoleIds /\ e.expiresAt \in Int /\ AgentOf[k] \in Agents
    BY KeyAssumption DEF Entry
  <2>3. PICK h \in Int : h = HeldUntil(AgentOf[k], e.role)
    BY <2>2, HeldUntilType
  <2>4. e.expiresAt <= h + TTL + ReadTimeout
    BY <2>1, <2>3, NoneAssumption DEF EntriesExpireInTime
  <2>5. now - h < TTL + ReadTimeout
    BY <1>1, <2>1, <2>2, <2>4, TimeAssumption
  <2>6. answer' = [agent |-> AgentOf[k], role |-> e.role, age |-> now - h]
    BY <1>2, <2>1, <2>3 DEF GetHit, Return
  <2> QED
    BY <2>5, <2>6 DEF BoundedStaleness
<1>3. ASSUME NEW g \in Gets, ReadOk(g)
      PROVE  BoundedStaleness'
  <2>1. PICK c \in Call : call[g] = c /\ c.at = "read"
    BY <1>3, CallType DEF ReadOk
  <2>2. c.got \in RoleIds /\ c.since \in Int /\ AgentOf[c.key] \in Agents
    BY KeyAssumption DEF Call
  <2>3. PICK h \in Int : h = HeldUntil(AgentOf[c.key], c.got)
    BY <2>2, HeldUntilType
  <2>4. c.since <= h /\ now <= c.since + ReadTimeout
    BY <2>1, <2>3, NoneAssumption DEF EntriesExpireInTime, Bringing, ReadsInTime, Reading
  <2>5. now - h < TTL + ReadTimeout
    BY <1>1, <2>2, <2>4, TimeAssumption
  <2>6. answer' = [agent |-> AgentOf[c.key], role |-> c.got, age |-> now - h]
    BY <1>3, <2>1, <2>3 DEF ReadOk, Return
  <2> QED
    BY <2>5, <2>6 DEF BoundedStaleness
<1>4. ASSUME NEW g \in Gets, ReadGivesUp(g)
      PROVE  BoundedStaleness'
  <2>1. answer'.age = 0
    BY <1>4 DEF ReadGivesUp
  <2> QED
    BY <2>1, TimeAssumption DEF BoundedStaleness
<1>5. CASE answer' = None \/ answer' = answer
  BY <1>5 DEF BoundedStaleness
<1> QED
  BY <1>2, <1>3, <1>4, <1>5 DEF Next, GetStep, GetMiss, ChainReads, ReadRetries, BackoffEnds,
     SetAgentRole, Invalidate, Clear, Tick, vars

LEMMA NextStalenessInv ==
    ASSUME StalenessInv, [Next]_vars
    PROVE  StalenessInv'
BY NextTypeOK, NextHeldInPast, NextReadsInTime, NextEntriesExpireInTime, NextBoundedStaleness
   DEF StalenessInv

(* Whatever get() returns was the agent's role less than TTL + ReadTimeout   *)
(* ago: a revocation is obeyed in bounded time, and a chain that is down     *)
(* closes access.                                                            *)
THEOREM StalenessIsBounded == Spec => []BoundedStaleness
<1>1. StalenessInv => BoundedStaleness
  BY DEF StalenessInv
<1> QED
  BY InitStalenessInv, NextStalenessInv, <1>1, PTL DEF Spec

(* Every cached entry expires, and every read ends, in time for that bound.  *)
THEOREM ExpiryIsInTime == Spec => []EntriesExpireInTime
<1>1. StalenessInv => EntriesExpireInTime
  BY DEF StalenessInv
<1> QED
  BY InitStalenessInv, NextStalenessInv, <1>1, PTL DEF Spec

-----------------------------------------------------------------------------
(* A role that is gone.                                                      *)

\* What GoneStaysGone says of one step, agent and role.
StaysGone(a, r) ==
    /\ Gone(a, r)'
    /\ answer' # None /\ answer'.agent = a => answer'.role # r

LEMMA StepStaysGone ==
    ASSUME TypeOK, Next, NEW a \in Agents, NEW r \in RoleIds,
           Gone(a, r), agentRoles'[a] # r
    PROVE  StaysGone(a, r)
<1>1. ASSUME NEW b \in Agents, NEW q \in RoleIds, SetAgentRole(b, q)
      PROVE  StaysGone(a, r)
  BY <1>1 DEF SetAgentRole, StaysGone, Gone, Usable, Bringing
<1>2. ASSUME NEW g \in Gets, NEW k \in Keys, GetHit(g, k)
      PROVE  StaysGone(a, r)
  BY <1>2 DEF GetHit, Return, StaysGone, Gone, Usable, Bringing, chainVars
<1>3. ASSUME NEW g \in Gets, NEW k \in Keys, GetMiss(g, k)
      PROVE  StaysGone(a, r)
  BY <1>3 DEF GetMiss, StaysGone, Gone, Usable, Bringing, chainVars, TypeOK
<1>4. ASSUME NEW g \in Gets, ChainReads(g)
      PROVE  StaysGone(a, r)
  BY <1>4 DEF ChainReads, StaysGone, Gone, Usable, Bringing, chainVars, TypeOK, Call
<1>5. ASSUME NEW g \in Gets, ReadOk(g)
      PROVE  StaysGone(a, r)
  <2>1. PICK k \in Keys, q \in RoleIds : k = call[g].key /\ q = call[g].got
    BY <1>5 DEF ReadOk, TypeOK, Call
  <2>2. AgentOf[k] = a => q # r
    BY <1>5, <2>1 DEF ReadOk, Gone, Bringing
  <2>3. /\ cache' = [cache EXCEPT ![k] = [role |-> q, expiresAt |-> now + TTL]]
        /\ call' = [call EXCEPT ![g] = None]
        /\ agentRoles' = agentRoles /\ now' = now
        /\ answer'.agent = AgentOf[k] /\ answer'.role = q
    BY <1>5, <2>1 DEF ReadOk, Return, chainVars
  <2>4. \A l \in Keys : AgentOf[l] = a /\ Usable(l)' => cache'[l].role # r
    BY <2>2, <2>3 DEF Usable, Gone, TypeOK
  <2>5. \A h \in Gets : Bringing(h)' => Bringing(h) /\ call'[h] = call[h]
    BY <2>3 DEF Bringing, TypeOK
  <2>6. \A h \in Gets : Bringing(h)' /\ AgentOf[call'[h].key] = a => call'[h].got # r
    BY <2>5 DEF Gone
  <2>7. Gone(a, r)'
    BY <2>3, <2>4, <2>6 DEF Gone
  <2> QED
    BY <2>2, <2>3, <2>7 DEF StaysGone
<1>6. ASSUME NEW g \in Gets, ReadRetries(g) \/ BackoffEnds(g)
      PROVE  StaysGone(a, r)
  <2>1. call[g] \in Call
    BY <1>6 DEF ReadRetries, BackoffEnds, Reading, TypeOK
  <2>2. call'[g].at # "read" /\ \A h \in Gets \ {g} : call'[h] = call[h]
    BY <1>6, <2>1 DEF ReadRetries, BackoffEnds, TypeOK, Call
  <2>3. /\ cache' = cache /\ agentRoles' = agentRoles /\ now' = now /\ answer' = None
    BY <1>6 DEF ReadRetries, BackoffEnds, chainVars
  <2> QED
    BY <2>2, <2>3 DEF StaysGone, Gone, Usable, Bringing
<1>7. ASSUME NEW g \in Gets, ReadGivesUp(g)
      PROVE  StaysGone(a, r)
  BY <1>7, RoleAssumption
  DEF ReadGivesUp, StaysGone, Gone, Usable, Bringing, chainVars, TypeOK
<1>8. ASSUME Clear \/ \E k \in Keys : Invalidate(k)
      PROVE  StaysGone(a, r)
  BY <1>8 DEF Clear, Invalidate, StaysGone, Gone, Usable, Bringing, chainVars, TypeOK
<1>9. ASSUME Tick
      PROVE  StaysGone(a, r)
  <2>1. /\ cache' = cache /\ call' = call /\ agentRoles' = agentRoles /\ answer' = None
    BY <1>9 DEF Tick, chainVars
  <2>2. PICK t \in Int : t = now /\ now' = t + 1
    BY <1>9, TimeAssumption DEF Tick, TypeOK
  <2>3. ASSUME NEW k \in Keys, Usable(k)'
        PROVE  Usable(k)
    <3>1. cache[k] # None /\ cache[k].expiresAt \in Int /\ cache[k].expiresAt > t + 1
      BY <2>1, <2>2, <2>3 DEF Usable, TypeOK, Entry
    <3> QED
      BY <2>2, <3>1 DEF Usable
  <2>4. \A g \in Gets : Bringing(g)' <=> Bringing(g)
    BY <2>1 DEF Bringing
  <2> QED
    BY <2>1, <2>3, <2>4 DEF StaysGone, Gone
<1> QED
  BY <1>1, <1>2, <1>3, <1>4, <1>5, <1>6, <1>7, <1>8, <1>9 DEF Next, GetStep

(* No retry, expiry, overlap or failure brings a role back that the contract, *)
(* the usable entries and the reads under way have lost.                      *)
THEOREM GoneIsStable == Spec => GoneStaysGone
<1>1. ASSUME TypeOK, [Next]_vars
      PROVE  [\A a \in Agents, r \in RoleIds :
                 Gone(a, r) /\ agentRoles'[a] # r =>
                     /\ Gone(a, r)'
                     /\ answer' # None /\ answer'.agent = a => answer'.role # r]_vars
  BY <1>1, StepStaysGone DEF StaysGone
<1> QED
  BY <1>1, TypeCorrect, PTL DEF Spec, GoneStaysGone

-----------------------------------------------------------------------------
(* Refinement of PermissionOracle.                                           *)

LEMMA OracleInitially == Init => Oracle!Init
BY DEF Init, Oracle!Init, RoleIds

LEMMA OracleStep ==
    ASSUME StalenessInv, [Next]_vars
    PROVE  [Oracle!Next]_(Oracle!vars)
<1>0. TypeOK /\ BoundedStaleness'
  BY NextBoundedStaleness DEF StalenessInv
\* a role that is returned answers the question, and it is fresh
<1>1. ASSUME NEW k \in Keys, NEW r \in RoleIds, Return(k, r), UNCHANGED <<now, chainVars>>
      PROVE  Oracle!Next
  <2>1. AgentOf[k] \in Agents
    BY KeyAssumption
  <2>2. answer' = [agent |-> AgentOf[k], role |-> r, age |-> now - HeldUntil(AgentOf[k], r)]
    BY <1>1 DEF Return
  <2>3. answer' \in Result
    BY <1>0, <1>1, ReturnType
  <2>4. now - HeldUntil(AgentOf[k], r) < TTL + ReadTimeout
    BY <1>0, <2>2, <2>3, NoneAssumption DEF BoundedStaleness
  <2>5. Oracle!Answer(AgentOf[k], r)
    BY <1>1, <2>2, <2>4 DEF Oracle!Answer, Oracle!Fresh, Oracle!HeldUntil, HeldUntil, chainVars
  <2> QED
    BY <2>1, <2>5 DEF Oracle!Next
<1>2. ASSUME NEW a \in Agents, NEW r \in RoleIds, SetAgentRole(a, r)
      PROVE  Oracle!Next
  <2>1. Oracle!SetAgentRole(a, r)
    BY <1>2 DEF SetAgentRole, Oracle!SetAgentRole
  <2> QED
    BY <2>1 DEF Oracle!Next
<1>3. ASSUME NEW g \in Gets, NEW k \in Keys, GetHit(g, k)
      PROVE  Oracle!Next
  <2>1. cache[k].role \in RoleIds
    BY <1>0, <1>3 DEF GetHit, Usable, TypeOK, Entry
  <2> QED
    BY <1>1, <1>3, <2>1 DEF GetHit
<1>4. ASSUME NEW g \in Gets, ReadOk(g)
      PROVE  Oracle!Next
  <2>1. call[g].key \in Keys /\ call[g].got \in RoleIds
    BY <1>0, <1>4, CallType DEF ReadOk, Call
  <2> QED
    BY <1>1, <1>4, <2>1 DEF ReadOk
<1>5. ASSUME NEW g \in Gets, ReadGivesUp(g)
      PROVE  Oracle!Next
  <2>1. AgentOf[call[g].key] \in Agents
    BY <1>0, <1>5, CallType, KeyAssumption DEF ReadGivesUp, Reading, Call
  <2>2. Oracle!Refuse(AgentOf[call[g].key])
    BY <1>5 DEF ReadGivesUp, Oracle!Refuse, chainVars
  <2> QED
    BY <2>1, <2>2 DEF Oracle!Next
<1>6. CASE answer' = None /\ UNCHANGED <<now, chainVars>>
  BY <1>6 DEF Oracle!Next, Oracle!Silent, chainVars
<1>7. CASE Tick
  BY <1>7 DEF Tick, Oracle!Next, Oracle!Tick, chainVars
<1>8. CASE UNCHANGED vars
  BY <1>8 DEF vars, chainVars, Oracle!vars
<1> QED
  BY <1>2, <1>3, <1>4, <1>5, <1>6, <1>7, <1>8 DEF Next, GetStep, GetMiss, ChainReads,
     ReadRetries, BackoffEnds, Invalidate, Clear

(* The permission cache implements the oracle: whatever a middleware can see  *)
(* of it, a question to a contract that answers at most TTL + ReadTimeout     *)
(* late could show as well.                                                   *)
THEOREM CacheRefinesOracle == Spec => ImplementsOracle
BY InitStalenessInv, NextStalenessInv, OracleInitially, OracleStep, PTL
DEF Spec, ImplementsOracle, Oracle!Spec
=============================================================================
