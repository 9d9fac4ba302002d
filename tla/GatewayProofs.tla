--------------------------- MODULE GatewayProofs ---------------------------
(***************************************************************************)
(* Theorems about Gateway: for any requests, agents, roles and time-outs,  *)
(* with no fairness assumed.  The steps of the gateway are steps of        *)
(* Pipeline, so its theorems hold here too; what is added is the role that *)
(* get() answered, its age, and what of it the trail on the chain says.    *)
(***************************************************************************)
EXTENDS Gateway, PipelineProofs

\* What get() answered is what the flags say.
Based(r) ==
    /\ role[r] \in {"unasked", "unavailable"} => basis[r] = None
    /\ role[r] \in {"inactive", "forbids", "permits"} =>
           basis[r] \in RoleIds /\ role[r] = Verdict(r, basis[r])
    /\ "unknownTool" \in context[r] => role[r] = "unasked"
    /\ "agentRevoked" \in context[r] => role[r] = "inactive"
    /\ "permissionDenied" \in context[r] => role[r] = "forbids"

\* Only a tool that was called has a success.
Earned(r) == pc[r] = "auditing" /\ Success(SeenStatus(r)) => calls[r] > 0

\* What an entry says of its request.
Truth(r) ==
    CASE entry[r].error = "" ->
             calls[r] = 1 /\ basis[r] \in Permitting[r]
      [] entry[r].error = "permission/agent_revoked" ->
             calls[r] = 0 /\ basis[r] = Zero
      [] entry[r].error = "permission/no_action_access" ->
             calls[r] = 0 /\ basis[r] \in RoleIds \ (Permitting[r] \union {Zero})
      [] entry[r].error = "request/unknown_tool" ->
             calls[r] = 0 /\ basis[r] = None
      [] OTHER -> calls[r] = 0 \/ basis[r] \in Permitting[r]

Sealed(r) == entry[r] # None => pc[r] = "answered" /\ Truth(r)

\* While the agent's body is awaited, the role that permits the call ages.
Authority(r) ==
    At(r, "requestBody") =>
        /\ now <= checkedAt[r] + RequestTimeout
        /\ checkedAt[r] - Oracle!HeldUntil(AgentOf[r], basis[r]) < Staleness

HeldInv == \A a \in Agents, q \in RoleIds : lastHeld[a][q] <= now

RecordedInv == \A r \in Requests : recorded[r] > 0 => entry[r] # None

DecisionInv(r) == Based(r) /\ Earned(r) /\ Sealed(r)

\* The inductive invariant.
GatewayInv ==
    /\ PipelineInv
    /\ GatewayTypeOK
    /\ HeldInv
    /\ RecordedInv
    /\ \A r \in Requests : DecisionInv(r) /\ Authority(r)

(***************************************************************************)
(* Every step of the gateway is one of Pipeline, or leaves it alone.       *)
(***************************************************************************)

LEMMA VerdictKnown ==
    ASSUME NEW r \in Requests, NEW q
    PROVE  Verdict(r, q) \in {"inactive", "forbids", "permits"}
BY DEF Verdict

LEMMA GatewayStep ==
    ASSUME GatewayNext
    PROVE  \/ \E r \in Requests : RequestStep(r)
           \/ Exit
           \/ UNCHANGED vars
<1>1. ASSUME NEW r \in Requests, NEW q \in RoleIds, ChecksRole(r, q)
      PROVE  RequestStep(r)
  BY <1>1, VerdictKnown DEF ChecksRole, RequestStep, CheckEnds
<1>2. ASSUME NEW r \in Requests, GoesOn(r)
      PROVE  RequestStep(r)
  BY <1>2 DEF GoesOn, RequestStep, CheckEnds
<1>3. ASSUME NEW r \in Requests, Records(r) \/ Acknowledges(r)
      PROVE  UNCHANGED vars
  BY <1>3 DEF Records, Acknowledges
<1>4. ASSUME NEW a \in Agents, NEW q \in RoleIds, SetsRole(a, q)
      PROVE  UNCHANGED vars
  BY <1>4 DEF SetsRole
<1>5. CASE Passes
  BY <1>5 DEF Passes
<1>6. CASE Exits
  BY <1>6 DEF Exits
<1> QED
  BY <1>1, <1>2, <1>3, <1>4, <1>5, <1>6 DEF GatewayNext

LEMMA GatewayRefines ==
    ASSUME [GatewayNext]_gatewayVars
    PROVE  [Next]_vars
<1>1. CASE GatewayNext
  BY <1>1, GatewayStep DEF Next
<1>2. CASE UNCHANGED gatewayVars
  BY <1>2 DEF gatewayVars
<1> QED
  BY <1>1, <1>2

(* The gateway is Pipeline with answers of get() that the permission cache can  *)
(* give (rbac.ts:116): every theorem about Pipeline's states holds for it.      *)
THEOREM GatewayIsPipeline == GatewaySpec => Spec
<1>1. GatewayInit => Init
  BY DEF GatewayInit
<1>2. [GatewayNext]_gatewayVars => [Next]_vars
  BY GatewayRefines
<1> QED
  BY <1>1, <1>2, PTL DEF GatewaySpec, Spec

(***************************************************************************)
(* The contract and the clock.                                             *)
(***************************************************************************)

OracleTypeOK ==
    /\ now \in 0 .. MaxTime
    /\ agentRoles \in [Agents -> RoleIds]
    /\ lastHeld \in [Agents -> [RoleIds -> Int]]

\* What a step of the gateway does to the contract and the clock.
OracleStep ==
    \/ UNCHANGED oracleVars
    \/ \E a \in Agents, q \in RoleIds : SetsRole(a, q)
    \/ Passes

LEMMA GatewayOracleStep ==
    ASSUME [GatewayNext]_gatewayVars
    PROVE  OracleStep
<1>1. ASSUME NEW r \in Requests, NEW q \in RoleIds, ChecksRole(r, q)
      PROVE  OracleStep
  BY <1>1 DEF ChecksRole, OracleStep
<1>2. ASSUME NEW r \in Requests, GoesOn(r) \/ Records(r) \/ Acknowledges(r)
      PROVE  OracleStep
  BY <1>2 DEF GoesOn, Records, Acknowledges, OracleStep
<1>3. CASE Exits \/ UNCHANGED gatewayVars
  BY <1>3 DEF Exits, gatewayVars, OracleStep
<1> QED
  BY <1>1, <1>2, <1>3 DEF GatewayNext, OracleStep

\* Roles on the contract are given up in the past, and a role is never held until
\* an earlier moment than before.
LEMMA OracleKeeps ==
    ASSUME OracleTypeOK, HeldInv, OracleStep
    PROVE  /\ OracleTypeOK' /\ HeldInv' /\ now <= now'
           /\ \A a \in Agents, q \in RoleIds :
                  Oracle!HeldUntil(a, q) <= Oracle!HeldUntil(a, q)'
<1> DEFINE Later == \A a \in Agents, q \in RoleIds :
                       Oracle!HeldUntil(a, q) <= Oracle!HeldUntil(a, q)'
<1> SUFFICES OracleTypeOK' /\ HeldInv' /\ now <= now' /\ Later
  OBVIOUS
<1>1. CASE UNCHANGED oracleVars
  BY <1>1 DEF oracleVars, OracleTypeOK, HeldInv, Oracle!HeldUntil
<1>2. ASSUME NEW a \in Agents, NEW q \in RoleIds, SetsRole(a, q)
      PROVE  OracleTypeOK' /\ HeldInv' /\ now <= now' /\ Later
  <2>1. /\ agentRoles' = [agentRoles EXCEPT ![a] = q]
        /\ lastHeld' = [lastHeld EXCEPT ![a][agentRoles[a]] = now]
        /\ now' = now
    BY <1>2 DEF SetsRole, Oracle!SetAgentRole
  <2>2. OracleTypeOK'
    BY <2>1 DEF OracleTypeOK
  <2>3. ASSUME NEW b \in Agents, NEW x \in RoleIds
        PROVE  /\ lastHeld'[b][x] \in {lastHeld[b][x], now}
               /\ b = a /\ x = agentRoles[a] => lastHeld'[b][x] = now
               /\ b # a => agentRoles'[b] = agentRoles[b]
    BY <2>1 DEF OracleTypeOK
  <2>4. HeldInv' /\ now <= now'
    BY <2>1, <2>3 DEF HeldInv, OracleTypeOK
  <2>5. ASSUME NEW b \in Agents, NEW x \in RoleIds
        PROVE  Oracle!HeldUntil(b, x) <= Oracle!HeldUntil(b, x)'
    <3>1. lastHeld[b][x] <= now /\ lastHeld[b][x] \in Int /\ now \in Int
      BY DEF HeldInv, OracleTypeOK
    <3>2. agentRoles[b] = x => agentRoles'[b] = x \/ lastHeld'[b][x] = now
      BY <2>3
    <3> QED
      BY <2>1, <2>3, <3>1, <3>2 DEF Oracle!HeldUntil
  <2> QED
    BY <2>2, <2>4, <2>5
<1>3. CASE Passes
  <2>1. now' = now + 1 /\ now < MaxTime /\ agentRoles' = agentRoles /\ lastHeld' = lastHeld
    BY <1>3 DEF Passes, Oracle!Tick
  <2>2. PICK n \in Nat : n = now
    BY DEF OracleTypeOK
  <2>3. now' = n + 1 /\ now' \in 0 .. MaxTime
    BY <2>1, <2>2, GatewayTimeAssumption
  <2>4. ASSUME NEW b \in Agents, NEW x \in RoleIds
        PROVE  /\ lastHeld[b][x] \in Int /\ lastHeld[b][x] <= n
               /\ Oracle!HeldUntil(b, x) <= Oracle!HeldUntil(b, x)'
    <3>1. lastHeld[b][x] \in Int /\ lastHeld[b][x] <= n
      BY <2>2 DEF OracleTypeOK, HeldInv
    <3> QED
      BY <2>1, <2>2, <2>3, <3>1 DEF Oracle!HeldUntil
  <2> QED
    BY <2>1, <2>2, <2>3, <2>4 DEF OracleTypeOK, HeldInv
<1> QED
  BY <1>1, <1>2, <1>3 DEF OracleStep

(***************************************************************************)
(* Typing, and what is on the chain.                                       *)
(***************************************************************************)

LEMMA AuditWrites ==
    ASSUME TypeOK, NEW r \in Requests, Audit(r)
    PROVE  entry'[r] \in AuditEntry /\ entry'[r] # None
<1>1. SeenStatus(r) \in Nat
  BY DEF SeenStatus, TypeOK, Response
<1>2. [status |-> SeenStatus(r), error |-> ErrorType(context[r], SeenStatus(r))]
          \in AuditEntry
  BY <1>1, ErrorTypeTyped DEF AuditEntry
<1> QED
  BY <1>2, NoneAssumption DEF Audit, TypeOK

\* Only Audit writes an entry, only SendUpstream calls a tool, and the process lives.
OneWriter(r) ==
    /\ alive' = alive
    /\ Audit(r) \/ UNCHANGED entry
    /\ SendUpstream(r) \/ UNCHANGED calls

LEMMA StepOneWriter ==
    ASSUME NEW r \in Requests, RequestStep(r)
    PROVE  OneWriter(r)
<1>1. ASSUME NEW s, Reject(r, s) PROVE OneWriter(r)
  BY <1>1 DEF OneWriter, Reject, histVars
<1>2. CASE StartVerification(r)
  BY <1>2 DEF OneWriter, StartVerification, histVars
<1>3. CASE VerificationEnds(r)
  BY <1>3 DEF OneWriter, VerificationEnds, VerificationFails, VerifiedUnknownTool, Verified,
              histVars
<1>4. CASE CheckEnds(r)
  BY <1>4 DEF OneWriter, CheckEnds, CheckFails, CheckAnswers
<1>5. CASE RequestBodyEnds(r)
  <2>1. ASSUME NEW s, SendFails(r, s) PROVE OneWriter(r)
    BY <2>1 DEF OneWriter, SendFails, histVars
  <2>2. CASE SendUpstream(r)
    BY <2>2 DEF OneWriter, SendUpstream
  <2> QED
    BY <1>5, <2>1, <2>2 DEF RequestBodyEnds
<1>6. CASE FetchEnds(r)
  <2>1. CASE FetchTimesOut(r)
    BY <2>1 DEF OneWriter, FetchTimesOut, histVars
  <2>2. CASE FetchFails(r)
    BY <2>2 DEF OneWriter, FetchFails, histVars
  <2>3. ASSUME NEW h, HeadersArrive(r, h) PROVE OneWriter(r)
    BY <2>3 DEF OneWriter, HeadersArrive, histVars
  <2>4. ASSUME NEW s, StreamArrives(r, s) PROVE OneWriter(r)
    BY <2>4 DEF OneWriter, StreamArrives, histVars
  <2> QED
    BY <1>6, <2>1, <2>2, <2>3, <2>4 DEF FetchEnds
<1>7. CASE ResponseBodyEnds(r)
  BY <1>7 DEF OneWriter, ResponseBodyEnds, BodyEnds, BodyIsAbsent, BodyFails, histVars
<1>8. CASE AuditEnds(r)
  <2>1. CASE Audit(r)
    BY <2>1 DEF OneWriter, Audit, histVars
  <2>2. CASE AuditFails(r)
    BY <2>2 DEF OneWriter, AuditFails
  <2> QED
    BY <1>8, <2>1, <2>2 DEF AuditEnds
<1> QED
  BY <1>1, <1>2, <1>3, <1>4, <1>5, <1>6, <1>7, <1>8 DEF RequestStep

LEMMA EntryStays ==
    ASSUME TypeOK, [Next]_vars, NEW r \in Requests, entry[r] # None
    PROVE  entry'[r] # None
<1>1. ASSUME NEW q \in Requests, RequestStep(q)
      PROVE  entry'[r] # None
  <2>1. CASE UNCHANGED entry
    BY <2>1
  <2>2. CASE Audit(q)
    BY <2>2, AuditWrites DEF Audit, TypeOK
  <2> QED
    BY <1>1, <2>1, <2>2, StepOneWriter DEF OneWriter
<1>2. CASE Exit \/ UNCHANGED vars
  BY <1>2 DEF Exit, vars, chainVars
<1> QED
  BY <1>1, <1>2 DEF Next

\* The variables of the log.
LEMMA LogKeeps ==
    ASSUME GatewayTypeOK, RecordedInv, [GatewayNext]_gatewayVars
    PROVE  /\ recorded' \in [Requests -> 0 .. MaxRecords]
           /\ acknowledged' \subseteq {r \in Requests : entry'[r] # None}
           /\ RecordedInv'
<1>1. TypeOK /\ [Next]_vars
  BY GatewayRefines DEF GatewayTypeOK
<1>2. \A r \in Requests : entry[r] # None => entry'[r] # None
  BY <1>1, EntryStays
<1>3. CASE UNCHANGED logVars
  BY <1>2, <1>3 DEF logVars, GatewayTypeOK, RecordedInv
<1>4. ASSUME NEW r \in Requests, Records(r)
      PROVE  /\ recorded' \in [Requests -> 0 .. MaxRecords]
             /\ acknowledged' = acknowledged
             /\ RecordedInv'
  <2>1. /\ recorded' = [recorded EXCEPT ![r] = @ + 1]
        /\ acknowledged' = acknowledged /\ entry' = entry
        /\ recorded[r] < MaxRecords /\ entry[r] # None
    BY <1>4 DEF Records, Log!Record, vars, chainVars
  <2>2. recorded[r] \in Nat /\ recorded[r] + 1 \in 0 .. MaxRecords
    BY <2>1, GatewayTimeAssumption DEF GatewayTypeOK
  <2> QED
    BY <2>1, <2>2 DEF GatewayTypeOK, RecordedInv
<1>5. ASSUME NEW r \in Requests, Acknowledges(r)
      PROVE  /\ recorded' = recorded
             /\ acknowledged' \subseteq {x \in Requests : entry[x] # None}
             /\ entry' = entry
  BY <1>5 DEF Acknowledges, Log!Acknowledge, vars, chainVars, GatewayTypeOK
<1>6. (\E r \in Requests : Records(r) \/ Acknowledges(r)) \/ UNCHANGED logVars
  BY DEF GatewayNext, ChecksRole, GoesOn, SetsRole, Passes, Exits, gatewayVars
<1> QED
  BY <1>2, <1>3, <1>4, <1>5, <1>6 DEF GatewayTypeOK, RecordedInv

\* What get() answered, and when.
LEMMA BasisKeeps ==
    ASSUME GatewayTypeOK, [GatewayNext]_gatewayVars
    PROVE  /\ basis' \in [Requests -> RoleIds \union {None}]
           /\ checkedAt' \in [Requests -> 0 .. MaxTime]
<1>1. ASSUME NEW r \in Requests, NEW q \in RoleIds, ChecksRole(r, q)
      PROVE  /\ basis' \in [Requests -> RoleIds \union {None}]
             /\ checkedAt' \in [Requests -> 0 .. MaxTime]
  BY <1>1 DEF ChecksRole, GatewayTypeOK
<1>2. (\E r \in Requests, q \in RoleIds : ChecksRole(r, q)) \/ UNCHANGED basisVars
  BY DEF GatewayNext, GoesOn, Records, Acknowledges, SetsRole, Passes, Exits, gatewayVars
<1> QED
  BY <1>1, <1>2 DEF basisVars, GatewayTypeOK

LEMMA NextGatewayTypeOK ==
    ASSUME PipelineInv, GatewayTypeOK, HeldInv, RecordedInv, [GatewayNext]_gatewayVars
    PROVE  /\ PipelineInv' /\ GatewayTypeOK' /\ HeldInv' /\ RecordedInv'
           /\ now <= now'
           /\ \A a \in Agents, q \in RoleIds :
                  Oracle!HeldUntil(a, q) <= Oracle!HeldUntil(a, q)'
<1>1. PipelineInv'
  BY GatewayRefines, NextPipelineInv
<1>2. OracleTypeOK /\ OracleStep
  BY GatewayOracleStep DEF GatewayTypeOK, OracleTypeOK
<1>3. /\ OracleTypeOK' /\ HeldInv' /\ now <= now'
      /\ \A a \in Agents, q \in RoleIds :
             Oracle!HeldUntil(a, q) <= Oracle!HeldUntil(a, q)'
  BY <1>2, OracleKeeps
<1>4. TypeOK'
  BY <1>1 DEF PipelineInv
<1> QED
  BY <1>1, <1>3, <1>4, LogKeeps, BasisKeeps DEF GatewayTypeOK, OracleTypeOK

(***************************************************************************)
(* Decisions, one request at a time.                                       *)
(***************************************************************************)

LEMMA DecisionKept ==
    ASSUME NEW r \in Requests, DecisionInv(r), Kept(r), basis'[r] = basis[r]
    PROVE  DecisionInv(r)'
<1>1. Based(r)'
  <2>1. Verdict(r, basis[r])' = Verdict(r, basis[r])
    BY DEF Verdict
  <2> QED
    BY <2>1 DEF DecisionInv, Based, Kept
<1>2. Earned(r)'
  <2>1. SeenStatus(r)' = SeenStatus(r)
    BY DEF SeenStatus, Kept
  <2> QED
    BY <2>1 DEF DecisionInv, Earned, Kept, Success
<1>3. Sealed(r)'
  BY DEF DecisionInv, Sealed, Truth, Kept
<1> QED
  BY <1>1, <1>2, <1>3 DEF DecisionInv

\* A step of r that is neither its check nor its audit, and after which r is not
\* audited, or has a response that is no success, or has called its tool.
LEMMA DecisionPlain ==
    ASSUME NEW r \in Requests, DecisionInv(r), pc[r] # "answered",
           UNCHANGED <<role, context, entry>>, basis'[r] = basis[r],
           Earned(r)'
    PROVE  DecisionInv(r)'
<1>1. Verdict(r, basis[r])' = Verdict(r, basis[r])
  BY DEF Verdict
<1>2. Based(r)'
  BY <1>1 DEF DecisionInv, Based
<1>3. Sealed(r)'
  BY DEF DecisionInv, Sealed
<1> QED
  BY <1>2, <1>3 DEF DecisionInv

\* The proxy's own refusals and failures are no successes.
LEMMA OwnNoSuccess ==
    ASSUME TypeOK, NEW r \in Requests, NEW s \in {403, 404, 500, 502, 504},
           HandlerReturns(r, Own(s))
    PROVE  Earned(r)'
<1>1. response'[r] = Own(s)
  BY DEF HandlerReturns, TypeOK
<1>2. response'[r] # None /\ response'[r].status = s
  BY <1>1, OwnTyped, NoneAssumption DEF Own
<1>3. SeenStatus(r)' = s
  BY <1>2 DEF SeenStatus
<1>4. ~Success(s)
  BY DEF Success
<1> QED
  BY <1>3, <1>4 DEF Earned, Success

LEMMA ForwardEarned ==
    ASSUME TypeOK, NEW r \in Requests, NEW keys, Forward(r, keys)
    PROVE  Earned(r)'
<1>1. CASE HandlerReturns(r, Own(RefusalStatus(keys))) \/ HandlerReturns(r, Own(500))
  <2>1. RefusalStatus(keys) \in {403, 404}
    BY DEF RefusalStatus
  <2> QED
    BY <1>1, <2>1, OwnNoSuccess
<1>2. CASE Suspend(r, "requestBody")
  BY <1>2 DEF Suspend, TypeOK, Earned
<1> QED
  BY <1>1, <1>2 DEF Forward

\* The flags that Forward leaves are its keys.
LEMMA ForwardDecides ==
    ASSUME TypeOK, NEW r \in Requests, NEW keys, Forward(r, keys),
           DecisionInv(r), pc[r] # "answered", UNCHANGED entry,
           role'[r] \in {"unasked", "inactive", "forbids", "permits"},
           role'[r] = "unasked" => basis'[r] = None,
           role'[r] # "unasked" => /\ basis'[r] \in RoleIds
                                   /\ role'[r] = Verdict(r, basis'[r]),
           "unknownTool" \in keys => role'[r] = "unasked",
           "agentRevoked" \in keys => role'[r] = "inactive",
           "permissionDenied" \in keys => role'[r] = "forbids"
    PROVE  DecisionInv(r)'
<1>1. context'[r] = keys
  BY DEF Forward, TypeOK
<1>2. Verdict(r, basis[r])' = Verdict(r, basis'[r])
  BY DEF Verdict
<1>3. Based(r)'
  BY <1>1, <1>2 DEF Based
<1>4. Sealed(r)'
  BY DEF DecisionInv, Sealed
<1> QED
  BY <1>3, <1>4, ForwardEarned DEF DecisionInv

\* The audit tells the truth of a request.
LEMMA AuditTells ==
    ASSUME TypeOK, NEW r \in Requests, Stage(r), Apart(r), DecisionInv(r), Audit(r),
           basis'[r] = basis[r]
    PROVE  DecisionInv(r)'
<1> DEFINE s == SeenStatus(r)
<1> DEFINE err == ErrorType(context[r], s)
<1>1. /\ pc[r] = "auditing" /\ pc'[r] = "answered"
      /\ entry'[r] = [status |-> s, error |-> err]
      /\ UNCHANGED <<context, role, calls>>
  BY DEF Audit, At, Send, Suspend, TypeOK, histVars
<1>2. s \in Nat
  BY DEF SeenStatus, TypeOK, Response
<1>3. entry'[r].error = err
  BY <1>1
<1>4. Based(r)' /\ Earned(r)'
  <2>1. Verdict(r, basis[r])' = Verdict(r, basis[r])
    BY DEF Verdict
  <2> QED
    BY <1>1, <2>1 DEF DecisionInv, Based, Earned
<1>5. Based(r) /\ (Success(s) => calls[r] > 0)
  BY <1>1 DEF DecisionInv, Earned
<1>6. /\ calls[r] \in 0 .. 1
      /\ calls[r] > 0 => /\ calls[r] = 1 /\ basis[r] \in Permitting[r]
                         /\ context[r] \intersect Flags = {}
  BY <1>5 DEF Apart, Based, Verdict, TypeOK
<1>7. CASE context[r] \intersect Flags = {}
  <2>1. err \in {"", "service/upstream_error", "http_status"} /\ (err = "" => Success(s))
    BY <1>7 DEF ErrorType
  <2> HIDE DEF err, s
  <2>2. err = "" => calls[r] = 1 /\ basis[r] \in Permitting[r]
    BY <1>5, <1>6, <2>1
  <2>3. calls[r] = 0 \/ basis[r] \in Permitting[r]
    BY <1>6
  <2>4. Truth(r)'
    BY <1>1, <1>3, <2>1, <2>2, <2>3 DEF Truth
  <2> QED
    BY <1>1, <1>4, <2>4 DEF DecisionInv, Sealed
<1>8. CASE context[r] \intersect Flags # {}
  <2>1. calls[r] = 0
    BY <1>6, <1>8
  <2>2. ~Success(s)
    BY <1>5, <2>1
  <2>3. err = FlagError(context[r])
    BY <1>8, <2>2 DEF ErrorType
  <2> HIDE DEF err, s
  <2>4. \/ err = "request/unknown_tool" /\ basis[r] = None
        \/ err = "permission/agent_revoked" /\ role[r] = "inactive"
        \/ err = "permission/no_action_access" /\ role[r] = "forbids"
    BY <1>5, <1>8, <2>3 DEF FlagError, Flags, Based
  <2>5. /\ role[r] = "inactive" => basis[r] = Zero
        /\ role[r] = "forbids" => basis[r] \in RoleIds \ (Permitting[r] \union {Zero})
    BY <1>5 DEF Based, Verdict
  <2>6. Truth(r)'
    BY <1>1, <1>3, <2>1, <2>4, <2>5 DEF Truth
  <2> QED
    BY <1>1, <1>4, <2>6 DEF DecisionInv, Sealed
<1> QED
  BY <1>7, <1>8

LEMMA ChecksRoleDecides ==
    ASSUME GatewayTypeOK, NEW r \in Requests, NEW q \in RoleIds, ChecksRole(r, q),
           DecisionInv(r)
    PROVE  DecisionInv(r)'
<1> DEFINE v == Verdict(r, q)
<1> DEFINE keys == {"recoveredAddress", "toolKey"} \union FlagOf(v)
<1>1. v \in {"inactive", "forbids", "permits"}
  BY VerdictKnown
<1>2. /\ TypeOK /\ pc[r] # "answered" /\ Forward(r, keys) /\ UNCHANGED entry
      /\ role'[r] = v
  BY DEF ChecksRole, CheckAnswers, At, GatewayTypeOK, TypeOK
<1>3. basis'[r] = q
  BY DEF ChecksRole, GatewayTypeOK
<1>4. /\ "unknownTool" \notin keys
      /\ "agentRevoked" \in keys => v = "inactive"
      /\ "permissionDenied" \in keys => v = "forbids"
  BY <1>1 DEF FlagOf
<1>5. role'[r] = Verdict(r, basis'[r])
  BY <1>2, <1>3
<1> HIDE DEF v, keys
<1> QED
  BY <1>1, <1>2, <1>3, <1>4, <1>5, ForwardDecides

LEMMA GoesOnDecides ==
    ASSUME GatewayTypeOK, NEW r \in Requests, GoesOn(r), RequestInv(r), DecisionInv(r)
    PROVE  DecisionInv(r)'
<1>1. TypeOK /\ basis'[r] = basis[r]
  BY DEF GoesOn, basisVars, GatewayTypeOK
<1> USE DEF At, Suspend, ReturnEarly, TypeOK, histVars
<1>2. ASSUME NEW s \in {400, 401, 500}, Reject(r, s)
      PROVE  DecisionInv(r)'
  BY <1>1, <1>2, DecisionPlain DEF Reject, Earned
<1>3. CASE StartVerification(r) \/ VerificationFails(r)
  BY <1>1, <1>3, DecisionPlain DEF StartVerification, VerificationFails, Earned
<1>4. CASE VerifiedUnknownTool(r)
  <2> DEFINE keys == {"recoveredAddress", "toolKey", "unknownTool"}
  <2>1. role[r] = "unasked" /\ basis[r] = None
    BY <1>4 DEF VerifiedUnknownTool, RequestInv, Stage, DecisionInv, Based
  <2>2. Forward(r, keys) /\ pc[r] # "answered" /\ UNCHANGED <<entry, role>>
    BY <1>4 DEF VerifiedUnknownTool
  <2>3. "agentRevoked" \notin keys /\ "permissionDenied" \notin keys
    OBVIOUS
  <2> HIDE DEF keys, TypeOK
  <2> QED
    BY <1>1, <2>1, <2>2, <2>3, ForwardDecides
<1>5. CASE Verified(r)
  <2>1. /\ pc[r] # "answered" /\ pc'[r] = "checking" /\ UNCHANGED <<entry, role>>
        /\ context'[r] = {"recoveredAddress"} /\ role[r] = "unasked"
    BY <1>1, <1>5 DEF Verified, RequestInv, Stage
  <2> QED
    BY <1>1, <2>1 DEF DecisionInv, Based, Earned, Sealed
<1>6. CASE CheckFails(r)
  <2>1. /\ pc[r] # "answered" /\ pc'[r] = "answered" /\ UNCHANGED <<entry, context>>
        /\ context[r] = {"recoveredAddress"} /\ role[r] = "unasked"
        /\ role'[r] = "unavailable"
    BY <1>1, <1>6 DEF CheckFails, RequestInv, Stage
  <2> QED
    BY <1>1, <2>1 DEF DecisionInv, Based, Earned, Sealed
<1>7. CASE SendUpstream(r)
  BY <1>1, <1>7, DecisionPlain DEF SendUpstream, Earned
<1>8. ASSUME NEW s \in {500, 502}, SendFails(r, s)
      PROVE  DecisionInv(r)'
  <2>1. Earned(r)'
    BY <1>1, <1>8, OwnNoSuccess DEF SendFails
  <2> QED
    BY <1>1, <1>8, <2>1, DecisionPlain DEF SendFails
<1>9. CASE FetchEnds(r) \/ ResponseBodyEnds(r)
  <2>1. /\ pc[r] \in {"fetching", "responseBody"} /\ UNCHANGED <<role, context, entry, calls>>
    BY <1>9 DEF FetchEnds, FetchTimesOut, FetchFails, HeadersArrive, StreamArrives,
                ResponseBodyEnds, BodyEnds, BodyIsAbsent, BodyFails
  <2>2. calls'[r] > 0
    BY <2>1 DEF RequestInv, Stage
  <2> QED
    BY <1>1, <2>1, <2>2, DecisionPlain DEF Earned
<1>10. CASE Audit(r)
  <2> HIDE DEF At, Suspend, ReturnEarly, TypeOK, histVars
  <2> QED
    BY <1>1, <1>10, AuditTells DEF RequestInv
<1>11. CASE AuditFails(r)
  BY <1>1, <1>11, DecisionPlain DEF AuditFails, Send, Earned
<1> QED
  BY <1>2, <1>3, <1>4, <1>5, <1>6, <1>7, <1>8, <1>9, <1>10, <1>11
     DEF GoesOn, VerificationEnds, RequestBodyEnds, AuditEnds

LEMMA NextDecisions ==
    ASSUME GatewayInv, [GatewayNext]_gatewayVars, NEW r \in Requests
    PROVE  DecisionInv(r)'
<1>1. TypeOK /\ GatewayTypeOK /\ RequestInv(r) /\ DecisionInv(r)
  BY DEF GatewayInv, PipelineInv, RequestInv
<1>2. ASSUME NEW q \in RoleIds, ChecksRole(r, q)
      PROVE  DecisionInv(r)'
  BY <1>1, <1>2, ChecksRoleDecides
<1>3. CASE GoesOn(r)
  BY <1>1, <1>3, GoesOnDecides
<1>4. ASSUME NEW x \in Requests, x # r,
             GoesOn(x) \/ \E q \in RoleIds : ChecksRole(x, q)
      PROVE  DecisionInv(r)'
  <2>1. RequestStep(x)
    BY <1>4, VerdictKnown DEF ChecksRole, GoesOn, RequestStep, CheckEnds
  <2>2. basis'[r] = basis[r]
    BY <1>1, <1>4 DEF ChecksRole, GoesOn, basisVars, GatewayTypeOK
  <2> QED
    BY <1>1, <1>4, <2>1, <2>2, OthersKept, DecisionKept
<1>5. ASSUME UNCHANGED <<chainVars, histVars, basis>>
      PROVE  DecisionInv(r)'
  <2>1. Kept(r) /\ basis'[r] = basis[r]
    BY <1>5 DEF Kept, chainVars, histVars
  <2> QED
    BY <1>1, <2>1, DecisionKept
<1>6. \/ \E x \in Requests : GoesOn(x) \/ \E q \in RoleIds : ChecksRole(x, q)
      \/ UNCHANGED <<chainVars, histVars, basis>>
  BY DEF GatewayNext, Records, Acknowledges, SetsRole, Passes, Exits, Exit, vars,
         gatewayVars, basisVars
<1> QED
  BY <1>2, <1>3, <1>4, <1>5, <1>6

(***************************************************************************)
(* The age of the authority on which a tool is called.                     *)
(***************************************************************************)

LEMMA HeldUntilTyped ==
    ASSUME OracleTypeOK, NEW a \in Agents, NEW q \in RoleIds
    PROVE  Oracle!HeldUntil(a, q) \in Int
BY DEF OracleTypeOK, Oracle!HeldUntil

\* Only the permission check makes a request wait for its body.
LEMMA OnlyChecksAwaitBodies ==
    ASSUME TypeOK, NEW r \in Requests, GoesOn(r)
    PROVE  pc'[r] # "requestBody"
<1> USE DEF TypeOK, Suspend, ReturnEarly, HandlerReturns
<1>1. ASSUME NEW s \in {400, 401, 500}, Reject(r, s)
      PROVE  pc'[r] # "requestBody"
  BY <1>1 DEF Reject
<1>2. CASE StartVerification(r) \/ VerificationFails(r) \/ Verified(r) \/ CheckFails(r)
  BY <1>2 DEF StartVerification, VerificationFails, Verified, CheckFails
<1>3. CASE VerifiedUnknownTool(r)
  <2> DEFINE keys == {"recoveredAddress", "toolKey", "unknownTool"}
  <2>1. Forward(r, keys) /\ keys \intersect Flags # {}
    BY <1>3 DEF VerifiedUnknownTool, Flags
  <2> HIDE DEF keys
  <2> QED
    BY <2>1 DEF Forward
<1>4. CASE RequestBodyEnds(r)
  BY <1>4 DEF RequestBodyEnds, SendUpstream, SendFails
<1>5. CASE FetchEnds(r) \/ ResponseBodyEnds(r)
  BY <1>5 DEF FetchEnds, FetchTimesOut, FetchFails, HeadersArrive, StreamArrives,
              ResponseBodyEnds, BodyEnds, BodyIsAbsent, BodyFails
<1>6. CASE AuditEnds(r)
  BY <1>6 DEF AuditEnds, Audit, AuditFails, Send
<1> QED
  BY <1>1, <1>2, <1>3, <1>4, <1>5, <1>6 DEF GoesOn, VerificationEnds

\* A check that lets a request wait for its body found a fresh role.
LEMMA ChecksAreFresh ==
    ASSUME GatewayTypeOK, NEW r \in Requests, NEW q \in RoleIds, ChecksRole(r, q)
    PROVE  Authority(r)'
<1>1. PICK n \in 0 .. MaxTime : n = now
  BY DEF GatewayTypeOK
<1>2. /\ now' = n /\ agentRoles' = agentRoles /\ lastHeld' = lastHeld
      /\ basis'[r] = q /\ checkedAt'[r] = n
      /\ n - Oracle!HeldUntil(AgentOf[r], q) < Staleness
  BY <1>1 DEF ChecksRole, oracleVars, GatewayTypeOK, Oracle!Fresh
<1>3. Oracle!HeldUntil(AgentOf[r], basis[r])' = Oracle!HeldUntil(AgentOf[r], q)
  BY <1>1, <1>2 DEF Oracle!HeldUntil
<1>4. n <= n + RequestTimeout
  BY GatewayTimeAssumption
<1> QED
  BY <1>2, <1>3, <1>4 DEF Authority

\* What r waits for stays where it is, and time passes within its bound.
LEMMA AuthorityAges ==
    ASSUME GatewayInv, GatewayTypeOK', NEW r \in Requests, alive' => alive,
           UNCHANGED <<pc[r], basis[r], checkedAt[r]>>,
           now' = now \/ Passes,
           \A a \in Agents, q \in RoleIds :
               Oracle!HeldUntil(a, q) <= Oracle!HeldUntil(a, q)'
    PROVE  Authority(r)'
<1> SUFFICES ASSUME At(r, "requestBody")
             PROVE  Authority(r)'
  BY DEF Authority, At
<1>1. basis[r] \in RoleIds /\ AgentOf[r] \in Agents
  BY RequestAssumption DEF At, GatewayInv, PipelineInv, Stage, DecisionInv, Based
<1>2. PICK q \in RoleIds : q = basis[r]
  BY <1>1
<1>3. PICK a \in Agents : a = AgentOf[r]
  BY <1>1
<1>4. PICK h \in Int : h = Oracle!HeldUntil(a, q)
  BY HeldUntilTyped DEF GatewayInv, GatewayTypeOK, OracleTypeOK
<1>5. PICK k \in Int : k = Oracle!HeldUntil(a, q)'
  BY DEF GatewayTypeOK, Oracle!HeldUntil
<1>6. PICK c \in 0 .. MaxTime : c = checkedAt[r]
  BY DEF GatewayInv, GatewayTypeOK
<1>7. PICK n \in 0 .. MaxTime : n = now
  BY DEF GatewayInv, GatewayTypeOK
<1>8. n <= c + RequestTimeout /\ c - h < Staleness
  BY <1>2, <1>3, <1>4, <1>6, <1>7 DEF GatewayInv, Authority
<1>9. now' <= c + RequestTimeout
  <2>1. CASE now' = now
    BY <1>7, <1>8, <2>1
  <2>2. CASE Passes
    <3>1. now' = n + 1 /\ n < c + RequestTimeout
      BY <1>6, <1>7, <2>2 DEF Passes, Oracle!Tick
    <3> QED
      BY <3>1, GatewayTimeAssumption
  <2> QED
    BY <2>1, <2>2
<1>10. h <= k
  BY <1>4, <1>5
<1>11. c - k < Staleness
  BY <1>8, <1>10, GatewayTimeAssumption
<1>12. /\ checkedAt'[r] = c
       /\ Oracle!HeldUntil(AgentOf[r], basis[r])' = k
  BY <1>2, <1>3, <1>5, <1>6 DEF Oracle!HeldUntil
<1> QED
  BY <1>9, <1>11, <1>12 DEF Authority

LEMMA NextAuthority ==
    ASSUME GatewayInv, [GatewayNext]_gatewayVars, GatewayTypeOK', NEW r \in Requests,
           \A a \in Agents, q \in RoleIds :
               Oracle!HeldUntil(a, q) <= Oracle!HeldUntil(a, q)'
    PROVE  Authority(r)'
<1>1. GatewayTypeOK /\ TypeOK
  BY DEF GatewayInv, GatewayTypeOK
<1>2. ASSUME NEW q \in RoleIds, ChecksRole(r, q)
      PROVE  Authority(r)'
  BY <1>1, <1>2, ChecksAreFresh
<1>3. CASE GoesOn(r)
  BY <1>1, <1>3, OnlyChecksAwaitBodies DEF Authority, At
<1>4. ASSUME NEW x \in Requests, x # r,
             GoesOn(x) \/ \E q \in RoleIds : ChecksRole(x, q)
      PROVE  Authority(r)'
  <2>1. RequestStep(x)
    BY <1>4, VerdictKnown DEF ChecksRole, GoesOn, RequestStep, CheckEnds
  <2>2. pc'[r] = pc[r]
    BY <1>1, <1>4, <2>1, OthersKept DEF Kept
  <2>3. /\ basis'[r] = basis[r] /\ checkedAt'[r] = checkedAt[r] /\ now' = now
    BY <1>1, <1>4 DEF ChecksRole, GoesOn, basisVars, oracleVars, GatewayTypeOK
  <2>4. alive' = alive
    BY <2>1, StepOneWriter DEF OneWriter
  <2> QED
    BY <2>2, <2>3, <2>4, AuthorityAges
<1>5. ASSUME UNCHANGED <<pc, basis, checkedAt>>, alive' => alive, now' = now \/ Passes
      PROVE  Authority(r)'
  BY <1>5, AuthorityAges
<1>6. \/ \E x \in Requests : GoesOn(x) \/ \E q \in RoleIds : ChecksRole(x, q)
      \/ /\ UNCHANGED <<pc, basis, checkedAt>>
         /\ alive' => alive
         /\ now' = now \/ Passes
  <2>1. ASSUME NEW x \in Requests, Records(x) \/ Acknowledges(x)
        PROVE  UNCHANGED <<pc, basis, checkedAt, alive, now>>
    BY <2>1 DEF Records, Acknowledges, vars, chainVars, basisVars, oracleVars
  <2>2. ASSUME NEW a \in Agents, NEW q \in RoleIds, SetsRole(a, q)
        PROVE  UNCHANGED <<pc, basis, checkedAt, alive, now>>
    BY <2>2 DEF SetsRole, Oracle!SetAgentRole, vars, chainVars, basisVars
  <2>3. Passes => UNCHANGED <<pc, basis, checkedAt, alive>>
    BY DEF Passes, vars, chainVars, basisVars
  <2>4. Exits => UNCHANGED <<pc, basis, checkedAt, now>> /\ alive
    BY DEF Exits, Exit, chainVars, basisVars, oracleVars
  <2>5. UNCHANGED gatewayVars => UNCHANGED <<pc, basis, checkedAt, alive, now>>
    BY DEF gatewayVars, vars, chainVars, basisVars, oracleVars
  <2> QED
    BY <2>1, <2>2, <2>3, <2>4, <2>5 DEF GatewayNext
<1> QED
  BY <1>2, <1>3, <1>4, <1>5, <1>6

(***************************************************************************)
(* The inductive invariant, and the theorems.                              *)
(***************************************************************************)

LEMMA InitGatewayInv == GatewayInit => GatewayInv
<1> SUFFICES ASSUME GatewayInit
             PROVE  GatewayInv
  OBVIOUS
<1>1. PipelineInv /\ TypeOK
  BY InitPipelineInv, InitTypeOK DEF GatewayInit
<1>2. GatewayTypeOK
  BY <1>1, GatewayTimeAssumption DEF GatewayInit, Init, Oracle!Init, GatewayTypeOK
<1>3. HeldInv /\ RecordedInv
  BY GatewayTimeAssumption DEF GatewayInit, Oracle!Init, HeldInv, RecordedInv
<1>4. \A r \in Requests : DecisionInv(r) /\ Authority(r)
  BY DEF GatewayInit, Init, DecisionInv, Based, Earned, Sealed, Authority, At
<1> QED
  BY <1>1, <1>2, <1>3, <1>4 DEF GatewayInv

LEMMA NextGatewayInv ==
    ASSUME GatewayInv, [GatewayNext]_gatewayVars
    PROVE  GatewayInv'
<1>1. /\ PipelineInv' /\ GatewayTypeOK' /\ HeldInv' /\ RecordedInv'
      /\ \A a \in Agents, q \in RoleIds :
             Oracle!HeldUntil(a, q) <= Oracle!HeldUntil(a, q)'
  BY NextGatewayTypeOK DEF GatewayInv
<1>2. \A r \in Requests : DecisionInv(r)'
  BY NextDecisions
<1>3. \A r \in Requests : Authority(r)'
  BY <1>1, NextAuthority
<1> QED
  BY <1>1, <1>2, <1>3 DEF GatewayInv

LEMMA GatewayInvariant == GatewaySpec => []GatewayInv
BY InitGatewayInv, NextGatewayInv, PTL DEF GatewaySpec

(* The variables keep their types: no request calls a tool twice, and only what *)
(* was enqueued is acknowledged.                                                *)
THEOREM GatewayTypeCorrect == GatewaySpec => []GatewayTypeOK
<1>1. GatewayInv => GatewayTypeOK
  BY DEF GatewayInv
<1> QED
  BY <1>1, GatewayInvariant, PTL

(* What the trail on the chain says of a request is true (audit.ts:54-81,       *)
(* rbac.ts:155-201, forward.ts:49-156): its error type agrees with whether the  *)
(* tool was called and with the role that get() answered.                       *)
THEOREM TrailTellsTheTruth == GatewaySpec => []TrailIsTrue
<1>1. GatewayInv => TrailIsTrue
  <2> SUFFICES ASSUME GatewayInv, NEW r \in Requests, recorded[r] > 0
               PROVE  Truth(r)
    BY DEF TrailIsTrue, Truth
  <2>1. entry[r] # None
    BY DEF GatewayInv, RecordedInv
  <2> QED
    BY <2>1 DEF GatewayInv, DecisionInv, Sealed
<1> QED
  BY <1>1, GatewayInvariant, PTL

LEMMA CallsAreFresh ==
    ASSUME GatewayInv, [GatewayNext]_gatewayVars, NEW r \in Requests,
           calls'[r] # calls[r]
    PROVE  /\ basis[r] # None
           /\ Verdict(r, basis[r]) = "permits"
           /\ now - Oracle!HeldUntil(AgentOf[r], basis[r]) < Staleness + RequestTimeout
<1>1. [Next]_vars /\ TypeOK
  BY GatewayRefines DEF GatewayInv, PipelineInv
<1>2. SendUpstream(r)
  <2>1. ASSUME NEW q \in Requests, RequestStep(q)
        PROVE  SendUpstream(q) \/ UNCHANGED calls
    BY <2>1, StepOneWriter DEF OneWriter
  <2>2. Exit \/ UNCHANGED vars => UNCHANGED calls
    BY DEF Exit, vars, histVars
  <2>3. PICK q \in Requests : SendUpstream(q)
    BY <1>1, <2>1, <2>2 DEF Next
  <2>4. q = r
    BY <1>1, <2>3 DEF SendUpstream, TypeOK
  <2> QED
    BY <2>3, <2>4
<1>3. At(r, "requestBody")
  BY <1>2 DEF SendUpstream
<1>4. basis[r] \in RoleIds /\ Verdict(r, basis[r]) = "permits" /\ AgentOf[r] \in Agents
  BY <1>3, RequestAssumption DEF At, GatewayInv, PipelineInv, Stage, DecisionInv, Based
<1>5. PICK h \in Int : h = Oracle!HeldUntil(AgentOf[r], basis[r])
  BY <1>4, HeldUntilTyped DEF GatewayInv, GatewayTypeOK, OracleTypeOK
<1>6. /\ now <= checkedAt[r] + RequestTimeout /\ checkedAt[r] - h < Staleness
      /\ now \in Int /\ checkedAt[r] \in Int
  BY <1>3, <1>5 DEF GatewayInv, GatewayTypeOK, Authority
<1>7. now - h < Staleness + RequestTimeout
  BY <1>6, GatewayTimeAssumption
<1> QED
  BY <1>4, <1>5, <1>7, RequestAssumption

(* A tool is called on the authority of a role that permits it and that the     *)
(* contract held for the agent less than the staleness of the cache plus the    *)
(* time of a request ago, although nothing looks at the contract between the    *)
(* permission check and the call (forward.ts:155).                              *)
THEOREM AuthorityIsFresh == GatewaySpec => FreshAuthority
<1> DEFINE A == \A r \in Requests :
        calls'[r] # calls[r] =>
            /\ basis[r] # None
            /\ Verdict(r, basis[r]) = "permits"
            /\ now - Oracle!HeldUntil(AgentOf[r], basis[r])
                   < Staleness + RequestTimeout
<1>1. GatewayInv /\ [GatewayNext]_gatewayVars => [A]_gatewayVars
  BY CallsAreFresh
<1>2. GatewaySpec => [][A]_gatewayVars
  BY <1>1, GatewayInvariant, PTL DEF GatewaySpec
<1> QED
  BY <1>2 DEF FreshAuthority

(***************************************************************************)
(* The gateway uses the queue as AuditLog allows.                          *)
(***************************************************************************)

LEMMA AuditAccepts ==
    ASSUME GatewayInv, NEW r \in Requests, Audit(r), UNCHANGED logVars
    PROVE  Log!Accept(r)
<1>1. TypeOK /\ alive /\ entry[r] = None
  BY DEF GatewayInv, PipelineInv, DecisionInv, Sealed, Audit, At
<1>2. /\ entry'[r] # None
      /\ \A q \in Requests : q # r => entry'[q] = entry[q]
  BY <1>1, AuditWrites DEF Audit, TypeOK
<1>3. {q \in Requests : entry'[q] # None} = {q \in Requests : entry[q] # None} \union {r}
  BY <1>2
<1>4. alive' = alive
  BY DEF Audit
<1> QED
  BY <1>1, <1>3, <1>4 DEF Log!Accept, logVars

LEMMA GatewayLogStep ==
    ASSUME GatewayInv, [GatewayNext]_gatewayVars
    PROVE  [Log!Next]_(Log!vars)
<1>1. ASSUME NEW r \in Requests, Records(r)
      PROVE  Log!Next
  BY <1>1 DEF Records, Log!Next
<1>2. ASSUME NEW r \in Requests, Acknowledges(r)
      PROVE  Log!Next
  BY <1>2 DEF Acknowledges, Log!Next
<1>3. ASSUME NEW r \in Requests, RequestStep(r), UNCHANGED logVars
      PROVE  [Log!Next]_(Log!vars)
  <2>1. CASE Audit(r)
    BY <1>3, <2>1, AuditAccepts DEF Log!Next
  <2>2. CASE UNCHANGED entry
    <3>1. alive' = alive
      BY <1>3, StepOneWriter DEF OneWriter
    <3> QED
      BY <1>3, <2>2, <3>1 DEF Log!vars, logVars
  <2> QED
    BY <1>3, <2>1, <2>2, StepOneWriter DEF OneWriter
<1>4. CASE Exits
  <2>1. alive /\ alive' = FALSE /\ UNCHANGED <<entry, recorded, acknowledged>>
    BY <1>4 DEF Exits, Exit, chainVars, logVars
  <2> QED
    BY <2>1 DEF Log!Next, Log!Close
<1>5. ASSUME UNCHANGED <<vars, logVars>>
      PROVE  [Log!Next]_(Log!vars)
  BY <1>5 DEF Log!vars, vars, chainVars, logVars
<1>6. ASSUME NEW r \in Requests, GoesOn(r) \/ \E q \in RoleIds : ChecksRole(r, q)
      PROVE  RequestStep(r) /\ UNCHANGED logVars
  BY <1>6, VerdictKnown DEF ChecksRole, GoesOn, RequestStep, CheckEnds
<1>7. \/ \E r \in Requests : Records(r) \/ Acknowledges(r)
      \/ \E r \in Requests : GoesOn(r) \/ \E q \in RoleIds : ChecksRole(r, q)
      \/ Exits
      \/ UNCHANGED <<vars, logVars>>
  BY DEF GatewayNext, SetsRole, Passes, gatewayVars
<1> QED
  BY <1>1, <1>2, <1>3, <1>4, <1>5, <1>6, <1>7

(* The requests and the process use the audit queue only as AuditLog allows: an *)
(* entry is enqueued once, while the process lives, and nothing is recorded     *)
(* that was not enqueued or after the exit (audit.ts:137).  So what AuditQueue  *)
(* is shown to implement is all that the gateway relies on.                     *)
THEOREM LogIsKept == GatewaySpec => Log!Spec
<1>1. GatewayInit => Log!Init
  <2>1. GatewayInit => alive = TRUE /\ \A r \in Requests : entry[r] = None
    BY DEF GatewayInit, Init
  <2> QED
    BY <2>1 DEF GatewayInit, Log!Init
<1> QED
  BY <1>1, GatewayInvariant, GatewayLogStep, PTL DEF GatewaySpec, Log!Spec
=============================================================================
