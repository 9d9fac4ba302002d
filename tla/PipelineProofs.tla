--------------------------- MODULE PipelineProofs ---------------------------
(***************************************************************************)
(* Theorems about Pipeline: for any requests and status codes of the       *)
(* tools, with no fairness assumed.                                        *)
(*                                                                         *)
(* Everything rests on what the context of a request, the result of its    *)
(* get() and its calls are at each await (Stage), and on what has been     *)
(* decided by the time it is audited (Decided).                            *)
(***************************************************************************)
EXTENDS Pipeline, TLAPS

\* How far a request is, and what that says of its context, role and calls.
Stage(r) ==
    /\ pc[r] \in {"new", "verifying"} => context[r] = {} /\ role[r] = "unasked"
    /\ pc[r] = "checking" => context[r] = {"recoveredAddress"} /\ role[r] = "unasked"
    /\ pc[r] \in {"new", "verifying", "checking", "requestBody"} => calls[r] = 0
    /\ pc[r] \in {"requestBody", "fetching", "responseBody"} =>
           context[r] \intersect Flags = {} /\ role[r] = "permits"
    /\ pc[r] \in {"fetching", "responseBody"} => calls[r] = 1
    /\ pc[r] = "responseBody" => headers[r] # None
    /\ pc[r] # "answered" => r \notin unsealed

\* Calls and refusals exclude each other.
Apart(r) ==
    /\ calls[r] > 0 =>
           context[r] \intersect Flags = {} /\ role[r] = "permits" /\ calls[r] = 1
    /\ context[r] \intersect Flags # {} =>
           /\ role[r] \in {"unasked", "inactive", "forbids"}
           /\ pc[r] \in {"auditing", "answered"}
           /\ response[r] \in {Own(403), Own(404)}

\* The tool was called, or the request was refused by a flag, or its signer was
\* recovered and the chain answered for it.
Accountable(r) ==
    \/ calls[r] > 0 \/ context[r] \intersect Flags # {}
    \/ "recoveredAddress" \in context[r] /\ role[r] # "unavailable"

\* What the audit middleware leaves behind.
Recorded(r) ==
    /\ pc[r] = "answered" /\ r \notin unsealed /\ Accountable(r) =>
           entry[r] = [status |-> SeenStatus(r), error |-> ErrorType(context[r], SeenStatus(r))]
    /\ pc[r] = "answered" /\ (calls[r] > 0 \/ context[r] \intersect Flags # {})
           /\ response[r] # None => sent[r] = response[r]

\* The inductive invariant.
PipelineInv == TypeOK /\ \A r \in Requests : Stage(r) /\ Apart(r) /\ Recorded(r)

(***************************************************************************)
(* Typing.                                                                 *)
(***************************************************************************)

LEMMA OwnTyped == ASSUME NEW s \in Nat PROVE Own(s) \in Response
BY DEF Own, Response

LEMMA FlagErrorTyped ==
    ASSUME NEW keys, keys \intersect Flags # {}
    PROVE  FlagError(keys) \in ErrorTypes
BY DEF FlagError, ErrorTypes, Flags

LEMMA ErrorTypeTyped ==
    ASSUME NEW keys, NEW s \in Nat
    PROVE  ErrorType(keys, s) \in ErrorTypes
<1>1. CASE Success(s)
  BY <1>1 DEF ErrorType, ErrorTypes
<1>2. CASE ~Success(s) /\ keys \intersect Flags # {}
  BY <1>2, FlagErrorTyped DEF ErrorType
<1>3. CASE ~Success(s) /\ keys \intersect Flags = {}
  BY <1>3 DEF ErrorType, ErrorTypes
<1> QED
  BY <1>1, <1>2, <1>3

\* The forward handler's first part, whatever called it.
LEMMA ForwardTyped ==
    ASSUME TypeOK, NEW r \in Requests, NEW keys \in SUBSET ContextKeys, Forward(r, keys)
    PROVE  /\ context' \in [Requests -> SUBSET ContextKeys]
           /\ pc' \in [Requests -> Awaits]
           /\ response' \in [Requests -> Response \union {None}]
           /\ sent' = sent
<1>1. Own(RefusalStatus(keys)) \in Response /\ Own(500) \in Response
  BY OwnTyped DEF RefusalStatus
<1> QED
  BY <1>1 DEF Forward, HandlerReturns, Suspend, TypeOK, Awaits

\* The end of every request.
LEMMA SendTyped ==
    ASSUME TypeOK, NEW r \in Requests, Send(r)
    PROVE  /\ pc' \in [Requests -> Awaits]
           /\ sent' \in [Requests -> Response \union {None}]
BY OwnTyped DEF Send, Suspend, TypeOK, Awaits

LEMMA InitTypeOK == Init => TypeOK
BY DEF Init, TypeOK, Awaits

\* A second call would break the type of calls: Stage excludes it.
LEMMA NextTypeOK ==
    ASSUME PipelineInv, [Next]_vars
    PROVE  TypeOK'
<1> USE DEF PipelineInv
<1>1. ASSUME NEW r \in Requests, NEW s \in {400, 401, 500}, Reject(r, s)
      PROVE  TypeOK'
  BY <1>1, OwnTyped DEF TypeOK, Reject, ReturnEarly, Suspend, Awaits, histVars
<1>2. ASSUME NEW r \in Requests, StartVerification(r)
      PROVE  TypeOK'
  BY <1>2 DEF TypeOK, StartVerification, Suspend, Awaits, histVars
<1>3. ASSUME NEW r \in Requests, VerificationFails(r)
      PROVE  TypeOK'
  BY <1>3, OwnTyped DEF TypeOK, VerificationFails, ReturnEarly, Suspend, Awaits, histVars
<1>4. ASSUME NEW r \in Requests, VerifiedUnknownTool(r)
      PROVE  TypeOK'
  <2>1. {"recoveredAddress", "toolKey", "unknownTool"} \in SUBSET ContextKeys
    BY DEF ContextKeys, Flags
  <2>2. Forward(r, {"recoveredAddress", "toolKey", "unknownTool"})
    BY <1>4 DEF VerifiedUnknownTool
  <2> HIDE DEF Forward
  <2>3. UNCHANGED <<alive, timer, headers, entry, role, calls, unsealed>>
    BY <1>4 DEF VerifiedUnknownTool, histVars
  <2> QED
    BY <2>1, <2>2, <2>3, ForwardTyped DEF TypeOK
<1>5. ASSUME NEW r \in Requests, Verified(r)
      PROVE  TypeOK'
  BY <1>5 DEF TypeOK, Verified, Suspend, Awaits, ContextKeys, histVars
<1>6. ASSUME NEW r \in Requests, CheckFails(r)
      PROVE  TypeOK'
  BY <1>6, OwnTyped DEF TypeOK, CheckFails, ReturnEarly, Suspend, Awaits
<1>7. ASSUME NEW r \in Requests, NEW v \in {"inactive", "forbids", "permits"},
             CheckAnswers(r, v)
      PROVE  TypeOK'
  <2>1. {"recoveredAddress", "toolKey"} \union FlagOf(v) \in SUBSET ContextKeys
    BY DEF ContextKeys, Flags, FlagOf
  <2>2. Forward(r, {"recoveredAddress", "toolKey"} \union FlagOf(v))
    BY <1>7 DEF CheckAnswers
  <2>3. /\ UNCHANGED <<alive, timer, headers, entry, calls, unsealed>>
        /\ role' = [role EXCEPT ![r] = v]
    BY <1>7 DEF CheckAnswers
  <2>4. /\ context' \in [Requests -> SUBSET ContextKeys]
        /\ pc' \in [Requests -> Awaits]
        /\ response' \in [Requests -> Response \union {None}]
        /\ sent' = sent
    BY <2>1, <2>2, ForwardTyped
  <2> QED
    BY <2>3, <2>4 DEF TypeOK
<1>8. ASSUME NEW r \in Requests, SendUpstream(r)
      PROVE  TypeOK'
  <2>1. calls[r] = 0
    BY <1>8 DEF SendUpstream, At, Stage
  <2> QED
    BY <1>8, <2>1 DEF TypeOK, SendUpstream, Suspend, Awaits
<1>9. ASSUME NEW r \in Requests, NEW s \in {500, 502}, SendFails(r, s)
      PROVE  TypeOK'
  BY <1>9, OwnTyped DEF TypeOK, SendFails, HandlerReturns, Suspend, Awaits, histVars
<1>10. ASSUME NEW r \in Requests, FetchTimesOut(r) \/ FetchFails(r)
       PROVE  TypeOK'
  <2>1. /\ timer' = [timer EXCEPT ![r] = FALSE]
        /\ UNCHANGED <<alive, context, headers, entry, sent, role, calls, unsealed>>
    BY <1>10 DEF FetchTimesOut, FetchFails, histVars
  <2>2. PICK s \in {502, 504} : HandlerReturns(r, Own(s))
    BY <1>10 DEF FetchTimesOut, FetchFails
  <2>3. Own(s) \in Response
    BY OwnTyped
  <2> QED
    BY <2>1, <2>2, <2>3 DEF TypeOK, HandlerReturns, Suspend, Awaits
<1>11. ASSUME NEW r \in Requests, NEW h \in Headers, HeadersArrive(r, h)
       PROVE  TypeOK'
  BY <1>11 DEF TypeOK, HeadersArrive, Suspend, Awaits, histVars
<1>12. ASSUME NEW r \in Requests, NEW s \in UpstreamStatuses, StreamArrives(r, s)
       PROVE  TypeOK'
  <2>1. [status |-> s, body |-> "governanceEvent"] \in Response
    BY StatusAssumption DEF Response
  <2> QED
    BY <1>12, <2>1 DEF TypeOK, StreamArrives, HandlerReturns, Suspend, Awaits, histVars
<1>13. ASSUME NEW r \in Requests, BodyEnds(r)
       PROVE  TypeOK'
  <2>1. headers[r] # None => [status |-> headers[r].status, body |-> "tool"] \in Response
    BY StatusAssumption DEF TypeOK, Headers, Response
  <2>2. headers[r] # None
    BY <1>13 DEF BodyEnds, At, Stage
  <2> QED
    BY <1>13, <2>1, <2>2 DEF TypeOK, BodyEnds, HandlerReturns, Suspend, Awaits, histVars
<1>14. ASSUME NEW r \in Requests, BodyIsAbsent(r) \/ BodyFails(r)
       PROVE  TypeOK'
  BY <1>14, OwnTyped DEF TypeOK, BodyIsAbsent, BodyFails, HandlerReturns, Suspend, Awaits, histVars
<1>15. ASSUME NEW r \in Requests, Audit(r)
       PROVE  TypeOK'
  <2>1. SeenStatus(r) \in Nat
    BY DEF SeenStatus, TypeOK, Response
  <2>2. [status |-> SeenStatus(r), error |-> ErrorType(context[r], SeenStatus(r))]
            \in AuditEntry
    BY <2>1, ErrorTypeTyped DEF AuditEntry
  <2>3. Send(r)
    BY <1>15 DEF Audit
  <2> QED
    BY <1>15, <2>2, <2>3, SendTyped DEF TypeOK, Audit, histVars
<1>16. ASSUME NEW r \in Requests, AuditFails(r)
       PROVE  TypeOK'
  <2>1. Send(r)
    BY <1>16 DEF AuditFails
  <2> QED
    BY <1>16, <2>1, SendTyped DEF TypeOK, AuditFails
<1>17. CASE Exit \/ UNCHANGED vars
  BY <1>17 DEF TypeOK, Exit, vars, chainVars, histVars
<1> QED
  BY <1>1, <1>2, <1>3, <1>4, <1>5, <1>6, <1>7, <1>8, <1>9, <1>10, <1>11, <1>12, <1>13,
     <1>14, <1>15, <1>16, <1>17
     DEF Next, RequestStep, VerificationEnds, CheckEnds, RequestBodyEnds, FetchEnds,
         ResponseBodyEnds, AuditEnds

(***************************************************************************)
(* The inductive invariant, one request at a time.                         *)
(***************************************************************************)

RequestInv(r) == Stage(r) /\ Apart(r) /\ Recorded(r)

\* The variables of request r.
Kept(r) ==
    /\ pc'[r] = pc[r] /\ context'[r] = context[r] /\ headers'[r] = headers[r]
    /\ response'[r] = response[r] /\ entry'[r] = entry[r] /\ sent'[r] = sent[r]
    /\ role'[r] = role[r] /\ calls'[r] = calls[r]
    /\ r \in unsealed' <=> r \in unsealed

LEMMA KeptInv ==
    ASSUME NEW r \in Requests, RequestInv(r), Kept(r)
    PROVE  RequestInv(r)'
<1>1. SeenStatus(r)' = SeenStatus(r)
  BY DEF Kept, SeenStatus
<1>2. ErrorType(context[r], SeenStatus(r))' = ErrorType(context[r], SeenStatus(r))
  BY <1>1 DEF Kept, ErrorType, Success, FlagError
<1>3. Stage(r)'
  BY DEF Kept, RequestInv, Stage
<1>4. Apart(r)'
  BY DEF Kept, RequestInv, Apart
<1>5. Recorded(r)'
  BY <1>1, <1>2 DEF Kept, RequestInv, Recorded, Accountable
<1> QED
  BY <1>3, <1>4, <1>5 DEF RequestInv

\* Requests do not touch each other's state.
LEMMA OthersKept ==
    ASSUME TypeOK, NEW q \in Requests, NEW r \in Requests, r # q, RequestStep(q)
    PROVE  Kept(r)
<1> USE DEF TypeOK, Kept, Suspend, ReturnEarly, HandlerReturns, histVars
<1>1. ASSUME NEW s \in {400, 401, 500}, Reject(q, s)
      PROVE  Kept(r)
  BY <1>1 DEF Reject
<1>2. CASE StartVerification(q) \/ VerificationFails(q) \/ Verified(q) \/ CheckFails(q)
  BY <1>2 DEF StartVerification, VerificationFails, Verified, CheckFails
<1>3. ASSUME NEW keys, Forward(q, keys),
             UNCHANGED <<headers, entry, calls, unsealed>>, role'[r] = role[r]
      PROVE  Kept(r)
  BY <1>3 DEF Forward
<1>4. CASE VerifiedUnknownTool(q)
  BY <1>3, <1>4 DEF VerifiedUnknownTool
<1>5. ASSUME NEW v \in {"inactive", "forbids", "permits"}, CheckAnswers(q, v)
      PROVE  Kept(r)
  BY <1>3, <1>5 DEF CheckAnswers
<1>6. CASE SendUpstream(q)
  BY <1>6 DEF SendUpstream
<1>7. ASSUME NEW s \in {500, 502}, SendFails(q, s)
      PROVE  Kept(r)
  BY <1>7 DEF SendFails
<1>8. CASE \/ FetchTimesOut(q) \/ FetchFails(q)
           \/ BodyEnds(q) \/ BodyIsAbsent(q) \/ BodyFails(q)
  BY <1>8 DEF FetchTimesOut, FetchFails, BodyEnds, BodyIsAbsent, BodyFails
<1>9. ASSUME NEW h \in Headers, HeadersArrive(q, h)
      PROVE  Kept(r)
  BY <1>9 DEF HeadersArrive
<1>10. ASSUME NEW s \in UpstreamStatuses, StreamArrives(q, s)
       PROVE  Kept(r)
  BY <1>10 DEF StreamArrives
<1>11. CASE AuditEnds(q)
  BY <1>11 DEF AuditEnds, Audit, AuditFails, Send
<1> QED
  BY <1>1, <1>2, <1>4, <1>5, <1>6, <1>7, <1>8, <1>9, <1>10, <1>11
     DEF RequestStep, VerificationEnds, CheckEnds, RequestBodyEnds, FetchEnds,
         ResponseBodyEnds

\* The forward handler's first part, whatever called it: a flag makes it refuse.
LEMMA ForwardInv ==
    ASSUME TypeOK, NEW r \in Requests, NEW keys \in SUBSET ContextKeys, Forward(r, keys),
           UNCHANGED <<headers, entry, calls, unsealed>>,
           calls[r] = 0, r \notin unsealed,
           role'[r] \in {"unasked", "unavailable", "inactive", "forbids", "permits"},
           keys \intersect Flags # {} => role'[r] \in {"unasked", "inactive", "forbids"},
           keys \intersect Flags = {} => role'[r] = "permits"
    PROVE  RequestInv(r)'
<1> USE DEF TypeOK, RequestInv, Suspend, HandlerReturns
<1>1. CASE keys \intersect Flags # {}
  <2>1. /\ pc'[r] = "auditing" /\ context'[r] = keys
        /\ response'[r] \in {Own(403), Own(404)}
    BY <1>1 DEF Forward, RefusalStatus
  <2> QED
    BY <1>1, <2>1 DEF Stage, Apart, Recorded, Accountable
<1>2. CASE keys \intersect Flags = {}
  <2>1. pc'[r] \in {"auditing", "requestBody"} /\ context'[r] = keys
    BY <1>2 DEF Forward
  <2> QED
    BY <1>2, <2>1 DEF Stage, Apart, Recorded, Accountable
<1> QED
  BY <1>1, <1>2

\* Once the tool was called, or could not be, the handler returns any response.
LEMMA CallEndsInv ==
    ASSUME TypeOK, NEW r \in Requests, RequestInv(r), NEW resp,
           pc[r] \in {"requestBody", "fetching", "responseBody"},
           HandlerReturns(r, resp), UNCHANGED <<context, sent, histVars>>
    PROVE  RequestInv(r)'
<1>1. pc'[r] = "auditing"
  BY DEF HandlerReturns, Suspend, TypeOK
<1>2. context[r] \intersect Flags = {} /\ role[r] = "permits" /\ r \notin unsealed
  BY DEF RequestInv, Stage
<1>3. calls[r] > 0 => calls[r] = 1
  BY DEF RequestInv, Apart
<1>4. context' = context /\ role' = role /\ calls' = calls /\ unsealed' = unsealed
  BY DEF histVars
<1>5. Stage(r)'
  BY <1>1, <1>2, <1>4 DEF Stage
<1>6. Apart(r)'
  BY <1>2, <1>3, <1>4 DEF Apart
<1> QED
  BY <1>1, <1>5, <1>6 DEF RequestInv, Recorded, Accountable

\* Auditing leaves the entry and the answer behind.
LEMMA AuditInv ==
    ASSUME TypeOK, NEW r \in Requests, RequestInv(r), AuditEnds(r)
    PROVE  RequestInv(r)'
<1> DEFINE e == [status |-> SeenStatus(r), error |-> ErrorType(context[r], SeenStatus(r))]
<1>1. /\ At(r, "auditing") /\ pc'[r] = "answered"
      /\ UNCHANGED <<context, response, headers, role, calls>>
      /\ response[r] # None => sent'[r] = response[r]
  BY DEF AuditEnds, Audit, AuditFails, Send, Suspend, TypeOK, histVars
<1>2. e' = e
  <2>1. SeenStatus(r)' = SeenStatus(r)
    BY <1>1 DEF SeenStatus
  <2> QED
    BY <1>1, <2>1 DEF ErrorType, Success, FlagError
<1>3. r \in unsealed' \/ entry'[r] = e
  BY DEF AuditEnds, Audit, AuditFails, TypeOK
<1>4. Stage(r)'
  BY <1>1 DEF Stage
<1>5. Apart(r)'
  BY <1>1 DEF RequestInv, Apart
<1>6. Recorded(r)'
  BY <1>1, <1>2, <1>3 DEF Recorded, Accountable
<1> QED
  BY <1>4, <1>5, <1>6 DEF RequestInv

LEMMA OwnStepInv ==
    ASSUME TypeOK, NEW r \in Requests, RequestInv(r), RequestStep(r)
    PROVE  RequestInv(r)'
<1>1. ASSUME NEW s \in {400, 401, 500}, Reject(r, s)
      PROVE  RequestInv(r)'
  BY <1>1 DEF Reject, At, ReturnEarly, Suspend, TypeOK, histVars,
              RequestInv, Stage, Apart, Recorded, Accountable
<1>2. CASE StartVerification(r)
  BY <1>2 DEF StartVerification, At, Suspend, TypeOK, histVars,
              RequestInv, Stage, Apart, Recorded, Accountable
<1>3. CASE VerificationFails(r)
  BY <1>3 DEF VerificationFails, At, ReturnEarly, Suspend, TypeOK, histVars,
              RequestInv, Stage, Apart, Recorded, Accountable
<1>4. CASE VerifiedUnknownTool(r)
  <2> DEFINE keys == {"recoveredAddress", "toolKey", "unknownTool"}
  <2>1. keys \in SUBSET ContextKeys /\ keys \intersect Flags # {}
    BY DEF ContextKeys, Flags
  <2>2. /\ calls[r] = 0 /\ r \notin unsealed /\ role[r] = "unasked"
        /\ UNCHANGED <<headers, entry, calls, unsealed, role>>
    BY <1>4 DEF VerifiedUnknownTool, At, RequestInv, Stage, histVars
  <2>3. Forward(r, keys)
    BY <1>4 DEF VerifiedUnknownTool
  <2> HIDE DEF keys
  <2> QED
    BY <2>1, <2>2, <2>3, ForwardInv
<1>5. CASE Verified(r)
  BY <1>5 DEF Verified, At, Suspend, TypeOK, histVars, Flags,
              RequestInv, Stage, Apart, Recorded, Accountable
<1>6. CASE CheckFails(r)
  BY <1>6 DEF CheckFails, At, ReturnEarly, Suspend, TypeOK, Flags,
              RequestInv, Stage, Apart, Recorded, Accountable
<1>7. ASSUME NEW v \in {"inactive", "forbids", "permits"}, CheckAnswers(r, v)
      PROVE  RequestInv(r)'
  <2> DEFINE keys == {"recoveredAddress", "toolKey"} \union FlagOf(v)
  <2>1. /\ keys \in SUBSET ContextKeys
        /\ keys \intersect Flags # {} => v \in {"inactive", "forbids"}
        /\ keys \intersect Flags = {} => v = "permits"
    BY DEF ContextKeys, Flags, FlagOf
  <2>2. /\ calls[r] = 0 /\ r \notin unsealed /\ role'[r] = v
        /\ UNCHANGED <<headers, entry, calls, unsealed>>
    BY <1>7 DEF CheckAnswers, At, RequestInv, Stage, TypeOK
  <2>3. Forward(r, keys)
    BY <1>7 DEF CheckAnswers
  <2> HIDE DEF keys
  <2> QED
    BY <2>1, <2>2, <2>3, ForwardInv
<1>8. CASE SendUpstream(r)
  BY <1>8 DEF SendUpstream, At, Suspend, TypeOK, RequestInv, Stage, Apart, Recorded, Accountable
<1>9. ASSUME NEW s \in {500, 502}, SendFails(r, s)
      PROVE  RequestInv(r)'
  BY <1>9, CallEndsInv DEF SendFails, At
<1>10. CASE FetchTimesOut(r) \/ FetchFails(r)
  <2>1. PICK s \in {502, 504} : HandlerReturns(r, Own(s))
    BY <1>10 DEF FetchTimesOut, FetchFails
  <2>2. pc[r] = "fetching" /\ UNCHANGED <<context, sent, histVars>>
    BY <1>10 DEF FetchTimesOut, FetchFails, At
  <2> QED
    BY <2>1, <2>2, CallEndsInv
<1>11. ASSUME NEW h \in Headers, HeadersArrive(r, h)
       PROVE  RequestInv(r)'
  BY <1>11, NoneAssumption
     DEF HeadersArrive, At, Suspend, TypeOK, histVars, RequestInv, Stage, Apart, Recorded, Accountable
<1>12. ASSUME NEW s \in UpstreamStatuses, StreamArrives(r, s)
       PROVE  RequestInv(r)'
  BY <1>12, CallEndsInv DEF StreamArrives, At
<1>13. CASE BodyEnds(r)
  <2>1. PICK resp : HandlerReturns(r, resp)
    BY <1>13 DEF BodyEnds
  <2> QED
    BY <1>13, <2>1, CallEndsInv DEF BodyEnds, At
<1>14. CASE BodyIsAbsent(r) \/ BodyFails(r)
  BY <1>14, CallEndsInv DEF BodyIsAbsent, BodyFails, At
<1>15. CASE AuditEnds(r)
  BY <1>15, AuditInv
<1> QED
  BY <1>1, <1>2, <1>3, <1>4, <1>5, <1>6, <1>7, <1>8, <1>9, <1>10, <1>11, <1>12, <1>13,
     <1>14, <1>15
     DEF RequestStep, VerificationEnds, CheckEnds, RequestBodyEnds, FetchEnds,
         ResponseBodyEnds

LEMMA InitPipelineInv == Init => PipelineInv
BY InitTypeOK DEF Init, PipelineInv, Stage, Apart, Recorded, Accountable

LEMMA NextPipelineInv ==
    ASSUME PipelineInv, [Next]_vars
    PROVE  PipelineInv'
<1>1. TypeOK'
  BY NextTypeOK
<1>2. ASSUME NEW r \in Requests
      PROVE  RequestInv(r)'
  <2>1. TypeOK /\ RequestInv(r)
    BY DEF PipelineInv, RequestInv
  <2>2. CASE RequestStep(r)
    BY <2>1, <2>2, OwnStepInv
  <2>3. ASSUME NEW q \in Requests, r # q, RequestStep(q)
        PROVE  RequestInv(r)'
    BY <2>1, <2>3, OthersKept, KeptInv
  <2>4. CASE Exit \/ UNCHANGED vars
    <3>1. Kept(r)
      BY <2>4 DEF Exit, vars, chainVars, histVars, Kept
    <3> QED
      BY <2>1, <3>1, KeptInv
  <2> QED
    BY <2>2, <2>3, <2>4 DEF Next
<1> QED
  BY <1>1, <1>2 DEF PipelineInv, RequestInv

LEMMA PipelineInvariant == Spec => []PipelineInv
BY InitPipelineInv, NextPipelineInv, PTL DEF Spec

(***************************************************************************)
(* The theorems.                                                           *)
(***************************************************************************)

(* The variables keep their types; in particular no request ever calls a tool   *)
(* twice (forward.ts:159, executor.ts:108).                                      *)
THEOREM TypeCorrect == Spec => []TypeOK
<1>1. PipelineInv => TypeOK
  BY DEF PipelineInv
<1> QED
  BY <1>1, PipelineInvariant, PTL

(* The key of a tool is used only for an agent that get() found permitted: all  *)
(* refusals of rbac.ts, which go on to the forward handler as flags, end there. *)
THEOREM PermittedOnly == Spec => []OnlyPermittedCalls
<1>1. PipelineInv => OnlyPermittedCalls
  BY DEF PipelineInv, Apart, OnlyPermittedCalls
<1> QED
  BY <1>1, PipelineInvariant, PTL

(* An answered request that called a tool has an audit entry, with the status   *)
(* that was answered if the handler returned a response (audit.ts:49-137).      *)
THEOREM CallsLeaveEntries == Spec => []AnsweredCallsAreAudited
<1>1. PipelineInv => AnsweredCallsAreAudited
  <2> SUFFICES ASSUME PipelineInv, NEW r \in Requests, Settled(r), calls[r] > 0
               PROVE  /\ entry[r] # None
                      /\ response[r] # None => entry[r].status = sent[r].status
    BY DEF AnsweredCallsAreAudited
  <2>1. TypeOK /\ Recorded(r) /\ pc[r] = "answered" /\ r \notin unsealed
    BY DEF PipelineInv, Settled
  <2>2. entry[r].status = SeenStatus(r)
    BY <2>1 DEF Recorded, Accountable
  <2>3. entry[r] # None
    <3>1. SeenStatus(r) \in Nat
      BY <2>1 DEF TypeOK, SeenStatus, Response
    <3>2. entry[r] \in AuditEntry
      BY <2>1, <3>1, ErrorTypeTyped DEF Recorded, Accountable, AuditEntry
    <3> QED
      BY <3>2, NoneAssumption
  <2> QED
    BY <2>1, <2>2, <2>3 DEF Recorded, Accountable, SeenStatus
<1> QED
  BY <1>1, PipelineInvariant, PTL

(* A refused request is answered 403 or 404 and has an entry with the reason    *)
(* that the permission check found (rbac.ts:87-201, audit.ts:54-81).            *)
THEOREM RefusalsLeaveEntries == Spec => []RefusalsAreAudited
<1>1. PipelineInv => RefusalsAreAudited
  <2> SUFFICES ASSUME PipelineInv, NEW r \in Requests, Settled(r),
                      context[r] \intersect Flags # {}
               PROVE  /\ sent[r] \in {Own(403), Own(404)}
                      /\ entry[r] # None
                      /\ entry[r].error = FlagError(context[r])
                      /\ role[r] \in {"unasked", "inactive", "forbids"}
    BY DEF RefusalsAreAudited
  <2>1. TypeOK /\ Recorded(r) /\ Apart(r) /\ pc[r] = "answered" /\ r \notin unsealed
    BY DEF PipelineInv, Settled
  <2>2. response[r] # None
    BY <2>1, NoneAssumption, OwnTyped DEF Apart
  <2>3. sent[r] = response[r] /\ SeenStatus(r) \in {403, 404}
    BY <2>1, <2>2 DEF Recorded, Accountable, Apart, SeenStatus, Own
  <2>4. ErrorType(context[r], SeenStatus(r)) = FlagError(context[r])
    <3> DEFINE s == SeenStatus(r)
    <3>1. ~Success(s)
      BY <2>3 DEF Success
    <3> HIDE DEF s
    <3> QED
      BY <3>1 DEF ErrorType, s
  <2>5. entry[r] \in AuditEntry
    BY <2>1, <2>3, ErrorTypeTyped DEF Recorded, Accountable, AuditEntry
  <2> QED
    BY <2>1, <2>3, <2>4, <2>5, NoneAssumption DEF Recorded, Accountable, Apart
<1> QED
  BY <1>1, PipelineInvariant, PTL

(* Every answered request whose signer was recovered has an entry, unless the   *)
(* chain was unavailable for its permission check (rbac.ts:95-201, audit.ts:37).*)
THEOREM AuthenticatedLeaveEntries == Spec => []AuthenticatedAreAudited
<1>1. PipelineInv => AuthenticatedAreAudited
  <2> SUFFICES ASSUME PipelineInv, NEW r \in Requests, Settled(r),
                      "recoveredAddress" \in context[r], role[r] # "unavailable"
               PROVE  entry[r] # None
    BY DEF AuthenticatedAreAudited
  <2>1. TypeOK /\ Recorded(r) /\ pc[r] = "answered" /\ r \notin unsealed
    BY DEF PipelineInv, Settled
  <2>2. SeenStatus(r) \in Nat
    BY <2>1 DEF TypeOK, SeenStatus, Response
  <2>3. entry[r] \in AuditEntry
    BY <2>1, <2>2, ErrorTypeTyped DEF Recorded, Accountable, AuditEntry
  <2> QED
    BY <2>3, NoneAssumption
<1> QED
  BY <1>1, PipelineInvariant, PTL
=============================================================================
