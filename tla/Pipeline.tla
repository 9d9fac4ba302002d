------------------------------ MODULE Pipeline ------------------------------
(***************************************************************************)
(* A request to /forward through the middlewares of src/src/api: signature *)
(* verification, permission check, audit, and the forward handler with the *)
(* ProxyExecutor that calls the tool with the injected key.                *)
(*                                                                         *)
(* Every request runs its own chain of handlers; one action is what runs   *)
(* between two awaits of it.  The awaits are: the recovery of the signer,  *)
(* PermissionCache.get(), the body of the agent's request, fetch() up to   *)
(* the headers, the body of the tool's response, and the audit             *)
(* middleware's copy of the response body.  The permission check does not  *)
(* refuse by itself: it leaves a flag in the request's context, goes on,   *)
(* and the forward handler refuses, so that the audit middleware between   *)
(* them sees the refusal.                                                  *)
(*                                                                         *)
(* Abstracted: what verification and get() answer (SignedRequests and      *)
(* PermissionCache model them) is any of their results; bodies are named   *)
(* by where they come from; time-outs have no length.  Which tool a URL    *)
(* belongs to is part of the request.  The HTTP method is one of the six   *)
(* that the first middleware lets through, so inferAction() succeeds.      *)
(***************************************************************************)
EXTENDS Integers

CONSTANTS
    Requests,           \* requests to /forward, each with its own chain of handlers
    UpstreamStatuses,   \* status codes the tools answer with
    None                \* no response, no entry

ASSUME StatusAssumption == UpstreamStatuses \subseteq Nat

\* The flags by which the permission check hands a refusal to the forward handler.
Flags == {"unknownTool", "agentRevoked", "permissionDenied"}

ContextKeys == {"recoveredAddress", "toolKey"} \union Flags

\* A body is the proxy's own JSON, or that of the tool, or the one event that opens
\* an SSE response.
Response == [status : Nat, body : {"own", "tool", "governanceEvent"}]
Own(s)   == [status |-> s, body |-> "own"]

ErrorTypes == {"", "request/unknown_tool", "permission/agent_revoked",
               "permission/no_action_access", "service/upstream_error", "http_status"}

AuditEntry == [status : Nat, error : ErrorTypes]

\* What a tool said in its headers.  "plain" is text or binary.
Headers == [status : UpstreamStatuses, contentType : {"json", "plain"}]

ASSUME NoneAssumption == None \notin Response \union AuditEntry \union Headers

VARIABLES
    alive,          \* the process runs
    pc,             \* per request, the await it is suspended in
    context,        \* per request, what the middlewares put into its context
    timer,          \* per request, the abort timer of the executor is armed
    headers,        \* per request, the tool's headers while its body is read
    response,       \* per request, the response the handler returned
    entry,          \* per request, the entry handed to the audit queue
    sent,           \* per request, what the agent received
    \* history, read by the properties only
    role,           \* per request, what get() said of the agent
    calls,          \* per request, how often the tool was called with its key
    unsealed        \* requests whose audit payload could not be encrypted

chainVars == <<pc, context, timer, headers, response, entry, sent>>
histVars  == <<role, calls, unsealed>>
vars == <<alive, chainVars, histVars>>

Init ==
    /\ alive = TRUE
    /\ pc = [r \in Requests |-> "new"]
    /\ context = [r \in Requests |-> {}]
    /\ timer = [r \in Requests |-> FALSE]
    /\ headers = [r \in Requests |-> None]
    /\ response = [r \in Requests |-> None]
    /\ entry = [r \in Requests |-> None]
    /\ sent = [r \in Requests |-> None]
    /\ role = [r \in Requests |-> "unasked"]
    /\ calls = [r \in Requests |-> 0]
    /\ unsealed = {}

\* The request is suspended in await p of a live process.
At(r, p) == alive /\ pc[r] = p

Suspend(r, p) == pc' = [pc EXCEPT ![r] = p]

\* A middleware before the audit answers and does not call the next one.
ReturnEarly(r, resp) ==
    /\ Suspend(r, "answered")
    /\ sent' = [sent EXCEPT ![r] = resp]

\* The forward handler returns (None: without a response) to the audit middleware,
\* which starts to read a copy of the response body.
HandlerReturns(r, resp) ==
    /\ Suspend(r, "auditing")
    /\ response' = [response EXCEPT ![r] = resp]

-----------------------------------------------------------------------------
(* The signature middleware *)

\* Headers are missing, or the path or method is not valid, or decoding it fails.
Reject(r, s) ==
    /\ At(r, "new")
    /\ ReturnEarly(r, Own(s))
    /\ UNCHANGED <<alive, context, timer, headers, response, entry, histVars>>

StartVerification(r) ==
    /\ At(r, "new")
    /\ Suspend(r, "verifying")
    /\ UNCHANGED <<alive, context, timer, headers, response, entry, sent, histVars>>

VerificationFails(r) ==
    /\ At(r, "verifying")
    /\ ReturnEarly(r, Own(401))
    /\ UNCHANGED <<alive, context, timer, headers, response, entry, histVars>>

-----------------------------------------------------------------------------
(* The permission check, and the forward handler up to its first await *)

RefusalStatus(keys) == IF "unknownTool" \in keys THEN 404 ELSE 403

\* Variant: the forward handler overlooks a denied permission.
ForwardDenied(r, keys) ==
    /\ context' = [context EXCEPT ![r] = keys]
    /\ \/ /\ keys \intersect {"unknownTool", "agentRevoked"} # {}
          /\ HandlerReturns(r, Own(RefusalStatus(keys)))
       \/ /\ keys \intersect {"unknownTool", "agentRevoked"} = {}
          /\ Suspend(r, "requestBody")
          /\ UNCHANGED response
    /\ UNCHANGED sent

\* Variant: the permission check answers a refusal itself.
ForwardUnlessRefused(r, keys) ==
    /\ context' = [context EXCEPT ![r] = keys]
    /\ \/ /\ keys \intersect Flags # {}
          /\ ReturnEarly(r, Own(RefusalStatus(keys)))
          /\ UNCHANGED response
       \/ /\ keys \intersect Flags = {}
          /\ Suspend(r, "requestBody")
          /\ UNCHANGED <<response, sent>>

\* The permission check calls next() with these keys in the context: the audit
\* middleware calls the forward handler, which refuses if there is a flag, and else
\* needs the tool's key and the agent's body.
Forward(r, keys) ==
    /\ context' = [context EXCEPT ![r] = keys]
    /\ \/ /\ keys \intersect Flags # {}
          /\ HandlerReturns(r, Own(RefusalStatus(keys)))
       \/ /\ keys \intersect Flags = {}
          /\ HandlerReturns(r, Own(500))            \* no key for the tool
       \/ /\ keys \intersect Flags = {}
          /\ Suspend(r, "requestBody")
          /\ UNCHANGED response
    /\ UNCHANGED sent

\* The signer is the agent, and no tool has a base URL that begins the target URL.
VerifiedUnknownTool(r) ==
    /\ At(r, "verifying")
    /\ Forward(r, {"recoveredAddress", "toolKey", "unknownTool"})
    /\ UNCHANGED <<alive, timer, headers, entry, histVars>>

\* The signer is the agent and the tool is known: get() is called.
Verified(r) ==
    /\ At(r, "verifying")
    /\ context' = [context EXCEPT ![r] = {"recoveredAddress"}]
    /\ Suspend(r, "checking")
    /\ UNCHANGED <<alive, timer, headers, response, entry, sent, histVars>>

\* get() answers that the chain is unavailable: 503, fail closed.
CheckFails(r) ==
    /\ At(r, "checking")
    /\ role' = [role EXCEPT ![r] = "unavailable"]
    /\ ReturnEarly(r, Own(503))
    /\ UNCHANGED <<alive, context, timer, headers, response, entry, calls, unsealed>>

\* The flag for the role that get() returned.
FlagOf(v) == CASE v = "inactive"  -> {"agentRevoked"}
               [] v = "forbids"   -> {"permissionDenied"}
               [] v = "permits"   -> {}

CheckAnswers(r, v) ==
    /\ At(r, "checking")
    /\ role' = [role EXCEPT ![r] = v]
    /\ Forward(r, {"recoveredAddress", "toolKey"} \union FlagOf(v))
    /\ UNCHANGED <<alive, timer, headers, entry, calls, unsealed>>

-----------------------------------------------------------------------------
(* The forward handler and ProxyExecutor.execute() *)

\* Variant: the timer is armed for some methods only.
SendUpstreamUntimed(r) ==
    /\ At(r, "requestBody")
    /\ Suspend(r, "fetching")
    /\ \E armed \in BOOLEAN : timer' = [timer EXCEPT ![r] = armed]
    /\ calls' = [calls EXCEPT ![r] = @ + 1]
    /\ UNCHANGED <<alive, context, headers, response, entry, sent, role, unsealed>>

\* The agent's body is there: the key is injected, the abort timer armed and the
\* tool called.
SendUpstream(r) ==
    /\ At(r, "requestBody")
    /\ Suspend(r, "fetching")
    /\ timer' = [timer EXCEPT ![r] = TRUE]
    /\ calls' = [calls EXCEPT ![r] = @ + 1]
    /\ UNCHANGED <<alive, context, headers, response, entry, sent, role, unsealed>>

\* Variant: what breaks in the forward handler is answered past the audit middleware.
SendFailsPastAudit(r, s) ==
    /\ At(r, "requestBody")
    /\ ReturnEarly(r, Own(s))
    /\ UNCHANGED <<alive, context, timer, headers, response, entry, histVars>>

\* The agent's body breaks off (500), or the key cannot be injected (502).
SendFails(r, s) ==
    /\ At(r, "requestBody")
    /\ HandlerReturns(r, Own(s))
    /\ UNCHANGED <<alive, context, timer, headers, entry, sent, histVars>>

\* The timer aborts a fetch() that has no headers yet.
FetchTimesOut(r) ==
    /\ At(r, "fetching")
    /\ timer[r]
    /\ timer' = [timer EXCEPT ![r] = FALSE]
    /\ HandlerReturns(r, Own(504))
    /\ UNCHANGED <<alive, context, headers, entry, sent, histVars>>

\* Variant: a fetch() that failed is tried again.
FetchRetries(r) ==
    /\ At(r, "fetching")
    /\ calls' = [calls EXCEPT ![r] = @ + 1]
    /\ UNCHANGED <<alive, chainVars, role, unsealed>>

\* The connection fails before the headers arrive.
FetchFails(r) ==
    /\ At(r, "fetching")
    /\ timer' = [timer EXCEPT ![r] = FALSE]
    /\ HandlerReturns(r, Own(502))
    /\ UNCHANGED <<alive, context, headers, entry, sent, histVars>>

\* The headers arrive and the timer is cleared; the body is still to come.
HeadersArrive(r, h) ==
    /\ At(r, "fetching")
    /\ timer' = [timer EXCEPT ![r] = FALSE]
    /\ headers' = [headers EXCEPT ![r] = h]
    /\ Suspend(r, "responseBody")
    /\ UNCHANGED <<alive, context, response, entry, sent, histVars>>

\* The tool answers with an event stream.  Its body is a web stream, which has no
\* pipe(), so the handler's stream ends after the governance event.
StreamArrives(r, s) ==
    /\ At(r, "fetching")
    /\ timer' = [timer EXCEPT ![r] = FALSE]
    /\ HandlerReturns(r, [status |-> s, body |-> "governanceEvent"])
    /\ UNCHANGED <<alive, context, headers, entry, sent, histVars>>

\* The body is complete.  JSON is wrapped and returned.  For text and binary bodies
\* the handler makes a response and returns nothing.
BodyEnds(r) ==
    /\ At(r, "responseBody")
    /\ headers' = [headers EXCEPT ![r] = None]
    /\ HandlerReturns(r, IF headers[r].contentType = "json"
                         THEN [status |-> headers[r].status, body |-> "tool"]
                         ELSE None)
    /\ UNCHANGED <<alive, context, timer, entry, sent, histVars>>

\* The headers promise JSON but there is no body (HEAD, 204): there is nothing to
\* parse, reading it as text gives "", and the handler returns nothing.
BodyIsAbsent(r) ==
    /\ At(r, "responseBody")
    /\ headers[r].contentType = "json"
    /\ headers' = [headers EXCEPT ![r] = None]
    /\ HandlerReturns(r, None)
    /\ UNCHANGED <<alive, context, timer, entry, sent, histVars>>

\* The connection breaks while the body is read, or the JSON cannot be parsed (the
\* body is used up by then, so reading it as text fails too).
BodyFails(r) ==
    /\ At(r, "responseBody")
    /\ headers' = [headers EXCEPT ![r] = None]
    /\ HandlerReturns(r, Own(502))
    /\ UNCHANGED <<alive, context, timer, entry, sent, histVars>>

-----------------------------------------------------------------------------
(* The audit middleware after next() *)

\* The response as the audit middleware sees it: for a handler that returned none,
\* the framework makes up an empty one.
SeenStatus(r) == IF response[r] = None THEN 200 ELSE response[r].status

\* The error type of a refusal, by the flag the permission check left.
FlagError(keys) ==
    CASE "unknownTool" \in keys      -> "request/unknown_tool"
      [] "agentRevoked" \in keys     -> "permission/agent_revoked"
      [] "permissionDenied" \in keys -> "permission/no_action_access"

Success(s) == s \in 200 .. 299

\* errorType: from the flags first, and only then from the status.
ErrorType(keys, s) ==
    CASE Success(s)                                       -> ""
      [] ~Success(s) /\ keys \intersect Flags # {}        -> FlagError(keys)
      [] ~Success(s) /\ keys \intersect Flags = {}        ->
             IF s >= 500 THEN "service/upstream_error" ELSE "http_status"

\* What the framework sends once all middlewares have returned: the response, or 500
\* if no handler returned one.
Send(r) ==
    /\ Suspend(r, "answered")
    /\ sent' = [sent EXCEPT ![r] = IF response[r] = None THEN Own(500) ELSE response[r]]

\* Variant: only successful requests are recorded.
AuditSuccesses(r) ==
    /\ At(r, "auditing")
    /\ entry' = IF Success(SeenStatus(r))
                THEN [entry EXCEPT ![r] =
                         [status |-> SeenStatus(r),
                          error  |-> ErrorType(context[r], SeenStatus(r))]]
                ELSE entry
    /\ Send(r)
    /\ UNCHANGED <<alive, context, timer, headers, response, histVars>>

\* The response body was read and the payload encrypted: the entry is enqueued.
Audit(r) ==
    /\ At(r, "auditing")
    /\ entry' = [entry EXCEPT ![r] =
           [status |-> SeenStatus(r), error |-> ErrorType(context[r], SeenStatus(r))]]
    /\ Send(r)
    /\ UNCHANGED <<alive, context, timer, headers, response, histVars>>

\* Building or encrypting the payload fails: the request is answered all the same.
AuditFails(r) ==
    /\ At(r, "auditing")
    /\ unsealed' = unsealed \union {r}
    /\ Send(r)
    /\ UNCHANGED <<alive, context, timer, headers, response, entry, role, calls>>

-----------------------------------------------------------------------------

\* The process ends, by a signal whose drain is done or by a crash.  It does not
\* wait for the requests under way.
Exit ==
    /\ alive
    /\ alive' = FALSE
    /\ UNCHANGED <<chainVars, histVars>>

VerificationEnds(r) ==
    VerificationFails(r) \/ VerifiedUnknownTool(r) \/ Verified(r)

CheckEnds(r) ==
    CheckFails(r) \/ \E v \in {"inactive", "forbids", "permits"} : CheckAnswers(r, v)

RequestBodyEnds(r) == SendUpstream(r) \/ \E s \in {500, 502} : SendFails(r, s)

FetchEnds(r) ==
    \/ FetchTimesOut(r)
    \/ FetchFails(r)
    \/ \E h \in Headers : HeadersArrive(r, h)
    \/ \E s \in UpstreamStatuses : StreamArrives(r, s)

ResponseBodyEnds(r) == BodyEnds(r) \/ BodyIsAbsent(r) \/ BodyFails(r)

AuditEnds(r) == Audit(r) \/ AuditFails(r)

RequestStep(r) ==
    \/ \E s \in {400, 401, 500} : Reject(r, s)
    \/ StartVerification(r)
    \/ VerificationEnds(r)
    \/ CheckEnds(r)
    \/ RequestBodyEnds(r)
    \/ FetchEnds(r)
    \/ ResponseBodyEnds(r)
    \/ AuditEnds(r)

Next == (\E r \in Requests : RequestStep(r)) \/ Exit

Spec == Init /\ [][Next]_vars

(* Fairness.  Recovery, get() (its reads time out and its retries are bounded)   *)
(* and the audit always end; Node bounds the time an agent may take for its      *)
(* request; the abort timer fires.  Nothing makes a tool answer.                 *)
Fairness ==
    \A r \in Requests :
        /\ WF_vars(VerificationEnds(r))
        /\ WF_vars(CheckEnds(r))
        /\ WF_vars(RequestBodyEnds(r))
        /\ WF_vars(FetchTimesOut(r))
        /\ WF_vars(AuditEnds(r))

FairSpec == Spec /\ Fairness

\* The tools end the bodies they began.
ToolFairness == \A r \in Requests : WF_vars(ResponseBodyEnds(r))

-----------------------------------------------------------------------------
(* Properties *)

Awaits == {"new", "verifying", "checking", "requestBody", "fetching",
           "responseBody", "auditing", "answered"}

TypeOK ==
    /\ alive \in BOOLEAN
    /\ pc \in [Requests -> Awaits]
    /\ context \in [Requests -> SUBSET ContextKeys]
    /\ timer \in [Requests -> BOOLEAN]
    /\ headers \in [Requests -> Headers \union {None}]
    /\ response \in [Requests -> Response \union {None}]
    /\ entry \in [Requests -> AuditEntry \union {None}]
    /\ sent \in [Requests -> Response \union {None}]
    /\ role \in [Requests -> {"unasked", "unavailable", "inactive", "forbids", "permits"}]
    /\ calls \in [Requests -> 0 .. 1]
    /\ unsealed \subseteq Requests

\* The agent has its answer, and its audit payload was encrypted if there was one.
Settled(r) == pc[r] = "answered" /\ r \notin unsealed

(* The key of a tool is used only for an agent that get() found permitted, and  *)
(* once per request: every refusal gets from the permission check, which goes   *)
(* on "for audit", to the forward handler, and no failure on the way (chain     *)
(* down, unknown tool, inactive role) ends up as a call.                        *)
OnlyPermittedCalls ==
    \A r \in Requests :
        calls[r] > 0 => /\ role[r] = "permits"
                        /\ context[r] \intersect Flags = {}
                        /\ calls[r] = 1

(* An agent that got its answer after a tool was called for it has left an      *)
(* audit entry, whatever became of the call (time-out, broken body, error), and *)
(* the entry has the status that was answered if the handler returned one.      *)
AnsweredCallsAreAudited ==
    \A r \in Requests :
        Settled(r) /\ calls[r] > 0
            => /\ entry[r] # None
               /\ response[r] # None => entry[r].status = sent[r].status

(* "Continue to audit middleware so authenticated request is logged"            *)
(* (rbac.ts:105, :171): a request that is refused for its tool, its revoked     *)
(* agent or its missing permission is answered 403 or 404, never with a body of *)
(* the tool, and has an entry that names the reason.                            *)
RefusalsAreAudited ==
    \A r \in Requests :
        Settled(r) /\ context[r] \intersect Flags # {}
            => /\ sent[r] \in {Own(403), Own(404)}
               /\ entry[r] # None
               /\ entry[r].error = FlagError(context[r])
               /\ role[r] \in {"unasked", "inactive", "forbids"}

(* If the tools end the bodies they begin, every request whose verification     *)
(* began is answered, unless the process ends: no failure, time-out or refusal  *)
(* leaves it suspended.                                                         *)
RequestsAreAnswered ==
    ToolFairness =>
        \A r \in Requests : pc[r] # "new" ~> (pc[r] = "answered" \/ ~alive)

(* "This ensures audit middleware can capture ALL authenticated requests"       *)
(* (rbac.ts:149): a request whose signer was recovered has an entry when it is  *)
(* answered, whatever refused it or broke on its way, unless the chain was      *)
(* unavailable for its permission check (rbac.ts:124 answers that by itself).   *)
AuthenticatedAreAudited ==
    \A r \in Requests :
        Settled(r) /\ "recoveredAddress" \in context[r] /\ role[r] # "unavailable"
            => entry[r] # None

(* "Binary: body + X-Governance header" (forward.ts:16): a body that was read   *)
(* from the tool in full is in the response of the handler.                     *)
BodiesAreForwarded ==
    [][\A r \in Requests :
        BodyEnds(r) => response'[r] # None /\ response'[r].body = "tool"]_vars
=============================================================================
