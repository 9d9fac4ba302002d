--------------------------- MODULE SignedRequests ---------------------------
(***************************************************************************)
(* Verification of signed requests: verifySignedRequest, NonceValidator    *)
(* and TimestampValidator of src/src/auth/signature.ts, as the signature   *)
(* middleware calls them.                                                  *)
(*                                                                         *)
(* A signed message is the canonical payload an agent signs; of its fields *)
(* the nonce and the timestamp matter here, method and URL do not.  The    *)
(* network may deliver a message any number of times, concurrently, late   *)
(* and to a restarted process.  verifySignedRequest awaits the recovery of *)
(* the signer; from there to its result it does not yield, so the nonce    *)
(* and the timestamp are checked in one step.                              *)
(*                                                                         *)
(* Time is the wall clock in seconds (Date.now() / 1000, rounded down),    *)
(* assumed not to be set back.                                             *)
(***************************************************************************)
EXTENDS Integers

CONSTANTS
    Agents,         \* recovered signer addresses
    Nonces,         \* nonces the agents use
    NaN,            \* parseInt of an X-Timestamp that is not a number
    Timestamps,     \* numeric timestamps the agents use
    Slots,          \* requests that may be under way at once
    None,           \* an unused slot
    Window,         \* windowSeconds and the expiry of cleanup() (300 in the code)
    MaxTime         \* bound: the clock stops here

Messages == [agent : Agents, nonce : Nonces, timestamp : Timestamps \union {NaN}]

ASSUME WindowAssumption == Window \in Nat
ASSUME TimeAssumption   == MaxTime \in Nat /\ Timestamps \subseteq Nat
ASSUME NaNAssumption    == NaN \notin Nat
ASSUME NoneAssumption   == None \notin [msg : Messages, genuine : BOOLEAN]

VARIABLES
    now,            \* the clock
    nonceStore,     \* the stored nonces, each with its agent and timestamp
    inFlight,       \* per slot, the request whose signer is being recovered
    \* history of this run of the process, read by the properties only
    acceptances,    \* per message, how often it was accepted
    storedAt,       \* when each stored nonce was stored (0 if it is not)
    \* history of all runs
    firstAccepted   \* when a message with a numeric timestamp was first accepted

histVars == <<acceptances, storedAt, firstAccepted>>
vars == <<now, nonceStore, inFlight, histVars>>

Init ==
    /\ now = 0
    /\ nonceStore = {}
    /\ inFlight = [s \in Slots |-> None]
    /\ acceptances = [m \in Messages |-> 0]
    /\ storedAt = [k \in Agents \X Nonces |-> 0]
    /\ firstAccepted = [m \in Messages |-> None]

-----------------------------------------------------------------------------
(* The operators of the validators *)

\* agentNonces.has(nonce)
NonceUsed(m) ==
    \E r \in nonceStore : r.agent = m.agent /\ r.nonce = m.nonce

AbsDiff(a, b) == IF a >= b THEN a - b ELSE b - a

\* Variant: only old timestamps drift.
DriftedPast(ts) == ts # NaN /\ now - ts > Window

\* TimestampValidator.validate() returns an error.  A comparison with NaN is
\* false, so a timestamp that is not a number does not drift.
Drifted(ts) == ts # NaN /\ AbsDiff(now, ts) > Window

\* Variant: cleanup() compares with >=.
ExpiredAtWindow(ts) == ts # NaN /\ now - ts >= Window

\* Variant: cleanup() keeps nonces for twice the window.
ExpiredLate(ts) == ts # NaN /\ now - ts > 2 * Window

\* cleanup() deletes a nonce with this timestamp.
Expired(ts) == ts # NaN /\ now - ts > Window

-----------------------------------------------------------------------------
(* verifySignedRequest() *)

\* A request with complete headers arrives and the recovery of its signer
\* starts.  It is genuine if the signer turns out to be the claimed agent.
\* (Requests the middleware refuses before that change no state.)
Deliver(s, m, genuine) ==
    /\ inFlight[s] = None
    /\ inFlight' = [inFlight EXCEPT ![s] = [msg |-> m, genuine |-> genuine]]
    /\ UNCHANGED <<now, nonceStore, histVars>>

\* The recovered signer is not the claimed agent, or recovery failed.
RejectSignature(s) ==
    /\ inFlight[s] # None
    /\ ~inFlight[s].genuine
    /\ inFlight' = [inFlight EXCEPT ![s] = None]
    /\ UNCHANGED <<now, nonceStore, histVars>>

\* The signer is the claimed agent and the nonce was seen before.
RejectNonce(s) ==
    /\ inFlight[s] # None
    /\ inFlight[s].genuine
    /\ NonceUsed(inFlight[s].msg)
    /\ inFlight' = [inFlight EXCEPT ![s] = None]
    /\ UNCHANGED <<now, nonceStore, histVars>>

\* Variant: the nonce is stored with the time of arrival.
StoreNonceAtArrival(s) ==
    LET m == inFlight[s].msg
    IN  /\ inFlight[s] # None
        /\ inFlight[s].genuine
        /\ ~NonceUsed(m)
        /\ nonceStore' = nonceStore \union {[m EXCEPT !.timestamp = now]}
        /\ storedAt' = [storedAt EXCEPT ![<<m.agent, m.nonce>>] = now]
        /\ inFlight' = [inFlight EXCEPT ![s] = None]
        /\ UNCHANGED now

\* The signer is the claimed agent and the nonce is new: it is stored, and then
\* the timestamp decides.
StoreNonce(s) ==
    LET m == inFlight[s].msg
    IN  /\ inFlight[s] # None
        /\ inFlight[s].genuine
        /\ ~NonceUsed(m)
        /\ nonceStore' = nonceStore \union {m}
        /\ storedAt' = [storedAt EXCEPT ![<<m.agent, m.nonce>>] = now]
        /\ inFlight' = [inFlight EXCEPT ![s] = None]
        /\ UNCHANGED now

RejectDrift(s) ==
    /\ StoreNonce(s)
    /\ Drifted(inFlight[s].msg.timestamp)
    /\ UNCHANGED <<acceptances, firstAccepted>>

Accept(s) ==
    /\ StoreNonce(s)
    /\ ~Drifted(inFlight[s].msg.timestamp)
    /\ acceptances' = [acceptances EXCEPT ![inFlight[s].msg] = @ + 1]
    /\ firstAccepted' = IF inFlight[s].msg.timestamp # NaN /\ firstAccepted[inFlight[s].msg] = None
                        THEN [firstAccepted EXCEPT ![inFlight[s].msg] = now]
                        ELSE firstAccepted

\* The interval callback of NonceValidator, every minute or later.
Cleanup ==
    /\ nonceStore' = {r \in nonceStore : ~Expired(r.timestamp)}
    /\ storedAt' = [k \in Agents \X Nonces |->
                       IF \E r \in nonceStore' : <<r.agent, r.nonce>> = k
                       THEN storedAt[k] ELSE 0]
    /\ UNCHANGED <<now, inFlight, acceptances, firstAccepted>>

\* The process ends, by destroy() and exit or by a crash, and starts again: the
\* store was in memory.  Requests under way are lost.
Restart ==
    /\ nonceStore' = {}
    /\ inFlight' = [s \in Slots |-> None]
    /\ acceptances' = [m \in Messages |-> 0]
    /\ storedAt' = [k \in Agents \X Nonces |-> 0]
    /\ UNCHANGED <<now, firstAccepted>>

Tick ==
    /\ now < MaxTime
    /\ now' = now + 1
    /\ UNCHANGED <<nonceStore, inFlight, histVars>>

Verify(s) == RejectSignature(s) \/ RejectNonce(s) \/ RejectDrift(s) \/ Accept(s)

Next ==
    \/ \E s \in Slots, m \in Messages, genuine \in BOOLEAN : Deliver(s, m, genuine)
    \/ \E s \in Slots : Verify(s)
    \/ Cleanup
    \/ Restart
    \/ Tick

Spec == Init /\ [][Next]_vars

-----------------------------------------------------------------------------
(* Properties *)

TypeOK ==
    /\ now \in 0 .. MaxTime
    /\ nonceStore \subseteq Messages
    /\ inFlight \in [Slots -> [msg : Messages, genuine : BOOLEAN] \union {None}]
    /\ acceptances \in [Messages -> Nat]
    /\ storedAt \in [Agents \X Nonces -> 0 .. MaxTime]
    /\ firstAccepted \in [Messages -> (0 .. MaxTime) \union {None}]

(* A signed message is accepted at most once by one run of the process, however *)
(* often and however late it is delivered, although cleanup() forgets its nonce *)
(* after a while: when the nonce goes, the timestamp is outside the window.     *)
NoReplay == \A m \in Messages : acceptances[m] <= 1

(* What NoReplay rests on: an accepted message is covered either by its nonce,  *)
(* stored with its own timestamp, or by the timestamp check, and the hand-over  *)
(* from one to the other (both compare with the same 300 s) leaves no gap.      *)
AcceptedIsCovered ==
    \A m \in Messages :
        acceptances[m] > 0 => m \in nonceStore \/ Expired(m.timestamp)

(* Memory of accepted requests is bounded in time: when cleanup() has run, the  *)
(* nonce of an accepted numeric timestamp was stored at most two windows ago.   *)
AcceptedNoncesExpire ==
    [][Cleanup =>
        \A r \in nonceStore' :
            r.timestamp # NaN /\ acceptances[r] > 0
                => now - storedAt[<<r.agent, r.nonce>>] <= 2 * Window]_vars

(* A restart empties the nonce store and lets a message in again, but only for  *)
(* a while: all acceptances of a message with a numeric timestamp, by however   *)
(* many runs of the process, lie within two windows.                            *)
ReplaysEnd ==
    [][\A s \in Slots :
        Accept(s) /\ firstAccepted[inFlight[s].msg] # None
            => now - firstAccepted[inFlight[s].msg] <= 2 * Window]_vars
=============================================================================
