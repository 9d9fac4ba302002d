------------------------------ MODULE AuditLog ------------------------------
(***************************************************************************)
(* What the audit queue promises to the rest of the proxy: a write-behind  *)
(* log that records every accepted entry on the chain at least once while  *)
(* the process lives.  It says nothing of queues, flushes, retries or      *)
(* drains; AuditQueue is shown to implement it.                            *)
(***************************************************************************)
EXTENDS Naturals

CONSTANT Entries

VARIABLES
    accepted,       \* entries the log took responsibility for
    recorded,       \* how often each entry was recorded on the chain
    acknowledged,   \* entries known to be recorded
    open            \* the process that keeps the log is alive

vars == <<accepted, recorded, acknowledged, open>>

Init ==
    /\ accepted = {}
    /\ recorded = [e \in Entries |-> 0]
    /\ acknowledged = {}
    /\ open = TRUE

Accept(e) ==
    /\ open
    /\ e \notin accepted
    /\ accepted' = accepted \union {e}
    /\ UNCHANGED <<recorded, acknowledged, open>>

\* At least once: an entry may be recorded again until it is acknowledged.
Record(e) ==
    /\ open
    /\ e \in accepted \ acknowledged
    /\ recorded' = [recorded EXCEPT ![e] = @ + 1]
    /\ UNCHANGED <<accepted, acknowledged, open>>

Acknowledge(e) ==
    /\ open
    /\ e \in accepted \ acknowledged
    /\ recorded[e] > 0
    /\ acknowledged' = acknowledged \union {e}
    /\ UNCHANGED <<accepted, recorded, open>>

\* The process ends; entries not yet recorded are lost.
Close ==
    /\ open
    /\ open' = FALSE
    /\ UNCHANGED <<accepted, recorded, acknowledged>>

Next ==
    \/ \E e \in Entries : Accept(e) \/ Record(e) \/ Acknowledge(e)
    \/ Close

Spec == Init /\ [][Next]_vars
=============================================================================
