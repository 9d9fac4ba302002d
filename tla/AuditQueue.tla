----------------------------- MODULE AuditQueue -----------------------------
(***************************************************************************)
(* The in-memory audit queue of src/src/audit/store.ts, with the two       *)
(* SIGTERM/SIGINT listeners that drain it (the queue's own, store.ts, and  *)
(* the server's, api/server.ts).                                           *)
(*                                                                         *)
(* JavaScript runs one callback at a time, so one action is the code       *)
(* between two awaits.  The awaits are: the contract write (answered later *)
(* by WriteOk or WriteFails), the back-off sleep, and the 100 ms pause of  *)
(* drain().  Every call of flush() that is under way is named by its       *)
(* caller: a tick of the interval timer, the drain of the queue's own      *)
(* signal listener (Handler), or the drain of the server's listener for    *)
(* one delivered signal.                                                   *)
(*                                                                         *)
(* Abstracted: entries are opaque (their audit id), sleeps have no length, *)
(* and failedEntries keeps its keys only (getMetrics reads its size, the   *)
(* retry counts are never read).  destroy(), which only tests call, is not *)
(* modelled.                                                               *)
(***************************************************************************)
EXTENDS Integers, Sequences, FiniteSets, Functions

CONSTANTS
    Entries,        \* the audit entries, by auditId (a fresh UUID each)
    Ticks,          \* callbacks of the interval timer that may overlap
    Signals,        \* deliveries of SIGTERM or SIGINT
    Handler,        \* the drain of AuditQueue.handleShutdown
    MaxAttempts,    \* writeWithRetry: maxAttempts (3 in the code)
    MaxDrain,       \* drain: maxAttempts (10 in the code)
    MaxDisputed     \* bound: writes accepted by the chain but reported failed

Drainers == Signals \union {Handler}
Callers  == Ticks \union Drainers

ASSUME CallersAssumption ==
    /\ Ticks \intersect Drainers = {}
    /\ Handler \notin Signals

ASSUME BoundsAssumption ==
    /\ MaxAttempts \in Nat \ {0}
    /\ MaxDrain \in Nat \ {0}
    /\ MaxDisputed \in Nat

VARIABLES
    \* the fields of class AuditQueue
    queue,          \* entries waiting for a flush
    timerOn,        \* flushInterval is armed
    isShuttingDown,
    isFlushing,
    failedEntries,  \* audit ids with a failed write and no later success
    \* the calls that are under way
    phase,          \* per caller, where its flush() is suspended
    batch,          \* per caller, entriesToProcess from the current entry on
    attempt,        \* per caller, failed writes of the current entry
    drainPc,        \* per drainer, where its drain() is suspended
    drainAttempts,  \* per drainer, the attempts counter of drain()
    status,         \* the process: "up", "exited" (process.exit) or "crashed"
    \* the audit contract, as far as the queue can tell
    ledger,         \* per entry, transactions the chain accepted
    \* history, read by the properties only
    enqueued,       \* entries in the order enqueue() took them
    written,        \* entries in the order their write was acknowledged
    requeued,       \* entries that were put back after MaxAttempts failures
    disputed        \* per entry, accepted writes that were reported failed

fieldVars == <<queue, timerOn, isShuttingDown, isFlushing, failedEntries>>
flushVars == <<phase, batch, attempt>>
drainVars == <<drainPc, drainAttempts>>
histVars  == <<enqueued, written, requeued, disputed>>
vars == <<fieldVars, flushVars, drainVars, status, ledger, histVars>>

-----------------------------------------------------------------------------

Init ==
    /\ queue = << >>
    /\ timerOn = TRUE
    /\ isShuttingDown = FALSE
    /\ isFlushing = FALSE
    /\ failedEntries = {}
    /\ phase = [c \in Callers |-> "idle"]
    /\ batch = [c \in Callers |-> << >>]
    /\ attempt = [c \in Callers |-> 0]
    /\ drainPc = [d \in Drainers |-> "idle"]
    /\ drainAttempts = [d \in Drainers |-> 0]
    /\ status = "up"
    /\ ledger = [e \in Entries |-> 0]
    /\ enqueued = << >>
    /\ written = << >>
    /\ requeued = {}
    /\ disputed = [e \in Entries |-> 0]

\* Variant: enqueue() inserts at the head.
EnqueueAtHead(e) ==
    /\ status = "up"
    /\ e \notin Range(enqueued)
    /\ queue' = <<e>> \o queue
    /\ enqueued' = Append(enqueued, e)
    /\ UNCHANGED <<timerOn, isShuttingDown, isFlushing, failedEntries, flushVars,
                   drainVars, status, ledger, written, requeued, disputed>>

(* enqueue(): the audit middleware hands over an entry; it is never refused, *)
(* not even after a shutdown began (the HTTP server keeps serving).          *)
Enqueue(e) ==
    /\ status = "up"
    /\ e \notin Range(enqueued)
    /\ queue' = Append(queue, e)
    /\ enqueued' = Append(enqueued, e)
    /\ UNCHANGED <<timerOn, isShuttingDown, isFlushing, failedEntries, flushVars,
                   drainVars, status, ledger, written, requeued, disputed>>

-----------------------------------------------------------------------------
(* flush() *)

\* Variant: the isFlushing guard is missing.
FlushUnguarded == queue # << >>

\* The early return of flush() is passed.
FlushEnabled == ~isFlushing /\ queue # << >>

\* The part of flush() up to the first write of the batch.
BeginFlush(c) ==
    /\ isFlushing' = TRUE
    /\ queue' = << >>
    /\ batch' = [batch EXCEPT ![c] = queue]
    /\ phase' = [phase EXCEPT ![c] = "submit"]
    /\ attempt' = [attempt EXCEPT ![c] = 0]

\* The interval callback.  A tick that finds a flush in progress or nothing to
\* flush returns at once and changes nothing.
Tick(t) ==
    /\ status = "up"
    /\ timerOn
    /\ phase[t] = "idle"
    /\ FlushEnabled
    /\ BeginFlush(t)
    /\ UNCHANGED <<timerOn, isShuttingDown, failedEntries, drainVars, status,
                   ledger, histVars>>

\* Variant: flush() has no finally, so isFlushing stays set.
NextEntryKeepsGuard(c) ==
    /\ batch' = [batch EXCEPT ![c] = Tail(@)]
    /\ attempt' = [attempt EXCEPT ![c] = 0]
    /\ phase' = [phase EXCEPT ![c] = IF Tail(batch[c]) # << >> THEN "submit" ELSE "idle"]
    /\ UNCHANGED isFlushing
    /\ IF c \in Drainers /\ Tail(batch[c]) = << >>
       THEN /\ drainPc' = [drainPc EXCEPT ![c] = "sleep"]
            /\ drainAttempts' = [drainAttempts EXCEPT ![c] = @ + 1]
       ELSE UNCHANGED drainVars

\* Variant: drain() does not count the flushes it awaited.
NextEntryUncounted(c) ==
    /\ batch' = [batch EXCEPT ![c] = Tail(@)]
    /\ attempt' = [attempt EXCEPT ![c] = 0]
    /\ phase' = [phase EXCEPT ![c] = IF Tail(batch[c]) # << >> THEN "submit" ELSE "idle"]
    /\ isFlushing' = (Tail(batch[c]) # << >>)
    /\ drainPc' = IF c \in Drainers /\ Tail(batch[c]) = << >>
                  THEN [drainPc EXCEPT ![c] = "sleep"] ELSE drainPc
    /\ UNCHANGED drainAttempts

\* writeWithRetry() returns for the current entry: flush() takes the next one,
\* or ends, and then the drain() that awaited it goes on to its pause.
NextEntry(c) ==
    /\ batch' = [batch EXCEPT ![c] = Tail(@)]
    /\ attempt' = [attempt EXCEPT ![c] = 0]
    /\ IF Tail(batch[c]) # << >>
       THEN /\ phase' = [phase EXCEPT ![c] = "submit"]
            /\ UNCHANGED <<isFlushing, drainVars>>
       ELSE /\ phase' = [phase EXCEPT ![c] = "idle"]
            /\ isFlushing' = FALSE
            /\ IF c \in Drainers
               THEN /\ drainPc' = [drainPc EXCEPT ![c] = "sleep"]
                    /\ drainAttempts' = [drainAttempts EXCEPT ![c] = @ + 1]
               ELSE UNCHANGED drainVars

-----------------------------------------------------------------------------
(* writeWithRetry() *)

\* The chain accepts the transaction of the write that is in flight.
ChainAccepts(c) ==
    /\ status = "up"
    /\ phase[c] = "submit"
    /\ phase' = [phase EXCEPT ![c] = "accepted"]
    /\ ledger' = [ledger EXCEPT ![Head(batch[c])] = @ + 1]
    /\ UNCHANGED <<fieldVars, batch, attempt, drainVars, status, histVars>>

\* Variant: the write is taken for done before the chain accepted it.
WriteOkEarly(c) ==
    /\ status = "up"
    /\ phase[c] \in {"submit", "accepted"}
    /\ failedEntries' = failedEntries \ {Head(batch[c])}
    /\ written' = Append(written, Head(batch[c]))
    /\ NextEntry(c)
    /\ UNCHANGED <<queue, timerOn, isShuttingDown, status, ledger, enqueued,
                   requeued, disputed>>

\* Variant: success does not clear the entry's failure count.
WriteOkKeepsFailure(c) ==
    /\ status = "up"
    /\ phase[c] = "accepted"
    /\ written' = Append(written, Head(batch[c]))
    /\ NextEntry(c)
    /\ UNCHANGED <<queue, timerOn, isShuttingDown, failedEntries, status, ledger,
                   enqueued, requeued, disputed>>

\* Variant: the success path falls through to the re-queue.
WriteOkRequeues(c) ==
    /\ status = "up"
    /\ phase[c] = "accepted"
    /\ failedEntries' = failedEntries \ {Head(batch[c])}
    /\ written' = Append(written, Head(batch[c]))
    /\ queue' = Append(queue, Head(batch[c]))
    /\ NextEntry(c)
    /\ UNCHANGED <<timerOn, isShuttingDown, status, ledger, enqueued, requeued,
                   disputed>>

\* logAudit() resolves with ok.
WriteOk(c) ==
    /\ status = "up"
    /\ phase[c] = "accepted"
    /\ failedEntries' = failedEntries \ {Head(batch[c])}
    /\ written' = Append(written, Head(batch[c]))
    /\ NextEntry(c)
    /\ UNCHANGED <<queue, timerOn, isShuttingDown, status, ledger, enqueued,
                   requeued, disputed>>

\* Variant: the entry is dropped after the last attempt.
RetryThenDrop(c) ==
    IF attempt[c] + 1 < MaxAttempts
    THEN /\ phase' = [phase EXCEPT ![c] = "backoff"]
         /\ attempt' = [attempt EXCEPT ![c] = @ + 1]
         /\ UNCHANGED <<queue, isFlushing, batch, drainVars, requeued>>
    ELSE /\ UNCHANGED queue
         /\ requeued' = requeued \union {Head(batch[c])}
         /\ NextEntry(c)

\* The entry whose write failed once more is retried, or goes back to the tail.
RetryOrRequeue(c) ==
    IF attempt[c] + 1 < MaxAttempts
    THEN /\ phase' = [phase EXCEPT ![c] = "backoff"]
         /\ attempt' = [attempt EXCEPT ![c] = @ + 1]
         /\ UNCHANGED <<queue, isFlushing, batch, drainVars, requeued>>
    ELSE /\ queue' = Append(queue, Head(batch[c]))
         /\ requeued' = requeued \union {Head(batch[c])}
         /\ NextEntry(c)

\* logAudit() resolves with an error: the chain never took the transaction.
WriteFails(c) ==
    /\ status = "up"
    /\ phase[c] = "submit"
    /\ failedEntries' = failedEntries \union {Head(batch[c])}
    /\ RetryOrRequeue(c)
    /\ UNCHANGED <<timerOn, isShuttingDown, status, ledger, enqueued, written,
                   disputed>>

\* logAudit() resolves with an error although the chain took the transaction
\* (the answer was lost or came after the client's time-out).
WriteDisputed(c) ==
    /\ status = "up"
    /\ phase[c] = "accepted"
    /\ SumFunction(disputed) < MaxDisputed
    /\ failedEntries' = failedEntries \union {Head(batch[c])}
    /\ disputed' = [disputed EXCEPT ![Head(batch[c])] = @ + 1]
    /\ RetryOrRequeue(c)
    /\ UNCHANGED <<timerOn, isShuttingDown, status, ledger, enqueued, written>>

\* The back-off sleep ends and the write is tried again.
BackoffEnds(c) ==
    /\ status = "up"
    /\ phase[c] = "backoff"
    /\ phase' = [phase EXCEPT ![c] = "submit"]
    /\ UNCHANGED <<fieldVars, batch, attempt, drainVars, status, ledger, histVars>>

-----------------------------------------------------------------------------
(* drain() and the signal listeners *)

\* The loop condition of drain(): it reads the queue, not the batch in flight.
DrainGoesOn(d) == queue # << >> /\ drainAttempts[d] < MaxDrain

\* drain() returns.  The server's listener then calls process.exit(0).
DrainReturns(d) ==
    /\ ~DrainGoesOn(d)
    /\ drainPc' = [drainPc EXCEPT ![d] = "done"]
    /\ status' = IF d \in Signals THEN "exited" ELSE status
    /\ UNCHANGED <<queue, isFlushing, flushVars, drainAttempts>>

\* drain() calls a flush() that finds another one in progress.
DrainSkips(d) ==
    /\ DrainGoesOn(d)
    /\ isFlushing
    /\ drainPc' = [drainPc EXCEPT ![d] = "sleep"]
    /\ drainAttempts' = [drainAttempts EXCEPT ![d] = @ + 1]
    /\ UNCHANGED <<queue, isFlushing, flushVars, status>>

\* drain() calls a flush() that takes the queue.
DrainFlushes(d) ==
    /\ DrainGoesOn(d)
    /\ ~isFlushing
    /\ drainPc' = [drainPc EXCEPT ![d] = "flush"]
    /\ BeginFlush(d)
    /\ UNCHANGED <<drainAttempts, status>>

DrainLoop(d) == DrainReturns(d) \/ DrainSkips(d) \/ DrainFlushes(d)

DrainWakes(d) ==
    /\ status = "up"
    /\ drainPc[d] = "sleep"
    /\ DrainLoop(d)
    /\ UNCHANGED <<timerOn, isShuttingDown, failedEntries, ledger, histVars>>

\* The first signal.  The queue's listener was registered first, so its drain
\* runs up to its first await before the server's listener starts its own.
FirstSignal(s) ==
    /\ status = "up"
    /\ ~isShuttingDown
    /\ drainPc[s] = "idle"
    /\ isShuttingDown' = TRUE
    /\ timerOn' = FALSE
    /\ \/ /\ queue = << >>
          /\ drainPc' = [drainPc EXCEPT ![Handler] = "done", ![s] = "done"]
          /\ status' = "exited"
          /\ UNCHANGED <<queue, isFlushing, flushVars, drainAttempts>>
       \/ /\ queue # << >>
          /\ isFlushing
          /\ drainPc' = [drainPc EXCEPT ![Handler] = "sleep", ![s] = "sleep"]
          /\ drainAttempts' = [drainAttempts EXCEPT ![Handler] = 1, ![s] = 1]
          /\ UNCHANGED <<queue, isFlushing, flushVars, status>>
       \/ /\ FlushEnabled
          /\ BeginFlush(Handler)
          /\ drainPc' = [drainPc EXCEPT ![Handler] = "flush", ![s] = "done"]
          /\ status' = "exited"
          /\ UNCHANGED drainAttempts
    /\ UNCHANGED <<failedEntries, ledger, histVars>>

\* A later signal: handleShutdown() returns, the server's listener drains again.
LaterSignal(s) ==
    /\ status = "up"
    /\ isShuttingDown
    /\ drainPc[s] = "idle"
    /\ DrainLoop(s)
    /\ UNCHANGED <<timerOn, isShuttingDown, failedEntries, ledger, histVars>>

\* The process dies without a signal: everything in memory is gone.
Crash ==
    /\ status = "up"
    /\ status' = "crashed"
    /\ UNCHANGED <<fieldVars, flushVars, drainVars, ledger, histVars>>

-----------------------------------------------------------------------------

Write(c) == WriteOk(c) \/ WriteFails(c) \/ WriteDisputed(c)

Next ==
    \/ \E e \in Entries : Enqueue(e)
    \/ \E t \in Ticks : Tick(t)
    \/ \E c \in Callers : ChainAccepts(c) \/ Write(c) \/ BackoffEnds(c)
    \/ \E d \in Drainers : DrainWakes(d)
    \/ \E s \in Signals : FirstSignal(s) \/ LaterSignal(s)
    \/ Crash

Spec == Init /\ [][Next]_vars

(* Fairness.  Timers fire and every write is answered (the HTTP client of the  *)
(* chain driver times out); nothing makes anybody enqueue, signal or crash.    *)
SchedulingFairness ==
    /\ \A t \in Ticks : WF_vars(Tick(t))
    /\ \A c \in Callers : WF_vars(Write(c)) /\ WF_vars(BackoffEnds(c))
    /\ \A d \in Drainers : WF_vars(DrainWakes(d))

FairSpec == Spec /\ SchedulingFairness

\* The chain does not refuse the same entry for ever.  (That not every answer is
\* lost is the bound MaxDisputed.)
AcceptsEntry(e) ==
    \E c \in Callers : batch[c] # << >> /\ Head(batch[c]) = e /\ ChainAccepts(c)

ChainFairness == \A e \in Entries : SF_vars(AcceptsEntry(e))

-----------------------------------------------------------------------------
(* Properties *)

TypeOK ==
    /\ queue \in Seq(Entries)
    /\ timerOn \in BOOLEAN
    /\ isShuttingDown \in BOOLEAN
    /\ isFlushing \in BOOLEAN
    /\ failedEntries \subseteq Entries
    /\ phase \in [Callers -> {"idle", "submit", "accepted", "backoff"}]
    /\ batch \in [Callers -> Seq(Entries)]
    /\ attempt \in [Callers -> 0 .. MaxAttempts - 1]
    /\ drainPc \in [Drainers -> {"idle", "flush", "sleep", "done"}]
    /\ drainAttempts \in [Drainers -> 0 .. MaxDrain]
    /\ status \in {"up", "exited", "crashed"}
    /\ ledger \in [Entries -> Nat]
    /\ enqueued \in Seq(Entries)
    /\ written \in Seq(Entries)
    /\ requeued \subseteq Entries
    /\ disputed \in [Entries -> Nat]

\* Some flush() is under way for caller c.
Flushing(c) == phase[c] # "idle"

(* The isFlushing flag does what its comment promises ("prevent concurrent    *)
(* flush executions", store.ts:18): it is set exactly while a flush is         *)
(* suspended somewhere, never two at a time, and a suspended flush has an      *)
(* entry to write.                                                             *)
OneFlush ==
    /\ isFlushing <=> \E c \in Callers : Flushing(c)
    /\ \A c1, c2 \in Callers : Flushing(c1) /\ Flushing(c2) => c1 = c2
    /\ \A c \in Callers : Flushing(c) <=> batch[c] # << >>

\* The entries the process still holds: queued, or in a batch being flushed.
Held == Range(queue) \union UNION {Range(batch[c]) : c \in Callers}

(* Nothing is lost or doubled inside the queue, through flushes, retries,      *)
(* re-queues and drains in any interleaving: what enqueue() took is what was   *)
(* written plus what is still held, and each entry sits in exactly one place.  *)
OnePlace ==
    /\ Range(enqueued) = Held \union Range(written)
    /\ IsInjective(queue) /\ IsInjective(written)
    /\ \A c \in Callers : IsInjective(batch[c])
    /\ Held \intersect Range(written) = {}
    /\ \A c \in Callers : Range(queue) \intersect Range(batch[c]) = {}

\* e stands before f in s.
Precedes(s, e, f) == \E i, j \in DOMAIN s : i < j /\ s[i] = e /\ s[j] = f

(* Entries reach the chain in the order the requests were audited, except that *)
(* an entry whose MaxAttempts writes all failed goes behind the later ones.    *)
FifoUnlessRequeued ==
    \A e \in Entries \ requeued : \A f \in Range(written) :
        Precedes(enqueued, e, f) => Precedes(written, e, f)

(* At-least-once, and no more than needed: an entry has at most one            *)
(* transaction beyond those whose acceptance was reported as a failure, so a   *)
(* duplicate audit record always comes from a disputed write.                  *)
DuplicatesOnlyFromDisputes ==
    \A e \in Entries : ledger[e] <= disputed[e] + 1

(* getMetrics().failed counts entries that still have to be written: an audit  *)
(* id leaves failedEntries with its first success, whatever happened before.   *)
FailedArePending == failedEntries \subseteq Held

(* An accepted entry is eventually written, unless the process ends first, as  *)
(* long as the chain does not refuse it for ever: no interleaving of ticks,    *)
(* retries and drains leaves an entry stranded.                                *)
EntryEventuallyWritten ==
    ChainFairness =>
        \A e \in Entries :
            e \in Range(enqueued) ~> (e \in Range(written) \/ status # "up")

(* A signal ends the process even if the chain refuses every write and clients *)
(* keep enqueueing: drain() gives up after its MaxDrain rounds.                *)
ShutdownTerminates == isShuttingDown ~> status # "up"

(* "On graceful shutdown: drain queue to blockchain before exit"               *)
(* (store.ts:12): when the server's listener calls process.exit without having *)
(* used up the rounds of its drain, everything enqueued has been written.      *)
GracefulDrain ==
    status = "exited" =>
        \/ \E s \in Signals : drainPc[s] = "done" /\ drainAttempts[s] = MaxDrain
        \/ Range(enqueued) \subseteq Range(written)

-----------------------------------------------------------------------------
(* Refinement: the queue implements an at-least-once log. *)

Log == INSTANCE AuditLog WITH
    accepted     <- Range(enqueued),
    recorded     <- ledger,
    acknowledged <- Range(written),
    open         <- (status = "up")

(* Every behaviour of the queue is one of the abstract log: only accepted      *)
(* entries are recorded, an entry is acknowledged only once recorded, never    *)
(* recorded after it was acknowledged, and nothing happens once the process    *)
(* has ended.                                                                  *)
ImplementsAuditLog == Log!Spec
=============================================================================
