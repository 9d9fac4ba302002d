-------------------------- MODULE AuditQueueProofs --------------------------
(***************************************************************************)
(* Theorems about AuditQueue: for any entries, ticks and signals, any      *)
(* number of attempts and of drain rounds, and whatever the chain answers. *)
(***************************************************************************)
EXTENDS AuditQueue, SequenceTheorems, TLAPS

(* Sequences without repetitions. *)

\* Appending adds one element.
LEMMA AppendRange ==
    ASSUME NEW S, NEW s \in Seq(S), NEW e \in S
    PROVE  /\ Append(s, e) \in Seq(S)
           /\ Range(Append(s, e)) = Range(s) \union {e}
           /\ IsInjective(s) /\ e \notin Range(s) => IsInjective(Append(s, e))
<1> DEFINE t == Append(s, e)
<1>1. /\ t \in Seq(S)
      /\ Len(t) = Len(s) + 1
      /\ \A i \in 1 .. Len(s) : t[i] = s[i]
      /\ t[Len(s) + 1] = e
  BY AppendProperties
<1>2. Len(s) \in Nat /\ DOMAIN s = 1 .. Len(s) /\ DOMAIN t = 1 .. Len(s) + 1
  BY <1>1, LenProperties
<1> HIDE DEF t
<1>3. Range(t) = Range(s) \union {e}
  BY <1>1, <1>2 DEF Range
<1>4. ASSUME IsInjective(s), e \notin Range(s)
      PROVE  IsInjective(t)
  BY <1>1, <1>2, <1>4 DEF Range, IsInjective
<1> QED
  BY <1>1, <1>3, <1>4 DEF t

\* Taking the tail of a sequence without repetitions removes its head.
LEMMA TailRange ==
    ASSUME NEW S, NEW s \in Seq(S), s # << >>
    PROVE  /\ Head(s) \in Range(s)
           /\ Head(s) \in S
           /\ Tail(s) \in Seq(S)
           /\ Range(s) = Range(Tail(s)) \union {Head(s)}
           /\ IsInjective(s) => IsInjective(Tail(s)) /\ Head(s) \notin Range(Tail(s))
<1> DEFINE t == Tail(s)
           h == Head(s)
<1>1. /\ h \in S
      /\ t \in Seq(S)
      /\ Len(t) = Len(s) - 1
      /\ \A i \in 1 .. Len(t) : t[i] = s[i + 1]
  BY HeadTailProperties
<1>2. /\ Len(s) \in Nat \ {0}
      /\ DOMAIN s = 1 .. Len(s)
      /\ DOMAIN t = 1 .. Len(s) - 1
  BY <1>1, LenProperties, EmptySeq
<1>3. h = s[1]
  OBVIOUS
<1> HIDE DEF t, h
<1>4. h \in Range(s)
  BY <1>2, <1>3 DEF Range
<1>5. Range(s) = Range(t) \union {h}
  <2>1. ASSUME NEW i \in 1 .. Len(s)
        PROVE  s[i] \in Range(t) \union {h}
    <3>1. CASE i = 1
      BY <3>1, <1>3
    <3>2. CASE i # 1
      <4>1. i - 1 \in 1 .. Len(t) /\ t[i - 1] = s[(i - 1) + 1] /\ (i - 1) + 1 = i
        BY <1>1, <1>2, <3>2
      <4> QED
        BY <4>1, <1>1, <1>2 DEF Range
    <3> QED
      BY <3>1, <3>2
  <2>2. ASSUME NEW i \in 1 .. Len(t)
        PROVE  t[i] \in Range(s)
    BY <1>1, <1>2 DEF Range
  <2>3. Range(s) \subseteq Range(t) \union {h}
    BY <2>1, <1>2 DEF Range
  <2>4. Range(t) \subseteq Range(s)
    BY <2>2, <1>1, <1>2 DEF Range
  <2> QED
    BY <2>3, <2>4, <1>4
<1>6. ASSUME IsInjective(s)
      PROVE  IsInjective(t) /\ h \notin Range(t)
  <2>1. IsInjective(t)
    <3>1. SUFFICES ASSUME NEW a \in 1 .. Len(t), NEW b \in 1 .. Len(t), t[a] = t[b]
                   PROVE  a = b
      BY <1>1, <1>2 DEF IsInjective
    <3>2. s[a + 1] = s[b + 1] /\ a + 1 \in 1 .. Len(s) /\ b + 1 \in 1 .. Len(s)
      BY <1>1, <1>2, <3>1
    <3>3. a + 1 = b + 1
      BY <3>2, <1>2, <1>6 DEF IsInjective
    <3> QED
      BY <3>3
  <2>2. ASSUME NEW a \in 1 .. Len(t), t[a] = h
        PROVE  FALSE
    <3>1. s[a + 1] = s[1] /\ a + 1 \in 1 .. Len(s) /\ 1 \in 1 .. Len(s)
      BY <1>1, <1>2, <1>3, <2>2
    <3>2. a + 1 = 1
      BY <3>1, <1>2, <1>6 DEF IsInjective
    <3> QED
      BY <3>2
  <2>3. h \notin Range(t)
    BY <2>2, <1>1, <1>2 DEF Range
  <2> QED
    BY <2>1, <2>3
<1> QED
  BY <1>1, <1>4, <1>5, <1>6 DEF t, h

\* The empty sequence.
LEMMA EmptyRange ==
    ASSUME NEW S
    PROVE  << >> \in Seq(S) /\ Range(<< >>) = {} /\ IsInjective(<< >>)
BY EmptySeq DEF Range, IsInjective

-----------------------------------------------------------------------------
(* Typing and mutual exclusion.  OneFlush is not inductive alone: a drain that *)
(* is inside flush() must be told from one that only sleeps, and the first     *)
(* signal must find every drain unused.                                        *)

DrainShape ==
    \A d \in Drainers :
        /\ drainPc[d] = "flush" <=> phase[d] # "idle"
        /\ drainPc[d] = "flush" => drainAttempts[d] < MaxDrain
        /\ drainPc[d] = "idle" => drainAttempts[d] = 0
        /\ ~isShuttingDown => drainPc[d] = "idle"

FlushInv == TypeOK /\ OneFlush /\ DrainShape

\* What the steps of a flush change of FlushInv.
FlushPart ==
    /\ isFlushing \in BOOLEAN
    /\ phase \in [Callers -> {"idle", "submit", "accepted", "backoff"}]
    /\ batch \in [Callers -> Seq(Entries)]
    /\ attempt \in [Callers -> 0 .. MaxAttempts - 1]
    /\ drainPc \in [Drainers -> {"idle", "flush", "sleep", "done"}]
    /\ drainAttempts \in [Drainers -> 0 .. MaxDrain]
    /\ OneFlush
    /\ DrainShape

LEMMA InitFlushInv == Init => FlushInv
<1> SUFFICES ASSUME Init PROVE FlushInv
  OBVIOUS
<1>1. << >> \in Seq(Entries) /\ 0 \in 0 .. MaxAttempts - 1 /\ 0 \in 0 .. MaxDrain
  BY EmptySeq, BoundsAssumption
<1>2. TypeOK
  <2>1. /\ phase \in [Callers -> {"idle", "submit", "accepted", "backoff"}]
        /\ batch \in [Callers -> Seq(Entries)]
        /\ attempt \in [Callers -> 0 .. MaxAttempts - 1]
        /\ drainPc \in [Drainers -> {"idle", "flush", "sleep", "done"}]
        /\ drainAttempts \in [Drainers -> 0 .. MaxDrain]
    BY <1>1 DEF Init
  <2>2. /\ queue \in Seq(Entries) /\ enqueued \in Seq(Entries) /\ written \in Seq(Entries)
        /\ failedEntries \subseteq Entries /\ requeued \subseteq Entries
        /\ timerOn \in BOOLEAN /\ isShuttingDown \in BOOLEAN /\ isFlushing \in BOOLEAN
    BY <1>1 DEF Init
  <2>3. /\ ledger \in [Entries -> Nat] /\ disputed \in [Entries -> Nat]
        /\ status \in {"up", "exited", "crashed"}
    BY DEF Init
  <2> QED
    BY <2>1, <2>2, <2>3 DEF TypeOK
<1>3. OneFlush
  BY DEF Init, OneFlush, Flushing
<1>4. DrainShape
  BY BoundsAssumption DEF Init, DrainShape, Drainers, Callers
<1> QED
  BY <1>2, <1>3, <1>4 DEF FlushInv

\* The end of writeWithRetry(), whatever it decided.
LEMMA NextEntryFlushPart ==
    ASSUME FlushInv, NEW c \in Callers, phase[c] # "idle", NextEntry(c),
           isShuttingDown' = isShuttingDown
    PROVE  FlushPart'
<1>1. batch[c] # << >> /\ batch[c] \in Seq(Entries)
  BY DEF FlushInv, TypeOK, OneFlush, Flushing
<1>2. Tail(batch[c]) \in Seq(Entries)
  BY <1>1, TailRange
<1>3. isFlushing = TRUE /\ \A d \in Callers \ {c} : phase[d] = "idle" /\ batch[d] = << >>
  BY DEF FlushInv, TypeOK, OneFlush, Flushing
<1>4. c \in Drainers => drainPc[c] = "flush" /\ drainAttempts[c] \in 0 .. MaxDrain
                        /\ drainAttempts[c] < MaxDrain /\ drainAttempts[c] + 1 \in 0 .. MaxDrain
                        /\ isShuttingDown
  BY BoundsAssumption DEF FlushInv, TypeOK, DrainShape, Callers
<1>5. /\ batch' \in [Callers -> Seq(Entries)]
      /\ attempt' \in [Callers -> 0 .. MaxAttempts - 1]
  BY <1>2, BoundsAssumption DEF NextEntry, FlushInv, TypeOK
<1>6. CASE Tail(batch[c]) # << >>
  <2>1. /\ phase' = [phase EXCEPT ![c] = "submit"]
        /\ batch' = [batch EXCEPT ![c] = Tail(@)]
        /\ isFlushing' = isFlushing /\ drainPc' = drainPc /\ drainAttempts' = drainAttempts
    BY <1>6 DEF NextEntry, drainVars
  <2>2. OneFlush'
    BY <2>1, <1>3, <1>6 DEF FlushInv, TypeOK, OneFlush, Flushing
  <2>3. DrainShape'
    BY <2>1, <1>4 DEF FlushInv, TypeOK, DrainShape, Callers
  <2> QED
    BY <1>5, <2>1, <2>2, <2>3 DEF FlushPart, FlushInv, TypeOK
<1>7. CASE Tail(batch[c]) = << >>
  <2>1. /\ phase' = [phase EXCEPT ![c] = "idle"]
        /\ batch' = [batch EXCEPT ![c] = Tail(@)]
        /\ isFlushing' = FALSE
        /\ IF c \in Drainers
           THEN /\ drainPc' = [drainPc EXCEPT ![c] = "sleep"]
                /\ drainAttempts' = [drainAttempts EXCEPT ![c] = @ + 1]
           ELSE drainPc' = drainPc /\ drainAttempts' = drainAttempts
    BY <1>7 DEF NextEntry, drainVars
  <2>2. OneFlush'
    BY <2>1, <1>3, <1>7 DEF FlushInv, TypeOK, OneFlush, Flushing
  <2>3. /\ drainPc' \in [Drainers -> {"idle", "flush", "sleep", "done"}]
        /\ drainAttempts' \in [Drainers -> 0 .. MaxDrain]
    BY <2>1, <1>4 DEF FlushInv, TypeOK
  <2>4. DrainShape'
    BY <2>1, <1>4 DEF FlushInv, TypeOK, DrainShape, Callers
  <2> QED
    BY <1>5, <2>1, <2>2, <2>3, <2>4 DEF FlushPart, FlushInv, TypeOK
<1> QED
  BY <1>6, <1>7

\* A failed write is retried or its entry re-queued.
LEMMA RetryFlushPart ==
    ASSUME FlushInv, NEW c \in Callers, phase[c] # "idle", RetryOrRequeue(c),
           isShuttingDown' = isShuttingDown
    PROVE  /\ FlushPart'
           /\ queue' \in Seq(Entries)
           /\ requeued' \subseteq Entries
<1>1. batch[c] # << >> /\ batch[c] \in Seq(Entries) /\ queue \in Seq(Entries)
  BY DEF FlushInv, TypeOK, OneFlush, Flushing
<1>2. Head(batch[c]) \in Entries
  BY <1>1, TailRange
<1>3. CASE attempt[c] + 1 < MaxAttempts
  <2>1. /\ phase' = [phase EXCEPT ![c] = "backoff"]
        /\ attempt' = [attempt EXCEPT ![c] = @ + 1]
        /\ queue' = queue /\ isFlushing' = isFlushing /\ batch' = batch
        /\ drainPc' = drainPc /\ drainAttempts' = drainAttempts /\ requeued' = requeued
    BY <1>3 DEF RetryOrRequeue, drainVars
  <2>2. attempt' \in [Callers -> 0 .. MaxAttempts - 1]
    BY <2>1, <1>3, BoundsAssumption DEF FlushInv, TypeOK
  <2>3. OneFlush' /\ DrainShape'
    BY <2>1 DEF FlushInv, TypeOK, OneFlush, Flushing, DrainShape, Callers
  <2> QED
    BY <2>1, <2>2, <2>3 DEF FlushPart, FlushInv, TypeOK
<1>4. CASE ~(attempt[c] + 1 < MaxAttempts)
  <2>1. /\ queue' = Append(queue, Head(batch[c]))
        /\ requeued' = requeued \union {Head(batch[c])}
        /\ NextEntry(c)
    BY <1>4 DEF RetryOrRequeue
  <2> QED
    BY <2>1, <1>1, <1>2, AppendRange, NextEntryFlushPart DEF FlushInv, TypeOK
<1> QED
  BY <1>3, <1>4

\* The start of a flush, by a tick or by a drain that is awake.
LEMMA BeginFlushFlushPart ==
    ASSUME FlushInv, NEW c \in Callers, FlushEnabled, BeginFlush(c)
    PROVE  /\ isFlushing' \in BOOLEAN
           /\ queue' \in Seq(Entries)
           /\ phase' \in [Callers -> {"idle", "submit", "accepted", "backoff"}]
           /\ batch' \in [Callers -> Seq(Entries)]
           /\ attempt' \in [Callers -> 0 .. MaxAttempts - 1]
           /\ OneFlush'
           /\ \A d \in Callers : phase[d] = "idle"
           /\ phase' = [d \in Callers |-> IF d = c THEN "submit" ELSE "idle"]
<1>1. \A d \in Callers : phase[d] = "idle" /\ batch[d] = << >>
  BY DEF FlushInv, OneFlush, Flushing, FlushEnabled
<1>2. << >> \in Seq(Entries)
  BY EmptySeq
<1>3. queue # << >> /\ queue \in Seq(Entries)
  BY DEF FlushEnabled, FlushInv, TypeOK
<1>4. /\ phase' \in [Callers -> {"idle", "submit", "accepted", "backoff"}]
      /\ batch' \in [Callers -> Seq(Entries)]
      /\ attempt' \in [Callers -> 0 .. MaxAttempts - 1]
  BY <1>3, BoundsAssumption DEF BeginFlush, FlushInv, TypeOK
<1>5. phase' = [d \in Callers |-> IF d = c THEN "submit" ELSE "idle"]
  BY <1>1 DEF BeginFlush, FlushInv, TypeOK
<1>6. batch' = [d \in Callers |-> IF d = c THEN queue ELSE << >>]
  BY <1>1 DEF BeginFlush, FlushInv, TypeOK
<1>7. isFlushing' = TRUE /\ queue' = << >>
  BY DEF BeginFlush
<1>8. OneFlush'
  BY <1>3, <1>5, <1>6, <1>7 DEF OneFlush, Flushing
<1> QED
  BY <1>1, <1>2, <1>4, <1>5, <1>7, <1>8

\* One turn of the loop of drain(), by a drain that is not inside flush().
LEMMA DrainLoopFlushPart ==
    ASSUME FlushInv, NEW d \in Drainers, DrainLoop(d), phase[d] = "idle",
           isShuttingDown, isShuttingDown' = isShuttingDown
    PROVE  /\ FlushPart'
           /\ queue' \in Seq(Entries)
           /\ status' \in {"up", "exited", "crashed"}
<1>1. d \in Callers
  BY DEF Callers
<1>2. drainAttempts[d] \in 0 .. MaxDrain /\ drainAttempts[d] + 1 \in Nat
  BY BoundsAssumption DEF FlushInv, TypeOK
<1>3. CASE DrainReturns(d)
  <2>1. /\ drainPc' = [drainPc EXCEPT ![d] = "done"]
        /\ drainAttempts' = drainAttempts
        /\ queue' = queue /\ isFlushing' = isFlushing
        /\ phase' = phase /\ batch' = batch /\ attempt' = attempt
        /\ status' \in {status, "exited"}
    BY <1>3 DEF DrainReturns, flushVars
  <2>2. OneFlush' /\ DrainShape'
    BY <2>1 DEF FlushInv, TypeOK, OneFlush, Flushing, DrainShape
  <2> QED
    BY <2>1, <2>2 DEF FlushPart, FlushInv, TypeOK
<1>4. CASE DrainSkips(d)
  <2>1. /\ drainPc' = [drainPc EXCEPT ![d] = "sleep"]
        /\ drainAttempts' = [drainAttempts EXCEPT ![d] = @ + 1]
        /\ drainAttempts[d] < MaxDrain
        /\ queue' = queue /\ isFlushing' = isFlushing
        /\ phase' = phase /\ batch' = batch /\ attempt' = attempt
        /\ status' = status
    BY <1>4 DEF DrainSkips, DrainGoesOn, flushVars
  <2>2. drainAttempts[d] + 1 \in 0 .. MaxDrain
    BY <2>1, <1>2, BoundsAssumption
  <2>3. OneFlush' /\ DrainShape'
    BY <2>1 DEF FlushInv, TypeOK, OneFlush, Flushing, DrainShape
  <2> QED
    BY <2>1, <2>2, <2>3 DEF FlushPart, FlushInv, TypeOK
<1>5. CASE DrainFlushes(d)
  <2>1. /\ drainPc' = [drainPc EXCEPT ![d] = "flush"]
        /\ drainAttempts' = drainAttempts
        /\ drainAttempts[d] < MaxDrain
        /\ FlushEnabled
        /\ BeginFlush(d)
        /\ status' = status
    BY <1>5 DEF DrainFlushes, DrainGoesOn, FlushEnabled
  <2>4. phase' = [c \in Callers |-> IF c = d THEN "submit" ELSE "idle"]
    BY <2>1, <1>1, BeginFlushFlushPart
  <2>5. /\ drainPc \in [Drainers -> {"idle", "flush", "sleep", "done"}]
        /\ \A c \in Drainers : c \in Callers /\ phase[c] = "idle"
    BY <2>1, <1>1, BeginFlushFlushPart DEF FlushInv, TypeOK, Callers
  <2>2. DrainShape'
    BY <2>1, <2>4, <2>5 DEF FlushInv, DrainShape
  <2>3. drainPc' \in [Drainers -> {"idle", "flush", "sleep", "done"}]
    BY <2>1 DEF FlushInv, TypeOK
  <2> QED
    BY <2>1, <2>2, <2>3, <1>1, BeginFlushFlushPart DEF FlushPart, FlushInv, TypeOK
<1> QED
  BY <1>3, <1>4, <1>5 DEF DrainLoop

\* The first signal: two drains begin in one step.
LEMMA FirstSignalFlushPart ==
    ASSUME FlushInv, NEW s \in Signals, FirstSignal(s)
    PROVE  /\ FlushPart'
           /\ queue' \in Seq(Entries)
           /\ status' \in {"up", "exited", "crashed"}
<1>1. /\ s \in Drainers /\ Handler \in Drainers /\ Handler \in Callers
      /\ s # Handler
      /\ isShuttingDown' = TRUE /\ ~isShuttingDown
  BY CallersAssumption DEF Drainers, Callers, FirstSignal
<1>2. \A d \in Drainers : drainPc[d] = "idle" /\ phase[d] = "idle" /\ drainAttempts[d] = 0
  <2>1. \A d \in Drainers : phase[d] \in {"idle", "submit", "accepted", "backoff"}
    BY DEF FlushInv, TypeOK, Callers
  <2> QED
    BY <1>1, <2>1 DEF FlushInv, DrainShape
<1>3. 0 < MaxDrain /\ 1 \in 0 .. MaxDrain
  BY BoundsAssumption
<1>4. CASE /\ queue = << >>
           /\ drainPc' = [drainPc EXCEPT ![Handler] = "done", ![s] = "done"]
           /\ status' = "exited"
           /\ UNCHANGED <<queue, isFlushing, flushVars, drainAttempts>>
  <2>1. phase' = phase /\ batch' = batch /\ attempt' = attempt /\ isFlushing' = isFlushing
    BY <1>4 DEF flushVars
  <2>2. OneFlush'
    BY <2>1 DEF FlushInv, OneFlush, Flushing
  <2>3. DrainShape'
    BY <1>1, <1>2, <1>4, <2>1 DEF FlushInv, TypeOK, DrainShape
  <2> QED
    BY <1>4, <2>1, <2>2, <2>3 DEF FlushPart, FlushInv, TypeOK
<1>5. CASE /\ queue # << >>
           /\ isFlushing
           /\ drainPc' = [drainPc EXCEPT ![Handler] = "sleep", ![s] = "sleep"]
           /\ drainAttempts' = [drainAttempts EXCEPT ![Handler] = 1, ![s] = 1]
           /\ UNCHANGED <<queue, isFlushing, flushVars, status>>
  <2>1. phase' = phase /\ batch' = batch /\ attempt' = attempt /\ isFlushing' = isFlushing
    BY <1>5 DEF flushVars
  <2>2. OneFlush'
    BY <2>1 DEF FlushInv, OneFlush, Flushing
  <2>3. DrainShape'
    BY <1>1, <1>2, <1>5, <2>1 DEF FlushInv, TypeOK, DrainShape
  <2> QED
    BY <1>3, <1>5, <2>1, <2>2, <2>3 DEF FlushPart, FlushInv, TypeOK
<1>6. CASE /\ FlushEnabled
           /\ BeginFlush(Handler)
           /\ drainPc' = [drainPc EXCEPT ![Handler] = "flush", ![s] = "done"]
           /\ status' = "exited"
           /\ UNCHANGED drainAttempts
  <2>3. phase' = [c \in Callers |-> IF c = Handler THEN "submit" ELSE "idle"]
    BY <1>1, <1>6, BeginFlushFlushPart
  <2>4. /\ drainPc \in [Drainers -> {"idle", "flush", "sleep", "done"}]
        /\ \A c \in Drainers : c \in Callers
    BY DEF FlushInv, TypeOK, Callers
  <2>1. DrainShape'
    BY <1>1, <1>2, <1>3, <1>6, <2>3, <2>4 DEF DrainShape
  <2>2. drainPc' \in [Drainers -> {"idle", "flush", "sleep", "done"}]
    BY <1>6 DEF FlushInv, TypeOK
  <2> QED
    BY <1>1, <1>6, <2>1, <2>2, BeginFlushFlushPart DEF FlushPart, FlushInv, TypeOK
<1> QED
  BY <1>4, <1>5, <1>6 DEF FirstSignal

LEMMA NextFlushInv ==
    ASSUME FlushInv, [Next]_vars
    PROVE  FlushInv'
<1>1. ASSUME NEW e \in Entries, Enqueue(e)
      PROVE  FlushInv'
  <2>1. queue' \in Seq(Entries) /\ enqueued' \in Seq(Entries)
    BY <1>1, AppendRange DEF Enqueue, FlushInv, TypeOK
  <2>2. OneFlush' /\ DrainShape'
    BY <1>1 DEF Enqueue, FlushInv, OneFlush, Flushing, DrainShape, flushVars, drainVars
  <2> QED
    BY <1>1, <2>1, <2>2 DEF Enqueue, FlushInv, TypeOK, flushVars, drainVars
<1>2. ASSUME NEW t \in Ticks, Tick(t)
      PROVE  FlushInv'
  <2>1. t \in Callers /\ t \notin Drainers
    BY CallersAssumption DEF Callers
  <2>2. DrainShape'
    BY <1>2, <2>1, BeginFlushFlushPart
    DEF Tick, FlushInv, TypeOK, DrainShape, drainVars, Callers
  <2> QED
    BY <1>2, <2>1, <2>2, BeginFlushFlushPart
    DEF Tick, FlushInv, TypeOK, drainVars, histVars
<1>3. ASSUME NEW c \in Callers, ChainAccepts(c)
      PROVE  FlushInv'
  <2>1. /\ phase[c] = "submit"
        /\ phase' = [phase EXCEPT ![c] = "accepted"]
        /\ batch' = batch /\ isFlushing' = isFlushing /\ isShuttingDown' = isShuttingDown
        /\ drainPc' = drainPc /\ drainAttempts' = drainAttempts
    BY <1>3 DEF ChainAccepts, fieldVars, drainVars
  <2>2. OneFlush' /\ DrainShape'
    BY <2>1 DEF FlushInv, TypeOK, OneFlush, Flushing, DrainShape, Callers
  <2>3. phase' \in [Callers -> {"idle", "submit", "accepted", "backoff"}]
    BY <2>1 DEF FlushInv, TypeOK
  <2>4. ledger' \in [Entries -> Nat]
    <3> DEFINE h == Head(batch[c])
    <3>1. ledger \in [Entries -> Nat] /\ ledger' = [ledger EXCEPT ![h] = @ + 1]
      BY <1>3 DEF ChainAccepts, FlushInv, TypeOK
    <3>2. h \in Entries
      BY <2>1, TailRange DEF FlushInv, TypeOK, OneFlush, Flushing
    <3> HIDE DEF h
    <3>3. \A e \in Entries : ledger'[e] \in Nat
      BY <3>1, <3>2
    <3> QED
      BY <3>1, <3>2, <3>3
  <2> QED
    BY <1>3, <2>2, <2>3, <2>4
    DEF ChainAccepts, FlushInv, TypeOK, fieldVars, drainVars, histVars
<1>4. ASSUME NEW c \in Callers, WriteOk(c)
      PROVE  FlushInv'
  <2>1. batch[c] \in Seq(Entries) /\ batch[c] # << >> /\ phase[c] # "idle"
    BY <1>4 DEF WriteOk, FlushInv, TypeOK, OneFlush, Flushing
  <2>2. written' \in Seq(Entries)
    BY <1>4, <2>1, TailRange, AppendRange DEF WriteOk, FlushInv, TypeOK
  <2>3. FlushPart'
    BY <1>4, <2>1, NextEntryFlushPart DEF WriteOk
  <2> QED
    BY <1>4, <2>2, <2>3 DEF WriteOk, FlushInv, FlushPart, TypeOK
<1>5. ASSUME NEW c \in Callers, WriteFails(c) \/ WriteDisputed(c)
      PROVE  FlushInv'
  <2>1. /\ RetryOrRequeue(c) /\ phase[c] # "idle"
        /\ isShuttingDown' = isShuttingDown
        /\ failedEntries' = failedEntries \union {Head(batch[c])}
        /\ disputed' \in {disputed, [disputed EXCEPT ![Head(batch[c])] = @ + 1]}
        /\ timerOn' = timerOn /\ status' = status /\ ledger' = ledger
        /\ enqueued' = enqueued /\ written' = written
    BY <1>5 DEF WriteFails, WriteDisputed
  <2>2. Head(batch[c]) \in Entries
    BY <2>1, TailRange DEF FlushInv, TypeOK, OneFlush, Flushing
  <2>3. disputed' \in [Entries -> Nat] /\ failedEntries' \subseteq Entries
    <3> DEFINE h == Head(batch[c])
    <3>1. h \in Entries /\ disputed \in [Entries -> Nat] /\ failedEntries \subseteq Entries
      BY <2>2 DEF FlushInv, TypeOK
    <3>2. failedEntries' = failedEntries \union {h}
          /\ disputed' \in {disputed, [disputed EXCEPT ![h] = @ + 1]}
      BY <2>1
    <3> HIDE DEF h
    <3> QED
      BY <3>1, <3>2
  <2>4. FlushPart' /\ queue' \in Seq(Entries) /\ requeued' \subseteq Entries
    BY <2>1, RetryFlushPart
  <2> QED
    BY <2>1, <2>3, <2>4 DEF FlushInv, FlushPart, TypeOK
<1>6. ASSUME NEW c \in Callers, BackoffEnds(c)
      PROVE  FlushInv'
  <2>1. /\ phase[c] = "backoff"
        /\ phase' = [phase EXCEPT ![c] = "submit"]
        /\ batch' = batch /\ isFlushing' = isFlushing /\ isShuttingDown' = isShuttingDown
        /\ drainPc' = drainPc /\ drainAttempts' = drainAttempts
    BY <1>6 DEF BackoffEnds, fieldVars, drainVars
  <2>2. OneFlush' /\ DrainShape'
    BY <2>1 DEF FlushInv, TypeOK, OneFlush, Flushing, DrainShape, Callers
  <2> QED
    BY <1>6, <2>2
    DEF BackoffEnds, FlushInv, TypeOK, fieldVars, drainVars, histVars
<1>7. ASSUME NEW d \in Drainers, DrainWakes(d)
      PROVE  FlushInv'
  <2>1. phase[d] = "idle" /\ isShuttingDown
    BY <1>7 DEF DrainWakes, FlushInv, TypeOK, DrainShape, Callers
  <2>2. FlushPart' /\ queue' \in Seq(Entries) /\ status' \in {"up", "exited", "crashed"}
    BY <1>7, <2>1, DrainLoopFlushPart DEF DrainWakes
  <2> QED
    BY <1>7, <2>2 DEF DrainWakes, FlushInv, FlushPart, TypeOK, histVars
<1>8. ASSUME NEW s \in Signals, FirstSignal(s)
      PROVE  FlushInv'
  BY <1>8, FirstSignalFlushPart DEF FirstSignal, FlushInv, FlushPart, TypeOK, histVars
<1>9. ASSUME NEW s \in Signals, LaterSignal(s)
      PROVE  FlushInv'
  <2>1. s \in Drainers /\ phase[s] = "idle" /\ isShuttingDown
    BY <1>9 DEF LaterSignal, FlushInv, TypeOK, DrainShape, Drainers, Callers
  <2>2. FlushPart' /\ queue' \in Seq(Entries) /\ status' \in {"up", "exited", "crashed"}
    BY <1>9, <2>1, DrainLoopFlushPart DEF LaterSignal
  <2> QED
    BY <1>9, <2>2 DEF LaterSignal, FlushInv, FlushPart, TypeOK, histVars
<1>10. ASSUME Crash \/ UNCHANGED vars
       PROVE  FlushInv'
  <2>1. /\ UNCHANGED <<fieldVars, flushVars, drainVars, ledger, histVars>>
        /\ status' \in {status, "crashed"}
    BY <1>10 DEF Crash, vars
  <2>2. OneFlush' /\ DrainShape'
    BY <2>1 DEF FlushInv, OneFlush, Flushing, DrainShape, fieldVars, flushVars, drainVars
  <2> QED
    BY <2>1, <2>2 DEF FlushInv, TypeOK, fieldVars, flushVars, drainVars, histVars
<1> QED
  BY <1>1, <1>2, <1>3, <1>4, <1>5, <1>6, <1>7, <1>8, <1>9, <1>10 DEF Next, Write

LEMMA SpecFlushInv == Spec => []FlushInv
BY InitFlushInv, NextFlushInv, PTL DEF Spec

(* The fields of the queue and of the calls in progress keep their types:      *)
(* no call counts past maxAttempts, whatever calls overlap.                    *)
THEOREM TypeCorrect == Spec => []TypeOK
BY SpecFlushInv, PTL DEF FlushInv

(* isFlushing serialises flush() (store.ts:18): at most one call is past its   *)
(* guard, for any number of overlapping ticks, drains and signals.             *)
THEOREM FlushIsExclusive == Spec => []OneFlush
BY SpecFlushInv, PTL DEF FlushInv

-----------------------------------------------------------------------------
(* Nothing is lost or doubled inside the queue.  The invariant needs OneFlush: *)
(* a flush begins only when no other one holds entries.                        *)

PlaceInv == FlushInv /\ OnePlace

LEMMA InitOnePlace == Init => OnePlace
BY EmptyRange DEF Init, OnePlace, Held

\* Entries that stay where they are.
LEMMA UnmovedOnePlace ==
    ASSUME OnePlace, UNCHANGED <<queue, batch, enqueued, written>>
    PROVE  OnePlace'
BY DEF OnePlace, Held

\* A flush takes the whole queue.
LEMMA BeginFlushOnePlace ==
    ASSUME PlaceInv, NEW c \in Callers, FlushEnabled, BeginFlush(c),
           UNCHANGED <<enqueued, written>>
    PROVE  OnePlace'
<1>1. \A d \in Callers : batch[d] = << >>
  BY DEF PlaceInv, FlushInv, OneFlush, Flushing, FlushEnabled
<1>2. /\ queue' = << >>
      /\ batch' = [d \in Callers |-> IF d = c THEN queue ELSE << >>]
  BY <1>1 DEF BeginFlush, PlaceInv, FlushInv, TypeOK
<1>3. Range(<< >>) = {} /\ IsInjective(<< >>)
  BY EmptyRange
<1>4. Held = Range(queue)
  BY <1>1, <1>3 DEF Held
<1>5. Held' = Range(queue)
  BY <1>2, <1>3 DEF Held
<1>6. IsInjective(queue)
  BY DEF PlaceInv, OnePlace
<1>7. \A d \in Callers : IsInjective(batch'[d])
  BY <1>2, <1>3, <1>6
<1>8. Range(queue') = {} /\ IsInjective(queue')
  BY <1>2, <1>3
<1> QED
  BY <1>4, <1>5, <1>7, <1>8 DEF PlaceInv, OnePlace

\* The current entry of a flush leaves its batch, for the log or for the queue.
LEMMA HeadLeavesBatch ==
    ASSUME PlaceInv, NEW c \in Callers, batch[c] # << >>, NextEntry(c)
    PROVE  /\ Head(batch[c]) \in Entries
           /\ Head(batch[c]) \in Held
           /\ Head(batch[c]) \notin Range(queue)
           /\ \A d \in Callers : batch[d] # << >> => d = c
           /\ Held = Range(queue) \union Range(batch[c])
           /\ batch' = [batch EXCEPT ![c] = Tail(batch[c])]
           /\ Range(batch[c]) = Range(Tail(batch[c])) \union {Head(batch[c])}
           /\ Head(batch[c]) \notin Range(Tail(batch[c]))
           /\ \A d \in Callers : IsInjective(batch'[d])
           /\ UNION {Range(batch'[d]) : d \in Callers} = Range(Tail(batch[c]))
<1>1. batch \in [Callers -> Seq(Entries)] /\ batch[c] \in Seq(Entries)
  BY DEF PlaceInv, FlushInv, TypeOK
<1>2. \A d \in Callers : batch[d] # << >> => d = c
  BY DEF PlaceInv, FlushInv, OneFlush, Flushing
<1>3. IsInjective(batch[c]) /\ Range(queue) \intersect Range(batch[c]) = {}
  BY DEF PlaceInv, OnePlace
<1>4. /\ Head(batch[c]) \in Range(batch[c])
      /\ Head(batch[c]) \in Entries
      /\ Range(batch[c]) = Range(Tail(batch[c])) \union {Head(batch[c])}
      /\ IsInjective(Tail(batch[c]))
      /\ Head(batch[c]) \notin Range(Tail(batch[c]))
  BY <1>1, <1>3, TailRange
<1>5. batch' = [batch EXCEPT ![c] = Tail(batch[c])]
  BY DEF NextEntry
<1>6. Range(<< >>) = {} /\ IsInjective(<< >>)
  BY EmptyRange
<1>7. Held = Range(queue) \union Range(batch[c])
  BY <1>2, <1>6 DEF Held
<1>8. \A d \in Callers : batch'[d] = IF d = c THEN Tail(batch[c]) ELSE << >>
  BY <1>1, <1>2, <1>5
<1>9. /\ \A d \in Callers : IsInjective(batch'[d])
      /\ UNION {Range(batch'[d]) : d \in Callers} = Range(Tail(batch[c]))
  BY <1>4, <1>6, <1>8
<1> QED
  BY <1>2, <1>3, <1>4, <1>5, <1>7, <1>9

LEMMA WriteOkOnePlace ==
    ASSUME PlaceInv, NEW c \in Callers, WriteOk(c)
    PROVE  OnePlace'
<1>1. batch[c] # << >>
  BY DEF WriteOk, PlaceInv, FlushInv, OneFlush, Flushing
<1>2. /\ NextEntry(c) /\ queue' = queue /\ enqueued' = enqueued
      /\ written' = Append(written, Head(batch[c]))
  BY DEF WriteOk
<1>3. written \in Seq(Entries) /\ Head(batch[c]) \in Entries
  BY <1>1, <1>2, HeadLeavesBatch DEF PlaceInv, FlushInv, TypeOK
<1>4. Head(batch[c]) \notin Range(written) /\ IsInjective(written)
  BY <1>1, <1>2, HeadLeavesBatch DEF PlaceInv, OnePlace
<1>5. /\ Range(written') = Range(written) \union {Head(batch[c])}
      /\ IsInjective(written')
  BY <1>2, <1>3, <1>4, AppendRange
<1>6. Held' = Range(queue) \union Range(Tail(batch[c]))
  BY <1>1, <1>2, HeadLeavesBatch DEF Held
<1>7. /\ Range(enqueued') = Held' \union Range(written')
      /\ Held' \intersect Range(written') = {}
  <2> DEFINE h == Head(batch[c])
             rest == Range(queue) \union Range(Tail(batch[c]))
  <2>1. Held = rest \union {h} /\ h \notin rest
    BY <1>1, <1>2, HeadLeavesBatch
  <2>2. /\ Range(enqueued) = Held \union Range(written)
        /\ Held \intersect Range(written) = {}
    BY DEF PlaceInv, OnePlace
  <2>3. enqueued' = enqueued /\ Held' = rest /\ Range(written') = Range(written) \union {h}
    BY <1>2, <1>5, <1>6
  <2> HIDE DEF h, rest
  <2> QED
    BY <2>1, <2>2, <2>3
<1>8. \A d \in Callers : Range(queue') \intersect Range(batch'[d]) = {}
  <2>1. \A d \in Callers : Range(batch'[d]) \subseteq Range(batch[c])
    BY <1>1, <1>2, HeadLeavesBatch
  <2> QED
    BY <2>1, <1>2 DEF PlaceInv, OnePlace
<1> QED
  BY <1>1, <1>2, <1>5, <1>7, <1>8, HeadLeavesBatch DEF PlaceInv, OnePlace

LEMMA RetryOnePlace ==
    ASSUME PlaceInv, NEW c \in Callers, phase[c] # "idle", RetryOrRequeue(c),
           UNCHANGED <<enqueued, written>>
    PROVE  OnePlace'
<1>1. batch[c] # << >>
  BY DEF PlaceInv, FlushInv, OneFlush, Flushing
<1>2. CASE attempt[c] + 1 < MaxAttempts
  BY <1>2, UnmovedOnePlace DEF RetryOrRequeue, PlaceInv
<1>3. CASE ~(attempt[c] + 1 < MaxAttempts)
  <2>1. NextEntry(c) /\ queue' = Append(queue, Head(batch[c]))
    BY <1>3 DEF RetryOrRequeue
  <2>2. queue \in Seq(Entries) /\ Head(batch[c]) \in Entries
    BY <1>1, <2>1, HeadLeavesBatch DEF PlaceInv, FlushInv, TypeOK
  <2>3. /\ Range(queue') = Range(queue) \union {Head(batch[c])}
        /\ IsInjective(queue')
    BY <1>1, <2>1, <2>2, HeadLeavesBatch, AppendRange DEF PlaceInv, OnePlace
  <2>4. Held' = Range(queue') \union Range(Tail(batch[c]))
    BY <1>1, <2>1, HeadLeavesBatch DEF Held
  <2>5. Held' = Held
    BY <1>1, <2>1, <2>3, <2>4, HeadLeavesBatch
  <2>6. \A d \in Callers : Range(queue') \intersect Range(batch'[d]) = {}
    <3>1. \A d \in Callers : Range(batch'[d]) \subseteq Range(Tail(batch[c]))
      BY <1>1, <2>1, HeadLeavesBatch
    <3>2. Range(queue) \intersect Range(batch[c]) = {}
      BY DEF PlaceInv, OnePlace
    <3>3. Range(Tail(batch[c])) \subseteq Range(batch[c])
      BY <1>1, <2>1, HeadLeavesBatch
    <3> QED
      BY <1>1, <2>1, <2>3, <3>1, <3>2, <3>3, HeadLeavesBatch
  <2> QED
    BY <1>1, <2>1, <2>3, <2>5, <2>6, HeadLeavesBatch DEF PlaceInv, OnePlace
<1> QED
  BY <1>2, <1>3

LEMMA NextPlaceInv ==
    ASSUME PlaceInv, [Next]_vars
    PROVE  PlaceInv'
<1>1. FlushInv'
  BY NextFlushInv DEF PlaceInv
<1> SUFFICES OnePlace'
  BY <1>1 DEF PlaceInv
<1>2. ASSUME NEW e \in Entries, Enqueue(e)
      PROVE  OnePlace'
  <2>1. /\ queue' = Append(queue, e) /\ enqueued' = Append(enqueued, e)
        /\ batch' = batch /\ written' = written
    BY <1>2 DEF Enqueue, flushVars
  <2>2. e \notin Held \union Range(written) /\ e \notin Range(queue)
    BY <1>2 DEF Enqueue, PlaceInv, OnePlace, Held
  <2>3. /\ Range(queue') = Range(queue) \union {e}
        /\ Range(enqueued') = Range(enqueued) \union {e}
        /\ IsInjective(queue')
    BY <2>1, <2>2, AppendRange DEF PlaceInv, OnePlace, FlushInv, TypeOK
  <2>4. Held' = Held \union {e}
    BY <2>1, <2>3 DEF Held
  <2>5. \A c \in Callers : e \notin Range(batch[c])
    BY <2>2 DEF Held
  <2> QED
    BY <2>1, <2>2, <2>3, <2>4, <2>5 DEF PlaceInv, OnePlace
<1>3. ASSUME NEW t \in Ticks, Tick(t)
      PROVE  OnePlace'
  BY <1>3, BeginFlushOnePlace DEF Tick, Callers, histVars
<1>4. ASSUME NEW c \in Callers, ChainAccepts(c) \/ BackoffEnds(c)
      PROVE  OnePlace'
  BY <1>4, UnmovedOnePlace DEF ChainAccepts, BackoffEnds, fieldVars, histVars, PlaceInv
<1>5. ASSUME NEW c \in Callers, WriteOk(c)
      PROVE  OnePlace'
  BY <1>5, WriteOkOnePlace
<1>6. ASSUME NEW c \in Callers, WriteFails(c) \/ WriteDisputed(c)
      PROVE  OnePlace'
  BY <1>6, RetryOnePlace DEF WriteFails, WriteDisputed
<1>7. ASSUME NEW d \in Drainers, DrainLoop(d), UNCHANGED histVars
      PROVE  OnePlace'
  <2>1. CASE DrainReturns(d) \/ DrainSkips(d)
    BY <1>7, <2>1, UnmovedOnePlace DEF DrainReturns, DrainSkips, flushVars, histVars, PlaceInv
  <2>2. CASE DrainFlushes(d)
    <3>1. d \in Callers /\ FlushEnabled /\ BeginFlush(d)
      BY <2>2 DEF DrainFlushes, DrainGoesOn, FlushEnabled, Callers
    <3> QED
      BY <3>1, <1>7, BeginFlushOnePlace DEF histVars
  <2> QED
    BY <1>7, <2>1, <2>2 DEF DrainLoop
<1>8. ASSUME NEW d \in Drainers, DrainWakes(d)
      PROVE  OnePlace'
  BY <1>7, <1>8 DEF DrainWakes
<1>9. ASSUME NEW s \in Signals, LaterSignal(s)
      PROVE  OnePlace'
  BY <1>7, <1>9 DEF LaterSignal, Drainers
<1>10. ASSUME NEW s \in Signals, FirstSignal(s)
       PROVE  OnePlace'
  <2>1. CASE UNCHANGED <<queue, flushVars>>
    BY <1>10, <2>1, UnmovedOnePlace DEF FirstSignal, flushVars, histVars, PlaceInv
  <2>2. CASE FlushEnabled /\ BeginFlush(Handler)
    <3>1. Handler \in Callers
      BY DEF Callers, Drainers
    <3> QED
      BY <1>10, <2>2, <3>1, BeginFlushOnePlace DEF FirstSignal, histVars
  <2> QED
    BY <1>10, <2>1, <2>2 DEF FirstSignal
<1>11. CASE Crash \/ UNCHANGED vars
  BY <1>11, UnmovedOnePlace DEF Crash, vars, fieldVars, flushVars, histVars, PlaceInv
<1> QED
  BY <1>2, <1>3, <1>4, <1>5, <1>6, <1>8, <1>9, <1>10, <1>11 DEF Next, Write

(* No entry that enqueue() took is lost or doubled inside the queue while the  *)
(* process lives: it is queued, in one batch, or written, and in one place.    *)
THEOREM NothingLostInside == Spec => []OnePlace
<1>1. Init => PlaceInv
  BY InitFlushInv, InitOnePlace DEF PlaceInv
<1> QED
  BY <1>1, NextPlaceInv, PTL DEF Spec, PlaceInv

-----------------------------------------------------------------------------
(* The queue implements the at-least-once log of AuditLog.                     *)

\* A write that is about to be answered was accepted by the chain.
AcceptedIsRecorded ==
    \A c \in Callers : phase[c] = "accepted" => ledger[Head(batch[c])] \in Nat \ {0}

LogInv == PlaceInv /\ AcceptedIsRecorded

\* Steps that neither touch the ledger nor bring a flush to "accepted".
LEMMA NoNewAnswer ==
    ASSUME AcceptedIsRecorded, ledger' = ledger,
           \A c \in Callers : phase'[c] = "accepted" => phase[c] = "accepted" /\ batch'[c] = batch[c]
    PROVE  AcceptedIsRecorded'
BY DEF AcceptedIsRecorded

\* One more failed or acknowledged write brings no flush to "accepted".
LEMMA WriteNoNewAnswer ==
    ASSUME PlaceInv, NEW c \in Callers, NextEntry(c) \/ RetryOrRequeue(c)
    PROVE  \A d \in Callers :
               phase'[d] = "accepted" => phase[d] = "accepted" /\ batch'[d] = batch[d]
<1>1. /\ phase \in [Callers -> {"idle", "submit", "accepted", "backoff"}]
      /\ batch \in [Callers -> Seq(Entries)]
  BY DEF PlaceInv, FlushInv, TypeOK
<1>2. CASE NextEntry(c)
  BY <1>1, <1>2 DEF NextEntry
<1>3. CASE RetryOrRequeue(c)
  BY <1>1, <1>2, <1>3 DEF RetryOrRequeue
<1> QED
  BY <1>2, <1>3

LEMMA NextLogInv ==
    ASSUME LogInv, [Next]_vars
    PROVE  LogInv'
<1>1. PlaceInv'
  BY NextPlaceInv DEF LogInv
<1> SUFFICES AcceptedIsRecorded'
  BY <1>1 DEF LogInv
<1>2. CASE \E e \in Entries : Enqueue(e)
  BY <1>2, NoNewAnswer DEF Enqueue, flushVars, LogInv
<1>3. ASSUME NEW c \in Callers, FlushEnabled, BeginFlush(c), ledger' = ledger
      PROVE  AcceptedIsRecorded'
  <2>1. phase' = [d \in Callers |-> IF d = c THEN "submit" ELSE "idle"]
    BY <1>3, BeginFlushFlushPart DEF LogInv, PlaceInv
  <2> QED
    BY <2>1 DEF AcceptedIsRecorded
<1>4. ASSUME NEW t \in Ticks, Tick(t)
      PROVE  AcceptedIsRecorded'
  BY <1>3, <1>4 DEF Tick, Callers
<1>5. ASSUME NEW c \in Callers, ChainAccepts(c)
      PROVE  AcceptedIsRecorded'
  <2> DEFINE h == Head(batch[c])
  <2>1. /\ phase' = [phase EXCEPT ![c] = "accepted"] /\ batch' = batch
        /\ ledger' = [ledger EXCEPT ![h] = @ + 1] /\ phase[c] # "idle"
    BY <1>5 DEF ChainAccepts
  <2>2. /\ phase \in [Callers -> {"idle", "submit", "accepted", "backoff"}]
        /\ ledger \in [Entries -> Nat] /\ batch[c] \in Seq(Entries) /\ batch[c] # << >>
        /\ \A d \in Callers : phase[d] # "idle" => d = c
    BY <2>1 DEF LogInv, PlaceInv, FlushInv, TypeOK, OneFlush, Flushing
  <2>3. h \in Entries
    BY <2>2, TailRange
  <2> HIDE DEF h
  <2>4. ledger'[h] \in Nat \ {0}
    BY <2>1, <2>2, <2>3
  <2>5. \A d \in Callers : phase'[d] = "accepted" => d = c
    BY <2>1, <2>2
  <2>6. ledger'[Head(batch'[c])] \in Nat \ {0}
    BY <2>1, <2>4 DEF h
  <2> QED
    BY <2>5, <2>6 DEF AcceptedIsRecorded
<1>6. ASSUME NEW c \in Callers, Write(c)
      PROVE  AcceptedIsRecorded'
  <2>1. ledger' = ledger /\ (NextEntry(c) \/ RetryOrRequeue(c))
    BY <1>6 DEF Write, WriteOk, WriteFails, WriteDisputed
  <2> QED
    BY <2>1, WriteNoNewAnswer, NoNewAnswer DEF LogInv
<1>7. ASSUME NEW c \in Callers, BackoffEnds(c)
      PROVE  AcceptedIsRecorded'
  <2>1. /\ phase' = [phase EXCEPT ![c] = "submit"] /\ batch' = batch /\ ledger' = ledger
        /\ phase \in [Callers -> {"idle", "submit", "accepted", "backoff"}]
    BY <1>7 DEF BackoffEnds, LogInv, PlaceInv, FlushInv, TypeOK
  <2> QED
    BY <2>1, NoNewAnswer DEF LogInv
<1>8. ASSUME NEW d \in Drainers, DrainLoop(d), ledger' = ledger
      PROVE  AcceptedIsRecorded'
  <2>1. CASE DrainReturns(d) \/ DrainSkips(d)
    BY <1>8, <2>1, NoNewAnswer DEF DrainReturns, DrainSkips, flushVars, LogInv
  <2>2. CASE DrainFlushes(d)
    <3>1. d \in Callers /\ FlushEnabled /\ BeginFlush(d)
      BY <2>2 DEF DrainFlushes, DrainGoesOn, FlushEnabled, Callers
    <3> QED
      BY <3>1, <1>3, <1>8
  <2> QED
    BY <1>8, <2>1, <2>2 DEF DrainLoop
<1>9. CASE \E d \in Drainers : DrainWakes(d)
  BY <1>8, <1>9 DEF DrainWakes
<1>10. CASE \E s \in Signals : LaterSignal(s)
  BY <1>8, <1>10 DEF LaterSignal, Drainers
<1>11. ASSUME NEW s \in Signals, FirstSignal(s)
       PROVE  AcceptedIsRecorded'
  <2>1. ledger' = ledger
    BY <1>11 DEF FirstSignal
  <2>2. CASE UNCHANGED flushVars
    BY <2>1, <2>2, NoNewAnswer DEF flushVars, LogInv
  <2>3. CASE FlushEnabled /\ BeginFlush(Handler)
    <3>1. Handler \in Callers
      BY DEF Callers, Drainers
    <3> QED
      BY <2>1, <2>3, <3>1, <1>3
  <2> QED
    BY <1>11, <2>2, <2>3 DEF FirstSignal, flushVars
<1>12. CASE Crash \/ UNCHANGED vars
  BY <1>12, NoNewAnswer DEF Crash, vars, flushVars, LogInv
<1> QED
  BY <1>2, <1>4, <1>5, <1>6, <1>7, <1>9, <1>10, <1>11, <1>12 DEF Next, Write

LEMMA LogInitially == Init => Log!Init
BY EmptyRange DEF Init, Log!Init

\* The ends of the process are the steps that close the log.
LEMMA EndingStep ==
    ASSUME status = "up", status' \in {"up", "exited", "crashed"},
           UNCHANGED <<enqueued, ledger, written>>
    PROVE  [Log!Next]_(Log!vars)
<1>1. CASE status' = "up"
  BY <1>1 DEF Log!vars
<1>2. CASE status' # "up"
  <2>1. Log!Close
    BY <1>2 DEF Log!Close
  <2> QED
    BY <2>1 DEF Log!Next
<1> QED
  BY <1>1, <1>2

LEMMA LogStep ==
    ASSUME LogInv, [Next]_vars
    PROVE  [Log!Next]_(Log!vars)
<1>1. ASSUME NEW e \in Entries, Enqueue(e)
      PROVE  Log!Accept(e)
  <2>1. Range(enqueued') = Range(enqueued) \union {e}
    BY <1>1, AppendRange DEF Enqueue, LogInv, PlaceInv, FlushInv, TypeOK
  <2> QED
    BY <1>1, <2>1 DEF Enqueue, Log!Accept
<1>2. ASSUME NEW c \in Callers, phase[c] # "idle"
      PROVE  /\ Head(batch[c]) \in Entries
             /\ Head(batch[c]) \in Range(enqueued)
             /\ Head(batch[c]) \notin Range(written)
  <2>1. batch[c] # << >> /\ batch[c] \in Seq(Entries)
    BY <1>2 DEF LogInv, PlaceInv, FlushInv, TypeOK, OneFlush, Flushing
  <2>2. Head(batch[c]) \in Range(batch[c]) /\ Head(batch[c]) \in Entries
    BY <2>1, TailRange
  <2>3. Head(batch[c]) \in Held
    BY <2>2 DEF Held
  <2> QED
    BY <2>2, <2>3 DEF LogInv, PlaceInv, OnePlace
<1>3. ASSUME NEW c \in Callers, ChainAccepts(c)
      PROVE  Log!Record(Head(batch[c])) /\ Head(batch[c]) \in Entries
  BY <1>2, <1>3 DEF ChainAccepts, Log!Record, histVars
<1>4. ASSUME NEW c \in Callers, WriteOk(c)
      PROVE  Log!Acknowledge(Head(batch[c])) /\ Head(batch[c]) \in Entries
  <2>1. phase[c] # "idle" /\ ledger[Head(batch[c])] > 0
    BY <1>4 DEF WriteOk, LogInv, AcceptedIsRecorded
  <2>2. Range(written') = Range(written) \union {Head(batch[c])}
    BY <1>2, <1>4, <2>1, AppendRange DEF WriteOk, LogInv, PlaceInv, FlushInv, TypeOK
  <2> QED
    BY <1>2, <1>4, <2>1, <2>2 DEF WriteOk, Log!Acknowledge
<1>5. ASSUME NEW c \in Callers, WriteFails(c) \/ WriteDisputed(c) \/ BackoffEnds(c)
      PROVE  UNCHANGED Log!vars
  BY <1>5 DEF WriteFails, WriteDisputed, BackoffEnds, histVars, Log!vars
<1>6. ASSUME NEW t \in Ticks, Tick(t)
      PROVE  UNCHANGED Log!vars
  BY <1>6 DEF Tick, histVars, Log!vars
<1>7. ASSUME NEW d \in Drainers, DrainWakes(d) \/ LaterSignal(d) \/ FirstSignal(d) \/ Crash
      PROVE  [Log!Next]_(Log!vars)
  <2>1. status = "up" /\ UNCHANGED <<enqueued, ledger, written>>
    BY <1>7 DEF DrainWakes, LaterSignal, FirstSignal, Crash, histVars
  <2>2. status' \in {"up", "exited", "crashed"}
    BY NextLogInv DEF LogInv, PlaceInv, FlushInv, TypeOK
  <2> QED
    BY <2>1, <2>2, EndingStep
<1>8. CASE UNCHANGED vars
  BY <1>8 DEF vars, histVars, Log!vars
<1>9. Handler \in Drainers /\ \A s \in Signals : s \in Drainers
  BY DEF Drainers
<1>10. CASE \/ \E e \in Entries : Enqueue(e)
            \/ \E c \in Callers : ChainAccepts(c) \/ WriteOk(c)
  BY <1>1, <1>3, <1>4, <1>10 DEF Log!Next
<1> QED
  BY <1>5, <1>6, <1>7, <1>8, <1>9, <1>10 DEF Next, Write

(* The queue keeps the promise of AuditLog: only accepted entries are          *)
(* recorded, an entry is acknowledged only once it is recorded and never       *)
(* recorded again after that, and nothing happens once the process has ended.  *)
THEOREM Refinement == Spec => ImplementsAuditLog
<1>1. Init => LogInv
  BY InitFlushInv, InitOnePlace DEF LogInv, PlaceInv, AcceptedIsRecorded, Init
<1> QED
  BY <1>1, NextLogInv, LogInitially, LogStep, PTL
  DEF Spec, ImplementsAuditLog, Log!Spec

-----------------------------------------------------------------------------
(* What the queue delivers: which entries count as failed, how often an entry  *)
(* reaches the chain, and in which order.                                       *)

dataVars == <<queue, batch, failedEntries, ledger, histVars>>

\* A flush takes the queue, whoever calls it.
TakesQueue(c) ==
    /\ FlushEnabled
    /\ BeginFlush(c)
    /\ UNCHANGED <<failedEntries, ledger, histVars>>

\* A step that moves no entry and answers no write.
Quiet ==
    /\ UNCHANGED dataVars
    /\ \A c \in Callers : phase'[c] = "accepted" <=> phase[c] = "accepted"

\* The steps of the queue, by what they do to its entries.
LEMMA StepKinds ==
    ASSUME PlaceInv, [Next]_vars
    PROVE  \/ \E e \in Entries : Enqueue(e)
           \/ \E c \in Callers : TakesQueue(c)
           \/ \E c \in Callers : ChainAccepts(c)
           \/ \E c \in Callers : WriteOk(c)
           \/ \E c \in Callers : WriteFails(c) \/ WriteDisputed(c)
           \/ Quiet
<1>1. ASSUME NEW t \in Ticks, Tick(t)
      PROVE  t \in Callers /\ TakesQueue(t)
  BY <1>1 DEF Tick, TakesQueue, Callers
<1>2. ASSUME NEW c \in Callers, BackoffEnds(c)
      PROVE  Quiet
  <2>1. /\ phase' = [phase EXCEPT ![c] = "submit"] /\ phase[c] = "backoff"
        /\ phase \in [Callers -> {"idle", "submit", "accepted", "backoff"}]
    BY <1>2 DEF BackoffEnds, PlaceInv, FlushInv, TypeOK
  <2> QED
    BY <1>2, <2>1 DEF BackoffEnds, Quiet, dataVars, fieldVars
<1>3. ASSUME NEW d \in Drainers, DrainLoop(d), UNCHANGED <<failedEntries, ledger, histVars>>
      PROVE  Quiet \/ (d \in Callers /\ TakesQueue(d))
  <2>1. CASE DrainReturns(d) \/ DrainSkips(d)
    BY <1>3, <2>1 DEF DrainReturns, DrainSkips, flushVars, Quiet, dataVars
  <2>2. CASE DrainFlushes(d)
    BY <1>3, <2>2 DEF DrainFlushes, DrainGoesOn, FlushEnabled, TakesQueue, Callers
  <2> QED
    BY <1>3, <2>1, <2>2 DEF DrainLoop
<1>4. ASSUME NEW d \in Drainers, DrainWakes(d) \/ LaterSignal(d)
      PROVE  Quiet \/ (d \in Callers /\ TakesQueue(d))
  BY <1>3, <1>4 DEF DrainWakes, LaterSignal
<1>5. ASSUME NEW s \in Signals, FirstSignal(s)
      PROVE  Quiet \/ (Handler \in Callers /\ TakesQueue(Handler))
  <2>1. UNCHANGED <<failedEntries, ledger, histVars>>
    BY <1>5 DEF FirstSignal
  <2>2. CASE UNCHANGED <<queue, flushVars>>
    BY <2>1, <2>2 DEF flushVars, Quiet, dataVars
  <2>3. CASE FlushEnabled /\ BeginFlush(Handler)
    BY <2>1, <2>3 DEF TakesQueue, Callers, Drainers
  <2> QED
    BY <1>5, <2>2, <2>3 DEF FirstSignal
<1>6. CASE Crash \/ UNCHANGED vars
  BY <1>6 DEF Crash, vars, fieldVars, flushVars, Quiet, dataVars
<1>7. \A s \in Signals : s \in Drainers
  BY DEF Drainers
<1> QED
  BY <1>1, <1>2, <1>4, <1>5, <1>6, <1>7 DEF Next, Write

\* What a flush holds, seen from its caller.
LEMMA FlushHolds ==
    ASSUME PlaceInv, NEW c \in Callers, phase[c] # "idle"
    PROVE  /\ batch[c] # << >> /\ batch[c] \in Seq(Entries)
           /\ Head(batch[c]) \in Entries
           /\ Head(batch[c]) \in Range(batch[c])
           /\ Head(batch[c]) \in Held
           /\ Head(batch[c]) \notin Range(written)
           /\ \A d \in Callers : d # c => phase[d] = "idle" /\ batch[d] = << >>
<1>1. batch[c] # << >> /\ batch[c] \in Seq(Entries)
  BY DEF PlaceInv, FlushInv, TypeOK, OneFlush, Flushing
<1>2. Head(batch[c]) \in Range(batch[c]) /\ Head(batch[c]) \in Entries
  BY <1>1, TailRange
<1>3. Head(batch[c]) \in Held
  BY <1>2 DEF Held
<1>4. \A d \in Callers : d # c => phase[d] = "idle" /\ batch[d] = << >>
  BY DEF PlaceInv, FlushInv, OneFlush, Flushing
<1> QED
  BY <1>1, <1>2, <1>3, <1>4 DEF PlaceInv, OnePlace

-----------------------------------------------------------------------------
(* failedEntries. *)

FailedInv == PlaceInv /\ FailedArePending

\* What is held is what was enqueued and not written.
LEMMA HeldIsUnwritten ==
    ASSUME OnePlace
    PROVE  Held = Range(enqueued) \ Range(written)
BY DEF OnePlace

LEMMA NextFailedInv ==
    ASSUME FailedInv, [Next]_vars
    PROVE  FailedInv'
<1>1. PlaceInv /\ PlaceInv'
  BY NextPlaceInv DEF FailedInv
<1>2. /\ Held = Range(enqueued) \ Range(written)
      /\ Held' = Range(enqueued') \ Range(written')
  BY <1>1, HeldIsUnwritten DEF PlaceInv, OnePlace
<1>3. failedEntries \subseteq Held
  BY DEF FailedInv, FailedArePending
<1> SUFFICES failedEntries' \subseteq Range(enqueued') \ Range(written')
  BY <1>1, <1>2 DEF FailedInv, FailedArePending
<1>4. ASSUME NEW e \in Entries, Enqueue(e)
      PROVE  failedEntries' \subseteq Range(enqueued') \ Range(written')
  <2>1. Range(enqueued') = Range(enqueued) \union {e}
    BY <1>1, <1>4, AppendRange DEF Enqueue, PlaceInv, FlushInv, TypeOK
  <2> QED
    BY <1>2, <1>3, <1>4, <2>1 DEF Enqueue
<1>5. ASSUME NEW c \in Callers, WriteOk(c)
      PROVE  failedEntries' \subseteq Range(enqueued') \ Range(written')
  <2> DEFINE h == Head(batch[c])
  <2>1. /\ failedEntries' = failedEntries \ {h} /\ enqueued' = enqueued
        /\ written' = Append(written, h) /\ phase[c] # "idle"
    BY <1>5 DEF WriteOk
  <2>2. h \in Entries /\ written \in Seq(Entries)
    BY <1>1, <2>1, FlushHolds DEF PlaceInv, FlushInv, TypeOK
  <2> HIDE DEF h
  <2>3. Range(written') = Range(written) \union {h}
    BY <2>1, <2>2, AppendRange
  <2> QED
    BY <1>2, <1>3, <2>1, <2>3
<1>6. ASSUME NEW c \in Callers, WriteFails(c) \/ WriteDisputed(c)
      PROVE  failedEntries' \subseteq Range(enqueued') \ Range(written')
  <2>1. /\ failedEntries' = failedEntries \union {Head(batch[c])}
        /\ UNCHANGED <<enqueued, written>> /\ phase[c] # "idle"
    BY <1>6 DEF WriteFails, WriteDisputed
  <2>2. Head(batch[c]) \in Held
    BY <1>1, <2>1, FlushHolds
  <2> QED
    BY <1>2, <1>3, <2>1, <2>2
<1>7. ASSUME UNCHANGED <<failedEntries, enqueued, written>>
      PROVE  failedEntries' \subseteq Range(enqueued') \ Range(written')
  BY <1>2, <1>3, <1>7
<1>8. ASSUME NEW c \in Callers, TakesQueue(c) \/ ChainAccepts(c)
      PROVE  UNCHANGED <<failedEntries, enqueued, written>>
  BY <1>8 DEF TakesQueue, ChainAccepts, fieldVars, histVars
<1>9. Quiet => UNCHANGED <<failedEntries, enqueued, written>>
  BY DEF Quiet, dataVars, histVars
<1> QED
  BY <1>1, <1>4, <1>5, <1>6, <1>7, <1>8, <1>9, StepKinds

(* What getMetrics() counts as failed still has to be written (store.ts:112,   *)
(* :117): a first success clears an entry, whatever overlapped with it.        *)
THEOREM FailedStayPending == Spec => []FailedArePending
<1>1. Init => FailedInv
  BY InitFlushInv, InitOnePlace DEF Init, FailedInv, PlaceInv, FailedArePending
<1> QED
  BY <1>1, NextFailedInv, PTL DEF Spec, FailedInv

-----------------------------------------------------------------------------
(* Transactions.  An entry has as many as it had disputed writes, and one more *)
(* once it is written or while its accepted write is not answered.             *)

Accepted(e) == \E c \in Callers : phase[c] = "accepted" /\ Head(batch[c]) = e

OneMore(e) == e \in Range(written) \/ Accepted(e)

CountInv ==
    \A e \in Entries :
        /\ OneMore(e) => ledger[e] = disputed[e] + 1
        /\ ~OneMore(e) => ledger[e] = disputed[e]

\* Steps that count nothing.
LEMMA CountUnmoved ==
    ASSUME CountInv, UNCHANGED <<ledger, disputed>>,
           \A e \in Entries : OneMore(e)' <=> OneMore(e)
    PROVE  CountInv'
BY DEF CountInv

\* The answer to a write ends it.
LEMMA AnswerEndsWrite ==
    ASSUME PlaceInv, NEW c \in Callers, phase[c] # "idle",
           NextEntry(c) \/ RetryOrRequeue(c)
    PROVE  \A d \in Callers : phase'[d] # "accepted"
<1>1. /\ phase \in [Callers -> {"idle", "submit", "accepted", "backoff"}]
      /\ \A d \in Callers : d # c => phase[d] = "idle"
  BY FlushHolds DEF PlaceInv, FlushInv, TypeOK
<1>2. CASE NextEntry(c)
  BY <1>1, <1>2 DEF NextEntry
<1>3. CASE RetryOrRequeue(c)
  BY <1>1, <1>2, <1>3 DEF RetryOrRequeue
<1> QED
  BY <1>2, <1>3

LEMMA NextCountInv ==
    ASSUME PlaceInv, CountInv, [Next]_vars
    PROVE  CountInv'
<1>1. /\ phase \in [Callers -> {"idle", "submit", "accepted", "backoff"}]
      /\ ledger \in [Entries -> Nat] /\ disputed \in [Entries -> Nat]
      /\ written \in Seq(Entries)
  BY DEF PlaceInv, FlushInv, TypeOK
<1>2. ASSUME UNCHANGED <<batch, ledger, disputed, written>>,
             \A c \in Callers : phase'[c] = "accepted" <=> phase[c] = "accepted"
      PROVE  CountInv'
  BY <1>2, CountUnmoved DEF OneMore, Accepted
<1>3. ASSUME NEW e \in Entries, Enqueue(e)
      PROVE  CountInv'
  BY <1>2, <1>3 DEF Enqueue, flushVars
<1>4. CASE Quiet
  BY <1>2, <1>4 DEF Quiet, dataVars, histVars
<1>5. ASSUME NEW c \in Callers, TakesQueue(c)
      PROVE  CountInv'
  <2>1. \A d \in Callers : phase[d] # "accepted" /\ phase'[d] # "accepted"
    BY <1>5, BeginFlushFlushPart DEF TakesQueue, PlaceInv
  <2>2. UNCHANGED <<ledger, disputed, written>>
    BY <1>5 DEF TakesQueue, histVars
  <2> QED
    BY <2>1, <2>2, CountUnmoved DEF OneMore, Accepted
<1>6. ASSUME NEW c \in Callers, ChainAccepts(c)
      PROVE  CountInv'
  <2> DEFINE h == Head(batch[c])
  <2>1. /\ phase[c] = "submit" /\ phase' = [phase EXCEPT ![c] = "accepted"]
        /\ ledger' = [ledger EXCEPT ![h] = @ + 1]
        /\ UNCHANGED <<batch, disputed, written>>
    BY <1>6 DEF ChainAccepts, histVars
  <2>2. /\ h \in Entries /\ h \notin Range(written)
        /\ \A d \in Callers : d # c => phase[d] = "idle"
    BY <2>1, FlushHolds
  <2>3. \A e \in Entries : ~Accepted(e) /\ (Accepted(e)' <=> e = h)
    BY <1>1, <2>1, <2>2 DEF Accepted
  <2> HIDE DEF h
  <2>4. ASSUME NEW e \in Entries
        PROVE  /\ OneMore(e)' => ledger'[e] = disputed'[e] + 1
               /\ ~OneMore(e)' => ledger'[e] = disputed'[e]
    <3>1. CASE e = h
      <4>1. ledger[e] = disputed[e] /\ ledger'[e] = ledger[e] + 1
        BY <1>1, <2>1, <2>2, <2>3, <3>1 DEF CountInv, OneMore
      <4>2. OneMore(e)'
        BY <2>3, <3>1 DEF OneMore
      <4> QED
        BY <2>1, <3>1, <4>1, <4>2
    <3>2. CASE e # h
      BY <1>1, <2>1, <2>2, <2>3, <3>2 DEF CountInv, OneMore
    <3> QED
      BY <3>1, <3>2
  <2> QED
    BY <2>4 DEF CountInv
<1>7. ASSUME NEW c \in Callers, WriteOk(c)
      PROVE  CountInv'
  <2> DEFINE h == Head(batch[c])
  <2>1. /\ phase[c] = "accepted" /\ written' = Append(written, h)
        /\ NextEntry(c) /\ UNCHANGED <<ledger, disputed>>
    BY <1>7 DEF WriteOk
  <2>2. h \in Entries /\ \A d \in Callers : d # c => phase[d] = "idle"
    BY <2>1, FlushHolds
  <2>3. \A d \in Callers : phase'[d] # "accepted"
    BY <2>1, AnswerEndsWrite
  <2>4. \A e \in Entries : (Accepted(e) <=> e = h) /\ ~Accepted(e)'
    BY <2>1, <2>2, <2>3 DEF Accepted
  <2> HIDE DEF h
  <2>5. Range(written') = Range(written) \union {h}
    BY <1>1, <2>1, <2>2, AppendRange
  <2> QED
    BY <2>1, <2>4, <2>5, CountUnmoved DEF OneMore
<1>8. ASSUME NEW c \in Callers, WriteFails(c)
      PROVE  CountInv'
  <2>1. /\ phase[c] = "submit" /\ RetryOrRequeue(c)
        /\ UNCHANGED <<ledger, disputed, written>>
    BY <1>8 DEF WriteFails
  <2>2. \A d \in Callers : phase[d] # "accepted" /\ phase'[d] # "accepted"
    BY <2>1, FlushHolds, AnswerEndsWrite
  <2> QED
    BY <2>1, <2>2, CountUnmoved DEF OneMore, Accepted
<1>9. ASSUME NEW c \in Callers, WriteDisputed(c)
      PROVE  CountInv'
  <2> DEFINE h == Head(batch[c])
  <2>1. /\ phase[c] = "accepted" /\ RetryOrRequeue(c)
        /\ disputed' = [disputed EXCEPT ![h] = @ + 1]
        /\ UNCHANGED <<ledger, written>>
    BY <1>9 DEF WriteDisputed
  <2>2. /\ h \in Entries /\ h \notin Range(written)
        /\ \A d \in Callers : d # c => phase[d] = "idle"
    BY <2>1, FlushHolds
  <2>3. \A d \in Callers : phase'[d] # "accepted"
    BY <2>1, AnswerEndsWrite
  <2>4. \A e \in Entries : (Accepted(e) <=> e = h) /\ ~Accepted(e)'
    BY <2>1, <2>2, <2>3 DEF Accepted
  <2> HIDE DEF h
  <2>5. ASSUME NEW e \in Entries
        PROVE  /\ OneMore(e)' => ledger'[e] = disputed'[e] + 1
               /\ ~OneMore(e)' => ledger'[e] = disputed'[e]
    <3>1. CASE e = h
      <4>1. ledger[e] = disputed[e] + 1 /\ disputed'[e] = disputed[e] + 1
        BY <1>1, <2>1, <2>2, <2>4, <3>1 DEF CountInv, OneMore
      <4>2. ~OneMore(e)'
        BY <2>1, <2>2, <2>4, <3>1 DEF OneMore
      <4> QED
        BY <2>1, <4>1, <4>2
    <3>2. CASE e # h
      BY <1>1, <2>1, <2>2, <2>4, <3>2 DEF CountInv, OneMore
    <3> QED
      BY <3>1, <3>2
  <2> QED
    BY <2>5 DEF CountInv
<1> QED
  BY <1>3, <1>4, <1>5, <1>6, <1>7, <1>8, <1>9, StepKinds

(* An entry that is on the chain more than once had a write that was reported  *)
(* as failed although the chain took it (store.ts:104): retries and re-queues  *)
(* write nothing twice by themselves.                                          *)
THEOREM DuplicatesAreDisputed == Spec => []DuplicatesOnlyFromDisputes
<1>1. Init => PlaceInv /\ CountInv
  <2> SUFFICES ASSUME Init PROVE PlaceInv /\ CountInv
    OBVIOUS
  <2>1. Range(written) = {}
    BY EmptyRange DEF Init
  <2> QED
    BY <2>1, InitFlushInv, InitOnePlace DEF Init, PlaceInv, CountInv, OneMore, Accepted
<1>2. PlaceInv /\ CountInv => DuplicatesOnlyFromDisputes
  <2> SUFFICES ASSUME PlaceInv, CountInv, NEW e \in Entries
               PROVE  ledger[e] <= disputed[e] + 1
    BY DEF DuplicatesOnlyFromDisputes
  <2>1. disputed[e] \in Nat
    BY DEF PlaceInv, FlushInv, TypeOK
  <2>2. ledger[e] = disputed[e] + 1 \/ ledger[e] = disputed[e]
    BY DEF CountInv
  <2> QED
    BY <2>1, <2>2
<1> QED
  BY <1>1, <1>2, NextPlaceInv, NextCountInv, PTL DEF Spec

-----------------------------------------------------------------------------
(* Order. *)

LEMMA PrecedesIn ==
    ASSUME NEW S, NEW s \in Seq(S), NEW e, NEW f, Precedes(s, e, f)
    PROVE  e \in Range(s) /\ f \in Range(s)
BY DEF Precedes, Range

\* Appending puts one element behind all others and keeps their order.
LEMMA PrecedesAppend ==
    ASSUME NEW S, NEW s \in Seq(S), NEW x \in S, NEW e, NEW f
    PROVE  Precedes(Append(s, x), e, f) <=>
               Precedes(s, e, f) \/ (e \in Range(s) /\ f = x)
<1> DEFINE t == Append(s, x)
<1>1. /\ t \in Seq(S)
      /\ Len(t) = Len(s) + 1
      /\ \A i \in 1 .. Len(s) : t[i] = s[i]
      /\ t[Len(s) + 1] = x
  BY AppendProperties
<1>2. Len(s) \in Nat /\ DOMAIN s = 1 .. Len(s) /\ DOMAIN t = 1 .. Len(s) + 1
  BY <1>1, LenProperties
<1> HIDE DEF t
<1>3. ASSUME Precedes(t, e, f)
      PROVE  Precedes(s, e, f) \/ (e \in Range(s) /\ f = x)
  <2>1. PICK i, j \in 1 .. Len(s) + 1 : i < j /\ t[i] = e /\ t[j] = f
    BY <1>2, <1>3 DEF Precedes
  <2>2. i \in 1 .. Len(s) /\ s[i] = e
    BY <1>1, <1>2, <2>1
  <2>3. CASE j = Len(s) + 1
    BY <1>1, <1>2, <2>1, <2>2, <2>3 DEF Range
  <2>4. CASE j # Len(s) + 1
    <3>1. j \in 1 .. Len(s) /\ s[j] = f
      BY <1>1, <1>2, <2>1, <2>4
    <3> QED
      BY <1>2, <2>1, <2>2, <3>1 DEF Precedes
  <2> QED
    BY <2>3, <2>4
<1>4. ASSUME Precedes(s, e, f)
      PROVE  Precedes(t, e, f)
  <2>1. PICK i, j \in 1 .. Len(s) : i < j /\ s[i] = e /\ s[j] = f
    BY <1>2, <1>4 DEF Precedes
  <2>2. i \in DOMAIN t /\ j \in DOMAIN t /\ t[i] = e /\ t[j] = f
    BY <1>1, <1>2, <2>1
  <2> QED
    BY <2>1, <2>2 DEF Precedes
<1>5. ASSUME e \in Range(s), f = x
      PROVE  Precedes(t, e, f)
  <2>1. PICK i \in 1 .. Len(s) : s[i] = e
    BY <1>2, <1>5 DEF Range
  <2>2. /\ i \in DOMAIN t /\ Len(s) + 1 \in DOMAIN t /\ i < Len(s) + 1
        /\ t[i] = e /\ t[Len(s) + 1] = f
    BY <1>1, <1>2, <1>5, <2>1
  <2> QED
    BY <2>2 DEF Precedes
<1> QED
  BY <1>3, <1>4, <1>5 DEF t

\* The tail keeps the order of what is behind the head, and nothing precedes the
\* head of a sequence without repetitions.
LEMMA PrecedesTail ==
    ASSUME NEW S, NEW s \in Seq(S), s # << >>, IsInjective(s), NEW e, NEW f,
           Precedes(s, e, f)
    PROVE  f # Head(s) /\ (e = Head(s) \/ Precedes(Tail(s), e, f))
<1> DEFINE t == Tail(s)
           h == Head(s)
<1>1. /\ t \in Seq(S)
      /\ Len(t) = Len(s) - 1
      /\ \A i \in 1 .. Len(t) : t[i] = s[i + 1]
      /\ h = s[1]
  BY HeadTailProperties
<1>2. Len(s) \in Nat \ {0} /\ DOMAIN s = 1 .. Len(s) /\ DOMAIN t = 1 .. Len(s) - 1
  BY <1>1, LenProperties, EmptySeq
<1> HIDE DEF t, h
<1>3. PICK i, j \in 1 .. Len(s) : i < j /\ s[i] = e /\ s[j] = f
  BY <1>2 DEF Precedes
<1>4. j # 1 /\ j - 1 \in 1 .. Len(t) /\ t[j - 1] = s[(j - 1) + 1] /\ (j - 1) + 1 = j
  BY <1>1, <1>2, <1>3
<1>5. f # h
  <2>1. 1 \in DOMAIN s /\ j \in DOMAIN s /\ s[1] = h /\ s[j] = f /\ j # 1
    BY <1>1, <1>2, <1>3, <1>4
  <2> QED
    BY <2>1, Zenon DEF IsInjective
<1>6. CASE i = 1
  BY <1>1, <1>3, <1>5, <1>6 DEF t, h
<1>7. CASE i # 1
  <2>1. i - 1 \in 1 .. Len(t) /\ t[i - 1] = s[(i - 1) + 1] /\ (i - 1) + 1 = i
    BY <1>1, <1>2, <1>3, <1>7
  <2>2. i - 1 < j - 1 /\ t[i - 1] = e /\ t[j - 1] = f
    BY <1>3, <1>4, <2>1
  <2>3. Precedes(t, e, f)
    BY <1>1, <1>2, <1>4, <2>1, <2>2 DEF Precedes
  <2> QED
    BY <1>5, <2>3 DEF t, h
<1> QED
  BY <1>6, <1>7

\* f has come no further than e: what was written, a flush and the queue each keep
\* their order, and e is ahead of f when they are apart.
InOrder(e, f) ==
    /\ f \in Range(written) => Precedes(written, e, f)
    /\ \A c \in Callers :
           f \in Range(batch[c]) => e \in Range(written) \/ Precedes(batch[c], e, f)
    /\ f \in Range(queue) /\ e \in Range(queue) => Precedes(queue, e, f)

OrderInv ==
    \A e \in Entries \ requeued, f \in Entries :
        Precedes(enqueued, e, f) => InOrder(e, f)

LEMMA NextOrderInv ==
    ASSUME PlaceInv, OrderInv, [Next]_vars
    PROVE  OrderInv'
<1>1. /\ queue \in Seq(Entries) /\ enqueued \in Seq(Entries) /\ written \in Seq(Entries)
      /\ batch \in [Callers -> Seq(Entries)]
  BY DEF PlaceInv, FlushInv, TypeOK
<1>2. Range(enqueued) = Held \union Range(written)
  BY DEF PlaceInv, OnePlace
<1>3. ASSUME UNCHANGED <<queue, batch, enqueued, written, requeued>>
      PROVE  OrderInv'
  BY <1>3 DEF OrderInv, InOrder
<1>4. ASSUME NEW x \in Entries, Enqueue(x)
      PROVE  OrderInv'
  <2>1. /\ queue' = Append(queue, x) /\ enqueued' = Append(enqueued, x)
        /\ batch' = batch /\ written' = written /\ requeued' = requeued
        /\ x \notin Range(enqueued)
    BY <1>4 DEF Enqueue, flushVars
  <2>2. x \notin Range(written) /\ x \notin Range(queue)
        /\ \A c \in Callers : x \notin Range(batch[c])
    BY <1>2, <2>1 DEF Held
  <2>3. Range(queue') = Range(queue) \union {x}
    BY <1>1, <2>1, AppendRange
  <2>4. ASSUME NEW e \in Entries \ requeued, NEW f \in Entries, Precedes(enqueued', e, f)
        PROVE  InOrder(e, f)'
    <3>1. Precedes(enqueued, e, f) \/ (e \in Range(enqueued) /\ f = x)
      BY <1>1, <2>1, <2>4, PrecedesAppend
    <3>2. CASE Precedes(enqueued, e, f)
      <4>1. e # x /\ f # x
        BY <1>1, <2>1, <3>2, PrecedesIn
      <4>2. InOrder(e, f)
        BY <3>2 DEF OrderInv
      <4>3. f \in Range(queue') /\ e \in Range(queue') => Precedes(queue', e, f)
        BY <1>1, <2>1, <2>3, <4>1, <4>2, PrecedesAppend DEF InOrder
      <4> QED
        BY <2>1, <4>2, <4>3 DEF InOrder
    <3>3. CASE e \in Range(enqueued) /\ f = x
      <4>1. e # x
        BY <2>1, <3>3
      <4>2. e \in Range(queue') => Precedes(queue', e, f)
        BY <1>1, <2>1, <2>3, <3>3, <4>1, PrecedesAppend
      <4> QED
        BY <2>1, <2>2, <3>3, <4>2 DEF InOrder
    <3> QED
      BY <3>1, <3>2, <3>3
  <2> QED
    BY <2>1, <2>4 DEF OrderInv
<1>5. ASSUME NEW c \in Callers, TakesQueue(c)
      PROVE  OrderInv'
  <2>1. \A d \in Callers : batch[d] = << >>
    BY <1>5 DEF TakesQueue, PlaceInv, FlushInv, OneFlush, Flushing, FlushEnabled
  <2>2. /\ queue' = << >> /\ batch' = [batch EXCEPT ![c] = queue]
        /\ UNCHANGED <<enqueued, written, requeued>>
    BY <1>5 DEF TakesQueue, BeginFlush, histVars
  <2>3. Range(<< >>) = {}
    BY EmptyRange
  <2>4. Range(enqueued) = Range(queue) \union Range(written)
    BY <1>2, <2>1, <2>3 DEF Held
  <2>5. ASSUME NEW e \in Entries \ requeued, NEW f \in Entries, Precedes(enqueued, e, f)
        PROVE  InOrder(e, f)'
    <3>1. InOrder(e, f) /\ e \in Range(queue) \union Range(written)
      BY <1>1, <2>4, <2>5, PrecedesIn DEF OrderInv
    <3>2. \A d \in Callers : batch'[d] = IF d = c THEN queue ELSE << >>
      BY <1>1, <2>1, <2>2
    <3>3. \A d \in Callers :
              f \in Range(batch'[d]) => e \in Range(written) \/ Precedes(batch'[d], e, f)
      BY <2>3, <3>1, <3>2 DEF InOrder
    <3> QED
      BY <2>2, <2>3, <3>1, <3>3 DEF InOrder
  <2> QED
    BY <2>2, <2>5 DEF OrderInv
<1>6. ASSUME NEW c \in Callers, phase[c] # "idle", NextEntry(c)
      PROVE  \A e, f \in Entries : \A d \in Callers :
                 f \in Range(batch'[d]) =>
                     /\ f \in Range(batch[d])
                     /\ Precedes(batch[d], e, f) =>
                            e = Head(batch[c]) \/ Precedes(batch'[d], e, f)
  <2>1. /\ batch[c] # << >> /\ batch[c] \in Seq(Entries)
        /\ batch' = [batch EXCEPT ![c] = Tail(batch[c])]
        /\ Range(batch[c]) = Range(Tail(batch[c])) \union {Head(batch[c])}
        /\ IsInjective(batch[c])
    BY <1>6, FlushHolds, HeadLeavesBatch DEF PlaceInv, OnePlace
  <2> SUFFICES ASSUME NEW e \in Entries, NEW f \in Entries, NEW d \in Callers,
                      f \in Range(batch'[d])
               PROVE  /\ f \in Range(batch[d])
                      /\ Precedes(batch[d], e, f) =>
                             e = Head(batch[c]) \/ Precedes(batch'[d], e, f)
    OBVIOUS
  <2>2. CASE d = c
    <3>1. batch'[d] = Tail(batch[c])
      BY <1>1, <2>1, <2>2
    <3> QED
      BY <2>1, <2>2, <3>1, PrecedesTail
  <2>3. CASE d # c
    BY <1>1, <2>1, <2>3
  <2> QED
    BY <2>2, <2>3
<1>7. ASSUME NEW c \in Callers, WriteOk(c)
      PROVE  OrderInv'
  <2>1. /\ written' = Append(written, Head(batch[c])) /\ NextEntry(c)
        /\ UNCHANGED <<queue, enqueued, requeued>> /\ phase[c] # "idle"
    BY <1>7 DEF WriteOk
  <2>2. PICK h \in Entries : h = Head(batch[c])
    BY <2>1, FlushHolds
  <2>3. /\ h \in Range(batch[c]) /\ batch[c] # << >> /\ IsInjective(batch[c])
        /\ Range(written') = Range(written) \union {h}
    BY <1>1, <2>1, <2>2, FlushHolds, AppendRange DEF PlaceInv, OnePlace
  <2>4. ASSUME NEW e \in Entries \ requeued, NEW f \in Entries, Precedes(enqueued, e, f)
        PROVE  InOrder(e, f)'
    <3>1. InOrder(e, f)
      BY <2>4 DEF OrderInv
    <3>2. f \in Range(written') => Precedes(written', e, f)
      <4>1. CASE f = h
        <5>1. ~Precedes(batch[c], e, f)
          BY <1>1, <2>2, <2>3, <4>1, PrecedesTail
        <5>2. e \in Range(written)
          BY <2>3, <3>1, <4>1, <5>1 DEF InOrder
        <5> QED
          BY <1>1, <2>1, <2>2, <4>1, <5>2, PrecedesAppend
      <4>2. CASE f # h
        BY <1>1, <2>1, <2>2, <2>3, <3>1, <4>2, PrecedesAppend DEF InOrder
      <4> QED
        BY <4>1, <4>2
    <3>3. \A d \in Callers :
              f \in Range(batch'[d]) => e \in Range(written') \/ Precedes(batch'[d], e, f)
      BY <1>6, <2>1, <2>2, <2>3, <3>1 DEF InOrder
    <3> QED
      BY <2>1, <3>1, <3>2, <3>3 DEF InOrder
  <2> QED
    BY <2>1, <2>4 DEF OrderInv
<1>8. ASSUME NEW c \in Callers, WriteFails(c) \/ WriteDisputed(c)
      PROVE  OrderInv'
  <2>1. RetryOrRequeue(c) /\ UNCHANGED <<enqueued, written>> /\ phase[c] # "idle"
    BY <1>8 DEF WriteFails, WriteDisputed
  <2>2. CASE attempt[c] + 1 < MaxAttempts
    BY <1>3, <2>1, <2>2 DEF RetryOrRequeue
  <2>3. CASE ~(attempt[c] + 1 < MaxAttempts)
    <3>1. /\ queue' = Append(queue, Head(batch[c])) /\ NextEntry(c)
          /\ requeued' = requeued \union {Head(batch[c])}
      BY <2>1, <2>3 DEF RetryOrRequeue
    <3>2. PICK h \in Entries : h = Head(batch[c])
      BY <2>1, FlushHolds
    <3>3. Range(queue') = Range(queue) \union {h}
      BY <1>1, <3>1, <3>2, AppendRange
    <3>4. ASSUME NEW e \in Entries \ requeued', NEW f \in Entries, Precedes(enqueued, e, f)
          PROVE  InOrder(e, f)'
      <4>1. InOrder(e, f) /\ e # h
        BY <3>1, <3>2, <3>4 DEF OrderInv
      <4>2. f \in Range(queue') /\ e \in Range(queue') => Precedes(queue', e, f)
        BY <1>1, <3>1, <3>2, <3>3, <4>1, PrecedesAppend DEF InOrder
      <4>3. \A d \in Callers :
                f \in Range(batch'[d]) => e \in Range(written) \/ Precedes(batch'[d], e, f)
        BY <1>6, <2>1, <3>1, <3>2, <4>1 DEF InOrder
      <4> QED
        BY <2>1, <4>1, <4>2, <4>3 DEF InOrder
    <3> QED
      BY <2>1, <3>4 DEF OrderInv
  <2> QED
    BY <2>2, <2>3
<1>9. ASSUME NEW c \in Callers, ChainAccepts(c)
      PROVE  OrderInv'
  BY <1>3, <1>9 DEF ChainAccepts, fieldVars, histVars
<1>10. CASE Quiet
  BY <1>3, <1>10 DEF Quiet, dataVars, histVars
<1> QED
  BY <1>4, <1>5, <1>7, <1>8, <1>9, <1>10, StepKinds

(* Entries reach the chain in the order in which their requests were audited,  *)
(* but for those whose attempts all failed and that went back to the tail      *)
(* (store.ts:78, :142), whatever ticks, drains and new requests overlap.       *)
THEOREM WrittenInOrder == Spec => []FifoUnlessRequeued
<1>1. Init => PlaceInv /\ OrderInv
  <2> SUFFICES ASSUME Init PROVE PlaceInv /\ OrderInv
    OBVIOUS
  <2>1. \A e, f \in Entries : ~Precedes(enqueued, e, f)
    BY EmptySeq, EmptyRange, PrecedesIn DEF Init
  <2> QED
    BY <2>1, InitFlushInv, InitOnePlace DEF PlaceInv, OrderInv
<1>2. PlaceInv /\ OrderInv => FifoUnlessRequeued
  <2> SUFFICES ASSUME PlaceInv, OrderInv, NEW e \in Entries \ requeued,
                      NEW f \in Range(written), Precedes(enqueued, e, f)
               PROVE  Precedes(written, e, f)
    BY DEF FifoUnlessRequeued
  <2>1. f \in Entries
    BY LenProperties DEF PlaceInv, FlushInv, TypeOK, Range
  <2> QED
    BY <2>1 DEF OrderInv, InOrder
<1> QED
  BY <1>1, <1>2, NextPlaceInv, NextOrderInv, PTL DEF Spec
=============================================================================
