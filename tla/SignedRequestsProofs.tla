----------------------- MODULE SignedRequestsProofs -----------------------
(***************************************************************************)
(* Theorems about SignedRequests: for any agents, nonces, timestamps,      *)
(* window and number of concurrent requests.                               *)
(***************************************************************************)
EXTENDS SignedRequests, TLAPS

(* Typing.                                                                 *)

LEMMA InitTypeOK == Init => TypeOK
BY TimeAssumption DEF Init, TypeOK

\* Storing the nonce of a request keeps the variables it sets well typed.
LEMMA StoreNonceTypeOK ==
    ASSUME TypeOK, NEW s \in Slots, StoreNonce(s)
    PROVE  /\ inFlight[s].msg \in Messages
           /\ now' = now
           /\ nonceStore' \subseteq Messages
           /\ inFlight' \in [Slots -> [msg : Messages, genuine : BOOLEAN] \union {None}]
           /\ storedAt' \in [Agents \X Nonces -> 0 .. MaxTime]
<1>1. inFlight[s] \in [msg : Messages, genuine : BOOLEAN]
  BY DEF TypeOK, StoreNonce
<1>2. inFlight[s].msg \in Messages
  BY <1>1
<1>3. inFlight[s].msg.agent \in Agents /\ inFlight[s].msg.nonce \in Nonces
  BY <1>2 DEF Messages
<1> QED
  BY <1>2, <1>3 DEF TypeOK, StoreNonce

LEMMA NextTypeOK ==
    ASSUME TypeOK, [Next]_vars
    PROVE  TypeOK'
<1>1. ASSUME NEW s \in Slots, NEW m \in Messages, NEW genuine \in BOOLEAN,
             Deliver(s, m, genuine)
      PROVE  TypeOK'
  BY <1>1 DEF TypeOK, Deliver, histVars
<1>2. ASSUME NEW s \in Slots, RejectSignature(s) \/ RejectNonce(s)
      PROVE  TypeOK'
  BY <1>2 DEF TypeOK, RejectSignature, RejectNonce, histVars
<1>3. ASSUME NEW s \in Slots, RejectDrift(s)
      PROVE  TypeOK'
  <2>1. StoreNonce(s) /\ acceptances' = acceptances /\ firstAccepted' = firstAccepted
    BY <1>3 DEF RejectDrift
  <2> QED
    BY <2>1, StoreNonceTypeOK DEF TypeOK
<1>4. ASSUME NEW s \in Slots, Accept(s)
      PROVE  TypeOK'
  <2>1. StoreNonce(s)
    BY <1>4 DEF Accept
  <2>2. acceptances' \in [Messages -> Nat]
    BY <1>4, <2>1, StoreNonceTypeOK DEF Accept, TypeOK
  <2>3. firstAccepted' \in [Messages -> (0 .. MaxTime) \union {None}]
    BY <1>4, <2>1, StoreNonceTypeOK DEF Accept, TypeOK
  <2> QED
    BY <2>1, <2>2, <2>3, StoreNonceTypeOK DEF TypeOK
<1>5. CASE Cleanup
  BY <1>5, TimeAssumption DEF TypeOK, Cleanup
<1>6. CASE Restart
  BY <1>6, TimeAssumption DEF TypeOK, Restart
<1>7. CASE Tick
  BY <1>7, TimeAssumption DEF TypeOK, Tick, histVars
<1>8. CASE UNCHANGED vars
  BY <1>8 DEF TypeOK, vars, histVars
<1> QED
  BY <1>1, <1>2, <1>3, <1>4, <1>5, <1>6, <1>7, <1>8 DEF Next, Verify

(* The variables of SignedRequests keep their types.                       *)
THEOREM TypeCorrect == Spec => []TypeOK
BY InitTypeOK, NextTypeOK, PTL DEF Spec

-----------------------------------------------------------------------------
(* No replay.  An accepted message is refused by the nonce store as long as *)
(* its nonce is stored, and by its timestamp from the moment cleanup() may  *)
(* have removed the nonce.                                                  *)

ReplayInv == TypeOK /\ AcceptedIsCovered /\ NoReplay

\* A message that expired has drifted, so it cannot be accepted.
LEMMA ExpiredHasDrifted ==
    ASSUME NEW ts \in Nat \union {NaN}, now \in Int, Expired(ts)
    PROVE  Drifted(ts)
<1>1. ts # NaN /\ now - ts > Window
  BY DEF Expired
<1>2. ts \in Nat
  BY <1>1
<1>3. AbsDiff(now, ts) > Window
  BY <1>1, <1>2, WindowAssumption DEF AbsDiff
<1> QED
  BY <1>1, <1>3 DEF Drifted

\* Once a message has expired, it stays so while the clock does not go back.
LEMMA ExpiredForGood ==
    ASSUME NEW ts \in Nat \union {NaN}, now \in Int, now' \in Int, now <= now',
           Expired(ts)
    PROVE  Expired(ts)'
<1>1. ts # NaN /\ now - ts > Window
  BY DEF Expired
<1>2. ts \in Nat
  BY <1>1
<1>3. PICK t \in Int : t = now
  OBVIOUS
<1>4. PICK u \in Int : u = now'
  OBVIOUS
<1>5. t <= u /\ t - ts > Window
  BY <1>1, <1>3, <1>4
<1>6. u - ts > Window
  BY <1>2, <1>5, WindowAssumption
<1> QED
  BY <1>1, <1>4, <1>6 DEF Expired

\* Only a message that was not accepted before is accepted.
LEMMA AcceptIsFirst ==
    ASSUME TypeOK, AcceptedIsCovered, NEW s \in Slots, Accept(s)
    PROVE  acceptances[inFlight[s].msg] = 0
<1> DEFINE m == inFlight[s].msg
<1>1. m \in Messages
  BY StoreNonceTypeOK DEF Accept
<1>2. m \notin nonceStore
  BY DEF Accept, StoreNonce, NonceUsed
<1>3. m.timestamp \in Nat \union {NaN}
  BY <1>1, TimeAssumption DEF Messages
<1>4. ~Expired(m.timestamp)
  <2>1. ~Drifted(m.timestamp)
    BY DEF Accept
  <2>2. now \in Int
    BY TimeAssumption DEF TypeOK
  <2> QED
    BY <1>3, <2>1, <2>2, ExpiredHasDrifted
<1> QED
  BY <1>1, <1>2, <1>4 DEF AcceptedIsCovered, TypeOK

LEMMA NextReplayInv ==
    ASSUME ReplayInv, [Next]_vars
    PROVE  ReplayInv'
<1> USE DEF ReplayInv
<1>0. SUFFICES AcceptedIsCovered' /\ NoReplay'
  BY NextTypeOK
<1>1. ASSUME NEW s \in Slots, NEW m \in Messages, NEW genuine \in BOOLEAN,
             Deliver(s, m, genuine)
      PROVE  AcceptedIsCovered' /\ NoReplay'
  BY <1>1 DEF Deliver, histVars, AcceptedIsCovered, NoReplay, Expired
<1>2. ASSUME NEW s \in Slots, RejectSignature(s) \/ RejectNonce(s)
      PROVE  AcceptedIsCovered' /\ NoReplay'
  BY <1>2 DEF RejectSignature, RejectNonce, histVars, AcceptedIsCovered, NoReplay, Expired
<1>3. ASSUME NEW s \in Slots, RejectDrift(s)
      PROVE  AcceptedIsCovered' /\ NoReplay'
  BY <1>3 DEF RejectDrift, StoreNonce, AcceptedIsCovered, NoReplay, Expired
<1>4. ASSUME NEW s \in Slots, Accept(s)
      PROVE  AcceptedIsCovered' /\ NoReplay'
  <2>1. acceptances[inFlight[s].msg] = 0
    BY <1>4, AcceptIsFirst
  <2>2. \A m \in Messages : acceptances'[m] = IF m = inFlight[s].msg THEN 1 ELSE acceptances[m]
    BY <1>4, <2>1 DEF Accept, TypeOK
  <2>3. nonceStore' = nonceStore \union {inFlight[s].msg} /\ now' = now
    BY <1>4 DEF Accept, StoreNonce
  <2> QED
    BY <2>2, <2>3 DEF AcceptedIsCovered, NoReplay, Expired
<1>5. CASE Cleanup
  BY <1>5 DEF Cleanup, AcceptedIsCovered, NoReplay, Expired
<1>6. CASE Restart
  BY <1>6 DEF Restart, AcceptedIsCovered, NoReplay
<1>7. CASE Tick
  <2>1. acceptances' = acceptances /\ nonceStore' = nonceStore
    BY <1>7 DEF Tick, histVars
  <2>2. ASSUME NEW m \in Messages, Expired(m.timestamp)
        PROVE  Expired(m.timestamp)'
    <3>1. m.timestamp \in Nat \union {NaN}
      BY TimeAssumption DEF Messages
    <3>2. now \in Int /\ now' \in Int /\ now <= now'
      BY <1>7, TimeAssumption DEF Tick, TypeOK
    <3> QED
      BY <2>2, <3>1, <3>2, ExpiredForGood
  <2> QED
    BY <2>1, <2>2 DEF AcceptedIsCovered, NoReplay
<1>8. CASE UNCHANGED vars
  BY <1>8 DEF vars, histVars, AcceptedIsCovered, NoReplay, Expired
<1> QED
  BY <1>1, <1>2, <1>3, <1>4, <1>5, <1>6, <1>7, <1>8 DEF Next, Verify

LEMMA InitReplayInv == Init => ReplayInv
BY InitTypeOK DEF Init, ReplayInv, AcceptedIsCovered, NoReplay

(* An accepted message is always covered by its stored nonce or by the      *)
(* timestamp check.                                                         *)
THEOREM CoverIsKept == Spec => []AcceptedIsCovered
<1>1. ReplayInv => AcceptedIsCovered
  BY DEF ReplayInv
<1> QED
  BY InitReplayInv, NextReplayInv, <1>1, PTL DEF Spec

(* No signed message is accepted twice by one run of the process, for every *)
(* window, every set of timestamps (NaN included) and any number of         *)
(* concurrent or late deliveries.                                           *)
THEOREM ReplayFree == Spec => []NoReplay
<1>1. ReplayInv => NoReplay
  BY DEF ReplayInv
<1> QED
  BY InitReplayInv, NextReplayInv, <1>1, PTL DEF Spec

-----------------------------------------------------------------------------
(* How long a replay is possible, and how long a nonce is kept.            *)

\* What a timestamp that did not drift says of the clock.
LEMMA NotDrifted ==
    ASSUME NEW ts \in Nat, now \in Nat, ~Drifted(ts)
    PROVE  now <= ts + Window /\ ts <= now + Window
<1>1. ts # NaN /\ ~(AbsDiff(now, ts) > Window)
  BY NaNAssumption DEF Drifted
<1> QED
  BY <1>1, WindowAssumption DEF AbsDiff

\* Messages were first accepted within the window around their timestamps.
FirstInWindow ==
    \A m \in Messages :
        firstAccepted[m] # None =>
            /\ m.timestamp \in Nat
            /\ m.timestamp <= firstAccepted[m] + Window

LEMMA NextFirstInWindow ==
    ASSUME TypeOK, FirstInWindow, [Next]_vars
    PROVE  FirstInWindow'
<1>1. ASSUME NEW s \in Slots, Accept(s)
      PROVE  FirstInWindow'
  <2> DEFINE m == inFlight[s].msg
  <2>1. m \in Messages /\ ~Drifted(m.timestamp)
    BY <1>1, StoreNonceTypeOK DEF Accept
  <2>2. CASE firstAccepted' = firstAccepted
    BY <2>2 DEF FirstInWindow
  <2>3. CASE /\ firstAccepted' = [firstAccepted EXCEPT ![m] = now]
             /\ m.timestamp # NaN
    <3>1. m.timestamp \in Timestamps \union {NaN}
      BY <2>1 DEF Messages
    <3>2. m.timestamp \in Nat
      BY <2>3, <3>1, TimeAssumption
    <3>3. now \in Nat
      BY TimeAssumption DEF TypeOK
    <3>4. m.timestamp \in Nat /\ now \in Nat
      BY <3>2, <3>3
    <3>5. m.timestamp <= now + Window
      BY <2>1, <3>4, NotDrifted
    <3>6. firstAccepted'[m] = now
      BY <2>1, <2>3 DEF TypeOK
    <3>7. \A n \in Messages : n # m => firstAccepted'[n] = firstAccepted[n]
      BY <2>3 DEF TypeOK
    <3> HIDE DEF m
    <3> QED
      BY <3>4, <3>5, <3>6, <3>7 DEF FirstInWindow
  <2> QED
    BY <1>1, <2>2, <2>3 DEF Accept
<1>2. ASSUME firstAccepted' = firstAccepted
      PROVE  FirstInWindow'
  BY <1>2 DEF FirstInWindow
<1>3. ASSUME NEW s \in Slots, RejectSignature(s) \/ RejectNonce(s) \/ RejectDrift(s)
      PROVE  firstAccepted' = firstAccepted
  BY <1>3 DEF RejectSignature, RejectNonce, RejectDrift, histVars
<1>4. ASSUME NEW s \in Slots, NEW m \in Messages, NEW genuine \in BOOLEAN,
             Deliver(s, m, genuine)
      PROVE  firstAccepted' = firstAccepted
  BY <1>4 DEF Deliver, histVars
<1>5. ASSUME Cleanup \/ Restart \/ Tick \/ UNCHANGED vars
      PROVE  firstAccepted' = firstAccepted
  BY <1>5 DEF Cleanup, Restart, Tick, vars, histVars
<1> QED
  BY <1>1, <1>2, <1>3, <1>4, <1>5 DEF Next, Verify

(* However often the process restarts, a message with a numeric timestamp is *)
(* replayed at most two windows after it was first accepted.                 *)
THEOREM ReplayIsBounded == Spec => ReplaysEnd
<1>1. Init => FirstInWindow
  BY DEF Init, FirstInWindow
<1>2. ASSUME TypeOK, FirstInWindow, [Next]_vars
      PROVE  [\A s \in Slots :
                Accept(s) /\ firstAccepted[inFlight[s].msg] # None
                    => now - firstAccepted[inFlight[s].msg] <= 2 * Window]_vars
  <2>1. SUFFICES ASSUME NEW s \in Slots, Accept(s),
                        firstAccepted[inFlight[s].msg] # None
                 PROVE  now - firstAccepted[inFlight[s].msg] <= 2 * Window
    OBVIOUS
  <2> DEFINE m == inFlight[s].msg
  <2>2. m \in Messages /\ ~Drifted(m.timestamp)
    BY <2>1, <1>2, StoreNonceTypeOK DEF Accept
  <2>3. m.timestamp \in Nat /\ m.timestamp <= firstAccepted[m] + Window
    BY <1>2, <2>1, <2>2 DEF FirstInWindow
  <2>4. now \in Nat /\ firstAccepted[m] \in Nat
    BY <1>2, <2>1, <2>2, TimeAssumption DEF TypeOK
  <2>5. now <= m.timestamp + Window
    BY <2>2, <2>3, <2>4, NotDrifted
  <2> QED
    BY <2>3, <2>4, <2>5, WindowAssumption
<1> QED
  BY <1>1, <1>2, InitTypeOK, NextTypeOK, NextFirstInWindow, PTL DEF Spec, ReplaysEnd

\* The nonce of an accepted message was stored at most a window before its timestamp.
StoredInWindow ==
    \A r \in nonceStore :
        r.timestamp # NaN /\ acceptances[r] > 0
            => r.timestamp <= storedAt[<<r.agent, r.nonce>>] + Window

\* Storing the nonce of a message leaves the others' alone.
LEMMA OthersKept ==
    ASSUME TypeOK, NEW s \in Slots, StoreNonce(s)
    PROVE  /\ storedAt'[<<inFlight[s].msg.agent, inFlight[s].msg.nonce>>] = now
           /\ \A r \in nonceStore :
                 storedAt'[<<r.agent, r.nonce>>] = storedAt[<<r.agent, r.nonce>>]
<1> DEFINE m == inFlight[s].msg
<1>1. m \in Messages
  BY StoreNonceTypeOK
<1>2. m.agent \in Agents /\ m.nonce \in Nonces
  BY <1>1 DEF Messages
<1>3. storedAt' = [storedAt EXCEPT ![<<m.agent, m.nonce>>] = now] /\ ~NonceUsed(m)
  BY DEF StoreNonce
<1>4. ASSUME NEW r \in nonceStore
      PROVE  storedAt'[<<r.agent, r.nonce>>] = storedAt[<<r.agent, r.nonce>>]
  <2>1. r.agent \in Agents /\ r.nonce \in Nonces
    BY DEF TypeOK, Messages
  <2>2. <<r.agent, r.nonce>> # <<m.agent, m.nonce>>
    BY <1>3 DEF NonceUsed
  <2> HIDE DEF m
  <2> QED
    BY <1>3, <2>1, <2>2 DEF TypeOK
<1>5. storedAt'[<<m.agent, m.nonce>>] = now
  BY <1>2, <1>3 DEF TypeOK
<1> QED
  BY <1>4, <1>5

LEMMA NextStoredInWindow ==
    ASSUME ReplayInv, StoredInWindow, [Next]_vars
    PROVE  StoredInWindow'
<1> USE DEF ReplayInv
<1>1. ASSUME NEW s \in Slots, Accept(s)
      PROVE  StoredInWindow'
  <2> DEFINE m == inFlight[s].msg
  <2>1. StoreNonce(s) /\ m \in Messages /\ ~Drifted(m.timestamp)
    BY <1>1, StoreNonceTypeOK DEF Accept
  <2>2. now \in Nat
    BY TimeAssumption DEF TypeOK
  <2>3. m.timestamp # NaN => m.timestamp <= now + Window
    BY <2>1, <2>2, NotDrifted, TimeAssumption DEF Messages
  <2>4. nonceStore' = nonceStore \union {m}
    BY <2>1 DEF StoreNonce
  <2>5. \A r \in Messages : r # m => acceptances'[r] = acceptances[r]
    BY <1>1 DEF Accept, TypeOK
  <2>6. m \notin nonceStore
    BY <2>1 DEF StoreNonce, NonceUsed
  <2>7. nonceStore \subseteq Messages
    BY DEF TypeOK
  <2>8. storedAt'[<<m.agent, m.nonce>>] = now
    BY <2>1, OthersKept
  <2>9. \A r \in nonceStore :
          storedAt'[<<r.agent, r.nonce>>] = storedAt[<<r.agent, r.nonce>>]
    BY <2>1, OthersKept
  <2> HIDE DEF m
  <2> QED
    BY <2>3, <2>4, <2>5, <2>6, <2>7, <2>8, <2>9 DEF StoredInWindow
<1>2. ASSUME NEW s \in Slots, RejectDrift(s)
      PROVE  StoredInWindow'
  <2> DEFINE m == inFlight[s].msg
  <2>1. StoreNonce(s) /\ m \in Messages /\ acceptances' = acceptances
    BY <1>2, StoreNonceTypeOK DEF RejectDrift
  <2>2. m \notin nonceStore /\ nonceStore' = nonceStore \union {m}
    BY <2>1 DEF StoreNonce, NonceUsed
  <2>3. now \in Nat
    BY TimeAssumption DEF TypeOK
  <2>4. ASSUME m.timestamp # NaN, acceptances[m] > 0
        PROVE  m.timestamp <= now + Window
    <3>1. m.timestamp \in Timestamps
      BY <2>1, <2>4 DEF Messages
    <3>2. now - m.timestamp > Window
      BY <2>1, <2>2, <2>4 DEF AcceptedIsCovered, Expired
    <3>3. m.timestamp \in Nat
      BY <3>1, TimeAssumption
    <3>4. PICK t \in Nat : t = m.timestamp
      BY <3>3
    <3> QED
      BY <2>3, <3>2, <3>4, WindowAssumption
  <2>5. storedAt'[<<m.agent, m.nonce>>] = now
    BY <2>1, OthersKept
  <2>6. \A r \in nonceStore :
          storedAt'[<<r.agent, r.nonce>>] = storedAt[<<r.agent, r.nonce>>]
    BY <2>1, OthersKept
  <2> HIDE DEF m
  <2> QED
    BY <2>1, <2>2, <2>4, <2>5, <2>6 DEF StoredInWindow
<1>3. ASSUME NEW s \in Slots, RejectSignature(s) \/ RejectNonce(s)
      PROVE  StoredInWindow'
  BY <1>3 DEF RejectSignature, RejectNonce, histVars, StoredInWindow
<1>4. ASSUME NEW s \in Slots, NEW m \in Messages, NEW genuine \in BOOLEAN,
             Deliver(s, m, genuine)
      PROVE  StoredInWindow'
  BY <1>4 DEF Deliver, histVars, StoredInWindow
<1>5. CASE Cleanup
  <2>1. nonceStore' \subseteq nonceStore /\ acceptances' = acceptances
    BY <1>5 DEF Cleanup
  <2>2. ASSUME NEW r \in nonceStore'
        PROVE  storedAt'[<<r.agent, r.nonce>>] = storedAt[<<r.agent, r.nonce>>]
    <3>1. <<r.agent, r.nonce>> \in Agents \X Nonces
      BY <2>1 DEF TypeOK, Messages
    <3> QED
      BY <1>5, <3>1 DEF Cleanup
  <2> QED
    BY <2>1, <2>2 DEF StoredInWindow
<1>6. CASE Restart
  BY <1>6 DEF Restart, StoredInWindow
<1>7. CASE Tick \/ UNCHANGED vars
  BY <1>7 DEF Tick, vars, histVars, StoredInWindow
<1> QED
  BY <1>1, <1>2, <1>3, <1>4, <1>5, <1>6, <1>7 DEF Next, Verify

(* The nonce of an accepted message with a numeric timestamp outlives a     *)
(* cleanup() for at most two windows.                                       *)
THEOREM NoncesExpire == Spec => AcceptedNoncesExpire
<1>1. Init => StoredInWindow
  BY DEF Init, StoredInWindow
<1>2. ASSUME ReplayInv, StoredInWindow, [Next]_vars
      PROVE  [Cleanup =>
                \A r \in nonceStore' :
                    r.timestamp # NaN /\ acceptances[r] > 0
                        => now - storedAt[<<r.agent, r.nonce>>] <= 2 * Window]_vars
  <2>1. SUFFICES ASSUME Cleanup, NEW r \in nonceStore', r.timestamp # NaN,
                        acceptances[r] > 0
                 PROVE  now - storedAt[<<r.agent, r.nonce>>] <= 2 * Window
    OBVIOUS
  <2>2. r \in nonceStore /\ ~Expired(r.timestamp)
    BY <2>1 DEF Cleanup
  <2>3. r \in Messages
    BY <1>2, <2>2 DEF ReplayInv, TypeOK
  <2>4. r.timestamp \in Nat /\ <<r.agent, r.nonce>> \in Agents \X Nonces
    BY <2>1, <2>3, TimeAssumption DEF Messages
  <2>5. now \in Nat /\ storedAt[<<r.agent, r.nonce>>] \in Nat
    BY <1>2, <2>4, TimeAssumption DEF ReplayInv, TypeOK
  <2>6. r.timestamp <= storedAt[<<r.agent, r.nonce>>] + Window
    BY <1>2, <2>1, <2>2 DEF StoredInWindow
  <2>7. ~(now - r.timestamp > Window)
    BY <2>1, <2>2 DEF Expired
  <2> QED
    BY <2>4, <2>5, <2>6, <2>7, WindowAssumption
<1> QED
  BY <1>1, <1>2, InitReplayInv, NextReplayInv, NextStoredInWindow, PTL
  DEF Spec, AcceptedNoncesExpire
=============================================================================
