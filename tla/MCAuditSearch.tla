---------------------------- MODULE MCAuditSearch ----------------------------
(***************************************************************************)
(* An instance of AuditSearch for TLC: pages of two entries, and up to     *)
(* three writes, so that a page overflows and a second page begins.        *)
(***************************************************************************)
EXTENDS AuditSearch

\* By agent, by time, by both, and with every kind of missing or bad parameter.
Filters ==
    {[agent |-> a, startTime |-> None, endTime |-> None, decrypt |-> d] :
        a \in Agents, d \in BOOLEAN}
    \union {[agent |-> None, startTime |-> s, endTime |-> e, decrypt |-> FALSE] :
        s \in Times, e \in Times}
    \union {[agent |-> BadAgent, startTime |-> None, endTime |-> None, decrypt |-> FALSE],
            [agent |-> None, startTime |-> -1, endTime |-> 1, decrypt |-> FALSE],
            [agent |-> None, startTime |-> NotANumber, endTime |-> 1, decrypt |-> FALSE],
            [agent |-> None, startTime |-> 0, endTime |-> None, decrypt |-> FALSE]}

Request(f, local, offset, limit) ==
    [fromLocalhost |-> local, agent |-> f.agent, startTime |-> f.startTime,
     endTime |-> f.endTime, offset |-> offset, limit |-> limit, decrypt |-> f.decrypt]

Always == [agent |-> None, startTime |-> 0, endTime |-> MaxTime, decrypt |-> FALSE]

SomeRequests ==
    {Request(f, TRUE, 0, PageMax) : f \in Filters}
    \union {Request(Always, FALSE, 0, PageMax), Request(Always, TRUE, -1, 1),
            Request(Always, TRUE, 1, 0), Request(Always, TRUE, 1, PageMax + 1),
            Request(Always, TRUE, 1, None), Request(Always, TRUE, NotANumber, NotANumber)}

Option(a, from, to, limit, d) ==
    [agent |-> a, startTime |-> from, endTime |-> to, limit |-> limit, decrypt |-> d]

SomeOptions ==
    {Option(a, None, None, 1, TRUE) : a \in Agents}
    \union {Option(None, 0, 1, PageMax, TRUE), Option(None, 0, 1, PageMax + 1, FALSE),
            Option(None, 1, 0, 1, FALSE), Option(None, 0, None, 1, FALSE),
            Option(None, -1, 1, 1, FALSE), Option(None, None, None, 1, FALSE)}

Symmetry == Permutations(Agents) \union Permutations(EncryptionKeys)
=============================================================================
