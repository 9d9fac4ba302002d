----------------------------- MODULE AuditSearch -----------------------------
(***************************************************************************)
(* The audit trail as it is read back: the Audit contract                  *)
(* (src/contracts/Audit.sol), the search behind GET /admin/audit/search    *)
(* (src/src/api/handlers/admin.ts) and its command-line client             *)
(* (src/scripts/search-audit.ts).                                          *)
(*                                                                         *)
(* A write is acknowledged when the node has taken the transaction; it is  *)
(* mined later, so searches run while entries are still arriving.  A       *)
(* search is evaluated by the node at one moment (NodeReads) and answered  *)
(* at a later one.  The drivers of the other chains are simulations: they  *)
(* acknowledge writes that go nowhere and answer reads with an empty       *)
(* object.                                                                 *)
(*                                                                         *)
(* An entry is named by id, which stands for its payload and its hash.     *)
(***************************************************************************)
EXTENDS Integers, SequencesExt

CONSTANTS
    Agents,
    Requests,       \* parameters of requests to the endpoint
    CliOptions,     \* options of the command-line client
    Drivers,        \* chain.name of the configuration
    EncryptionKeys, \* values that AUDIT_ENCRYPTION_KEY may take over time
    PageMax,        \* the contract's cap on a page (100 in the code)
    DefaultLimit,   \* the limit of a request that gives none (50 in the code)
    MaxEntries,     \* bound: so many writes
    MaxTime,        \* bound: block time stops here
    NotANumber,     \* what parseInt makes of a parameter that is no number
    BadAgent,       \* a parameter that is no address
    None            \* a parameter left out; no search; no answer

Ids    == 1 .. MaxEntries
Times  == 0 .. MaxTime
Entry  == [agent : Agents, id : Ids, sealedBy : EncryptionKeys, timestamp : Times]

AgentParameter  == Agents \union {BadAgent, None}
NumberParameter == Int \union {NotANumber, None}
Filter == [agent : AgentParameter, startTime : NumberParameter, endTime : NumberParameter,
           offset : NumberParameter, limit : NumberParameter, decrypt : BOOLEAN]

ASSUME BoundsAssumption ==
    /\ PageMax \in Nat \ {0} /\ DefaultLimit \in 1 .. PageMax
    /\ MaxEntries \in Nat /\ MaxTime \in Nat
ASSUME ParameterAssumption ==
    /\ None \notin Agents \union Int \union {BadAgent, NotANumber}
    /\ BadAgent \notin Agents
    /\ NotANumber \notin Int
ASSUME RequestAssumption ==
    /\ Requests \subseteq [fromLocalhost : BOOLEAN, agent : AgentParameter,
                           startTime : NumberParameter, endTime : NumberParameter,
                           offset : NumberParameter, limit : NumberParameter, decrypt : BOOLEAN]
    /\ CliOptions \subseteq [agent : AgentParameter, startTime : NumberParameter,
                             endTime : NumberParameter, limit : NumberParameter,
                             decrypt : BOOLEAN]

VARIABLES
    driver,         \* the chain the process is configured for
    key,            \* the encryption key of the running process
    submitted,      \* writes so far
    pending,        \* transactions the node has taken, not yet mined
    entries,        \* the contract's entries
    entriesByAgent, \* the contract's index: positions in entries
    blockTime,      \* the timestamp of the current block
    search,         \* the suspended search, if any
    answer          \* history: what the last step answered, if it did

contract == <<entries, entriesByAgent>>
vars == <<driver, key, submitted, pending, contract, blockTime, search, answer>>

Init ==
    /\ driver \in Drivers
    /\ key \in EncryptionKeys
    /\ submitted = 0
    /\ pending = << >>
    /\ entries = << >>
    /\ entriesByAgent = [a \in Agents |-> << >>]
    /\ blockTime = 0
    /\ search = None
    /\ answer = None

-----------------------------------------------------------------------------
(* Writing: logAudit() and recordEntry() *)

\* Only HederaChainDriver talks to a chain.
Simulated == driver # "hedera"

\* writeContract succeeds: the entry, sealed under the process's key, is with
\* the node; or, in a simulation, nowhere.
LogAudit(a) ==
    /\ submitted < MaxEntries
    /\ submitted' = submitted + 1
    /\ pending' = IF Simulated THEN pending
                  ELSE Append(pending, [agent |-> a, id |-> submitted + 1, sealedBy |-> key])
    /\ answer' = None
    /\ UNCHANGED <<driver, key, contract, blockTime, search>>

\* Variant: the length is read after the push.
RecordEntryLate ==
    /\ pending # << >>
    /\ LET tx == Head(pending) IN
         /\ entries' = Append(entries, [agent |-> tx.agent, id |-> tx.id,
                              sealedBy |-> tx.sealedBy, timestamp |-> blockTime])
         /\ entriesByAgent' = [entriesByAgent EXCEPT ![tx.agent] = Append(@, Len(entries) + 2)]
    /\ pending' = Tail(pending)
    /\ answer' = None
    /\ UNCHANGED <<driver, key, submitted, blockTime, search>>

\* Variant: the newest entry of an agent comes first in the index.
RecordEntryNewestFirst ==
    /\ pending # << >>
    /\ LET tx == Head(pending) IN
         /\ entries' = Append(entries, [agent |-> tx.agent, id |-> tx.id,
                              sealedBy |-> tx.sealedBy, timestamp |-> blockTime])
         /\ entriesByAgent' = [entriesByAgent EXCEPT ![tx.agent] = Cons(Len(entries) + 1, @)]
    /\ pending' = Tail(pending)
    /\ answer' = None
    /\ UNCHANGED <<driver, key, submitted, blockTime, search>>

\* The transaction is mined: the entry is pushed and its position indexed.
RecordEntry ==
    /\ pending # << >>
    /\ LET tx == Head(pending) IN
         /\ entries' = Append(entries, [agent |-> tx.agent, id |-> tx.id,
                              sealedBy |-> tx.sealedBy, timestamp |-> blockTime])
         /\ entriesByAgent' = [entriesByAgent EXCEPT ![tx.agent] = Append(@, Len(entries) + 1)]
    /\ pending' = Tail(pending)
    /\ answer' = None
    /\ UNCHANGED <<driver, key, submitted, blockTime, search>>

\* The next block has a later timestamp; blocks may also share one.
NextBlock ==
    /\ blockTime < MaxTime
    /\ blockTime' = blockTime + 1
    /\ answer' = None
    /\ UNCHANGED <<driver, key, submitted, pending, contract, search>>

-----------------------------------------------------------------------------
(* The view functions of the contract *)

PageSize(count, offset, limit) ==
    LET available == IF count > offset THEN count - offset ELSE 0
    IN  IF available > limit THEN limit ELSE available

GetEntriesByAgent(a, offset, limit) ==
    LET indices == entriesByAgent[a]
    IN  [i \in 1 .. PageSize(Len(indices), offset, limit) |-> entries[indices[offset + i]]]

\* Variant: the second pass counts the matches from one.
GetEntriesByTimeRangeFromOne(startTime, endTime, offset, limit) ==
    LET Matches(e)  == startTime <= e.timestamp /\ e.timestamp <= endTime
        count       == Cardinality({i \in DOMAIN entries : Matches(entries[i])})
        resultCount == PageSize(count, offset, limit)
        Collect(p, e) ==
            IF Len(p.result) = resultCount \/ ~Matches(e) THEN p
            ELSE [result   |-> IF p.matchIdx >= offset THEN Append(p.result, e) ELSE p.result,
                  matchIdx |-> p.matchIdx + 1]
        pass[i \in 0 .. Len(entries)] ==
            IF i = 0 THEN [result |-> << >>, matchIdx |-> 1]
            ELSE Collect(pass[i - 1], entries[i])
    IN  pass[Len(entries)].result

\* Two passes over all entries: the first counts the matches, the second
\* collects those from offset on and stops when the page is full.
GetEntriesByTimeRange(startTime, endTime, offset, limit) ==
    LET Matches(e)  == startTime <= e.timestamp /\ e.timestamp <= endTime
        count       == Cardinality({i \in DOMAIN entries : Matches(entries[i])})
        resultCount == PageSize(count, offset, limit)
        Collect(p, e) ==
            IF Len(p.result) = resultCount \/ ~Matches(e) THEN p
            ELSE [result   |-> IF p.matchIdx >= offset THEN Append(p.result, e) ELSE p.result,
                  matchIdx |-> p.matchIdx + 1]
        pass[i \in 0 .. Len(entries)] ==
            IF i = 0 THEN [result |-> << >>, matchIdx |-> 0]
            ELSE Collect(pass[i - 1], entries[i])
    IN  pass[Len(entries)].result

-----------------------------------------------------------------------------
(* parseAuditSearchParams() and performAuditSearch() *)

\* A comparison with NaN is false, so only numbers are rejected.
ParamsRejected(p) ==
    \/ p.offset \in Int /\ p.offset < 0
    \/ p.limit \in Int /\ (p.limit < 1 \/ p.limit > PageMax)
    \/ p.startTime \in Int /\ p.startTime < 0
    \/ p.endTime \in Int /\ p.endTime < 0
    \/ p.startTime \in Int /\ p.endTime \in Int /\ p.startTime > p.endTime

\* The parameters as parsed, with their defaults; the answer repeats them.
Used(p) == [agent |-> p.agent, startTime |-> p.startTime, endTime |-> p.endTime,
            offset |-> IF p.offset = None THEN 0 ELSE p.offset,
            limit |-> IF p.limit = None THEN DefaultLimit ELSE p.limit,
            decrypt |-> p.decrypt]

ByAgent(f) == f.agent # None
ByTime(f)  == ~ByAgent(f) /\ f.startTime # None /\ f.endTime # None

Refusal(status) == answer' = [status |-> status]

\* The handler returns without asking the chain: not from localhost (403), bad
\* parameters or no filter (400), or BigInt of NaN, which throws (500).
SearchRefused(p) ==
    LET f == Used(p) IN
    /\ search = None
    /\ \/ ~p.fromLocalhost /\ Refusal(403)
       \/ /\ p.fromLocalhost
          /\ ParamsRejected(p) \/ ~(ByAgent(f) \/ ByTime(f))
          /\ Refusal(400)
       \/ /\ p.fromLocalhost /\ ~ParamsRejected(p)
          /\ ByTime(f) /\ NotANumber \in {f.startTime, f.endTime}
          /\ Refusal(500)
    /\ UNCHANGED <<driver, key, submitted, pending, contract, blockTime, search>>

SearchStarts(p) ==
    LET f == Used(p) IN
    /\ search = None
    /\ p.fromLocalhost /\ ~ParamsRejected(p)
    /\ \/ ByAgent(f)
       \/ ByTime(f) /\ NotANumber \notin {f.startTime, f.endTime}
    /\ search' = [filter |-> f, since |-> Len(entries), got |-> None]
    /\ answer' = None
    /\ UNCHANGED <<driver, key, submitted, pending, contract, blockTime>>

\* The call the handler makes: always the first page, whatever the offset and the
\* limit of the filter.
Asked(f) ==
    IF ByAgent(f) THEN GetEntriesByAgent(f.agent, 0, PageMax)
    ELSE GetEntriesByTimeRange(f.startTime, f.endTime, 0, PageMax)

\* The node evaluates the view function.  When it answers without data, or with data
\* that does not decode, the driver takes that for an empty list.
NodeReads ==
    /\ search # None /\ search.got = None
    /\ ~Simulated /\ search.filter.agent # BadAgent
    /\ \E found \in {Asked(search.filter), << >>} :
          search' = [search EXCEPT !.got = found]
    /\ answer' = None
    /\ UNCHANGED <<driver, key, submitted, pending, contract, blockTime>>

\* Variant: a row whose payload cannot be decrypted is left out.
ReportReadable(found, decrypt) ==
    LET Readable(e) == decrypt => e.sealedBy = key
        readable    == SelectSeq(found, Readable)
    IN  [i \in DOMAIN readable |->
           [id |-> readable[i].id, agent |-> readable[i].agent,
            timestamp |-> readable[i].timestamp,
            payload |-> IF decrypt THEN "plain" ELSE "sealed"]]

\* What the answer shows of the entries found: the payload is decrypted on
\* request, and null if it was sealed under another key (AES-GCM).
Report(found, decrypt) ==
    [i \in DOMAIN found |->
        [id |-> found[i].id, agent |-> found[i].agent, timestamp |-> found[i].timestamp,
         payload |-> IF ~decrypt THEN "sealed"
                     ELSE IF found[i].sealedBy = key THEN "plain" ELSE "null"]]

SearchAnswers ==
    /\ search # None /\ search.got # None
    /\ answer' = [status |-> 200, filter |-> search.filter, since |-> search.since,
                  rows |-> Report(search.got, search.filter.decrypt)]
    /\ search' = None
    /\ UNCHANGED <<driver, key, submitted, pending, contract, blockTime>>

\* The read fails (503): the arguments cannot be encoded, or the node does not
\* answer.  A simulated driver answers {}, which has no map() (500).
SearchFails ==
    /\ search # None
    /\ IF Simulated THEN Refusal(500) ELSE Refusal(503)
    /\ search' = None
    /\ UNCHANGED <<driver, key, submitted, pending, contract, blockTime>>

\* The process restarts, perhaps with another key.
Restart(k) ==
    /\ key' = k
    /\ search' = None
    /\ answer' = None
    /\ UNCHANGED <<driver, submitted, pending, contract, blockTime>>

-----------------------------------------------------------------------------
(* search-audit.ts *)

\* The options with which the client sends a request, after its own checks.
CliAccepts(o) ==
    /\ o.agent # None \/ o.startTime # None \/ o.endTime # None
    /\ o.limit \in 1 .. PageMax
    /\ o.startTime = None <=> o.endTime = None
    /\ o.startTime # None =>
           /\ o.startTime \in Int /\ o.endTime \in Int
           /\ o.startTime <= o.endTime

\* It sends no offset, and says that it comes from localhost.
CliRequest(o) ==
    [fromLocalhost |-> TRUE, agent |-> o.agent, startTime |-> o.startTime,
     endTime |-> o.endTime, offset |-> 0, limit |-> o.limit, decrypt |-> o.decrypt]

CliSearches(o) ==
    /\ CliAccepts(o)
    /\ SearchRefused(CliRequest(o)) \/ SearchStarts(CliRequest(o))

Next ==
    \/ \E a \in Agents : LogAudit(a)
    \/ RecordEntry
    \/ NextBlock
    \/ \E p \in Requests : SearchRefused(p) \/ SearchStarts(p)
    \/ \E o \in CliOptions : CliSearches(o)
    \/ NodeReads
    \/ SearchAnswers
    \/ SearchFails
    \/ \E k \in EncryptionKeys : Restart(k)

Spec == Init /\ [][Next]_vars

-----------------------------------------------------------------------------
(* Properties *)

Transaction == [agent : Agents, id : Ids, sealedBy : EncryptionKeys]

TypeOK ==
    /\ driver \in Drivers
    /\ key \in EncryptionKeys
    /\ submitted \in 0 .. MaxEntries
    /\ pending \in Seq(Transaction)
    /\ entries \in Seq(Entry)
    /\ entriesByAgent \in [Agents -> Seq(1 .. Len(entries))]
    /\ blockTime \in Times
    /\ search # None => /\ search.filter \in Filter
                        /\ search.since \in 0 .. MaxEntries
                        /\ search.got # None => search.got \in Seq(Entry)
    /\ answer # None => answer.status \in {200, 400, 403, 500, 503}
    /\ answer # None /\ answer.status = 200 =>
           /\ answer.filter \in Filter
           /\ answer.since \in 0 .. MaxEntries

\* How many of the positions M come before j.
Rank(M, j) == Cardinality({i \in M : i < j})

\* A page of the positions M, in their order: per row, the position shown in it.
PageOf(M, offset, limit) ==
    [k \in {Rank(M, j) - offset + 1 : j \in M} \intersect 1 .. limit |->
        CHOOSE j \in M : Rank(M, j) - offset + 1 = k]

EntriesAt(page) == [k \in DOMAIN page |-> entries[page[k]]]

OfAgent(a)        == {i \in DOMAIN entries : entries[i].agent = a}
InRange(from, to) == {i \in DOMAIN entries : from <= entries[i].timestamp
                                            /\ entries[i].timestamp <= to}

\* The positions that a filter asks for.
Wanted(f) == IF ByAgent(f) THEN OfAgent(f.agent) ELSE InRange(f.startTime, f.endTime)

(* Whatever page is asked for, the index of the agents and the two-pass scan of *)
(* the times answer it like a plain selection of the entries: an offset past    *)
(* the end gives an empty page, and the early stop of the scan loses nothing.   *)
PagesAreExact ==
    \A offset \in 0 .. MaxEntries, limit \in 0 .. PageMax :
        /\ \A a \in Agents :
              GetEntriesByAgent(a, offset, limit) = EntriesAt(PageOf(OfAgent(a), offset, limit))
        /\ \A from, to \in Times :
              from <= to =>
                  GetEntriesByTimeRange(from, to, offset, limit) =
                      EntriesAt(PageOf(InRange(from, to), offset, limit))

\* The rows show a page of the filter's entries, as they were at one moment between
\* the request and the answer.
ShowsPage(offset, limit) ==
    \E n \in answer.since .. Len(entries) :
        LET page == PageOf(Wanted(answer.filter) \intersect 1 .. n, offset, limit)
        IN  /\ DOMAIN answer.rows = DOMAIN page
            /\ \A k \in DOMAIN page : answer.rows[k].id = entries[page[k]].id

\* No row shows a payload that was not asked for, or that another key sealed.
ShowsNoMore ==
    \A k \in DOMAIN answer.rows :
        LET row == answer.rows[k] IN
        /\ row.payload = "sealed" <=> ~answer.filter.decrypt
        /\ row.payload = "plain" =>
               \E i \in DOMAIN entries : entries[i].id = row.id /\ entries[i].sealedBy = key

(* A successful answer is empty, which may also mean that nothing came that     *)
(* could be decoded (hedera.ts:120, :132), or it is the first page of the       *)
(* filter's entries at one moment between the request and the answer: writes    *)
(* mined meanwhile and a restart with another key do not tear it, no row is     *)
(* dropped because its payload cannot be decrypted, and no payload is shown     *)
(* that was not asked for.                                                      *)
SearchIsCurrent ==
    answer # None /\ answer.status = 200 =>
        /\ answer.rows = << >> \/ ShowsPage(0, PageMax)
        /\ ShowsNoMore

(* "Pagination offset (default: 0)", "Pagination limit (default: 50, max: 100)" *)
(* (admin.ts:19, :20): an answer that is not empty is the page with the offset  *)
(* and the limit that it repeats from the request.                              *)
PageIsAsAsked ==
    answer # None /\ answer.status = 200 /\ answer.rows # << >>
        /\ answer.filter.offset \in Int /\ answer.filter.limit \in Int
    => ShowsPage(answer.filter.offset, answer.filter.limit)

(* A page once read never shifts: while the trail grows, a page of an agent or  *)
(* of a time range only grows at its end, so pages read one after the other     *)
(* join without a gap or a repetition.                                          *)
PagesAreStable ==
    [][contract' # contract =>
        \A offset \in 0 .. MaxEntries :
            /\ \A a \in Agents :
                  IsPrefix(GetEntriesByAgent(a, offset, PageMax),
                           GetEntriesByAgent(a, offset, PageMax)')
            /\ \A from, to \in Times :
                  IsPrefix(GetEntriesByTimeRange(from, to, offset, PageMax),
                           GetEntriesByTimeRange(from, to, offset, PageMax)')]_vars
=============================================================================
