---------------------------- MODULE BlockService ----------------------------
(***************************************************************************)
(* The JSON-RPC interface of the node: pushes and queries of one client    *)
(* (rpc.service.ts, block.service.ts, tx.service.ts), composed with the    *)
(* ingestion of ArchiveNode, which writes while the client reads.          *)
(*                                                                         *)
(* A query is several database reads, each of which sees the tables as     *)
(* they are then; a step is one read with the synchronous code after it.   *)
(* Rows are sorted by ts alone, so the order of rows with the same ts is   *)
(* open in every read.  Hashes identify blocks and transactions, and the   *)
(* ts of a transaction is that of the block it is stored under.            *)
(***************************************************************************)
EXTENDS ArchiveNode, Integers, FiniteSets

CONSTANTS
    PushCall,     \* the call of handleBlock that push_putBlock makes
    Ts,           \* [Blocks -> Nat], block.ts
    CategoryOf,   \* [Txs -> categories]
    SenderOf,     \* [Txs -> addresses]
    RecipientsOf, \* [Txs -> SUBSET addresses]
    Requests,     \* the requests a client may send
    Malformed,    \* pushed bytes that are no block
    CursorSize,   \* pageSize of push_getTransactions (30 in the code)
    None          \* no request, no parameter

ASSUME RequestsAssumption ==
    /\ PushCall \in Calls
    /\ Ts \in [Blocks -> Nat]
    /\ CursorSize \in Nat \ {0}
    /\ Malformed \notin Blocks
    /\ Blocks \intersect Txs = {}
    /\ None \notin Requests
    /\ \A r \in Requests :
        /\ r.startTime \in Nat /\ r.page \in Int /\ r.pageSize \in Nat
        /\ r.hashes \in Seq(Blocks \union {Malformed})

VARIABLES
    request, \* the request of the client, or None
    known,   \* the blocks and transactions that were stored when it was sent
    lane,    \* the queries in progress for it
    answer,  \* its answer: status and block entries
    reader,  \* a client that reads page after page
    push     \* a client that pushes blocks

query == <<lane, answer>>
serviceVars == <<vars, request, known, query, reader, push>>

TsOf(t) == Ts[txTable[t]]
Least(a, b) == IF a <= b THEN a ELSE b

(***************************************************************************)
(* A request is a record with the fields below, the defaults of            *)
(* rpc.service.ts where the client leaves a parameter out.                 *)
(***************************************************************************)
Defaults ==
    [method |-> "getBlocks", startTime |-> 0, direction |-> "DESC",
     showDetails |-> FALSE, pageSize |-> 10, page |-> 1, hash |-> None,
     category |-> None, recipient |-> None, sender |-> None, user |-> None,
     hashes |-> << >>]
Idle == [step |-> "off", total |-> 0, rows |-> << >>, next |-> 1, entries |-> << >>]
Lanes == {"block", "tx", "list"}

ServiceInit ==
    /\ Init
    /\ request = None
    /\ known = {}
    /\ lane = [l \in Lanes |-> Idle]
    /\ answer = [status |-> "none", blocks |-> << >>]
    /\ reader = [step |-> "off", page |-> 1, at |-> 0, rows |-> << >>, seen |-> {}]
    /\ push = [step |-> "off", items |-> << >>, statuses |-> << >>, failed |-> {}]
-----------------------------------------------------------------------------
(* What a query asks for *)

\* where: { ts: { gte or lte: startTime } }
InTime(ts) == IF request.direction = "ASC" THEN ts >= request.startTime
                                           ELSE ts <= request.startTime

Concerns(t, address) == SenderOf[t] = address \/ address \in RecipientsOf[t]

\* TxService.buildWhereClause
WhereClause(t) ==
    /\ InTime(TsOf(t))
    /\ request.category \in {None, CategoryOf[t]}
    /\ request.recipient = None \/ request.recipient \in RecipientsOf[t]
    /\ request.sender \in {None, SenderOf[t]}
    /\ request.user = None \/ Concerns(t, request.user)

Matching(l) == IF l = "block" THEN {b \in blockTable : InTime(Ts[b])}
                              ELSE {t \in StoredTxs : WhereClause(t)}

Before(x, y) == IF request.direction = "ASC" THEN x < y ELSE x > y

\* The orders in which orderBy: { ts } can return the rows of S.
Orders(S, TsOfRow(_)) ==
    {s \in [1..Cardinality(S) -> S] :
        /\ Elements(s) = S
        /\ \A i \in DOMAIN s : \A j \in 1..(i - 1) :
            ~Before(TsOfRow(s[i]), TsOfRow(s[j]))}

RowTs(l, row) == IF l = "block" THEN Ts[row] ELSE TsOf(row)

\* take and skip
Page(s, size, page) == SubSeq(s, (page - 1) * size + 1, Least(page * size, Len(s)))

\* Prisma rejects a negative skip.
SkipIsNegative == request.page < 1 /\ request.pageSize > 0
-----------------------------------------------------------------------------
\* The queries that a request starts: those that look one row up by its hash,
\* and those that count the rows and read a page of them.
LookedUp(r) ==
    {l \in {"block", "tx"} :
        \/ r.method = "searchByAddress"
        \/ l = "block" /\ r.method = "getBlockByHash"
        \/ l = "tx" /\ r.method = "getTxByHash"}
Counted(r) ==
    {l \in {"block", "list"} :
        \/ l = "list" /\ r.method \in {"getTxs", "searchByAddress"}
        \/ l = "block" /\ r.method = "getBlocks"}

Start(r) ==
    lane' = [l \in Lanes |-> [Idle EXCEPT !.step =
        IF l \in LookedUp(r) THEN "findOne"
        ELSE IF l \in Counted(r) THEN "count" ELSE "off"]]

\* The client sends a request.
Ask(r) ==
    /\ request = None
    /\ request' = r
    /\ known' = blockTable \union StoredTxs
    /\ Start(r)
    /\ reader' = CASE r.method = "getBlockHashesInternal" ->
                        [reader EXCEPT !.step = "count", !.page = r.page]
                   [] r.method = "push_getTransactions" ->
                        [reader EXCEPT !.step = "query", !.at = r.startTime]
                   [] OTHER -> reader
    /\ push' = IF r.method = "push_putBlockHash"
               THEN [push EXCEPT !.step = "snapshot"] ELSE push
    /\ UNCHANGED <<vars, answer>>

Moved(l, value) == lane' = [lane EXCEPT ![l] = value]
Reads == UNCHANGED <<vars, request, known, answer, reader, push>>

\* prisma.block.count, prisma.transaction.count
CountRows(l) ==
    /\ lane[l].step = "count"
    /\ Moved(l, [lane[l] EXCEPT !.step = "page", !.total = Cardinality(Matching(l))])
    /\ Reads

\* The entry of a listed block, whose details are not read yet.
Entry(b) == [block |-> b, total |-> 0, txs |-> {}, step |-> "count"]

Listed(l, s) == IF l = "block"
    THEN [lane[l] EXCEPT !.step = "details", !.rows = s,
                         !.entries = [i \in DOMAIN s |-> Entry(s[i])]]
    ELSE [lane[l] EXCEPT !.step = "group", !.rows = s]

\* findMany with where, orderBy, take and skip: another read than the count.
FindPage(l) ==
    /\ lane[l].step = "page"
    /\ IF SkipIsNegative
       THEN Moved(l, [lane[l] EXCEPT !.step = "error"])
       ELSE \E s \in Orders(Matching(l), LAMBDA row : RowTs(l, row)) :
                Moved(l, Listed(l, Page(s, request.pageSize, request.page)))
    /\ Reads

\* findUnique by hash, of push_getBlockByHash and push_getTransactionByHash
FindOne(l) ==
    LET table == IF l = "block" THEN blockTable ELSE StoredTxs IN
    /\ lane[l].step = "findOne"
    /\ Moved(l, Listed(l, IF request.hash \in table THEN <<request.hash>> ELSE << >>))
    /\ Reads
-----------------------------------------------------------------------------
(* push_getBlocksByTime, push_getBlockByHash: the details of each block, read
   for all of them at a time (Promise.all). *)

WithEntry(i, e) == Moved("block", [lane["block"] EXCEPT !.entries[i] = e])
CountTxs(i) ==
    LET e == lane["block"].entries[i] IN
    /\ e.step = "count"
    /\ WithEntry(i, [e EXCEPT !.total = Cardinality(RowsUnder(e.block)),
                              !.step = IF request.showDetails THEN "find" ELSE "done"])
    /\ Reads

\* Mutant of FindTxs: the details are cut at pageSize.
FindTxsOfPage(i) ==
    LET e == lane["block"].entries[i] IN
    /\ e.step = "find"
    /\ \E s \in Orders(RowsUnder(e.block), TsOf) :
        WithEntry(i, [e EXCEPT !.step = "done",
                               !.txs = Elements(Page(s, request.pageSize, 1))])
    /\ Reads

FindTxs(i) ==
    LET e == lane["block"].entries[i] IN
    /\ e.step = "find"
    /\ WithEntry(i, [e EXCEPT !.txs = RowsUnder(e.block), !.step = "done"])
    /\ Reads
-----------------------------------------------------------------------------
(* groupTransactionsByBlock, push_getTransactionByHash: the listed
   transactions under their blocks, one after the other. *)

EntriesOf(l, b) == {i \in DOMAIN lane[l].entries : lane[l].entries[i].block = b}

\* blocksMap.has(tx.block_hash): no read.
AddToEntry(l) ==
    LET t == lane[l].rows[lane[l].next] IN
    /\ lane[l].step = "group"
    /\ lane[l].next <= Len(lane[l].rows)
    /\ \E i \in EntriesOf(l, txTable[t]) :
        Moved(l, [lane[l] EXCEPT !.entries[i].txs = @ \union {t}, !.next = @ + 1])
    /\ Reads

\* prisma.block.findUnique of a block that has no entry yet; without the block
\* the transaction is left out.
FindBlockOfTx(l) ==
    LET t == lane[l].rows[lane[l].next] IN
    /\ lane[l].step = "group"
    /\ lane[l].next <= Len(lane[l].rows)
    /\ EntriesOf(l, txTable[t]) = {}
    /\ Moved(l, IF txTable[t] \in blockTable
                THEN [lane[l] EXCEPT !.step = "countTxs"]
                ELSE [lane[l] EXCEPT !.next = @ + 1])
    /\ Reads

\* transaction.count of that block, and its entry with the transaction in it
CountTxsOfBlock(l) ==
    LET t == lane[l].rows[lane[l].next]
        b == txTable[t]
    IN  /\ lane[l].step = "countTxs"
        /\ Moved(l, [lane[l] EXCEPT !.step = "group", !.next = @ + 1,
                !.entries = Append(@, [block |-> b, txs |-> {t}, step |-> "done",
                                       total |-> Cardinality(RowsUnder(b))])])
        /\ Reads
-----------------------------------------------------------------------------
Finished(l) ==
    \/ lane[l].step \in {"off", "error"}
    \/ lane[l].step = "details"
       /\ \A i \in DOMAIN lane[l].entries : lane[l].entries[i].step = "done"
    \/ lane[l].step = "group" /\ lane[l].next > Len(lane[l].rows)

Found(l) == lane[l].entries # << >>

\* The response; searchByAddress takes the block, the transaction or the list
\* of the recipient, and leaves a query that failed out.
Answer ==
    LET asked == {l \in Lanes : lane[l].step # "off"} IN
    /\ asked # {}
    /\ \A l \in Lanes : Finished(l)
    /\ answer' = [status |-> IF \A l \in asked : lane[l].step = "error"
                            THEN "error" ELSE "ok",
                  blocks |-> IF Found("block") THEN lane["block"].entries
                             ELSE IF Found("tx") THEN lane["tx"].entries
                             ELSE lane["list"].entries]
    /\ lane' = [l \in Lanes |-> Idle]
    /\ UNCHANGED <<vars, request, known, reader, push>>
-----------------------------------------------------------------------------
(* Clients that read to the end *)

Turn(value) ==
    /\ reader' = value
    /\ UNCHANGED <<vars, request, known, query, push>>

\* Mutant of FirstPage: page zero passes.
FirstPageZero(page) == IF page < 0 THEN 1 ELSE page

FirstPage(page) == IF page <= 0 THEN 1 ELSE page

\* push_getBlockHashByTimeInternal: the count only makes totalPages.
CountHashes ==
    /\ reader.step = "count"
    /\ Turn([reader EXCEPT !.step = "page", !.page = FirstPage(@)])

\* Mutant of FindHashes: pages are counted from zero.
FindHashesFromZero ==
    /\ reader.step = "page"
    /\ \E s \in Orders(Matching("block"), LAMBDA b : Ts[b]) :
        LET page == Page(s, request.pageSize, reader.page + 1) IN
        Turn([reader EXCEPT !.step = IF page = << >> THEN "done" ELSE "fetch",
                            !.rows = page])

\* findMany of the hashes; the client stops at an empty page.
FindHashes ==
    /\ reader.step = "page"
    /\ \E s \in Orders(Matching("block"), LAMBDA b : Ts[b]) :
        LET page == Page(s, request.pageSize, reader.page) IN
        Turn([reader EXCEPT !.step = IF page = << >> THEN "done" ELSE "fetch",
                            !.rows = page])

\* push_getBlocksByBlockHashesInternal: the data of each hash, or null.
FetchBlocks ==
    /\ reader.step = "fetch"
    /\ Turn([reader EXCEPT !.step = "count", !.page = @ + 1, !.rows = << >>,
                !.seen = @ \union (Elements(reader.rows) \intersect blockTable)])

\* BlockService.push_getTransactions: beyond the cursor, by a strict comparison.
Beyond(ts) == Before(reader.at, ts)
Candidates ==
    {t \in StoredTxs : /\ CategoryOf[t] = request.category
                            /\ Concerns(t, request.user)
                            /\ Beyond(TsOf(t))}

\* Mutant of FirstRows: FETCH FIRST without WITH TIES.
FirstRowsOnly(S) ==
    {{s[i] : i \in 1..Least(CursorSize, Len(s))} : s \in Orders(S, TsOf)}

\* FETCH FIRST n ROWS WITH TIES
FirstRows(S) ==
    {{t \in S : Cardinality({u \in S : Before(TsOf(u), TsOf(t))}) < CursorSize}}

\* lastTs
LastTs(S) == CHOOSE ts \in {TsOf(t) : t \in S} :
    \A t \in S : ~Before(ts, TsOf(t))

\* One call.  The client turns lastTs, which is in milliseconds, into the unix
\* seconds that the parameter firstTs wants, and stops when there are no items.
GetTransactions ==
    /\ reader.step = "query"
    /\ \E items \in FirstRows(Candidates) :
        Turn(IF items = {} THEN [reader EXCEPT !.step = "done"]
             ELSE [reader EXCEPT !.seen = @ \union items, !.at = LastTs(items)])
-----------------------------------------------------------------------------
(* A client that pushes: it asks which hashes the node wants, and sends them. *)

Pushes(value) ==
    /\ push' = value
    /\ UNCHANGED <<request, known, query, reader>>

\* push_putBlockHash: "SEND" for the hashes that are not in the table now; the
\* client sends these blocks, at their positions in the list.
PutBlockHash ==
    LET sent == {i \in DOMAIN request.hashes : request.hashes[i] \notin blockTable} IN
    /\ push.step = "snapshot"
    /\ Pushes([push EXCEPT !.step = "send",
                           !.items = [i \in sent |-> request.hashes[i]]])
    /\ UNCHANGED vars

\* The positions whose blocks have no status yet, and the first of them.
Remaining == DOMAIN push.items \ DOMAIN push.statuses
IsNext(i) == i \in Remaining /\ \A j \in Remaining : i <= j

Noted(i, status) ==
    [push EXCEPT !.step = "send",
                 !.statuses = [j \in DOMAIN push.statuses \union {i} |->
                                IF j = i THEN status ELSE push.statuses[j]]]

\* Mutant of Unparsable: the batch ends at a block that does not parse.
UnparsableEndsBatch(i) ==
    /\ push.step = "send"
    /\ IsNext(i)
    /\ push.items[i] = Malformed
    /\ Pushes([Noted(i, "REJECTED") EXCEPT !.step = "done"])
    /\ UNCHANGED vars

\* push_putBlock: parseBlock throws, the status says so, the loop goes on.
Unparsable(i) ==
    /\ push.step = "send"
    /\ IsNext(i)
    /\ push.items[i] = Malformed
    /\ Pushes(Noted(i, "REJECTED"))
    /\ UNCHANGED vars

\* push_putBlock: handleBlock of the next block
HandleBlock(i) ==
    /\ push.step = "send"
    /\ IsNext(i)
    /\ push.items[i] # Malformed
    /\ Deliver(PushCall, push.items[i])
    /\ Pushes([push EXCEPT !.step = "handling"])

\* its answer; handleBlock never answers [false, null], the "duplicate" branch.
Handled(i) ==
    /\ push.step = "handling"
    /\ IsNext(i)
    /\ Collect(PushCall)
    /\ Pushes(Noted(i, IF ok[PushCall] THEN "SUCCESS" ELSE "REJECTED"))

EndPush ==
    /\ push.step = "send"
    /\ Remaining = {}
    /\ Pushes([push EXCEPT !.step = "done"])
    /\ UNCHANGED vars
-----------------------------------------------------------------------------
(* The ingestion goes on: other callers, and failures of the database. *)

Client == <<request, known, query, reader, push>>

Ingest ==
    \/ \E c \in Calls \ {PushCall} :
        /\ \/ \E b \in Blocks : Deliver(c, b)
           \/ Collect(c)
           \/ DbError(c)
        /\ UNCHANGED Client
    \/ \E c \in Calls : Step(c) /\ UNCHANGED Client
    \/ /\ DbError(PushCall) \/ AnswerLost(PushCall)
       /\ Pushes([push EXCEPT !.failed = @ \union {i \in Remaining : IsNext(i)}])

ServiceNext ==
    \/ \E r \in Requests : Ask(r)
    \/ \E l \in {"block", "list"} : CountRows(l) \/ FindPage(l)
    \/ \E l \in {"block", "tx"} : FindOne(l)
    \/ \E i \in DOMAIN lane["block"].entries : CountTxs(i) \/ FindTxs(i)
    \/ \E l \in {"tx", "list"} : AddToEntry(l) \/ FindBlockOfTx(l) \/ CountTxsOfBlock(l)
    \/ Answer
    \/ CountHashes \/ FindHashes \/ FetchBlocks \/ GetTransactions
    \/ PutBlockHash \/ EndPush
    \/ \E i \in DOMAIN push.items : Unparsable(i) \/ HandleBlock(i) \/ Handled(i)
    \/ Ingest

ServiceSpec == ServiceInit /\ [][ServiceNext]_serviceVars
-----------------------------------------------------------------------------
(* Properties *)

Entries ==
    [block : Blocks, total : Nat, txs : SUBSET Txs,
     step : {"count", "find", "done"}]

\* Every variable has its type; no page before the first is ever read.
ServiceTypeOK ==
    /\ TypeOK
    /\ request \in Requests \union {None}
    /\ known \subseteq Blocks \union Txs
    /\ \A l \in Lanes :
        /\ lane[l].entries \in Seq(Entries)
        /\ lane[l].step = "countTxs" => lane[l].next \in DOMAIN lane[l].rows
    /\ answer \in [status : {"none", "ok", "error"}, blocks : Seq(Entries)]
    /\ reader.seen \subseteq Blocks \union Txs
    /\ reader.step = "page" => reader.page >= 1
    /\ DOMAIN push.statuses \subseteq DOMAIN push.items

\* The details of a block and its totalNumberOfTxns are read apart, and still
\* an answer never shows a part of a block's transactions nor fewer than it
\* counted.
DetailsAreWhole(e) ==
    /\ e.total \in {0, Cardinality(RowsUnder(e.block))}
    /\ e.txs \in {{}, RowsUnder(e.block)}
    /\ request.showDetails => e.total <= Cardinality(e.txs)

\* A listed transaction stands under its own block, with the block's total.
ListedAreWhole(e) ==
    /\ e.txs # {}
    /\ e.txs \subseteq RowsUnder(e.block)
    /\ e.total = Cardinality(RowsUnder(e.block))

\* What a query answers is one consistent view of each block, although it is
\* put together from several reads between which others insert; each block
\* has one entry, and what was stored when the client asked for its hash is found.
AnswersAreWhole ==
    answer.status = "ok" =>
        /\ \A i, j \in DOMAIN answer.blocks :
            answer.blocks[i].block = answer.blocks[j].block => i = j
        /\ \A e \in Elements(answer.blocks) :
            CASE request.method \in {"getBlocks", "getBlockByHash"} -> DetailsAreWhole(e)
              [] request.method \in {"getTxs", "getTxByHash"} -> ListedAreWhole(e)
              [] OTHER -> DetailsAreWhole(e) \/ ListedAreWhole(e)
        /\ request.hash \in known \intersect Blocks
                /\ request.method \in {"getBlockByHash", "searchByAddress"}
            => answer.blocks # << >>
        /\ request.hash \in known \intersect Txs
                /\ request.method \in {"getTxByHash", "searchByAddress"}
            => answer.blocks # << >>

ReaderDone(method) ==
    request # None /\ request.method = method /\ reader.step = "done"

\* A client that reads the hashes from the first page to an empty page gets
\* every block that was stored when it began and whose ts no other block has,
\* whatever is stored meanwhile: an insertion moves rows to later pages only.
PagesCoverStoredBlocks ==
    ReaderDone("getBlockHashesInternal")
            /\ request.page <= 1 /\ request.pageSize > 0 =>
        \A b \in known \intersect Blocks :
            InTime(Ts[b]) /\ (\A d \in blockTable \ {b} : Ts[d] # Ts[b])
                => b \in reader.seen

\* A client that follows lastTs gets every transaction of its category and
\* wallet that was stored when it began: the comparison with the cursor is
\* strict, so the rows that share a ts must come in one answer.
CursorCoversStoredTxs ==
    ReaderDone("push_getTransactions") =>
        \A t \in known \intersect Txs :
            /\ CategoryOf[t] = request.category
            /\ Concerns(t, request.user)
            /\ Before(request.startTime, TsOf(t))
            => t \in reader.seen

AddsNothing(b) == b \in blockTable \/ TxsOf(b) \subseteq StoredTxs

\* A batch is answered item by item: each SUCCESS is stored or adds nothing,
\* and so is each valid block for which the database did not fail, whatever
\* its status says and whatever its neighbours in the batch are.
PushedIsStored ==
    \A i \in DOMAIN push.statuses :
        LET b == push.items[i] IN
        /\ push.statuses[i] = "SUCCESS" => AddsNothing(b)
        /\ b # Malformed /\ i \notin push.failed =>
            (AddsNothing(b) \/ ~BlockIsValid(b))
        /\ push.step = "done" => DOMAIN push.statuses = DOMAIN push.items
=============================================================================
