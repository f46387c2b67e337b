----------------------------- MODULE ArchiveNode ----------------------------
(***************************************************************************)
(* ArchiveNodeService: the ingestion of blocks (archive-node.service.ts).  *)
(*                                                                         *)
(* handleBlock(block) is called by the queue poller, by push_putBlock and  *)
(* by the archive synchronisation.  The process is one event loop, but     *)
(* every database call is an await, so the calls in flight interleave      *)
(* there, and no database transaction spans two awaits.  A step below is a *)
(* database call together with the synchronous code after it, which only   *)
(* touches the call's own variables.  validateBlock also reads the         *)
(* contract state, which events change, and is a step of its own.          *)
(*                                                                         *)
(* The database can fail a call, commit a write and lose the answer, and   *)
(* the process can crash between two steps (Failures = TRUE).              *)
(***************************************************************************)
EXTENDS Naturals, Sequences

CONSTANTS
    Calls,        \* slots for the calls of handleBlock that are in flight
    Blocks,       \* the blocks that can be delivered
    Txs,          \* their transactions
    Nodes,        \* node ids that sign blocks
    TxobjList,    \* [Blocks -> Seq(Txs)], block.getTxobjList()
    Signers,      \* [Blocks -> Seq(Nodes)], the address each signature recovers to
    ValPerBlocks, \* the values the contract's valPerBlock takes
    Failures,     \* whether the database and the process can fail
    NoBlock       \* no row, no block

ASSUME ConstantsAssumption ==
    /\ TxobjList \in [Blocks -> Seq(Txs)]
    /\ Signers \in [Blocks -> Seq(Nodes)]
    /\ NoBlock \notin Blocks
    /\ ValPerBlocks # {}
    /\ Failures \in BOOLEAN

VARIABLES
    blockTable,  \* the block hashes in table Block (primary key block_hash)
    txTable,     \* table Transaction: txn_hash -> block_hash (primary key txn_hash)
    events,      \* the BLOCK events broadcast so far
    vnodes,      \* keys of ValidatorContractState's map of validator nodes
    valPerBlock, \* contractCli.valPerBlock
    pc,          \* the next step of each call
    block,       \* its block
    next,        \* the index in TxobjList[block] that prepareTransactionsData is at
    rows,        \* transactionsData: the transactions to insert
    ok           \* the answer of a call that returned

tables == <<blockTable, txTable>>
contract == <<vnodes, valPerBlock>>
locals == <<pc, block, next, rows, ok>>
vars == <<blockTable, txTable, events, vnodes, valPerBlock, pc, block, next, rows, ok>>

DbSteps == {"findBlock", "findTx", "createBlock", "createTxs"}
Steps == DbSteps \union {"validate", "broadcast"}

TxsOf(b) == {TxobjList[b][i] : i \in DOMAIN TxobjList[b]}
StoredTxs == {t \in Txs : txTable[t] # NoBlock}
RowsUnder(b) == {t \in Txs : txTable[t] = b}
Elements(s) == {s[i] : i \in DOMAIN s}
NoRepeats(s) == \A i, j \in DOMAIN s : s[i] = s[j] => i = j
-----------------------------------------------------------------------------
Init ==
    /\ blockTable = {}
    /\ txTable = [t \in Txs |-> NoBlock]
    /\ events = << >>
    /\ vnodes \in SUBSET Nodes
    /\ valPerBlock \in ValPerBlocks
    /\ pc = [c \in Calls |-> "idle"]
    /\ block = [c \in Calls |-> NoBlock]
    /\ next = [c \in Calls |-> 1]
    /\ rows = [c \in Calls |-> << >>]
    /\ ok = [c \in Calls |-> FALSE]

Goto(c, step) ==
    /\ pc' = [pc EXCEPT ![c] = step]
    /\ UNCHANGED <<block, next, rows, ok>>

\* Mutant of Return: the index survives the call.
ReturnKeepsIndex(c, answer) ==
    /\ pc' = [pc EXCEPT ![c] = "done"]
    /\ rows' = [rows EXCEPT ![c] = << >>]
    /\ ok' = [ok EXCEPT ![c] = answer]
    /\ UNCHANGED <<block, next>>

\* handleBlock resolves to [answer, ...].
Return(c, answer) ==
    /\ pc' = [pc EXCEPT ![c] = "done"]
    /\ next' = [next EXCEPT ![c] = 1]
    /\ rows' = [rows EXCEPT ![c] = << >>]
    /\ ok' = [ok EXCEPT ![c] = answer]
    /\ UNCHANGED block

\* A caller delivers block b.
Deliver(c, b) ==
    /\ pc[c] = "idle"
    /\ pc' = [pc EXCEPT ![c] = "findBlock"]
    /\ block' = [block EXCEPT ![c] = b]
    /\ UNCHANGED <<next, rows, ok, tables, events, contract>>

\* The caller has read the answer.
Collect(c) ==
    /\ pc[c] = "done"
    /\ pc' = [pc EXCEPT ![c] = "idle"]
    /\ block' = [block EXCEPT ![c] = NoBlock]
    /\ ok' = [ok EXCEPT ![c] = FALSE]
    /\ UNCHANGED <<next, rows, tables, events, contract>>

\* prisma.block.findUnique
IsBlockAlreadyStored(c) ==
    /\ pc[c] = "findBlock"
    /\ IF block[c] \in blockTable THEN Return(c, TRUE) ELSE Goto(c, "validate")
    /\ UNCHANGED <<tables, events, contract>>

\* Mutant of BlockIsValid: signatures are counted and never recovered.
BlockHasSignatures(b) == Len(Signers[b]) = valPerBlock

\* BlockUtil.checkBlockAsSNode
BlockIsValid(b) ==
    /\ Len(Signers[b]) = valPerBlock
    /\ \A i \in DOMAIN Signers[b] : Signers[b][i] \in vnodes

ValidateBlock(c) ==
    /\ pc[c] = "validate"
    /\ IF BlockIsValid(block[c]) THEN Goto(c, "findTx") ELSE Return(c, FALSE)
    /\ UNCHANGED <<tables, events, contract>>

\* One turn of prepareTransactionsData: prisma.transaction.findUnique.  A
\* transaction that the block repeats is not stored yet at either turn.
FindTx(c) ==
    LET list == TxobjList[block[c]] IN
    /\ pc[c] = "findTx"
    /\ next[c] <= Len(list)
    /\ rows' = [rows EXCEPT ![c] = IF list[next[c]] \in StoredTxs
                                   THEN @ ELSE Append(@, list[next[c]])]
    /\ next' = [next EXCEPT ![c] = @ + 1]
    /\ UNCHANGED <<pc, block, ok, tables, events, contract>>

\* Mutants of Prepared: transactions before the block; a block of which
\* anything is known is taken for known; the last transaction is left out.
PreparedTxsFirst(c) ==
    /\ pc[c] = "findTx"
    /\ next[c] > Len(TxobjList[block[c]])
    /\ IF rows[c] = << >> THEN Return(c, TRUE) ELSE Goto(c, "createTxs")
    /\ UNCHANGED <<tables, events, contract>>

PreparedSkipsPartial(c) ==
    /\ pc[c] = "findTx"
    /\ next[c] > Len(TxobjList[block[c]])
    /\ IF Len(rows[c]) < Len(TxobjList[block[c]])
       THEN Return(c, TRUE) ELSE Goto(c, "createBlock")
    /\ UNCHANGED <<tables, events, contract>>

PreparedTooSoon(c) ==
    /\ pc[c] = "findTx"
    /\ next[c] >= Len(TxobjList[block[c]])
    /\ IF rows[c] = << >> THEN Return(c, TRUE) ELSE Goto(c, "createBlock")
    /\ UNCHANGED <<tables, events, contract>>

\* The list is exhausted: nothing to insert means success without the block.
Prepared(c) ==
    /\ pc[c] = "findTx"
    /\ next[c] > Len(TxobjList[block[c]])
    /\ IF rows[c] = << >> THEN Return(c, TRUE) ELSE Goto(c, "createBlock")
    /\ UNCHANGED <<tables, events, contract>>

\* Mutant of CreateBlock: an existing block is waited for.
CreateBlockWaits(c) ==
    /\ pc[c] = "createBlock"
    /\ block[c] \notin blockTable
    /\ Goto(c, "createTxs")
    /\ blockTable' = blockTable \union {block[c]}
    /\ UNCHANGED <<txTable, events, contract>>

\* prisma.block.create, rejected by the primary key when the block is there.
CreateBlock(c) ==
    /\ pc[c] = "createBlock"
    /\ IF block[c] \in blockTable
       THEN Return(c, FALSE) /\ UNCHANGED blockTable
       ELSE Goto(c, "createTxs") /\ blockTable' = blockTable \union {block[c]}
    /\ UNCHANGED <<txTable, events, contract>>

\* Mutant of InsertRows: one INSERT per row, and the rest may not come.
InsertSomeRows(c) ==
    \E k \in DOMAIN rows[c] :
        txTable' = [t \in Txs |-> IF \E i \in 1..k : rows[c][i] = t
                                  THEN block[c] ELSE txTable[t]]

InsertRows(c) ==
    txTable' = [t \in Txs |-> IF t \in Elements(rows[c]) THEN block[c] ELSE txTable[t]]

\* Mutant of RowsConflict: the insertion replaces existing rows.
RowsReplace(c) == ~NoRepeats(rows[c])

RowsConflict(c) == ~NoRepeats(rows[c]) \/ Elements(rows[c]) \intersect StoredTxs # {}

\* Mutants of CreateTxs: skipDuplicates of createMany; no announcement.
CreateTxsSkipDuplicates(c) ==
    /\ pc[c] = "createTxs"
    /\ Goto(c, "broadcast")
    /\ txTable' = [t \in Txs |-> IF t \in Elements(rows[c]) \ StoredTxs
                                 THEN block[c] ELSE txTable[t]]
    /\ UNCHANGED <<blockTable, events, contract>>

CreateTxsSilently(c) ==
    /\ pc[c] = "createTxs"
    /\ IF RowsConflict(c)
       THEN Return(c, FALSE) /\ UNCHANGED txTable
       ELSE Return(c, TRUE) /\ InsertRows(c)
    /\ UNCHANGED <<blockTable, events, contract>>

\* prisma.transaction.createMany: one INSERT, all the rows or none.
CreateTxs(c) ==
    /\ pc[c] = "createTxs"
    /\ IF RowsConflict(c)
       THEN Return(c, FALSE) /\ UNCHANGED txTable
       ELSE Goto(c, "broadcast") /\ InsertRows(c)
    /\ UNCHANGED <<blockTable, events, contract>>

\* Mutant of Broadcast: all the block's transactions are announced.
BroadcastWholeBlock(c) ==
    /\ pc[c] = "broadcast"
    /\ events' = Append(events, [block |-> block[c], txs |-> TxsOf(block[c])])
    /\ Return(c, TRUE)
    /\ UNCHANGED <<tables, contract>>

\* filterBlockData and eventBroadcaster.broadcast
Broadcast(c) ==
    /\ pc[c] = "broadcast"
    /\ events' = Append(events, [block |-> block[c], txs |-> Elements(rows[c])])
    /\ Return(c, TRUE)
    /\ UNCHANGED <<tables, contract>>

\* Mutant of DbError: a swallowed error.
DbErrorSwallowed(c) ==
    /\ Failures
    /\ pc[c] \in DbSteps
    /\ Return(c, TRUE)
    /\ UNCHANGED <<tables, events, contract>>

\* A database call fails: handleBlock catches the error.
DbError(c) ==
    /\ Failures
    /\ pc[c] \in DbSteps
    /\ Return(c, FALSE)
    /\ UNCHANGED <<tables, events, contract>>

\* A write is committed and its answer is lost: an error for handleBlock.
AnswerLost(c) ==
    /\ Failures
    /\ \/ /\ pc[c] = "createBlock"
          /\ block[c] \notin blockTable
          /\ blockTable' = blockTable \union {block[c]}
          /\ UNCHANGED txTable
       \/ /\ pc[c] = "createTxs"
          /\ ~RowsConflict(c)
          /\ InsertRows(c)
          /\ UNCHANGED blockTable
    /\ Return(c, FALSE)
    /\ UNCHANGED <<events, contract>>

\* The process dies with its calls and comes back with the contract's values.
Crash ==
    /\ Failures
    /\ pc' = [c \in Calls |-> "idle"]
    /\ block' = [c \in Calls |-> NoBlock]
    /\ next' = [c \in Calls |-> 1]
    /\ rows' = [c \in Calls |-> << >>]
    /\ ok' = [c \in Calls |-> FALSE]
    /\ vnodes' \in SUBSET Nodes
    /\ valPerBlock' \in ValPerBlocks
    /\ UNCHANGED <<tables, events>>

\* Contract event NodeAdded of a validator; nodes are never taken off the map.
NodeAdded(n) ==
    /\ vnodes' = vnodes \union {n}
    /\ UNCHANGED <<tables, events, valPerBlock, locals>>

\* Contract event BlockParamsUpdated
BlockParamsUpdated(v) ==
    /\ valPerBlock' = v
    /\ UNCHANGED <<tables, events, vnodes, locals>>

\* What the event loop and a database that answers owe to a call.
Step(c) ==
    \/ IsBlockAlreadyStored(c)
    \/ ValidateBlock(c)
    \/ FindTx(c)
    \/ Prepared(c)
    \/ CreateBlock(c)
    \/ CreateTxs(c)
    \/ Broadcast(c)

Next ==
    \/ \E c \in Calls :
        \/ \E b \in Blocks : Deliver(c, b)
        \/ Collect(c)
        \/ Step(c)
        \/ DbError(c)
        \/ AnswerLost(c)
    \/ Crash
    \/ \E n \in Nodes : NodeAdded(n)
    \/ \E v \in ValPerBlocks : BlockParamsUpdated(v)

Spec == Init /\ [][Next]_vars

FairSpec == Spec /\ \A c \in Calls : WF_vars(Step(c))
-----------------------------------------------------------------------------
(* Safety *)

\* Every variable has its type; a call scans within its own block.
TypeOK ==
    /\ blockTable \subseteq Blocks
    /\ txTable \in [Txs -> Blocks \union {NoBlock}]
    /\ events \in Seq([block : Blocks, txs : SUBSET Txs])
    /\ vnodes \subseteq Nodes
    /\ valPerBlock \in ValPerBlocks
    /\ pc \in [Calls -> Steps \union {"idle", "done"}]
    /\ block \in [Calls -> Blocks \union {NoBlock}]
    /\ next \in [Calls -> Nat \ {0}]
    /\ rows \in [Calls -> Seq(Txs)]
    /\ ok \in [Calls -> BOOLEAN]
    /\ \A c \in Calls :
        /\ pc[c] # "idle" =>
            block[c] \in Blocks /\ next[c] <= Len(TxobjList[block[c]]) + 1
        /\ pc[c] \in {"idle", "findBlock", "validate", "done"} => next[c] = 1

\* A transaction row refers to a stored block that contains the transaction,
\* although block.create and transaction.createMany are separate commits.
RowsReferToStoredBlocks ==
    \A t \in StoredTxs : txTable[t] \in blockTable /\ t \in TxsOf(txTable[t])

\* A block never gets some of its transactions: once a row refers to it, all
\* its transactions are stored (some perhaps under an earlier block), although
\* they were looked up one by one, before the insertion, while others inserted.
AllOrNothing ==
    \A b \in Blocks : RowsUnder(b) # {} => TxsOf(b) \subseteq StoredTxs

\* What subscribers were told of a block is, now and for ever, what the tables
\* say: exactly the transactions stored under it.
EventsMatchTables ==
    \A i \in DOMAIN events :
        /\ events[i].txs # {}
        /\ events[i].txs = RowsUnder(events[i].block)

\* No block and no transaction is announced twice, whatever is delivered again.
AnnouncedOnce ==
    \A i, j \in DOMAIN events :
        i # j => /\ events[i].block # events[j].block
                 /\ events[i].txs \intersect events[j].txs = {}

\* [true, null] means that the block is stored or that it adds nothing: its
\* sender may forget it.
Acked(c) ==
    pc[c] = "done" /\ ok[c] =>
        block[c] \in blockTable \/ TxsOf(block[c]) \subseteq StoredTxs

AcksAreDurable == \A c \in Calls : Acked(c)

(***************************************************************************)
(* The inductive invariant: what the tables and the events satisfy         *)
(* (StoreInv), what each call knows at each of its steps about the tables  *)
(* that the others change meanwhile (CallKnows), and the exclusion between *)
(* calls that write the same block (Exclusive).                            *)
(***************************************************************************)
InProgress(c) == pc[c] \in {"createTxs", "broadcast"}
NotAnnounced(b) == \A i \in DOMAIN events : events[i].block # b

StoreInv ==
    /\ RowsReferToStoredBlocks
    /\ AllOrNothing
    /\ EventsMatchTables
    /\ AnnouncedOnce

Fresh(c) ==
    pc[c] \in {"idle", "findBlock", "validate", "done"} => rows[c] = << >>

Scanning(c) ==
    pc[c] = "findTx" =>
        /\ Elements(rows[c]) \subseteq TxsOf(block[c])
        /\ \A j \in 1..(next[c] - 1) :
            TxobjList[block[c]][j] \in StoredTxs \union Elements(rows[c])

Ready(c) ==
    pc[c] \in {"createBlock", "createTxs", "broadcast"} =>
        /\ rows[c] # << >>
        /\ Elements(rows[c]) \subseteq TxsOf(block[c])
        /\ TxsOf(block[c]) \subseteq StoredTxs \union Elements(rows[c])

Writing(c) ==
    InProgress(c) =>
        /\ block[c] \in blockTable
        /\ NotAnnounced(block[c])
        /\ RowsUnder(block[c]) =
            IF pc[c] = "createTxs" THEN {} ELSE Elements(rows[c])

CallKnows(c) == Fresh(c) /\ Scanning(c) /\ Ready(c) /\ Writing(c) /\ Acked(c)

Exclusive ==
    \A c, d \in Calls :
        InProgress(c) /\ InProgress(d) /\ block[c] = block[d] => c = d

CallsInv == (\A c \in Calls : CallKnows(c)) /\ Exclusive

\* Every reachable state satisfies the invariant that the proofs use.
InductiveInv == TypeOK /\ StoreInv /\ CallsInv

\* When a block is inserted, every signer is a validator this process knows:
\* the set was read several awaits before (validateBlock), and may have changed.
InsertedUnderKnownSigners ==
    [][\A b \in blockTable' \ blockTable : Elements(Signers[b]) \subseteq vnodes]_vars

\* A stored block whose insertion is not in progress has all its transactions
\* stored: the "comprehensive log of all processed transactions" of README.md.
ComprehensiveLog ==
    \A b \in blockTable :
        \/ TxsOf(b) \subseteq StoredTxs
        \/ \E c \in Calls : pc[c] = "createTxs" /\ block[c] = b

\* No other block contains a transaction of b, and b has none twice.
Disjoint(b) ==
    /\ NoRepeats(TxobjList[b])
    /\ \A d \in Blocks \ {b} : TxsOf(b) \intersect TxsOf(d) = {}

\* Without failures a disjoint block is complete whenever it is stored and not
\* in progress, however many calls handle it and others at a time.
DisjointBlocksAreComplete ==
    \A b \in blockTable : Disjoint(b) =>
        \/ TxsOf(b) \subseteq StoredTxs
        \/ \E c \in Calls : pc[c] = "createTxs" /\ block[c] = b

\* The ingestion implements the promise to readers and subscribers.
Log == INSTANCE ArchiveLog
    WITH blockTable <- blockTable, txTable <- txTable, events <- events
ImplementsArchiveLog == Log!Spec
-----------------------------------------------------------------------------
(* Liveness, under FairSpec *)

\* handleBlock resolves: no call waits for another one.
EveryCallReturns ==
    \A c \in Calls : pc[c] # "idle" ~> pc[c] \in {"idle", "done"}

\* Without failures a block that passed the validation is stored or adds
\* nothing, also when other calls take its transactions first.
ValidatedIsStored ==
    \A c \in Calls, b \in Blocks :
        pc[c] = "findTx" /\ block[c] = b
            ~> b \in blockTable \/ TxsOf(b) \subseteq StoredTxs

\* Without failures subscribers learn of every disjoint block that is stored.
DisjointBlocksAreAnnounced ==
    \A b \in Blocks : Disjoint(b) =>
        (b \in blockTable ~> \E i \in DOMAIN events : events[i].block = b)
=============================================================================
