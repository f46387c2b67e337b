----------------------------- MODULE ArchiveLog -----------------------------
(***************************************************************************)
(* What an archival node promises to the readers of its database and to    *)
(* the subscribers of its web socket, whatever the deliveries, failures    *)
(* and restarts that happen inside the node:                               *)
(*   - a block and a transaction, once stored, stay as they are;           *)
(*   - the transactions of a block appear all at once, under a block that  *)
(*     is stored, and never a second time;                                 *)
(*   - a block is announced at most once, after its transactions are       *)
(*     stored, with exactly the transactions stored under it.              *)
(* ArchiveNode implements this specification.                              *)
(***************************************************************************)
EXTENDS Naturals, Sequences

CONSTANTS
    Blocks,     \* the blocks of the network
    Txs,        \* the transactions of the network
    TxobjList,  \* [Blocks -> Seq(Txs)], the transactions of a block, in order
    NoBlock     \* the absence of a block

VARIABLES
    blockTable, \* the rows of table Block
    txTable,    \* for each transaction the block its row refers to
    events      \* the BLOCK events sent to the subscribers, in order

vars == <<blockTable, txTable, events>>

TxsOf(b) == {TxobjList[b][i] : i \in DOMAIN TxobjList[b]}
StoredTxs == {t \in Txs : txTable[t] # NoBlock}
RowsUnder(b) == {t \in Txs : txTable[t] = b}

Init ==
    /\ blockTable = {}
    /\ txTable = [t \in Txs |-> NoBlock]
    /\ events = << >>

RecordBlock(b) ==
    /\ b \notin blockTable
    /\ blockTable' = blockTable \union {b}
    /\ UNCHANGED <<txTable, events>>

\* Every transaction of b that has no row yet gets one, in one step.
RecordTxs(b) ==
    /\ b \in blockTable
    /\ RowsUnder(b) = {}
    /\ TxsOf(b) \ StoredTxs # {}
    /\ txTable' = [t \in Txs |-> IF t \in TxsOf(b) \ StoredTxs THEN b
                                                               ELSE txTable[t]]
    /\ UNCHANGED <<blockTable, events>>

Announce(b) ==
    /\ RowsUnder(b) # {}
    /\ \A i \in DOMAIN events : events[i].block # b
    /\ events' = Append(events, [block |-> b, txs |-> RowsUnder(b)])
    /\ UNCHANGED <<blockTable, txTable>>

Next == \E b \in Blocks : RecordBlock(b) \/ RecordTxs(b) \/ Announce(b)

Spec == Init /\ [][Next]_vars
=============================================================================
