-------------------------- MODULE ArchiveNodeProofs -------------------------
(***************************************************************************)
(* Theorems about ArchiveNode, for any blocks, any transactions in them,   *)
(* any number of calls in flight, with or without failures.                *)
(***************************************************************************)
EXTENDS ArchiveNode, TLAPS

\* Appending to a sequence adds its element and nothing else.
LEMMA ElementsAppend ==
    ASSUME NEW S, NEW s \in Seq(S), NEW e \in S
    PROVE  Elements(Append(s, e)) = Elements(s) \union {e}
<1> DEFINE r == Append(s, e)
<1>1. DOMAIN r = DOMAIN s \union {Len(s) + 1} /\ r[Len(s) + 1] = e
    OBVIOUS
<1>2. \A i \in DOMAIN s : r[i] = s[i]
    OBVIOUS
<1> HIDE DEF r
<1>3. Elements(r) = Elements(s) \union {e}
    BY <1>1, <1>2 DEF Elements
<1> QED
    BY <1>3 DEF r

\* Exactly the empty sequence has no elements.
LEMMA ElementsEmpty ==
    ASSUME NEW S, NEW s \in Seq(S)
    PROVE  Elements(s) = {} <=> s = << >>
BY DEF Elements
-----------------------------------------------------------------------------
(* Type correctness *)

TablesTyped ==
    /\ blockTable \subseteq Blocks
    /\ txTable \in [Txs -> Blocks \union {NoBlock}]
    /\ events \in Seq([block : Blocks, txs : SUBSET Txs])
    /\ vnodes \subseteq Nodes
    /\ valPerBlock \in ValPerBlocks

CallTyped(c) ==
    /\ pc[c] # "idle" =>
        block[c] \in Blocks /\ next[c] <= Len(TxobjList[block[c]]) + 1
    /\ pc[c] \in {"idle", "findBlock", "validate", "done"} => next[c] = 1

LocalsTyped ==
    /\ pc \in [Calls -> Steps \union {"idle", "done"}]
    /\ block \in [Calls -> Blocks \union {NoBlock}]
    /\ next \in [Calls -> Nat \ {0}]
    /\ rows \in [Calls -> Seq(Txs)]
    /\ ok \in [Calls -> BOOLEAN]
    /\ \A c \in Calls : CallTyped(c)

\* The length of a block's transaction list is a natural number.
LEMMA ListLength ==
    \A b \in Blocks : TxobjList[b] \in Seq(Txs) /\ Len(TxobjList[b]) \in Nat
BY ConstantsAssumption

\* A call goes on to its next step.
LEMMA GotoTyped ==
    ASSUME LocalsTyped, NEW c \in Calls, NEW step \in Steps \ {"findBlock"},
           pc[c] # "idle", step = "validate" => next[c] = 1, Goto(c, step)
    PROVE  LocalsTyped'
BY ListLength DEF LocalsTyped, CallTyped, Goto, Steps, DbSteps

\* A call returns.
LEMMA ReturnTyped ==
    ASSUME LocalsTyped, NEW c \in Calls, NEW answer \in BOOLEAN,
           pc[c] # "idle", Return(c, answer)
    PROVE  LocalsTyped'
BY ListLength DEF LocalsTyped, CallTyped, Return

\* Rows are inserted under the block of the call.
LEMMA InsertTyped ==
    ASSUME TablesTyped, LocalsTyped, NEW c \in Calls, pc[c] # "idle", InsertRows(c)
    PROVE  txTable' \in [Txs -> Blocks \union {NoBlock}]
BY DEF TablesTyped, LocalsTyped, CallTyped, InsertRows

\* Nothing is stored and no call is in flight initially.
LEMMA InitTypeOK == Init => TypeOK
BY ConstantsAssumption DEF Init, TypeOK, Steps, DbSteps

\* One case per action; the index of a call moves only within its block.
LEMMA NextTypeOK == TypeOK /\ [Next]_vars => TypeOK'
<1> SUFFICES ASSUME TablesTyped, LocalsTyped, [Next]_vars
             PROVE  TablesTyped' /\ LocalsTyped'
    BY DEF TypeOK, TablesTyped, LocalsTyped, CallTyped
<1> USE DEF tables, contract, locals
<1>1. ASSUME NEW c \in Calls, NEW b \in Blocks, Deliver(c, b)
      PROVE  TablesTyped' /\ LocalsTyped'
    <2>1. TablesTyped'
        BY <1>1 DEF Deliver, TablesTyped
    <2>2. next[c] = 1 /\ next[c] <= Len(TxobjList[b]) + 1
        BY <1>1, ListLength DEF Deliver, LocalsTyped, CallTyped
    <2>3. \A d \in Calls : CallTyped(d)'
        BY <1>1, <2>2 DEF Deliver, LocalsTyped, CallTyped
    <2>4. LocalsTyped'
        BY <1>1, <2>3 DEF Deliver, LocalsTyped, Steps, DbSteps
    <2> QED
        BY <2>1, <2>4
<1>2. ASSUME NEW c \in Calls, Collect(c) PROVE TablesTyped' /\ LocalsTyped'
    BY <1>2 DEF Collect, TablesTyped, LocalsTyped, CallTyped
<1>3. ASSUME NEW c \in Calls, IsBlockAlreadyStored(c)
      PROVE  TablesTyped' /\ LocalsTyped'
    <2>1. TablesTyped'
        BY <1>3 DEF IsBlockAlreadyStored, TablesTyped
    <2>2. pc[c] # "idle" /\ next[c] = 1
        BY <1>3 DEF IsBlockAlreadyStored, LocalsTyped, CallTyped
    <2>3. Return(c, TRUE) \/ Goto(c, "validate")
        BY <1>3 DEF IsBlockAlreadyStored
    <2> QED
        BY <2>1, <2>2, <2>3, ReturnTyped, GotoTyped DEF Steps, DbSteps
<1>4. ASSUME NEW c \in Calls, ValidateBlock(c) PROVE TablesTyped' /\ LocalsTyped'
    <2>1. TablesTyped'
        BY <1>4 DEF ValidateBlock, TablesTyped
    <2>2. pc[c] # "idle"
        BY <1>4 DEF ValidateBlock
    <2>3. Return(c, FALSE) \/ Goto(c, "findTx")
        BY <1>4 DEF ValidateBlock
    <2> QED
        BY <2>1, <2>2, <2>3, ReturnTyped, GotoTyped DEF Steps, DbSteps
<1>5. ASSUME NEW c \in Calls, FindTx(c) PROVE TablesTyped' /\ LocalsTyped'
    <2>1. TablesTyped'
        BY <1>5 DEF FindTx, TablesTyped
    <2> DEFINE list == TxobjList[block[c]]
    <2>2. /\ block[c] \in Blocks
          /\ list[next[c]] \in Txs
          /\ next[c] + 1 <= Len(list) + 1
        BY <1>5, ListLength DEF FindTx, LocalsTyped, CallTyped
    <2>3. rows' \in [Calls -> Seq(Txs)]
        BY <1>5, <2>2 DEF FindTx, LocalsTyped
    <2>4. LocalsTyped'
        BY <1>5, <2>2, <2>3 DEF FindTx, LocalsTyped, CallTyped
    <2> QED
        BY <2>1, <2>4
<1>6. ASSUME NEW c \in Calls, Prepared(c) PROVE TablesTyped' /\ LocalsTyped'
    <2>1. TablesTyped'
        BY <1>6 DEF Prepared, TablesTyped
    <2>2. pc[c] # "idle" /\ (Return(c, TRUE) \/ Goto(c, "createBlock"))
        BY <1>6 DEF Prepared
    <2> QED
        BY <2>1, <2>2, ReturnTyped, GotoTyped DEF Steps, DbSteps
<1>7. ASSUME NEW c \in Calls, CreateBlock(c) PROVE TablesTyped' /\ LocalsTyped'
    <2>1. TablesTyped'
        BY <1>7 DEF CreateBlock, TablesTyped, LocalsTyped, CallTyped
    <2>2. pc[c] # "idle" /\ (Return(c, FALSE) \/ Goto(c, "createTxs"))
        BY <1>7 DEF CreateBlock
    <2> QED
        BY <2>1, <2>2, ReturnTyped, GotoTyped DEF Steps, DbSteps
<1>8. ASSUME NEW c \in Calls, CreateTxs(c) PROVE TablesTyped' /\ LocalsTyped'
    <2>1. pc[c] # "idle" /\ (Return(c, FALSE) \/ Goto(c, "broadcast"))
        BY <1>8 DEF CreateTxs
    <2>2. UNCHANGED txTable \/ InsertRows(c)
        BY <1>8 DEF CreateTxs
    <2>3. TablesTyped'
        BY <1>8, <2>1, <2>2, InsertTyped DEF CreateTxs, TablesTyped
    <2> QED
        BY <2>1, <2>3, ReturnTyped, GotoTyped DEF Steps, DbSteps
<1>9. ASSUME NEW c \in Calls, Broadcast(c) PROVE TablesTyped' /\ LocalsTyped'
    <2>1. block[c] \in Blocks /\ Elements(rows[c]) \subseteq Txs
        BY <1>9 DEF Broadcast, LocalsTyped, CallTyped, Elements
    <2>2. TablesTyped'
        BY <1>9, <2>1 DEF Broadcast, TablesTyped
    <2> QED
        BY <1>9, <2>2, ReturnTyped DEF Broadcast
<1>10. ASSUME NEW c \in Calls, DbError(c) PROVE TablesTyped' /\ LocalsTyped'
    <2>1. TablesTyped'
        BY <1>10 DEF DbError, TablesTyped
    <2> QED
        BY <1>10, <2>1, ReturnTyped DEF DbError, DbSteps
<1>11. ASSUME NEW c \in Calls, AnswerLost(c) PROVE TablesTyped' /\ LocalsTyped'
    <2>1. pc[c] # "idle" /\ Return(c, FALSE)
        BY <1>11 DEF AnswerLost
    <2>2. TablesTyped'
        BY <1>11, <2>1, InsertTyped
        DEF AnswerLost, TablesTyped, LocalsTyped, CallTyped
    <2> QED
        BY <2>1, <2>2, ReturnTyped
<1>12. CASE Crash
    BY <1>12 DEF Crash, TablesTyped, LocalsTyped, CallTyped
<1>13. ASSUME NEW n \in Nodes, NodeAdded(n) PROVE TablesTyped' /\ LocalsTyped'
    BY <1>13 DEF NodeAdded, TablesTyped, LocalsTyped, CallTyped
<1>14. ASSUME NEW v \in ValPerBlocks, BlockParamsUpdated(v)
       PROVE  TablesTyped' /\ LocalsTyped'
    BY <1>14 DEF BlockParamsUpdated, TablesTyped, LocalsTyped, CallTyped
<1>15. CASE UNCHANGED vars
    BY <1>15 DEF vars, TablesTyped, LocalsTyped, CallTyped
<1> QED
    BY <1>1, <1>2, <1>3, <1>4, <1>5, <1>6, <1>7, <1>8, <1>9, <1>10, <1>11,
       <1>12, <1>13, <1>14, <1>15 DEF Next, Step

\* Every reachable state is well typed, for every value of the constants.
THEOREM TypeCorrect == Spec => []TypeOK
BY InitTypeOK, NextTypeOK, PTL DEF Spec
-----------------------------------------------------------------------------
(* The inductive invariant *)

\* Step of call c: the other calls keep their variables.
OthersUnchanged(c) ==
    \A d \in Calls \ {c} :
        /\ pc'[d] = pc[d]
        /\ block'[d] = block[d]
        /\ next'[d] = next[d]
        /\ rows'[d] = rows[d]
        /\ ok'[d] = ok[d]

\* Nothing is stored, announced or in progress initially.
LEMMA InitInv == Init => StoreInv /\ CallsInv
<1> SUFFICES ASSUME Init PROVE StoreInv /\ CallsInv
    OBVIOUS
<1>1. StoredTxs = {} /\ \A b \in Blocks : RowsUnder(b) = {}
    BY ConstantsAssumption DEF Init, StoredTxs, RowsUnder
<1>2. StoreInv
    BY <1>1 DEF Init, StoreInv, RowsReferToStoredBlocks, AllOrNothing,
                EventsMatchTables, AnnouncedOnce
<1>3. \A c \in Calls : pc[c] = "idle" /\ rows[c] = << >>
    BY DEF Init
<1>4. CallsInv
    BY <1>3 DEF CallsInv, CallKnows, Fresh, Scanning, Ready, Writing, Acked,
                Exclusive, InProgress
<1> QED
    BY <1>2, <1>4

\* A call that goes on leaves the other calls alone.
LEMMA GotoOthers ==
    ASSUME LocalsTyped, NEW c \in Calls, NEW step, Goto(c, step)
    PROVE  /\ OthersUnchanged(c)
           /\ pc'[c] = step
           /\ UNCHANGED <<block, next, rows, ok>>
BY DEF LocalsTyped, Goto, OthersUnchanged

\* A call that returns leaves the other calls alone.
LEMMA ReturnOthers ==
    ASSUME LocalsTyped, NEW c \in Calls, NEW answer, Return(c, answer)
    PROVE  /\ OthersUnchanged(c)
           /\ pc'[c] = "done" /\ rows'[c] = << >> /\ ok'[c] = answer
           /\ UNCHANGED block
BY DEF LocalsTyped, Return, OthersUnchanged

\* A step of call c that touches neither the tables nor the events.
LEMMA LocalStep ==
    ASSUME StoreInv, CallsInv, NEW c \in Calls,
           UNCHANGED <<blockTable, txTable, events>>,
           OthersUnchanged(c), CallKnows(c)',
           InProgress(c)' => InProgress(c) /\ block'[c] = block[c]
    PROVE  StoreInv' /\ CallsInv'
<1>1. StoreInv'
    BY DEF StoreInv, RowsReferToStoredBlocks, AllOrNothing, EventsMatchTables,
           AnnouncedOnce, StoredTxs, RowsUnder
<1>2. ASSUME NEW d \in Calls \ {c} PROVE CallKnows(d)'
    BY <1>2 DEF CallsInv, CallKnows, OthersUnchanged, Fresh, Scanning, Ready,
                Writing, Acked, InProgress, NotAnnounced, StoredTxs, RowsUnder
<1>3. Exclusive'
    BY DEF CallsInv, Exclusive, OthersUnchanged, InProgress
<1> QED
    BY <1>1, <1>2, <1>3 DEF CallsInv

\* A call that returns without a write only has to be right about its answer.
LEMMA ReturnStep ==
    ASSUME LocalsTyped, StoreInv, CallsInv, NEW c \in Calls, NEW answer \in BOOLEAN,
           Return(c, answer), UNCHANGED <<blockTable, txTable, events>>,
           answer => block[c] \in blockTable \/ TxsOf(block[c]) \subseteq StoredTxs
    PROVE  StoreInv' /\ CallsInv'
<1>1. /\ OthersUnchanged(c)
      /\ pc'[c] = "done" /\ rows'[c] = << >> /\ ok'[c] = answer
      /\ UNCHANGED block
    BY ReturnOthers
<1>2. CallKnows(c)'
    BY <1>1 DEF CallKnows, Fresh, Scanning, Ready, Writing, Acked, InProgress,
                StoredTxs
<1> QED
    BY <1>1, <1>2, LocalStep DEF InProgress

\* An index of a sequence leads to an element of its set.
LEMMA SeqElement ==
    ASSUME NEW S, NEW s \in Seq(S), NEW i \in DOMAIN s
    PROVE  s[i] \in S
OBVIOUS

\* Appending an event adds it after the events before.
LEMMA EventElements ==
    ASSUME TablesTyped
    PROVE  \A i \in DOMAIN events : events[i].block \in Blocks
<1> DEFINE R == [block : Blocks, txs : SUBSET Txs]
<1>1. events \in Seq(R)
    BY DEF TablesTyped
<1>2. \A r \in R : r.block \in Blocks
    OBVIOUS
<1> HIDE DEF R
<1> QED
    BY <1>1, <1>2, SeqElement

\* A block without a row has no transaction row and no announcement either.
LEMMA AbsentBlock ==
    ASSUME TablesTyped, StoreInv, NEW b \in Blocks, b \notin blockTable
    PROVE  RowsUnder(b) = {} /\ NotAnnounced(b)
<1>1. RowsUnder(b) = {}
    BY ConstantsAssumption DEF StoreInv, RowsReferToStoredBlocks, RowsUnder, StoredTxs
<1>2. NotAnnounced(b)
    BY <1>1 DEF StoreInv, EventsMatchTables, NotAnnounced
<1> QED
    BY <1>1, <1>2

\* The row of a block is added by call c, which goes on or has lost the answer.
LEMMA BlockRowStep ==
    ASSUME TablesTyped, LocalsTyped, StoreInv, CallsInv, NEW c \in Calls,
           pc[c] = "createBlock", block[c] \notin blockTable,
           blockTable' = blockTable \union {block[c]}, UNCHANGED <<txTable, events>>,
           Goto(c, "createTxs") \/ Return(c, FALSE)
    PROVE  StoreInv' /\ CallsInv'
<1>1. block[c] \in Blocks /\ RowsUnder(block[c]) = {} /\ NotAnnounced(block[c])
    BY AbsentBlock DEF LocalsTyped, CallTyped
<1>2. /\ OthersUnchanged(c)
      /\ UNCHANGED block
      /\ \/ pc'[c] = "createTxs" /\ UNCHANGED <<next, rows, ok>>
         \/ pc'[c] = "done" /\ rows'[c] = << >> /\ ok'[c] = FALSE
    BY GotoOthers, ReturnOthers
<1>3. StoreInv'
    BY DEF StoreInv, RowsReferToStoredBlocks, AllOrNothing, EventsMatchTables,
           AnnouncedOnce, StoredTxs, RowsUnder
<1>4. ASSUME NEW d \in Calls \ {c} PROVE CallKnows(d)'
    BY <1>2, <1>4 DEF CallsInv, CallKnows, OthersUnchanged, Fresh, Scanning, Ready,
                      Writing, Acked, InProgress, NotAnnounced, StoredTxs, RowsUnder
<1>5. CallKnows(c)'
    BY <1>1, <1>2 DEF CallsInv, CallKnows, Fresh, Scanning, Ready, Writing, Acked,
                      InProgress, NotAnnounced, StoredTxs, RowsUnder
<1>6. \A d \in Calls : InProgress(d) => block[d] # block[c]
    BY DEF CallsInv, CallKnows, Writing
<1>7. Exclusive'
    BY <1>2, <1>6 DEF CallsInv, Exclusive, OthersUnchanged, InProgress
<1> QED
    BY <1>3, <1>4, <1>5, <1>7 DEF CallsInv

\* What the insertion of c's rows does to the table.
LEMMA InsertedRows ==
    ASSUME TablesTyped, LocalsTyped, NEW c \in Calls, pc[c] # "idle",
           ~RowsConflict(c), InsertRows(c)
    PROVE  /\ StoredTxs' = StoredTxs \union Elements(rows[c])
           /\ Elements(rows[c]) \intersect StoredTxs = {}
           /\ Elements(rows[c]) \subseteq Txs
           /\ \A t \in Txs \ Elements(rows[c]) : txTable'[t] = txTable[t]
           /\ \A t \in Elements(rows[c]) : txTable'[t] = block[c]
           /\ \A b \in Blocks : RowsUnder(b)' =
                IF b = block[c] THEN RowsUnder(b) \union Elements(rows[c])
                                ELSE RowsUnder(b)
<1>1. Elements(rows[c]) \subseteq Txs /\ block[c] \in Blocks /\ block[c] # NoBlock
    BY ConstantsAssumption DEF LocalsTyped, CallTyped, Elements
<1>2. Elements(rows[c]) \intersect StoredTxs = {}
    BY DEF RowsConflict
<1>3. \A t \in Txs : txTable'[t] = IF t \in Elements(rows[c]) THEN block[c]
                                                            ELSE txTable[t]
    BY DEF InsertRows
<1>4. StoredTxs' = StoredTxs \union Elements(rows[c])
    BY <1>1, <1>3 DEF StoredTxs
<1>5. \A b \in Blocks : \A t \in Elements(rows[c]) : txTable[t] # b
    BY <1>1, <1>2, ConstantsAssumption DEF StoredTxs
<1>6. \A b \in Blocks : RowsUnder(b)' =
        IF b = block[c] THEN RowsUnder(b) \union Elements(rows[c]) ELSE RowsUnder(b)
    BY <1>1, <1>3, <1>5 DEF RowsUnder
<1> QED
    BY <1>1, <1>2, <1>3, <1>4, <1>6

\* The rows are added by call c, which goes on or has lost the answer.
LEMMA TxRowsStep ==
    ASSUME TablesTyped, LocalsTyped, StoreInv, CallsInv, NEW c \in Calls,
           pc[c] = "createTxs", ~RowsConflict(c), InsertRows(c),
           UNCHANGED <<blockTable, events>>,
           Goto(c, "broadcast") \/ Return(c, FALSE)
    PROVE  StoreInv' /\ CallsInv'
<1> DEFINE new == Elements(rows[c])
<1>1. /\ block[c] \in Blocks
      /\ block[c] \in blockTable
      /\ NotAnnounced(block[c])
      /\ RowsUnder(block[c]) = {}
      /\ new \subseteq TxsOf(block[c])
      /\ TxsOf(block[c]) \subseteq StoredTxs \union new
    BY DEF LocalsTyped, CallTyped, CallsInv, CallKnows, Ready, Writing, InProgress
<1>2. /\ StoredTxs' = StoredTxs \union new
      /\ new \intersect StoredTxs = {}
      /\ new \subseteq Txs
      /\ \A t \in Txs \ new : txTable'[t] = txTable[t]
      /\ \A t \in new : txTable'[t] = block[c]
      /\ \A b \in Blocks : RowsUnder(b)' =
            IF b = block[c] THEN RowsUnder(b) \union new ELSE RowsUnder(b)
    BY InsertedRows
<1>3. /\ OthersUnchanged(c)
      /\ UNCHANGED block
      /\ \/ pc'[c] = "broadcast" /\ UNCHANGED <<next, rows, ok>>
         \/ pc'[c] = "done" /\ rows'[c] = << >> /\ ok'[c] = FALSE
    BY GotoOthers, ReturnOthers
<1> HIDE DEF new
<1>4. StoreInv'
    <2>1. RowsReferToStoredBlocks'
        <3>1. ASSUME NEW t \in StoredTxs'
              PROVE  txTable'[t] \in blockTable /\ t \in TxsOf(txTable'[t])
            <4>1. CASE t \in new
                BY <1>1, <1>2, <4>1
            <4>2. CASE t \notin new
                BY <1>2, <3>1, <4>2 DEF StoreInv, RowsReferToStoredBlocks, StoredTxs
            <4> QED
                BY <4>1, <4>2
        <3> QED
            BY <3>1 DEF RowsReferToStoredBlocks, TxsOf
    <2>2. AllOrNothing'
        BY <1>1, <1>2 DEF StoreInv, AllOrNothing, TxsOf
    <2>3. EventsMatchTables'
        <3>1. \A i \in DOMAIN events : events[i].block \in Blocks
            BY EventElements
        <3>2. \A i \in DOMAIN events : RowsUnder(events[i].block)' = RowsUnder(events[i].block)
            BY <1>1, <1>2, <3>1 DEF NotAnnounced
        <3> QED
            BY <3>2 DEF StoreInv, EventsMatchTables, RowsUnder
    <2>4. AnnouncedOnce'
        BY DEF StoreInv, AnnouncedOnce
    <2> QED
        BY <2>1, <2>2, <2>3, <2>4 DEF StoreInv
<1>5. ASSUME NEW d \in Calls \ {c} PROVE CallKnows(d)'
    <2>1. CallKnows(d) /\ (InProgress(d) => block[d] # block[c] /\ block[d] \in Blocks)
        BY DEF CallsInv, Exclusive, InProgress, LocalsTyped, CallTyped
    <2>2. Fresh(d)' /\ Scanning(d)' /\ Ready(d)' /\ Acked(d)'
        <3>1. Fresh(d)'
            BY <1>3, <2>1 DEF CallKnows, OthersUnchanged, Fresh
        <3>2. Scanning(d)'
            BY <1>2, <1>3, <2>1 DEF CallKnows, OthersUnchanged, Scanning, TxsOf,
                                    Elements
        <3>3. Ready(d)'
            BY <1>2, <1>3, <2>1 DEF CallKnows, OthersUnchanged, Ready, TxsOf, Elements
        <3>4. Acked(d)'
            BY <1>2, <1>3, <2>1 DEF CallKnows, OthersUnchanged, Acked, TxsOf
        <3> QED
            BY <3>1, <3>2, <3>3, <3>4
    <2>3. InProgress(d) => RowsUnder(block[d])' = RowsUnder(block[d])
        <3>1. \A b \in Blocks : b # block[c] =>
                {t \in Txs : txTable'[t] = b} = {t \in Txs : txTable[t] = b}
            BY <1>2 DEF RowsUnder
        <3> QED
            BY <1>3, <2>1, <3>1 DEF RowsUnder
    <2>4. Writing(d)'
        <3>1. /\ pc'[d] = pc[d] /\ block'[d] = block[d]
              /\ Elements(rows[d])' = Elements(rows[d])
            BY <1>3 DEF OthersUnchanged, Elements
        <3>2. ASSUME InProgress(d)
              PROVE  /\ block[d] \in blockTable
                     /\ NotAnnounced(block[d])
                     /\ RowsUnder(block[d])' =
                            IF pc[d] = "createTxs" THEN {} ELSE Elements(rows[d])
            BY <2>1, <2>3, <3>2 DEF CallKnows, Writing
        <3>3. NotAnnounced(block[d]) => NotAnnounced(block[d])'
            BY <3>1 DEF NotAnnounced
        <3> QED
            BY <3>1, <3>2, <3>3 DEF Writing, InProgress
    <2> QED
        BY <2>2, <2>4 DEF CallKnows
<1>6. CallKnows(c)'
    <2>1. Fresh(c)' /\ Scanning(c)' /\ Acked(c)'
        BY <1>3 DEF Fresh, Scanning, Acked
    <2>2. Ready(c)'
        BY <1>1, <1>2, <1>3 DEF CallsInv, CallKnows, Ready, TxsOf, Elements, new
    <2>3. Writing(c)'
        BY <1>1, <1>2, <1>3 DEF Writing, InProgress, NotAnnounced, RowsUnder,
                                Elements, new
    <2> QED
        BY <2>1, <2>2, <2>3 DEF CallKnows
<1>7. Exclusive'
    BY <1>3 DEF CallsInv, Exclusive, OthersUnchanged, InProgress
<1> QED
    BY <1>4, <1>5, <1>6, <1>7 DEF CallsInv

\* The announcement by call c, the only call that writes its block.
LEMMA AnnounceStep ==
    ASSUME TablesTyped, LocalsTyped, StoreInv, CallsInv, NEW c \in Calls, Broadcast(c)
    PROVE  StoreInv' /\ CallsInv'
<1> DEFINE e == [block |-> block[c], txs |-> Elements(rows[c])]
<1>1. /\ pc[c] = "broadcast"
      /\ UNCHANGED <<blockTable, txTable>>
      /\ events' = Append(events, e)
      /\ Return(c, TRUE)
    BY DEF Broadcast, tables
<1>2. /\ block[c] \in blockTable
      /\ NotAnnounced(block[c])
      /\ RowsUnder(block[c]) = Elements(rows[c])
      /\ rows[c] # << >>
      /\ rows[c] \in Seq(Txs)
    BY <1>1 DEF CallsInv, CallKnows, Writing, Ready, InProgress, LocalsTyped
<1>3. Elements(rows[c]) # {}
    BY <1>2, ElementsEmpty
<1>4. /\ OthersUnchanged(c)
      /\ UNCHANGED block
      /\ pc'[c] = "done" /\ rows'[c] = << >> /\ ok'[c] = TRUE
    BY <1>1, ReturnOthers
<1>5. /\ DOMAIN events' = DOMAIN events \union {Len(events) + 1}
      /\ Len(events) + 1 \notin DOMAIN events
      /\ \A i \in DOMAIN events : events'[i] = events[i]
      /\ events'[Len(events) + 1] = e
    BY <1>1 DEF TablesTyped
<1> DEFINE n == Len(events) + 1
<1>6. e.block = block[c] /\ e.txs = RowsUnder(block[c]) /\ e.txs # {}
    BY <1>2, <1>3
<1> HIDE DEF e, n
<1>7. StoreInv'
    <2>1. RowsReferToStoredBlocks' /\ AllOrNothing'
        BY <1>1 DEF StoreInv, RowsReferToStoredBlocks, AllOrNothing, StoredTxs,
                    RowsUnder
    <2>2. EventsMatchTables'
        BY <1>1, <1>5, <1>6 DEF StoreInv, EventsMatchTables, RowsUnder, n
    <2>3. \A i \in DOMAIN events :
            events[i].block # e.block /\ events[i].txs \intersect e.txs = {}
        BY <1>2, <1>6 DEF NotAnnounced, StoreInv, EventsMatchTables, RowsUnder
    <2>4. AnnouncedOnce'
        BY <1>5, <2>3 DEF StoreInv, AnnouncedOnce
    <2> QED
        BY <2>1, <2>2, <2>4 DEF StoreInv
<1>8. ASSUME NEW d \in Calls \ {c} PROVE CallKnows(d)'
    <2>1. CallKnows(d) /\ (InProgress(d) => block[d] # block[c])
        BY <1>1 DEF CallsInv, Exclusive, InProgress
    <2>2. Fresh(d)' /\ Scanning(d)' /\ Ready(d)' /\ Acked(d)'
        BY <1>1, <1>4, <2>1 DEF CallKnows, OthersUnchanged, Fresh, Scanning, Ready,
                                Acked, StoredTxs
    <2>3. InProgress(d) => NotAnnounced(block[d])'
        BY <1>4, <1>5, <1>6, <2>1 DEF CallKnows, Writing, NotAnnounced
    <2>4. Writing(d)'
        BY <1>1, <1>4, <2>1, <2>3 DEF CallKnows, OthersUnchanged, Writing,
                                      InProgress, RowsUnder
    <2> QED
        BY <2>2, <2>4 DEF CallKnows
<1>9. CallKnows(c)'
    BY <1>1, <1>2, <1>4 DEF CallKnows, Fresh, Scanning, Ready, Writing, Acked,
                            InProgress
<1>10. Exclusive'
    BY <1>4 DEF CallsInv, Exclusive, OthersUnchanged, InProgress
<1> QED
    BY <1>7, <1>8, <1>9, <1>10 DEF CallsInv

\* One turn of the scan: the transaction is stored already, or among the rows.
LEMMA ScanStep ==
    ASSUME LocalsTyped, StoreInv, CallsInv, NEW c \in Calls, FindTx(c)
    PROVE  StoreInv' /\ CallsInv'
<1> DEFINE list == TxobjList[block[c]]
           t == list[next[c]]
<1>1. /\ pc[c] = "findTx" /\ block[c] \in Blocks
      /\ next[c] \in 1..Len(list) /\ next[c] \in DOMAIN list /\ t \in Txs
      /\ rows[c] \in Seq(Txs)
    BY ListLength DEF FindTx, LocalsTyped, CallTyped
<1>2. /\ UNCHANGED <<blockTable, txTable, events, pc, block, ok>>
      /\ next'[c] = next[c] + 1
      /\ rows'[c] = IF t \in StoredTxs THEN rows[c] ELSE Append(rows[c], t)
      /\ OthersUnchanged(c)
    BY DEF FindTx, LocalsTyped, OthersUnchanged, tables
<1>3. /\ Elements(rows'[c]) \subseteq Elements(rows[c]) \union {t}
      /\ Elements(rows[c]) \subseteq Elements(rows'[c])
      /\ t \in StoredTxs \union Elements(rows'[c])
    BY <1>1, <1>2, ElementsAppend
<1>4. /\ Elements(rows[c]) \subseteq TxsOf(block[c])
      /\ \A j \in 1..(next[c] - 1) : list[j] \in StoredTxs \union Elements(rows[c])
    BY <1>1 DEF CallsInv, CallKnows, Scanning
<1>5. t \in TxsOf(block[c])
    BY <1>1 DEF TxsOf
<1> HIDE DEF t
<1>6. \A j \in 1..(next'[c] - 1) : list[j] \in StoredTxs \union Elements(rows'[c])
    <2> SUFFICES ASSUME NEW j \in 1..next[c]
                 PROVE  list[j] \in StoredTxs \union Elements(rows'[c])
        BY <1>1, <1>2
    <2>1. CASE j = next[c]
        BY <1>3, <2>1 DEF t
    <2>2. CASE j # next[c]
        <3>1. j \in 1..(next[c] - 1)
            BY <1>1, <2>2
        <3> QED
            BY <1>3, <1>4, <3>1
    <2> QED
        BY <2>1, <2>2
<1>7. CallKnows(c)'
    <2>1. Scanning(c)'
        <3>1. Elements(rows'[c]) \subseteq TxsOf(block[c])
            BY <1>3, <1>4, <1>5
        <3> QED
            BY <1>2, <1>6, <3>1 DEF Scanning, StoredTxs, TxsOf, Elements
    <2> QED
        BY <1>1, <1>2, <2>1 DEF CallKnows, Fresh, Ready, Writing, Acked, InProgress
<1> QED
    BY <1>1, <1>2, <1>7, LocalStep DEF InProgress

\* One case per action.
LEMMA NextInv ==
    TypeOK /\ StoreInv /\ CallsInv /\ [Next]_vars => StoreInv' /\ CallsInv'
<1> SUFFICES ASSUME TablesTyped, LocalsTyped, StoreInv, CallsInv, [Next]_vars
             PROVE  StoreInv' /\ CallsInv'
    BY DEF TypeOK, TablesTyped, LocalsTyped, CallTyped
<1> USE DEF tables, contract, locals
<1>1. ASSUME NEW c \in Calls, NEW b \in Blocks, Deliver(c, b)
      PROVE  StoreInv' /\ CallsInv'
    <2>1. OthersUnchanged(c) /\ pc'[c] = "findBlock" /\ rows'[c] = << >>
        BY <1>1 DEF Deliver, LocalsTyped, OthersUnchanged, CallsInv, CallKnows, Fresh
    <2>2. CallKnows(c)'
        BY <2>1 DEF CallKnows, Fresh, Scanning, Ready, Writing, Acked, InProgress
    <2> QED
        BY <1>1, <2>1, <2>2, LocalStep DEF Deliver, InProgress
<1>2. ASSUME NEW c \in Calls, Collect(c) PROVE StoreInv' /\ CallsInv'
    <2>1. OthersUnchanged(c) /\ pc'[c] = "idle" /\ rows'[c] = << >>
        BY <1>2 DEF Collect, LocalsTyped, OthersUnchanged, CallsInv, CallKnows, Fresh
    <2>2. CallKnows(c)'
        BY <2>1 DEF CallKnows, Fresh, Scanning, Ready, Writing, Acked, InProgress
    <2> QED
        BY <1>2, <2>1, <2>2, LocalStep DEF Collect, InProgress
<1>3. ASSUME NEW c \in Calls, IsBlockAlreadyStored(c) PROVE StoreInv' /\ CallsInv'
    <2>1. CASE block[c] \in blockTable
        BY <1>3, <2>1, ReturnStep DEF IsBlockAlreadyStored
    <2>2. CASE block[c] \notin blockTable
        <3>1. OthersUnchanged(c) /\ pc'[c] = "validate" /\ rows'[c] = << >>
            BY <1>3, <2>2, GotoOthers
            DEF IsBlockAlreadyStored, CallsInv, CallKnows, Fresh
        <3>2. CallKnows(c)'
            BY <3>1 DEF CallKnows, Fresh, Scanning, Ready, Writing, Acked, InProgress
        <3> QED
            BY <1>3, <3>1, <3>2, LocalStep DEF IsBlockAlreadyStored, InProgress
    <2> QED
        BY <2>1, <2>2
<1>4. ASSUME NEW c \in Calls, ValidateBlock(c) PROVE StoreInv' /\ CallsInv'
    <2>1. CASE ~BlockIsValid(block[c])
        BY <1>4, <2>1, ReturnStep DEF ValidateBlock
    <2>2. CASE BlockIsValid(block[c])
        <3>1. /\ OthersUnchanged(c) /\ pc'[c] = "findTx" /\ rows'[c] = << >>
              /\ next'[c] = 1
            BY <1>4, <2>2, GotoOthers
            DEF ValidateBlock, CallsInv, CallKnows, Fresh, LocalsTyped, CallTyped
        <3>2. CallKnows(c)'
            BY <3>1 DEF CallKnows, Fresh, Scanning, Ready, Writing, Acked,
                        InProgress, Elements
        <3> QED
            BY <1>4, <3>1, <3>2, LocalStep DEF ValidateBlock, InProgress
    <2> QED
        BY <2>1, <2>2
<1>5. ASSUME NEW c \in Calls, FindTx(c) PROVE StoreInv' /\ CallsInv'
    BY <1>5, ScanStep
<1>6. ASSUME NEW c \in Calls, Prepared(c) PROVE StoreInv' /\ CallsInv'
    <2>1. /\ TxsOf(block[c]) \subseteq StoredTxs \union Elements(rows[c])
          /\ Elements(rows[c]) \subseteq TxsOf(block[c])
        <3>1. /\ pc[c] = "findTx" /\ block[c] \in Blocks
              /\ next[c] \in Nat /\ next[c] > Len(TxobjList[block[c]])
            BY <1>6 DEF Prepared, LocalsTyped, CallTyped
        <3>2. \A i \in DOMAIN TxobjList[block[c]] : i \in 1..(next[c] - 1)
            BY <3>1, ListLength
        <3> QED
            BY <3>1, <3>2 DEF CallsInv, CallKnows, Scanning, TxsOf
    <2>2. CASE rows[c] = << >>
        <3>1. Elements(rows[c]) = {}
            BY <2>2 DEF Elements
        <3> QED
            BY <1>6, <2>1, <2>2, <3>1, ReturnStep DEF Prepared
    <2>3. CASE rows[c] # << >>
        <3>1. /\ OthersUnchanged(c) /\ pc'[c] = "createBlock"
              /\ UNCHANGED <<block, next, rows, ok>>
            BY <1>6, <2>3, GotoOthers DEF Prepared
        <3>2. UNCHANGED <<blockTable, txTable, events>>
            BY <1>6 DEF Prepared
        <3>3. CallKnows(c)'
            BY <2>1, <2>3, <3>1, <3>2
            DEF CallKnows, Fresh, Scanning, Ready, Writing, Acked, InProgress,
                StoredTxs
        <3> QED
            BY <3>1, <3>2, <3>3, LocalStep DEF InProgress
    <2> QED
        BY <2>2, <2>3
<1>7. ASSUME NEW c \in Calls, CreateBlock(c) PROVE StoreInv' /\ CallsInv'
    <2>1. CASE block[c] \in blockTable
        BY <1>7, <2>1, ReturnStep DEF CreateBlock
    <2>2. CASE block[c] \notin blockTable
        BY <1>7, <2>2, BlockRowStep DEF CreateBlock
    <2> QED
        BY <2>1, <2>2
<1>8. ASSUME NEW c \in Calls, CreateTxs(c) PROVE StoreInv' /\ CallsInv'
    <2>1. CASE RowsConflict(c)
        BY <1>8, <2>1, ReturnStep DEF CreateTxs
    <2>2. CASE ~RowsConflict(c)
        BY <1>8, <2>2, TxRowsStep DEF CreateTxs
    <2> QED
        BY <2>1, <2>2
<1>9. ASSUME NEW c \in Calls, Broadcast(c) PROVE StoreInv' /\ CallsInv'
    BY <1>9, AnnounceStep
<1>10. ASSUME NEW c \in Calls, DbError(c) PROVE StoreInv' /\ CallsInv'
    BY <1>10, ReturnStep DEF DbError
<1>11. ASSUME NEW c \in Calls, AnswerLost(c) PROVE StoreInv' /\ CallsInv'
    BY <1>11, BlockRowStep, TxRowsStep DEF AnswerLost
<1>12. CASE Crash
    <2>1. StoreInv'
        BY <1>12 DEF Crash, StoreInv, RowsReferToStoredBlocks, AllOrNothing,
                     EventsMatchTables, AnnouncedOnce, StoredTxs, RowsUnder
    <2>2. CallsInv'
        BY <1>12 DEF Crash, CallsInv, CallKnows, Fresh, Scanning, Ready, Writing,
                     Acked, Exclusive, InProgress
    <2> QED
        BY <2>1, <2>2
<1>13. CASE UNCHANGED <<tables, events, locals>>
    <2>1. StoreInv'
        BY <1>13 DEF StoreInv, RowsReferToStoredBlocks, AllOrNothing,
                     EventsMatchTables, AnnouncedOnce, StoredTxs, RowsUnder
    <2>2. CallsInv'
        BY <1>13 DEF CallsInv, CallKnows, Fresh, Scanning, Ready, Writing, Acked,
                     Exclusive, InProgress, NotAnnounced, StoredTxs, RowsUnder
    <2> QED
        BY <2>1, <2>2
<1> QED
    BY <1>1, <1>2, <1>3, <1>4, <1>5, <1>6, <1>7, <1>8, <1>9, <1>10, <1>11,
       <1>12, <1>13 DEF Next, Step, NodeAdded, BlockParamsUpdated, vars

\* The parts of the inductive invariant hold in every reachable state.
LEMMA PartsInvariant == Spec => [](TypeOK /\ StoreInv /\ CallsInv)
<1>1. Init => TypeOK /\ StoreInv /\ CallsInv
    BY InitTypeOK, InitInv
<1>2. TypeOK /\ StoreInv /\ CallsInv /\ [Next]_vars
        => (TypeOK /\ StoreInv /\ CallsInv)'
    BY NextTypeOK, NextInv
<1> QED
    BY <1>1, <1>2, PTL DEF Spec

\* Whatever interleaves, fails and crashes: rows refer to stored blocks, a block
\* gets all its transactions or none, subscribers are told of a block and of a
\* transaction once and as the tables say, and a success is never forgotten.
THEOREM SafeIngestion == Spec => []InductiveInv
BY PartsInvariant, PTL DEF InductiveInv

\* A block never gets some of its transactions.
THEOREM BlocksAreAtomic == Spec => []AllOrNothing
<1>1. InductiveInv => AllOrNothing
    BY DEF InductiveInv, StoreInv
<1> QED
    BY <1>1, SafeIngestion, PTL

\* A row refers to a stored block that contains the transaction.
THEOREM RowsAreUnderStoredBlocks == Spec => []RowsReferToStoredBlocks
<1>1. InductiveInv => RowsReferToStoredBlocks
    BY DEF InductiveInv, StoreInv
<1> QED
    BY <1>1, SafeIngestion, PTL

\* What was announced of a block is what is stored under it.
THEOREM EventsAreTrue == Spec => []EventsMatchTables
<1>1. InductiveInv => EventsMatchTables
    BY DEF InductiveInv, StoreInv
<1> QED
    BY <1>1, SafeIngestion, PTL

\* Subscribers are told once, and the truth.
THEOREM SubscribersAreToldOnce == Spec => [](AnnouncedOnce /\ EventsMatchTables)
<1>1. InductiveInv => AnnouncedOnce /\ EventsMatchTables
    BY DEF InductiveInv, StoreInv
<1> QED
    BY <1>1, SafeIngestion, PTL

\* A call answers [true, null] only for a block that is stored or adds nothing.
THEOREM SuccessIsDurable == Spec => []AcksAreDurable
<1>1. InductiveInv => AcksAreDurable
    BY DEF InductiveInv, CallsInv, CallKnows, Acked, AcksAreDurable
<1> QED
    BY <1>1, SafeIngestion, PTL
-----------------------------------------------------------------------------
(* Validation *)

\* The signers that validateBlock accepted stay known until the insertion.
SignersKnown ==
    \A c \in Calls : pc[c] \in {"findTx", "createBlock"} =>
        Elements(Signers[block[c]]) \subseteq vnodes

\* No call has validated a block initially.
LEMMA InitSigners == Init => SignersKnown
BY DEF Init, SignersKnown

\* What validateBlock has found out stays true: validators are only added.
LEMMA NextSigners == TypeOK /\ SignersKnown /\ [Next]_vars => SignersKnown'
<1> SUFFICES ASSUME TypeOK, LocalsTyped, SignersKnown, [Next]_vars PROVE SignersKnown'
    BY DEF TypeOK, LocalsTyped, CallTyped
<1> USE DEF tables, contract, locals
<1>1. ASSUME NEW c \in Calls, OthersUnchanged(c), UNCHANGED vnodes,
             pc'[c] \in {"findTx", "createBlock"} =>
                /\ pc[c] \in {"findTx", "createBlock"}
                /\ block'[c] = block[c]
      PROVE  SignersKnown'
    BY <1>1 DEF SignersKnown, OthersUnchanged, Elements
<1>2. ASSUME NEW c \in Calls, ValidateBlock(c) PROVE SignersKnown'
    <2>1. CASE ~BlockIsValid(block[c])
        BY <1>1, <1>2, <2>1, ReturnOthers DEF ValidateBlock
    <2>2. CASE BlockIsValid(block[c])
        <3>1. Elements(Signers[block[c]]) \subseteq vnodes
            BY <2>2 DEF BlockIsValid, Elements
        <3>2. OthersUnchanged(c) /\ UNCHANGED <<block, vnodes>>
            BY <1>2, <2>2, GotoOthers DEF ValidateBlock
        <3> QED
            BY <3>1, <3>2 DEF SignersKnown, OthersUnchanged, Elements
    <2> QED
        BY <2>1, <2>2
<1>3. ASSUME NEW c \in Calls, NEW b \in Blocks, Deliver(c, b) PROVE SignersKnown'
    <2>1. OthersUnchanged(c) /\ pc'[c] = "findBlock"
        BY <1>3 DEF Deliver, LocalsTyped, OthersUnchanged
    <2> QED
        BY <1>1, <1>3, <2>1 DEF Deliver
<1>4. ASSUME NEW c \in Calls, Collect(c) PROVE SignersKnown'
    <2>1. OthersUnchanged(c) /\ pc'[c] = "idle"
        BY <1>4 DEF Collect, LocalsTyped, OthersUnchanged
    <2> QED
        BY <1>1, <1>4, <2>1 DEF Collect
<1>5. ASSUME NEW c \in Calls, FindTx(c) PROVE SignersKnown'
    <2>1. OthersUnchanged(c)
        BY <1>5 DEF FindTx, LocalsTyped, OthersUnchanged
    <2> QED
        BY <1>1, <1>5, <2>1 DEF FindTx
<1>6. ASSUME NEW c \in Calls, IsBlockAlreadyStored(c) PROVE SignersKnown'
    <2>1. Return(c, TRUE) \/ Goto(c, "validate")
        BY <1>6 DEF IsBlockAlreadyStored
    <2>2. OthersUnchanged(c) /\ pc'[c] \in {"done", "validate"}
        BY <2>1, ReturnOthers, GotoOthers
    <2> QED
        BY <1>1, <1>6, <2>2 DEF IsBlockAlreadyStored
<1>7. ASSUME NEW c \in Calls, Prepared(c) PROVE SignersKnown'
    <2>1. Return(c, TRUE) \/ Goto(c, "createBlock")
        BY <1>7 DEF Prepared
    <2>2. OthersUnchanged(c) /\ pc[c] = "findTx" /\ UNCHANGED <<block, vnodes>>
        BY <1>7, <2>1, ReturnOthers, GotoOthers DEF Prepared
    <2> QED
        BY <1>1, <2>2
<1>8. ASSUME NEW c \in Calls, CreateBlock(c) PROVE SignersKnown'
    <2>1. Return(c, FALSE) \/ Goto(c, "createTxs")
        BY <1>8 DEF CreateBlock
    <2>2. OthersUnchanged(c) /\ pc'[c] \in {"done", "createTxs"}
        BY <2>1, ReturnOthers, GotoOthers
    <2> QED
        BY <1>1, <1>8, <2>2 DEF CreateBlock
<1>9. ASSUME NEW c \in Calls, CreateTxs(c) PROVE SignersKnown'
    <2>1. Return(c, FALSE) \/ Goto(c, "broadcast")
        BY <1>9 DEF CreateTxs
    <2>2. OthersUnchanged(c) /\ pc'[c] \in {"done", "broadcast"}
        BY <2>1, ReturnOthers, GotoOthers
    <2> QED
        BY <1>1, <1>9, <2>2 DEF CreateTxs
<1>10. ASSUME NEW c \in Calls, Broadcast(c) \/ DbError(c) \/ AnswerLost(c)
       PROVE  SignersKnown'
    <2>1. Return(c, TRUE) \/ Return(c, FALSE)
        BY <1>10 DEF Broadcast, DbError, AnswerLost
    <2>2. OthersUnchanged(c) /\ pc'[c] = "done"
        BY <2>1, ReturnOthers
    <2> QED
        BY <1>1, <1>10, <2>2 DEF Broadcast, DbError, AnswerLost
<1>11. CASE Crash
    BY <1>11 DEF Crash, SignersKnown
<1>12. CASE UNCHANGED locals /\ vnodes \subseteq vnodes'
    BY <1>12 DEF SignersKnown
<1> QED
    BY <1>2, <1>3, <1>4, <1>5, <1>6, <1>7, <1>8, <1>9, <1>10, <1>11, <1>12
    DEF Next, Step, NodeAdded, BlockParamsUpdated, vars

\* Only CreateBlock and AnswerLost add a block, and only the call's own.
LEMMA BlockAdded ==
    ASSUME [Next]_vars, NEW b \in blockTable' \ blockTable
    PROVE  \E c \in Calls : pc[c] = "createBlock" /\ block[c] = b
BY DEF Next, Step, Deliver, Collect, IsBlockAlreadyStored, ValidateBlock, FindTx,
       Prepared, CreateBlock, CreateTxs, Broadcast, DbError, AnswerLost, Crash,
       NodeAdded, BlockParamsUpdated, vars, tables

\* A block is inserted only while all its signers are known validators, although
\* they were checked several awaits before.
THEOREM InsertionsAreValidated == Spec => InsertedUnderKnownSigners
<1>1. SignersKnown /\ [Next]_vars =>
        \A b \in blockTable' \ blockTable : Elements(Signers[b]) \subseteq vnodes
    BY BlockAdded DEF SignersKnown
<1>2. SignersKnown /\ [Next]_vars =>
        [\A b \in blockTable' \ blockTable : Elements(Signers[b]) \subseteq vnodes]_vars
    BY <1>1
<1> QED
    BY <1>2, InitSigners, NextSigners, TypeCorrect, PTL
    DEF Spec, InsertedUnderKnownSigners
-----------------------------------------------------------------------------
(* Completeness without failures *)

\* A call whose block repeats no transaction has no repeated row: it appends
\* each transaction at its own turn.
RowsOnce(c) ==
    pc[c] \in {"findTx", "createBlock", "createTxs"} /\ NoRepeats(TxobjList[block[c]]) =>
        /\ NoRepeats(rows[c])
        /\ pc[c] = "findTx" => \A i \in DOMAIN rows[c] : \E j \in 1..(next[c] - 1) :
                rows[c][i] = TxobjList[block[c]][j]

\* Appending something new to a sequence without repetitions.
LEMMA NoRepeatsAppend ==
    ASSUME NEW S, NEW s \in Seq(S), NEW e \in S, NoRepeats(s), e \notin Elements(s)
    PROVE  NoRepeats(Append(s, e))
<1> DEFINE r == Append(s, e)
<1>1. DOMAIN r = DOMAIN s \union {Len(s) + 1} /\ r[Len(s) + 1] = e
      /\ Len(s) + 1 \notin DOMAIN s
    OBVIOUS
<1>2. \A i \in DOMAIN s : r[i] = s[i] /\ s[i] # e
    BY DEF Elements
<1> HIDE DEF r
<1>3. NoRepeats(r)
    BY <1>1, <1>2 DEF NoRepeats
<1> QED
    BY <1>3 DEF r

LEMMA FindTxRowsOnce ==
    ASSUME TypeOK, NEW c \in Calls, RowsOnce(c), FindTx(c)
    PROVE  RowsOnce(c)'
<1> DEFINE list == TxobjList[block[c]]
           t == list[next[c]]
<1>1. /\ pc[c] = "findTx" /\ block[c] \in Blocks /\ rows[c] \in Seq(Txs)
      /\ list \in Seq(Txs) /\ Len(list) \in Nat
      /\ next[c] \in 1..Len(list) /\ t \in Txs
    BY ListLength DEF FindTx, TypeOK
<1>2. /\ UNCHANGED <<pc, block>> /\ next'[c] = next[c] + 1
      /\ rows'[c] = IF t \in StoredTxs THEN rows[c] ELSE Append(rows[c], t)
    BY <1>1 DEF FindTx, TypeOK
<1>3. SUFFICES ASSUME NoRepeats(list)
               PROVE  /\ NoRepeats(rows'[c])
                      /\ \A i \in DOMAIN rows'[c] : \E j \in 1..next[c] : rows'[c][i] = list[j]
    <2>1. 1..(next'[c] - 1) = 1..next[c]
        BY <1>1, <1>2
    <2> QED
        BY <1>2, <2>1 DEF RowsOnce
<1>4. /\ NoRepeats(rows[c])
      /\ \A i \in DOMAIN rows[c] : \E j \in 1..(next[c] - 1) : rows[c][i] = list[j]
    BY <1>1, <1>3 DEF RowsOnce
<1>5. CASE t \in StoredTxs
    <2>1. rows'[c] = rows[c] /\ 1..(next[c] - 1) \subseteq 1..next[c]
        BY <1>1, <1>2, <1>5
    <2> HIDE DEF list, t
    <2> QED
        BY <1>4, <2>1
<1>6. CASE t \notin StoredTxs
    <2>1. t \notin Elements(rows[c])
        <3>1. SUFFICES ASSUME NEW i \in DOMAIN rows[c], rows[c][i] = t PROVE FALSE
            BY DEF Elements
        <3>2. PICK j \in 1..(next[c] - 1) : list[j] = t
            BY <1>4, <3>1
        <3>3. j \in DOMAIN list /\ next[c] \in DOMAIN list /\ j # next[c]
            BY <1>1
        <3> QED
            BY <1>3, <3>2, <3>3 DEF NoRepeats
    <2>2. NoRepeats(rows'[c])
        BY <1>1, <1>2, <1>4, <1>6, <2>1, NoRepeatsAppend
    <2>3. ASSUME NEW i \in DOMAIN rows'[c] PROVE \E j \in 1..next[c] : rows'[c][i] = list[j]
        <3>1. rows'[c] = Append(rows[c], t)
            BY <1>2, <1>6
        <3>2. CASE i \in DOMAIN rows[c]
            BY <1>1, <1>4, <3>1, <3>2
        <3>3. CASE i \notin DOMAIN rows[c]
            <4>1. rows'[c][i] = t
                BY <1>1, <3>1, <3>3
            <4> QED
                BY <1>1, <4>1
        <3> QED
            BY <3>2, <3>3
    <2> QED
        BY <2>2, <2>3
<1> QED
    BY <1>5, <1>6

LEMMA NextRowsOnce ==
    ASSUME TypeOK, \A c \in Calls : CallKnows(c), \A c \in Calls : RowsOnce(c), [Next]_vars
    PROVE  \A c \in Calls : RowsOnce(c)'
<1> USE DEF tables, contract, locals
<1>1. LocalsTyped
    BY DEF TypeOK, LocalsTyped, CallTyped
<1>2. ASSUME NEW c \in Calls, OthersUnchanged(c), RowsOnce(c)'
      PROVE  \A d \in Calls : RowsOnce(d)'
    <2>1. SUFFICES ASSUME NEW d \in Calls \ {c} PROVE RowsOnce(d)'
        BY <1>2
    <2>2. RowsOnce(d) /\ pc'[d] = pc[d] /\ block'[d] = block[d] /\ next'[d] = next[d]
          /\ rows'[d] = rows[d]
        BY <1>2 DEF OthersUnchanged
    <2> QED
        BY <2>2 DEF RowsOnce
<1>3. ASSUME NEW c \in Calls, NEW answer \in BOOLEAN, Return(c, answer)
      PROVE  \A d \in Calls : RowsOnce(d)'
    <2>1. OthersUnchanged(c) /\ pc'[c] = "done"
        BY <1>1, <1>3, ReturnOthers
    <2> QED
        BY <1>2, <2>1 DEF RowsOnce
<1>4. ASSUME NEW c \in Calls, NEW b \in Blocks, Deliver(c, b)
      PROVE  \A d \in Calls : RowsOnce(d)'
    <2>1. OthersUnchanged(c) /\ pc'[c] = "findBlock"
        BY <1>1, <1>4 DEF Deliver, LocalsTyped, OthersUnchanged
    <2> QED
        BY <1>2, <2>1 DEF RowsOnce
<1>5. ASSUME NEW c \in Calls, Collect(c) PROVE \A d \in Calls : RowsOnce(d)'
    <2>1. OthersUnchanged(c) /\ pc'[c] = "idle"
        BY <1>1, <1>5 DEF Collect, LocalsTyped, OthersUnchanged
    <2> QED
        BY <1>2, <2>1 DEF RowsOnce
<1>6. ASSUME NEW c \in Calls, FindTx(c) PROVE \A d \in Calls : RowsOnce(d)'
    <2>1. OthersUnchanged(c)
        BY <1>1, <1>6 DEF FindTx, LocalsTyped, OthersUnchanged
    <2> QED
        BY <1>2, <1>6, <2>1, FindTxRowsOnce
<1>7. ASSUME NEW c \in Calls, NEW step, Goto(c, step), step # "findTx",
             step \in {"createBlock", "createTxs"} =>
                pc[c] \in {"findTx", "createBlock", "createTxs"}
      PROVE  \A d \in Calls : RowsOnce(d)'
    <2>1. OthersUnchanged(c) /\ pc'[c] = step /\ UNCHANGED <<block, rows>>
        BY <1>1, <1>7, GotoOthers DEF Goto
    <2>2. RowsOnce(c)'
        BY <1>7, <2>1 DEF RowsOnce
    <2> QED
        BY <1>2, <2>1, <2>2
<1>8. ASSUME NEW c \in Calls, ValidateBlock(c) PROVE \A d \in Calls : RowsOnce(d)'
    <2>1. CASE BlockIsValid(block[c])
        <3>1. OthersUnchanged(c) /\ pc'[c] = "findTx" /\ UNCHANGED <<block, rows>>
            BY <1>1, <1>8, <2>1, GotoOthers DEF ValidateBlock, Goto
        <3>2. rows'[c] = << >>
            BY <1>8, <3>1 DEF ValidateBlock, CallKnows, Fresh
        <3>3. RowsOnce(c)'
            BY <3>2 DEF RowsOnce, NoRepeats
        <3> QED
            BY <1>2, <3>1, <3>3
    <2>2. CASE ~BlockIsValid(block[c])
        BY <1>3, <1>8, <2>2 DEF ValidateBlock
    <2> QED
        BY <2>1, <2>2
<1>9. ASSUME NEW c \in Calls, IsBlockAlreadyStored(c) PROVE \A d \in Calls : RowsOnce(d)'
    BY <1>3, <1>7, <1>9 DEF IsBlockAlreadyStored
<1>10. ASSUME NEW c \in Calls, Prepared(c) PROVE \A d \in Calls : RowsOnce(d)'
    BY <1>3, <1>7, <1>10 DEF Prepared
<1>11. ASSUME NEW c \in Calls, CreateBlock(c) PROVE \A d \in Calls : RowsOnce(d)'
    BY <1>3, <1>7, <1>11 DEF CreateBlock
<1>12. ASSUME NEW c \in Calls, CreateTxs(c) PROVE \A d \in Calls : RowsOnce(d)'
    BY <1>3, <1>7, <1>12 DEF CreateTxs
<1>13. ASSUME NEW c \in Calls, Broadcast(c) \/ DbError(c) \/ AnswerLost(c)
       PROVE  \A d \in Calls : RowsOnce(d)'
    BY <1>3, <1>13 DEF Broadcast, DbError, AnswerLost
<1>14. CASE Crash
    BY <1>14 DEF Crash, RowsOnce
<1>15. CASE UNCHANGED locals
    BY <1>15 DEF RowsOnce
<1> QED
    BY <1>4, <1>5, <1>6, <1>8, <1>9, <1>10, <1>11, <1>12, <1>13, <1>14, <1>15
    DEF Next, Step, NodeAdded, BlockParamsUpdated, vars

\* The rows of a disjoint block conflict with nothing: no other block has its
\* transactions, and under its own there is no row yet.
LEMMA DisjointRowsFit ==
    ASSUME TypeOK, StoreInv, NEW c \in Calls, CallKnows(c), RowsOnce(c),
           pc[c] = "createTxs", Disjoint(block[c])
    PROVE  ~RowsConflict(c)
<1>1. NoRepeats(rows[c])
    BY DEF RowsOnce, Disjoint
<1>2. ASSUME NEW t \in Elements(rows[c]) \intersect StoredTxs PROVE FALSE
    <2>1. t \in TxsOf(block[c]) /\ t \in Txs /\ txTable[t] # NoBlock
        BY <1>2 DEF CallKnows, Ready, StoredTxs
    <2>2. txTable[t] \in Blocks /\ t \in TxsOf(txTable[t])
        BY <1>2, <2>1 DEF StoreInv, RowsReferToStoredBlocks, TypeOK
    <2>3. txTable[t] = block[c]
        BY <2>1, <2>2 DEF Disjoint
    <2>4. RowsUnder(block[c]) = {}
        BY DEF CallKnows, Writing, InProgress
    <2> QED
        BY <2>1, <2>3, <2>4 DEF RowsUnder
<1> QED
    BY <1>1, <1>2 DEF RowsConflict

\* A step is of one call or of none; without failures a call that inserts
\* transactions does nothing else.
LEMMA OneCallSteps ==
    ASSUME LocalsTyped, ~Failures, [Next]_vars
    PROVE  \/ UNCHANGED locals
           \/ \E c \in Calls : OthersUnchanged(c) /\ (pc[c] = "createTxs" => CreateTxs(c))
<1>1. ASSUME NEW c \in Calls, NEW b \in Blocks, Deliver(c, b)
      PROVE  OthersUnchanged(c) /\ pc[c] # "createTxs"
    BY <1>1 DEF Deliver, LocalsTyped, OthersUnchanged
<1>2. ASSUME NEW c \in Calls, Collect(c) PROVE OthersUnchanged(c) /\ pc[c] # "createTxs"
    BY <1>2 DEF Collect, LocalsTyped, OthersUnchanged
<1>3. ASSUME NEW c \in Calls, FindTx(c) PROVE OthersUnchanged(c) /\ pc[c] # "createTxs"
    BY <1>3 DEF FindTx, LocalsTyped, OthersUnchanged
<1>4. ASSUME NEW c \in Calls,
             IsBlockAlreadyStored(c) \/ ValidateBlock(c) \/ Prepared(c) \/ CreateBlock(c)
             \/ Broadcast(c)
      PROVE  OthersUnchanged(c) /\ pc[c] # "createTxs"
    BY <1>4, ReturnOthers, GotoOthers
    DEF IsBlockAlreadyStored, ValidateBlock, Prepared, CreateBlock, Broadcast
<1>5. ASSUME NEW c \in Calls, CreateTxs(c) PROVE OthersUnchanged(c)
    BY <1>5, ReturnOthers, GotoOthers DEF CreateTxs
<1> QED
    BY <1>1, <1>2, <1>3, <1>4, <1>5
    DEF Next, Step, DbError, AnswerLost, Crash, NodeAdded, BlockParamsUpdated, vars, locals

\* Without failures every disjoint block becomes complete: what delays or loses
\* transactions is a failure, or a transaction that two blocks share.
LEMMA NextComplete ==
    ASSUME ~Failures, TypeOK, StoreInv, \A c \in Calls : CallKnows(c),
           \A c \in Calls : RowsOnce(c), DisjointBlocksAreComplete, [Next]_vars
    PROVE  DisjointBlocksAreComplete'
<1> USE DEF tables, contract, locals
<1>1. LocalsTyped
    BY DEF TypeOK, LocalsTyped, CallTyped
<1>2. StoredTxs \subseteq StoredTxs'
    <2>1. UNCHANGED txTable \/ \E c \in Calls : InsertRows(c) /\ block[c] \in Blocks
        BY DEF TypeOK, Next, Step, Deliver, Collect, IsBlockAlreadyStored, ValidateBlock,
            FindTx, Prepared, CreateBlock, CreateTxs, Broadcast, DbError, AnswerLost, Crash,
            NodeAdded, BlockParamsUpdated, vars
    <2> QED
        BY <2>1, ConstantsAssumption DEF InsertRows, StoredTxs, TypeOK
<1>3. SUFFICES ASSUME NEW b \in blockTable', Disjoint(b)
               PROVE  \/ TxsOf(b) \subseteq StoredTxs'
                      \/ \E c \in Calls : pc'[c] = "createTxs" /\ block'[c] = b
    BY DEF DisjointBlocksAreComplete, Disjoint, TxsOf, NoRepeats
<1>4. CASE b \in blockTable
    <2>1. CASE TxsOf(b) \subseteq StoredTxs
        BY <1>2, <2>1
    <2>2. ASSUME NEW c \in Calls, pc[c] = "createTxs", block[c] = b
          PROVE  \/ TxsOf(b) \subseteq StoredTxs'
                 \/ pc'[c] = "createTxs" /\ block'[c] = b
        <3>1. CASE CreateTxs(c)
            <4>1. ~RowsConflict(c)
                BY <1>3, <2>2, DisjointRowsFit
            <4>2. InsertRows(c) /\ block[c] \in Blocks /\ NoBlock \notin Blocks
                BY <2>2, <3>1, <4>1, ConstantsAssumption DEF CreateTxs, TypeOK
            <4>3. TxsOf(b) \subseteq StoredTxs \union Elements(rows[c])
                BY <2>2 DEF CallKnows, Ready
            <4>4. Elements(rows[c]) \subseteq Txs
                BY DEF TypeOK, Elements
            <4> QED
                BY <1>2, <4>2, <4>3, <4>4 DEF InsertRows, StoredTxs
        <3>2. CASE ~CreateTxs(c)
            <4>1. CASE UNCHANGED locals
                BY <2>2, <4>1
            <4>2. ASSUME NEW d \in Calls, OthersUnchanged(d), pc[d] = "createTxs" => CreateTxs(d)
                  PROVE  pc'[c] = "createTxs" /\ block'[c] = b
                BY <2>2, <3>2, <4>2 DEF OthersUnchanged
            <4> QED
                BY <1>1, <4>1, <4>2, OneCallSteps
        <3> QED
            BY <3>1, <3>2
    <2> QED
        BY <1>3, <1>4, <2>1, <2>2 DEF DisjointBlocksAreComplete
<1>5. CASE b \notin blockTable
    <2>1. PICK c \in Calls : CreateBlock(c) \/ AnswerLost(c)
        BY <1>3, <1>5 DEF Next, Step, Deliver, Collect, IsBlockAlreadyStored, ValidateBlock,
            FindTx, Prepared, CreateTxs, Broadcast, DbError, Crash,
            NodeAdded, BlockParamsUpdated, vars
    <2>2. CreateBlock(c)
        BY <2>1 DEF AnswerLost
    <2>3. b = block[c] /\ pc'[c] = "createTxs" /\ block'[c] = b
        BY <1>1, <1>3, <1>5, <2>2 DEF CreateBlock, Goto, LocalsTyped
    <2> QED
        BY <2>3
<1> QED
    BY <1>4, <1>5

\* Without failures, a stored block that shares no transaction has all of them
\* stored or is about to: what makes the log incomplete (116-119) is a failure or
\* a transaction that several blocks contain.
THEOREM DisjointBlocksBecomeComplete ==
    ASSUME ~Failures
    PROVE  Spec => []DisjointBlocksAreComplete
<1> DEFINE R == \A c \in Calls : RowsOnce(c)
<1>1. Init => R /\ DisjointBlocksAreComplete
    BY DEF Init, RowsOnce, DisjointBlocksAreComplete
<1>2. /\ TypeOK /\ StoreInv /\ CallsInv /\ R /\ DisjointBlocksAreComplete /\ [Next]_vars
      => R' /\ DisjointBlocksAreComplete'
    BY NextRowsOnce, NextComplete DEF CallsInv
<1> QED
    BY <1>1, <1>2, PartsInvariant, PTL DEF Spec
-----------------------------------------------------------------------------
(* Refinement of ArchiveLog *)

\* The helpers of the abstract specification are those of ArchiveNode.
LEMMA SameOperators ==
    /\ \A b : Log!TxsOf(b) = TxsOf(b)
    /\ \A b : Log!RowsUnder(b) = RowsUnder(b)
    /\ Log!StoredTxs = StoredTxs
BY DEF Log!TxsOf, Log!RowsUnder, Log!StoredTxs, TxsOf, RowsUnder, StoredTxs

\* An initial state of the node is an initial state of the log.
LEMMA InitRefines == Init => Log!Init
BY DEF Init, Log!Init

\* A commit of createMany, answered or not, stores what is missing of the block.
LEMMA InsertRefines ==
    ASSUME TablesTyped, LocalsTyped, CallsInv, NEW c \in Calls, pc[c] = "createTxs",
           ~RowsConflict(c), InsertRows(c), UNCHANGED <<blockTable, events>>
    PROVE  Log!RecordTxs(block[c])
<1> DEFINE new == Elements(rows[c])
<1>1. /\ block[c] \in blockTable
      /\ RowsUnder(block[c]) = {}
      /\ new \subseteq TxsOf(block[c])
      /\ TxsOf(block[c]) \subseteq StoredTxs \union new
      /\ rows[c] # << >> /\ rows[c] \in Seq(Txs)
    BY DEF CallsInv, CallKnows, Ready, Writing, InProgress, LocalsTyped
<1>2. new # {} /\ new \intersect StoredTxs = {}
    BY <1>1, ElementsEmpty DEF RowsConflict
<1>3. txTable' = [t \in Txs |-> IF t \in new THEN block[c] ELSE txTable[t]]
    BY DEF InsertRows
<1> HIDE DEF new
<1>4. new = TxsOf(block[c]) \ StoredTxs
    BY <1>1, <1>2
<1> QED
    BY <1>1, <1>2, <1>3, <1>4, SameOperators DEF Log!RecordTxs

\* A step of the node records, announces, or leaves the log alone.
LEMMA StepRefines ==
    TypeOK /\ StoreInv /\ CallsInv /\ [Next]_vars => [Log!Next]_(Log!vars)
<1> SUFFICES ASSUME TablesTyped, LocalsTyped, StoreInv, CallsInv, [Next]_vars
             PROVE  [Log!Next]_(Log!vars)
    BY DEF TypeOK, TablesTyped, LocalsTyped, CallTyped
<1> USE DEF tables
<1>1. ASSUME NEW c \in Calls, pc[c] # "idle" PROVE block[c] \in Blocks
    BY <1>1 DEF LocalsTyped, CallTyped
<1>2. ASSUME NEW c \in Calls, CreateBlock(c) PROVE [Log!Next]_(Log!vars)
    BY <1>1, <1>2 DEF CreateBlock, Log!Next, Log!RecordBlock, Log!vars
<1>3. ASSUME NEW c \in Calls, CreateTxs(c) PROVE [Log!Next]_(Log!vars)
    <2>1. CASE RowsConflict(c)
        BY <1>3, <2>1 DEF CreateTxs, Log!vars
    <2>2. CASE ~RowsConflict(c)
        BY <1>1, <1>3, <2>2, InsertRefines DEF CreateTxs, Log!Next
    <2> QED
        BY <2>1, <2>2
<1>4. ASSUME NEW c \in Calls, Broadcast(c) PROVE Log!Next
    <2>1. /\ NotAnnounced(block[c])
          /\ RowsUnder(block[c]) = Elements(rows[c])
          /\ rows[c] # << >> /\ rows[c] \in Seq(Txs)
        BY <1>4 DEF Broadcast, CallsInv, CallKnows, Ready, Writing, InProgress,
                    LocalsTyped
    <2>2. RowsUnder(block[c]) # {}
        BY <2>1, ElementsEmpty
    <2>3. Log!Announce(block[c])
        BY <1>4, <2>1, <2>2, SameOperators DEF Broadcast, NotAnnounced, Log!Announce
    <2> QED
        BY <1>1, <1>4, <2>3 DEF Broadcast, Log!Next
<1>5. ASSUME NEW c \in Calls, AnswerLost(c) PROVE Log!Next
    <2>1. CASE pc[c] = "createBlock"
        BY <1>1, <1>5, <2>1 DEF AnswerLost, Log!Next, Log!RecordBlock
    <2>2. CASE pc[c] = "createTxs"
        BY <1>1, <1>5, <2>2, InsertRefines DEF AnswerLost, Log!Next
    <2> QED
        BY <1>5, <2>1, <2>2 DEF AnswerLost
<1>6. CASE UNCHANGED <<blockTable, txTable, events>>
    BY <1>6 DEF Log!vars
<1> QED
    BY <1>2, <1>3, <1>4, <1>5, <1>6
    DEF Next, Step, Deliver, Collect, IsBlockAlreadyStored, ValidateBlock, FindTx,
        Prepared, DbError, Crash, NodeAdded, BlockParamsUpdated, vars

\* The ingestion implements the promise to readers and subscribers.
THEOREM IngestionImplementsLog == Spec => ImplementsArchiveLog
BY InitRefines, StepRefines, PartsInvariant, PTL DEF Spec, ImplementsArchiveLog, Log!Spec
=============================================================================
