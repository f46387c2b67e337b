------------------------- MODULE BlockServiceProofs -------------------------
(***************************************************************************)
(* Theorems about BlockService, for any blocks and requests, any number of *)
(* calls that ingest meanwhile, with or without failures.  What a query    *)
(* answers is right because the ingestion implements ArchiveLog: rows are  *)
(* only added, and those of a block all at once.                           *)
(***************************************************************************)
EXTENDS BlockService, ArchiveNodeProofs, FiniteSetTheorems

-----------------------------------------------------------------------------
(* The ingestion, as the queries see it *)

\* Rows are only added, and those of a block all at once.
Grows ==
    /\ blockTable \subseteq blockTable'
    /\ \A t \in StoredTxs : t \in StoredTxs' /\ txTable'[t] = txTable[t]
    /\ \A b \in Blocks : RowsUnder(b) # {} => RowsUnder(b)' = RowsUnder(b)

FiniteTables == IsFiniteSet(blockTable) /\ IsFiniteSet(StoredTxs)

\* The elements of a sequence are finitely many.
LEMMA ElementsFinite ==
    ASSUME NEW S, NEW s \in Seq(S)
    PROVE  IsFiniteSet(Elements(s))
<1>1. IsFiniteSet(DOMAIN s)
    <2>1. DOMAIN s = 1..Len(s) /\ Len(s) \in Int
        OBVIOUS
    <2> QED
        BY <2>1, FS_Interval
<1>2. s \in Surjection(DOMAIN s, Elements(s))
    BY DEF Surjection, Elements
<1> QED
    BY <1>1, <1>2, FS_Surjection

\* What ArchiveLog promises is what the queries rely on.
LEMMA LogGrows ==
    ASSUME TypeOK, [Log!Next]_(Log!vars)
    PROVE  Grows /\ (FiniteTables => FiniteTables')
<1>1. ASSUME NEW b \in Blocks, Log!RecordBlock(b)
      PROVE  Grows /\ (FiniteTables => FiniteTables')
    <2>1. Grows
        BY <1>1 DEF Grows, Log!RecordBlock, StoredTxs, RowsUnder
    <2>2. blockTable' = blockTable \union {b} /\ StoredTxs' = StoredTxs
        BY <1>1 DEF Log!RecordBlock, StoredTxs
    <2> QED
        BY <2>1, <2>2, FS_AddElement DEF FiniteTables
<1>2. ASSUME NEW b \in Blocks, Log!RecordTxs(b)
      PROVE  Grows /\ (FiniteTables => FiniteTables')
    <2> DEFINE new == TxsOf(b) \ StoredTxs
    <2>1. /\ RowsUnder(b) = {}
          /\ txTable' = [t \in Txs |-> IF t \in new THEN b ELSE txTable[t]]
          /\ UNCHANGED blockTable
        BY <1>2, SameOperators DEF Log!RecordTxs
    <2>2. b # NoBlock /\ new \subseteq Txs /\ IsFiniteSet(new)
        <3>1. TxobjList[b] \in Seq(Txs) /\ TxsOf(b) = Elements(TxobjList[b])
            BY ConstantsAssumption DEF TxsOf, Elements
        <3>2. IsFiniteSet(TxsOf(b)) /\ TxsOf(b) \subseteq Txs
            BY <3>1, ElementsFinite DEF Elements
        <3> QED
            BY <3>2, FS_Subset, ConstantsAssumption
    <2>3. new \intersect StoredTxs = {}
        OBVIOUS
    <2> HIDE DEF new
    <2>4. StoredTxs' = StoredTxs \union new
        BY <2>1, <2>2 DEF StoredTxs
    <2>5. \A t \in StoredTxs : txTable'[t] = txTable[t]
        BY <2>1, <2>3 DEF StoredTxs
    <2>6. ASSUME NEW d \in Blocks, RowsUnder(d) # {}
          PROVE  RowsUnder(d)' = RowsUnder(d)
        <3>1. d # b /\ d # NoBlock
            BY <2>1, <2>6, ConstantsAssumption
        <3>2. \A t \in new : txTable[t] = NoBlock
            BY <2>2, <2>3 DEF StoredTxs
        <3> QED
            BY <2>1, <3>1, <3>2 DEF RowsUnder
    <2>7. FiniteTables => FiniteTables'
        BY <2>1, <2>2, <2>4, FS_Union DEF FiniteTables
    <2> QED
        BY <2>1, <2>4, <2>5, <2>6, <2>7 DEF Grows
<1>3. ASSUME UNCHANGED <<blockTable, txTable>>
      PROVE  Grows /\ (FiniteTables => FiniteTables')
    BY <1>3 DEF Grows, FiniteTables, StoredTxs, RowsUnder
<1> QED
    BY <1>1, <1>2, <1>3 DEF Log!Next, Log!vars, Log!Announce

\* Every step of the ingestion only adds rows.
LEMMA IngestionGrows ==
    ASSUME InductiveInv, [Next]_vars
    PROVE  Grows /\ (FiniteTables => FiniteTables')
BY StepRefines, LogGrows DEF InductiveInv

\* The tables are empty initially.
LEMMA InitFinite == Init => FiniteTables
<1>1. Init => blockTable = {} /\ StoredTxs = {}
    BY ConstantsAssumption DEF Init, StoredTxs
<1> QED
    BY <1>1, FS_EmptySet DEF FiniteTables

\* A block's rows are finitely many, and their number is a natural number.
LEMMA RowsFinite ==
    ASSUME FiniteTables, NEW b \in Blocks
    PROVE  IsFiniteSet(RowsUnder(b)) /\ Cardinality(RowsUnder(b)) \in Nat
<1>1. RowsUnder(b) \subseteq StoredTxs
    BY ConstantsAssumption DEF RowsUnder, StoredTxs
<1> QED
    BY <1>1, FS_Subset, FS_CardinalityType DEF FiniteTables
-----------------------------------------------------------------------------
(* Types of the client's side *)

Hashes == Blocks \union Txs
LaneSteps == {"off", "findOne", "count", "page", "error", "details", "group", "countTxs"}
LaneType ==
    [step : LaneSteps, total : Nat, rows : Seq(Hashes), next : Nat \ {0},
     entries : Seq(Entries)]
ReaderType ==
    [step : {"off", "count", "page", "fetch", "query", "done"}, page : Int,
     at : Nat, rows : Seq(Hashes), seen : SUBSET Hashes]

ClientTyped ==
    /\ request \in Requests \union {None}
    /\ known \subseteq Hashes
    /\ lane \in [Lanes -> LaneType]
    /\ answer \in [status : {"none", "ok", "error"}, blocks : Seq(Entries)]
    /\ reader \in ReaderType

\* Where the functions of the pushing client are defined, and on what.
PushTyped ==
    /\ push = [step |-> push.step, items |-> push.items,
               statuses |-> push.statuses, failed |-> push.failed]
    /\ push.step \in {"off", "snapshot", "send", "handling", "done"}
    /\ push.items \in [DOMAIN push.items -> Blocks \union {Malformed}]
    /\ push.statuses \in [DOMAIN push.statuses -> {"SUCCESS", "REJECTED"}]
    /\ DOMAIN push.statuses \subseteq DOMAIN push.items
    /\ push.step \in {"off", "snapshot"} => push.statuses = << >>

\* Nothing is asked before the request.
NoRequest ==
    request = None =>
        /\ known = {}
        /\ \A l \in Lanes : lane[l] = Idle
        /\ answer.status = "none"
        /\ reader.step = "off"
        /\ push.step = "off"

\* Nothing is asked initially.
LEMMA ClientInit == ServiceInit => ClientTyped /\ PushTyped /\ NoRequest
<1> SUFFICES ASSUME ServiceInit PROVE ClientTyped /\ PushTyped /\ NoRequest
    OBVIOUS
<1>1. Idle \in LaneType
    BY DEF Idle, LaneType, LaneSteps
<1>2. ClientTyped
    BY <1>1 DEF ServiceInit, ClientTyped, ReaderType
<1>3. PushTyped
    BY DEF ServiceInit, PushTyped
<1>4. NoRequest
    BY DEF ServiceInit, NoRequest
<1> QED
    BY <1>2, <1>3, <1>4
-----------------------------------------------------------------------------
(* The pushing client *)

\* A request is a record with numbers and hashes where they belong.
LEMMA RequestTyped ==
    ASSUME NEW r \in Requests
    PROVE  /\ r.startTime \in Nat /\ r.page \in Int /\ r.pageSize \in Nat
           /\ r.hashes \in Seq(Blocks \union {Malformed})
           /\ r # None
BY RequestsAssumption

\* A batch that the client is busy with was asked for.
LEMMA Busy ==
    ASSUME ClientTyped, NoRequest, push.step # "off"
    PROVE  request \in Requests
BY DEF ClientTyped, NoRequest

\* Every step of the service keeps the types of the pushing client.
LEMMA PushTypedNext ==
    ASSUME ClientTyped, PushTyped, NoRequest, [ServiceNext]_serviceVars
    PROVE  PushTyped'
<1>1. ASSUME UNCHANGED push PROVE PushTyped'
    BY <1>1 DEF PushTyped
<1>2. ASSUME NEW r \in Requests, Ask(r) PROVE PushTyped'
    <2>1. push' = push \/ push' = [push EXCEPT !.step = "snapshot"]
        BY <1>2 DEF Ask
    <2>2. push.step = "off"
        BY <1>2 DEF Ask, NoRequest
    <2> QED
        BY <2>1, <2>2 DEF PushTyped
<1>3. CASE PutBlockHash
    <2> DEFINE sent == {i \in DOMAIN request.hashes : request.hashes[i] \notin blockTable}
               items == [i \in sent |-> request.hashes[i]]
    <2>1. /\ push.step = "snapshot"
          /\ push' = [push EXCEPT !.step = "send", !.items = items]
        BY <1>3 DEF PutBlockHash, Pushes
    <2>2. push.statuses = << >> /\ DOMAIN push.statuses = {}
        BY <2>1 DEF PushTyped
    <2>3. request.hashes \in Seq(Blocks \union {Malformed})
        BY <2>1, Busy, RequestTyped
    <2>4. items \in [sent -> Blocks \union {Malformed}] /\ DOMAIN items = sent
        BY <2>3
    <2> HIDE DEF items, sent
    <2>5. push' = [step |-> "send", items |-> items,
                   statuses |-> << >>, failed |-> push.failed]
        BY <2>1, <2>2 DEF PushTyped
    <2> QED
        BY <2>2, <2>4, <2>5 DEF PushTyped
<1>4. CASE EndPush
    BY <1>4 DEF EndPush, Pushes, PushTyped
<1>5. ASSUME NEW i \in DOMAIN push.items, NEW status \in {"SUCCESS", "REJECTED"},
             push' = Noted(i, status)
      PROVE  PushTyped'
    <2> DEFINE st == [j \in DOMAIN push.statuses \union {i} |->
                            IF j = i THEN status ELSE push.statuses[j]]
    <2>1. /\ st \in [DOMAIN push.statuses \union {i} -> {"SUCCESS", "REJECTED"}]
          /\ DOMAIN st = DOMAIN push.statuses \union {i}
        BY DEF PushTyped
    <2>2. push' = [push EXCEPT !.step = "send", !.statuses = st]
        BY <1>5 DEF Noted
    <2> HIDE DEF st
    <2>3. /\ push' = [step |-> "send", items |-> push.items,
                      statuses |-> st, failed |-> push.failed]
        BY <2>2 DEF PushTyped
    <2> QED
        BY <2>1, <2>3 DEF PushTyped
<1>6. ASSUME NEW i \in DOMAIN push.items, Unparsable(i) PROVE PushTyped'
    BY <1>5, <1>6 DEF Unparsable, Pushes
<1>7. ASSUME NEW i \in DOMAIN push.items, Handled(i) PROVE PushTyped'
    BY <1>5, <1>7 DEF Handled, Pushes
<1>8. ASSUME NEW i \in DOMAIN push.items, HandleBlock(i) PROVE PushTyped'
    BY <1>8 DEF HandleBlock, Pushes, PushTyped
<1>9. CASE Ingest
    <2>1. UNCHANGED push \/ \E F : push' = [push EXCEPT !.failed = F]
        BY <1>9 DEF Ingest, Client, Pushes
    <2> QED
        BY <2>1 DEF PushTyped
<1>10. ASSUME NEW l, CountRows(l) \/ FindPage(l) \/ FindOne(l) PROVE UNCHANGED push
    BY <1>10 DEF CountRows, FindPage, FindOne, Reads
<1>11. ASSUME NEW i, CountTxs(i) \/ FindTxs(i) PROVE UNCHANGED push
    BY <1>11 DEF CountTxs, FindTxs, Reads
<1>12. ASSUME NEW l, AddToEntry(l) \/ FindBlockOfTx(l) \/ CountTxsOfBlock(l)
       PROVE  UNCHANGED push
    BY <1>12 DEF AddToEntry, FindBlockOfTx, CountTxsOfBlock, Reads
<1>13. CASE Answer \/ CountHashes \/ FindHashes \/ FetchBlocks \/ GetTransactions
    BY <1>13, <1>1 DEF Answer, CountHashes, FindHashes, FetchBlocks, GetTransactions, Turn
<1> QED
    BY <1>1, <1>2, <1>3, <1>4, <1>6, <1>7, <1>8, <1>9, <1>10, <1>11, <1>12, <1>13
    DEF ServiceNext, serviceVars
-----------------------------------------------------------------------------
(* Orders and pages *)

\* An order of the rows has each row once.
LEMMA OrderOnce ==
    ASSUME NEW S, IsFiniteSet(S), NEW s \in [1..Cardinality(S) -> S], Elements(s) = S
    PROVE  s \in Seq(S) /\ Len(s) = Cardinality(S) /\ NoRepeats(s)
<1>1. Cardinality(S) \in Nat
    BY FS_CardinalityType
<1>2. s \in Seq(S) /\ Len(s) = Cardinality(S) /\ DOMAIN s = 1..Cardinality(S)
    BY <1>1
<1>3. s \in Surjection(1..Cardinality(S), S)
    BY <1>2 DEF Surjection, Elements
<1>4. IsFiniteSet(1..Cardinality(S)) /\ Cardinality(1..Cardinality(S)) = Cardinality(S)
    BY <1>1, FS_Interval
<1>5. s \in Injection(1..Cardinality(S), S)
    BY <1>3, <1>4, FS_SurjSameCardinalityImpliesInj
<1>6. NoRepeats(s)
    BY <1>2, <1>5 DEF Injection, IsInjective, NoRepeats
<1> QED
    BY <1>2, <1>6

\* A slice of a sequence.
LEMMA Slice ==
    ASSUME NEW S, NEW s \in Seq(S), NEW m \in Nat, NEW n \in Int, n <= Len(s)
    PROVE  LET p == SubSeq(s, m + 1, n) IN
           /\ p \in Seq(S)
           /\ Len(p) = IF n > m THEN n - m ELSE 0
           /\ \A i \in 1..Len(p) : m + i \in DOMAIN s /\ p[i] = s[m + i]
           /\ NoRepeats(s) => NoRepeats(p)
<1> DEFINE p == SubSeq(s, m + 1, n)
<1>1. p \in Seq(S)
    OBVIOUS
<1>2. Len(p) = IF n > m THEN n - m ELSE 0
    OBVIOUS
<1>3. \A i \in 1..Len(p) : m + i \in DOMAIN s /\ p[i] = s[m + i]
    BY <1>2
<1>4. DOMAIN p = 1..Len(p) /\ Len(p) \in Nat
    BY <1>1
<1> HIDE DEF p
<1>5. NoRepeats(s) => NoRepeats(p)
    BY <1>3, <1>4 DEF NoRepeats
<1> QED
    BY <1>1, <1>2, <1>3, <1>5 DEF p
-----------------------------------------------------------------------------
(* What a query knows at each of its reads, although rows are added between them *)

OneEntryPerBlock(s) == \A i, j \in DOMAIN s : s[i].block = s[j].block => i = j

\* An entry of a block whose details are read.
EntryKnows(e) ==
    /\ e.step = "count" => e.txs = {}
    /\ e.step = "find" =>
        e.txs = {} /\ e.total \in {0, Cardinality(RowsUnder(e.block))}
    /\ e.step = "done" => DetailsAreWhole(e)

BlockKnows(q) ==
    /\ q.step \in {"off", "findOne", "count", "page", "error", "details"}
    /\ q.step # "details" => q.entries = << >>
    /\ OneEntryPerBlock(q.entries)
    /\ \A i \in DOMAIN q.entries : EntryKnows(q.entries[i])
    /\ /\ q.step = "details"
       /\ "block" \in LookedUp(request)
       /\ request.hash \in known \intersect Blocks
       => q.entries # << >>

\* The listed transactions are stored, and those before next have an entry.
TxKnows(l, q) ==
    /\ q.step \in {"off", "findOne", "count", "page", "error", "group", "countTxs"}
    /\ q.step \notin {"group", "countTxs"} => q.entries = << >> /\ q.next = 1
    /\ OneEntryPerBlock(q.entries)
    /\ \A i \in DOMAIN q.entries : ListedAreWhole(q.entries[i])
    /\ q.step \in {"group", "countTxs"} =>
        /\ Elements(q.rows) \subseteq StoredTxs
        /\ q.next > 1 => q.entries # << >>
        /\ /\ l \in LookedUp(request)
           /\ request.hash \in known \intersect Txs
           => q.rows # << >>
    /\ q.step = "countTxs" =>
        /\ q.next \in DOMAIN q.rows
        /\ \A i \in DOMAIN q.entries : q.entries[i].block # txTable[q.rows[q.next]]

LaneKnows(l, q) ==
    /\ l \in LookedUp(request) => q.step \notin {"count", "page", "error"}
    /\ IF l = "block" THEN BlockKnows(q) ELSE TxKnows(l, q)

\* The lanes of a request are in use together, until it is answered.
LanesInUse ==
    \/ \A l \in Lanes : lane[l] = Idle
    \/ /\ request \in Requests
       /\ \A l \in Lanes :
            lane[l].step = "off" <=> l \notin LookedUp(request) \union Counted(request)

KnownIsStored == known \subseteq blockTable \union StoredTxs

QueryInv ==
    /\ ClientTyped
    /\ NoRequest
    /\ KnownIsStored
    /\ LanesInUse
    /\ \A l \in Lanes : LaneKnows(l, lane[l])
    /\ AnswersAreWhole

\* Details that are whole stay whole.
LEMMA DetailsStay ==
    ASSUME Grows, UNCHANGED request, NEW e \in Entries, DetailsAreWhole(e)
    PROVE  DetailsAreWhole(e)'
<1>1. e.block \in Blocks
    BY DEF Entries
<1>2. CASE RowsUnder(e.block) # {}
    BY <1>1, <1>2 DEF Grows, DetailsAreWhole
<1>3. CASE RowsUnder(e.block) = {}
    <2>1. e.total = 0 /\ e.txs = {}
        BY <1>3, FS_EmptySet DEF DetailsAreWhole
    <2> QED
        BY <2>1 DEF DetailsAreWhole
<1> QED
    BY <1>2, <1>3

\* A listed transaction keeps its entry.
LEMMA ListedStay ==
    ASSUME Grows, NEW e \in Entries, ListedAreWhole(e)
    PROVE  ListedAreWhole(e)'
<1>1. e.block \in Blocks /\ RowsUnder(e.block) # {}
    BY DEF Entries, ListedAreWhole
<1> QED
    BY <1>1 DEF Grows, ListedAreWhole

\* What an entry knows stays true.
LEMMA EntryStays ==
    ASSUME Grows, UNCHANGED request, NEW e \in Entries, EntryKnows(e)
    PROVE  EntryKnows(e)'
<1>1. e.step = "done" => DetailsAreWhole(e)'
    BY DetailsStay DEF EntryKnows
<1>2. ASSUME e.step = "find"
      PROVE  e.total \in {0, Cardinality(RowsUnder(e.block)')}
    <2>1. CASE RowsUnder(e.block) # {}
        BY <1>2, <2>1 DEF Grows, EntryKnows, Entries
    <2>2. CASE RowsUnder(e.block) = {}
        BY <1>2, <2>2, FS_EmptySet DEF EntryKnows
    <2> QED
        BY <2>1, <2>2
<1> QED
    BY <1>1, <1>2 DEF EntryKnows

\* An entry of a sequence of entries.
LEMMA EntryOf ==
    ASSUME NEW s \in Seq(Entries), NEW i \in DOMAIN s
    PROVE  s[i] \in Entries
OBVIOUS

\* What a query knows stays true while rows are added.
LEMMA LaneStays ==
    ASSUME Grows, UNCHANGED <<request, known>>, NEW l \in Lanes, NEW q \in LaneType,
           LaneKnows(l, q)
    PROVE  LaneKnows(l, q)'
<1>1. q.entries \in Seq(Entries)
    BY DEF LaneType
<1>2. CASE l = "block"
    <2>1. BlockKnows(q)
        BY <1>2 DEF LaneKnows
    <2>2. \A i \in DOMAIN q.entries : EntryKnows(q.entries[i])'
        BY <1>1, <2>1, EntryOf, EntryStays DEF BlockKnows
    <2>3. BlockKnows(q)'
        BY <2>1, <2>2 DEF BlockKnows, OneEntryPerBlock, LookedUp
    <2> QED
        BY <1>2, <2>3 DEF LaneKnows, LookedUp
<1>3. CASE l # "block"
    <2>1. TxKnows(l, q)
        BY <1>3 DEF LaneKnows
    <2>2. \A i \in DOMAIN q.entries : ListedAreWhole(q.entries[i])'
        BY <1>1, <2>1, EntryOf, ListedStay DEF TxKnows
    <2>3. q.step \in {"group", "countTxs"} => Elements(q.rows) \subseteq StoredTxs'
        BY <2>1 DEF TxKnows, Grows
    <2>4. q.step = "countTxs" => txTable'[q.rows[q.next]] = txTable[q.rows[q.next]]
        BY <2>1 DEF TxKnows, Grows, Elements
    <2>5. TxKnows(l, q)'
        BY <2>1, <2>2, <2>3, <2>4 DEF TxKnows, OneEntryPerBlock, LookedUp, Elements
    <2> QED
        BY <1>3, <2>5 DEF LaneKnows, LookedUp
<1> QED
    BY <1>2, <1>3

\* Answers that are whole stay whole.
LEMMA AnswerStays ==
    ASSUME Grows, UNCHANGED <<request, known, answer>>, ClientTyped, AnswersAreWhole
    PROVE  AnswersAreWhole'
<1>1. answer.blocks \in Seq(Entries)
    BY DEF ClientTyped
<1>2. \A e \in Elements(answer.blocks) : e \in Entries
    BY <1>1, EntryOf DEF Elements
<1>3. \A e \in Elements(answer.blocks) :
        /\ DetailsAreWhole(e) => DetailsAreWhole(e)'
        /\ ListedAreWhole(e) => ListedAreWhole(e)'
    BY <1>2, DetailsStay, ListedStay
<1> QED
    BY <1>3 DEF AnswersAreWhole, Elements
-----------------------------------------------------------------------------
(* The reads of a query *)

\* A step of others, or of the client's other business.
LEMMA OtherStep ==
    ASSUME QueryInv, Grows, UNCHANGED <<request, known, lane, answer>>,
           reader' \in ReaderType,
           request = None => reader'.step = "off" /\ push'.step = "off"
    PROVE  QueryInv'
<1>1. ClientTyped'
    BY DEF QueryInv, ClientTyped
<1>2. NoRequest' /\ KnownIsStored' /\ LanesInUse'
    BY DEF QueryInv, NoRequest, KnownIsStored, LanesInUse, Grows, LookedUp, Counted
<1>3. ASSUME NEW l \in Lanes PROVE LaneKnows(l, lane[l])'
    <2>1. PICK q \in LaneType : q = lane[l]
        BY DEF QueryInv, ClientTyped
    <2>2. LaneKnows(l, q)'
        BY <2>1, LaneStays DEF QueryInv
    <2> QED
        BY <2>1, <2>2
<1>4. AnswersAreWhole'
    BY AnswerStays DEF QueryInv
<1> QED
    BY <1>1, <1>2, <1>3, <1>4 DEF QueryInv

\* A read changes nothing that another read relies on.
LEMMA NoGrowth == UNCHANGED vars => Grows
BY DEF vars, Grows, StoredTxs, RowsUnder

\* One read of lane l, after which it has the value v.
LEMMA MoveStep ==
    ASSUME QueryInv, NEW l \in Lanes, lane[l].step # "off",
           NEW v \in LaneType, v.step # "off", LaneKnows(l, v), Moved(l, v), Reads
    PROVE  QueryInv'
<1>1. Grows /\ UNCHANGED <<request, known, answer, reader, push>>
    BY NoGrowth DEF Reads
<1>2. /\ lane \in [Lanes -> LaneType] /\ lane' \in [Lanes -> LaneType]
      /\ lane'[l] = v
      /\ \A k \in Lanes \ {l} : lane'[k] = lane[k]
    BY DEF QueryInv, ClientTyped, Moved
<1>3. ClientTyped' /\ KnownIsStored'
    BY <1>1, <1>2 DEF QueryInv, ClientTyped, KnownIsStored, Grows
<1>4. request \in Requests /\ LanesInUse'
    BY <1>1, <1>2 DEF QueryInv, LanesInUse, Idle, LookedUp, Counted
<1>5. NoRequest'
    BY <1>1, <1>4, RequestTyped DEF NoRequest
<1>6. ASSUME NEW k \in Lanes PROVE LaneKnows(k, lane[k])'
    <2>1. PICK q \in LaneType : q = lane'[k]
        BY <1>2
    <2>2. LaneKnows(k, q)
        BY <1>2, <2>1 DEF QueryInv
    <2>3. LaneKnows(k, q)'
        BY <1>1, <2>2, LaneStays
    <2> QED
        BY <2>1, <2>3
<1>7. AnswersAreWhole'
    BY <1>1, AnswerStays DEF QueryInv
<1> QED
    BY <1>3, <1>4, <1>5, <1>6, <1>7 DEF QueryInv
\* The rows a query may list are finitely many hashes.
LEMMA MatchingFinite ==
    ASSUME TypeOK, FiniteTables, NEW l \in Lanes
    PROVE  /\ IsFiniteSet(Matching(l)) /\ Cardinality(Matching(l)) \in Nat
           /\ Matching(l) \subseteq Hashes
           /\ l = "block" => Matching(l) \subseteq blockTable /\ blockTable \subseteq Blocks
           /\ l # "block" => Matching(l) \subseteq StoredTxs
<1>1. blockTable \subseteq Blocks /\ StoredTxs \subseteq Txs
    BY DEF TypeOK, StoredTxs
<1>2. /\ l = "block" => Matching(l) \subseteq blockTable
      /\ l # "block" => Matching(l) \subseteq StoredTxs
    BY DEF Matching
<1>3. IsFiniteSet(Matching(l))
    BY <1>2, FS_Subset DEF FiniteTables
<1> QED
    BY <1>1, <1>2, <1>3, FS_CardinalityType DEF Hashes

\* A request begins.
LEMMA AskStep ==
    ASSUME TypeOK, QueryInv, NEW r \in Requests, Ask(r)
    PROVE  QueryInv'
<1>1. /\ request = None /\ request' = r /\ request' \in Requests /\ r # None
      /\ known' = blockTable \union StoredTxs
      /\ UNCHANGED <<vars, answer>>
      /\ answer.status = "none"
    BY RequestTyped DEF Ask, QueryInv, NoRequest
<1>2. ASSUME NEW l \in Lanes
      PROVE  /\ lane'[l].step = IF l \in LookedUp(r) THEN "findOne"
                                ELSE IF l \in Counted(r) THEN "count" ELSE "off"
             /\ lane'[l].entries = << >> /\ lane'[l].next = 1
             /\ lane'[l] \in LaneType
    <2> DEFINE step == IF l \in LookedUp(r) THEN "findOne"
                       ELSE IF l \in Counted(r) THEN "count" ELSE "off"
    <2>1. lane'[l] = [Idle EXCEPT !.step = step]
        BY DEF Ask, Start
    <2>2. step \in LaneSteps
        BY DEF LaneSteps
    <2> HIDE DEF step
    <2>3. [Idle EXCEPT !.step = step] \in LaneType
        <3>1. Idle \in LaneType
            BY DEF Idle, LaneType, LaneSteps
        <3> QED
            BY <2>2, <3>1 DEF LaneType
    <2>4. /\ lane'[l].step = step
          /\ lane'[l].entries = << >> /\ lane'[l].next = 1
        BY <2>1 DEF Idle
    <2> QED
        BY <2>1, <2>3, <2>4 DEF step
<1>3. lane' \in [Lanes -> LaneType]
    BY <1>2 DEF Ask, Start
<1>4. reader' \in ReaderType
    BY RequestTyped DEF Ask, QueryInv, ClientTyped, ReaderType
<1>5. ClientTyped' /\ KnownIsStored'
    BY <1>1, <1>3, <1>4
    DEF TypeOK, QueryInv, ClientTyped, KnownIsStored, StoredTxs, Hashes, vars
<1>6. LanesInUse'
    BY <1>1, <1>2 DEF LanesInUse, LookedUp, Counted
<1>7. ASSUME NEW l \in Lanes PROVE LaneKnows(l, lane[l])'
    <2>1. LookedUp(request)' = LookedUp(r)
        BY <1>1 DEF LookedUp
    <2>2. CASE l = "block"
        <3>1. BlockKnows(lane[l])'
            BY <1>2 DEF BlockKnows, OneEntryPerBlock
        <3> QED
            BY <1>2, <2>1, <2>2, <3>1 DEF LaneKnows
    <2>3. CASE l # "block"
        <3>1. TxKnows(l, lane[l])'
            BY <1>2 DEF TxKnows, OneEntryPerBlock
        <3> QED
            BY <1>2, <2>1, <2>3, <3>1 DEF LaneKnows
    <2> QED
        BY <2>2, <2>3
<1>8. AnswersAreWhole' /\ NoRequest'
    BY <1>1 DEF AnswersAreWhole, NoRequest
<1> QED
    BY <1>5, <1>6, <1>7, <1>8 DEF QueryInv

\* The count
LEMMA CountRowsStep ==
    ASSUME TypeOK, FiniteTables, QueryInv, NEW l \in {"block", "list"}, CountRows(l)
    PROVE  QueryInv'
<1>1. PICK q \in LaneType : q = lane[l]
    BY DEF QueryInv, ClientTyped, Lanes
<1> DEFINE v == [q EXCEPT !.step = "page", !.total = Cardinality(Matching(l))]
<1>2. l \in Lanes /\ q.step = "count" /\ Moved(l, v) /\ Reads
    BY <1>1 DEF CountRows, Lanes
<1>3. v \in LaneType /\ v.step = "page" /\ v.entries = q.entries /\ v.next = q.next
    BY <1>2, MatchingFinite DEF LaneType, LaneSteps
<1> HIDE DEF v
<1>4. LaneKnows(l, q)
    BY <1>1, <1>2 DEF QueryInv
<1>5. LaneKnows(l, v)
    BY <1>2, <1>3, <1>4 DEF LaneKnows, BlockKnows, TxKnows, OneEntryPerBlock
<1> QED
    BY <1>1, <1>2, <1>3, <1>5, MoveStep

\* The rows of a page or of a hash are listed: an entry for each listed block,
\* and stored transactions for the others.
LEMMA ListStep ==
    ASSUME TypeOK, QueryInv, NEW l \in Lanes, lane[l].step \in {"page", "findOne"},
           NEW s \in Seq(Hashes), NoRepeats(s),
           l = "block" => Elements(s) \subseteq Blocks,
           l # "block" => Elements(s) \subseteq StoredTxs,
           /\ l \in LookedUp(request)
           /\ request.hash \in known \intersect (IF l = "block" THEN Blocks ELSE Txs)
           => s # << >>,
           Moved(l, Listed(l, s)), Reads
    PROVE  QueryInv'
<1>1. PICK q \in LaneType : q = lane[l]
    BY DEF QueryInv, ClientTyped
<1>2. LaneKnows(l, q)
    BY <1>1 DEF QueryInv
<1>3. q.entries = << >>
    BY <1>1, <1>2 DEF LaneKnows, BlockKnows, TxKnows
<1>4. CASE l = "block"
    <2> DEFINE es == [i \in DOMAIN s |-> Entry(s[i])]
               v == [q EXCEPT !.step = "details", !.rows = s, !.entries = es]
    <2>1. Moved(l, v)
        BY <1>1, <1>4 DEF Listed
    <2>2. ASSUME NEW i \in DOMAIN s
          PROVE  /\ s[i] \in Blocks
                 /\ Entry(s[i]) \in Entries
                 /\ Entry(s[i]).block = s[i]
                 /\ EntryKnows(Entry(s[i]))
        <3>1. s[i] \in Blocks
            BY <1>4 DEF Elements
        <3> QED
            BY <3>1 DEF Entry, Entries, EntryKnows
    <2>3. es \in Seq(Entries) /\ DOMAIN es = DOMAIN s
        BY <2>2
    <2>4. \A i \in DOMAIN es : es[i].block = s[i] /\ EntryKnows(es[i])
        BY <2>2
    <2>5. s # << >> => es # << >>
        BY <2>3
    <2> HIDE DEF es
    <2>6. v \in LaneType /\ v.step = "details" /\ v.entries = es
        BY <2>3 DEF LaneType, LaneSteps
    <2> HIDE DEF v
    <2>7. OneEntryPerBlock(es)
        BY <2>3, <2>4 DEF OneEntryPerBlock, NoRepeats
    <2>8. BlockKnows(v)
        BY <1>4, <2>4, <2>5, <2>6, <2>7 DEF BlockKnows
    <2>9. LaneKnows(l, v)
        BY <1>4, <2>6, <2>8 DEF LaneKnows
    <2> QED
        BY <2>1, <2>6, <2>9, MoveStep
<1>5. CASE l # "block"
    <2> DEFINE v == [q EXCEPT !.step = "group", !.rows = s]
    <2>1. Moved(l, v)
        BY <1>1, <1>5 DEF Listed
    <2>2. v \in LaneType /\ v.step = "group" /\ v.entries = << >> /\ v.rows = s
          /\ v.next = q.next
        BY <1>3 DEF LaneType, LaneSteps
    <2>3. q.next = 1
        BY <1>1, <1>2, <1>5 DEF LaneKnows, TxKnows
    <2> HIDE DEF v
    <2>4. TxKnows(l, v)
        BY <1>5, <2>2, <2>3 DEF TxKnows, OneEntryPerBlock
    <2>5. LaneKnows(l, v)
        BY <1>5, <2>2, <2>4 DEF LaneKnows
    <2> QED
        BY <2>1, <2>2, <2>5, MoveStep
<1> QED
    BY <1>4, <1>5

\* A page of an order of rows is a sequence of these rows without repetitions.
LEMMA PageOf ==
    ASSUME NEW S, IsFiniteSet(S), NEW s \in [1..Cardinality(S) -> S], Elements(s) = S,
           NEW size \in Nat, NEW page \in Int, page >= 1 \/ size = 0
    PROVE  /\ Page(s, size, page) \in Seq(S)
           /\ NoRepeats(Page(s, size, page))
           /\ Elements(Page(s, size, page)) \subseteq S
<1>1. s \in Seq(S) /\ NoRepeats(s) /\ Len(s) \in Nat
    BY OrderOnce
<1>2. (page - 1) * size \in Nat
    <2>1. CASE size = 0
        BY <2>1
    <2>2. CASE page >= 1
        <3>1. page - 1 \in Nat
            BY <2>2
        <3> QED
            BY <3>1
    <2> QED
        BY <2>1, <2>2
<1>3. Least(page * size, Len(s)) \in Int /\ Least(page * size, Len(s)) <= Len(s)
    BY <1>1 DEF Least
<1> DEFINE m == (page - 1) * size
           n == Least(page * size, Len(s))
           p == SubSeq(s, m + 1, n)
<1>4. p = Page(s, size, page)
    BY DEF Page
<1> HIDE DEF m, n
<1>5. p \in Seq(S) /\ NoRepeats(p)
    BY <1>1, <1>2, <1>3, Slice DEF m, n
<1> HIDE DEF p
<1>6. Elements(p) \subseteq S
    BY <1>5 DEF Elements
<1> QED
    BY <1>4, <1>5, <1>6

\* The page
LEMMA FindPageStep ==
    ASSUME TypeOK, FiniteTables, QueryInv, NEW l \in {"block", "list"}, FindPage(l)
    PROVE  QueryInv'
<1>1. PICK q \in LaneType : q = lane[l]
    BY DEF QueryInv, ClientTyped, Lanes
<1>2. /\ l \in Lanes /\ q.step = "page" /\ lane[l].step = "page" /\ Reads
      /\ LaneKnows(l, q)
    BY <1>1 DEF FindPage, Lanes, QueryInv
<1>3. request \in Requests /\ l \notin LookedUp(request)
    BY <1>1, <1>2 DEF QueryInv, LanesInUse, Idle, LaneKnows
<1>4. CASE SkipIsNegative
    <2> DEFINE v == [q EXCEPT !.step = "error"]
    <2>1. Moved(l, v)
        BY <1>1, <1>4 DEF FindPage
    <2>2. v \in LaneType /\ v.step = "error" /\ v.entries = q.entries /\ v.next = q.next
        BY DEF LaneType, LaneSteps
    <2> HIDE DEF v
    <2>3. LaneKnows(l, v)
        BY <1>2, <1>3, <2>2 DEF LaneKnows, BlockKnows, TxKnows, OneEntryPerBlock
    <2> QED
        BY <1>2, <2>1, <2>2, <2>3, MoveStep
<1>5. CASE ~SkipIsNegative
    <2> DEFINE M == Matching(l)
    <2>1. PICK s \in [1..Cardinality(M) -> M] :
            /\ Elements(s) = M
            /\ Moved(l, Listed(l, Page(s, request.pageSize, request.page)))
        BY <1>5 DEF FindPage, Orders
    <2>2. /\ IsFiniteSet(M) /\ M \subseteq Hashes
          /\ l = "block" => M \subseteq Blocks
          /\ l # "block" => M \subseteq StoredTxs
        BY <1>2, MatchingFinite
    <2>3. /\ request.pageSize \in Nat /\ request.page \in Int
          /\ request.page >= 1 \/ request.pageSize = 0
        BY <1>3, <1>5, RequestTyped DEF SkipIsNegative
    <2> HIDE DEF M
    <2> DEFINE p == Page(s, request.pageSize, request.page)
    <2>4. p \in Seq(M) /\ NoRepeats(p) /\ Elements(p) \subseteq M
        BY <2>1, <2>2, <2>3, PageOf
    <2>5. Moved(l, Listed(l, p))
        BY <2>1
    <2> HIDE DEF p
    <2>6. p \in Seq(Hashes)
        BY <2>2, <2>4
    <2> QED
        BY <1>2, <1>3, <2>2, <2>4, <2>5, <2>6, ListStep
<1> QED
    BY <1>4, <1>5

\* The row of a hash: it is there if it was stored when the client asked.
LEMMA FindOneStep ==
    ASSUME TypeOK, QueryInv, NEW l \in {"block", "tx"}, FindOne(l)
    PROVE  QueryInv'
<1> DEFINE table == IF l = "block" THEN blockTable ELSE StoredTxs
           s == IF request.hash \in table THEN <<request.hash>> ELSE << >>
<1>1. l \in Lanes /\ lane[l].step = "findOne" /\ Moved(l, Listed(l, s)) /\ Reads
    BY DEF FindOne, Lanes
<1>2. blockTable \subseteq Blocks /\ StoredTxs \subseteq Txs /\ table \subseteq Hashes
    BY DEF TypeOK, StoredTxs, Hashes
<1>3. s \in Seq(Hashes) /\ NoRepeats(s) /\ Elements(s) \subseteq table
    BY <1>2 DEF NoRepeats, Elements
<1>4. /\ request.hash \in known \intersect (IF l = "block" THEN Blocks ELSE Txs)
      => request.hash \in table
    BY <1>2, RequestsAssumption DEF QueryInv, KnownIsStored
<1>5. request.hash \in table => s # << >>
    OBVIOUS
<1>6. /\ l = "block" => Elements(s) \subseteq Blocks
      /\ l # "block" => Elements(s) \subseteq StoredTxs
    BY <1>2, <1>3
<1> HIDE DEF s, table
<1> QED
    BY <1>1, <1>3, <1>4, <1>5, <1>6, ListStep

\* An entry of the listed blocks gets the value e, which is right about its block.
LEMMA EntryStep ==
    ASSUME QueryInv, NEW i \in DOMAIN lane["block"].entries, NEW e \in Entries,
           e.block = lane["block"].entries[i].block, EntryKnows(e),
           WithEntry(i, e), Reads
    PROVE  QueryInv'
<1>1. PICK q \in LaneType : q = lane["block"]
    BY DEF QueryInv, ClientTyped, Lanes
<1> DEFINE v == [q EXCEPT !.entries[i] = e]
           es == [q.entries EXCEPT ![i] = e]
<1>2. "block" \in Lanes /\ LaneKnows("block", q) /\ BlockKnows(q)
    BY <1>1 DEF Lanes, QueryInv, LaneKnows
<1>3. q.entries \in Seq(Entries) /\ i \in DOMAIN q.entries /\ q.entries # << >>
    BY <1>1 DEF LaneType
<1>4. q.step = "details"
    BY <1>2, <1>3 DEF BlockKnows
<1>5. Moved("block", v)
    BY <1>1 DEF WithEntry
<1>6. /\ es \in Seq(Entries) /\ DOMAIN es = DOMAIN q.entries /\ es[i] = e
      /\ \A j \in DOMAIN q.entries \ {i} : es[j] = q.entries[j]
    BY <1>3
<1>7. v.entries = es /\ v.step = "details" /\ v \in LaneType
    BY <1>3, <1>4, <1>6 DEF LaneType
<1> HIDE DEF v, es
<1>8. OneEntryPerBlock(es)
    BY <1>1, <1>2, <1>6 DEF BlockKnows, OneEntryPerBlock
<1>9. \A j \in DOMAIN es : EntryKnows(es[j])
    BY <1>2, <1>6 DEF BlockKnows
<1>10. es # << >>
    BY <1>3, <1>6
<1>11. LaneKnows("block", v)
    BY <1>7, <1>8, <1>9, <1>10 DEF LaneKnows, BlockKnows
<1> QED
    BY <1>1, <1>2, <1>4, <1>5, <1>7, <1>11, MoveStep

\* totalNumberOfTxns of a listed block
LEMMA CountTxsStep ==
    ASSUME FiniteTables, QueryInv, NEW i \in DOMAIN lane["block"].entries, CountTxs(i)
    PROVE  QueryInv'
<1>1. PICK es \in Seq(Entries) : es = lane["block"].entries
    BY DEF QueryInv, ClientTyped, Lanes, LaneType
<1>2. PICK e \in Entries : e = es[i]
    BY <1>1
<1>3. EntryKnows(e) /\ e.step = "count"
    BY <1>1, <1>2 DEF QueryInv, LaneKnows, BlockKnows, Lanes, CountTxs
<1>4. e.block \in Blocks
    BY DEF Entries
<1> DEFINE n == Cardinality(RowsUnder(e.block))
           step == IF request.showDetails THEN "find" ELSE "done"
           d == [e EXCEPT !.total = n, !.step = step]
<1>5. WithEntry(i, d) /\ Reads
    BY <1>1, <1>2 DEF CountTxs
<1>6. n \in Nat
    BY <1>4, RowsFinite
<1>7. step \in {"find", "done"} /\ (step = "done" => ~request.showDetails)
    OBVIOUS
<1> HIDE DEF step
<1>8. d \in Entries /\ d.block = e.block /\ d.txs = e.txs /\ d.total = n /\ d.step = step
    BY <1>6, <1>7 DEF Entries
<1>9. d.txs = {} /\ d.total = Cardinality(RowsUnder(d.block))
    BY <1>3, <1>8 DEF EntryKnows
<1> HIDE DEF d, n
<1>10. EntryKnows(d)
    BY <1>7, <1>8, <1>9 DEF EntryKnows, DetailsAreWhole
<1> QED
    BY <1>1, <1>2, <1>5, <1>8, <1>10, EntryStep

\* The details of a listed block
LEMMA FindTxsStep ==
    ASSUME FiniteTables, QueryInv, NEW i \in DOMAIN lane["block"].entries, FindTxs(i)
    PROVE  QueryInv'
<1>1. PICK es \in Seq(Entries) : es = lane["block"].entries
    BY DEF QueryInv, ClientTyped, Lanes, LaneType
<1>2. PICK e \in Entries : e = es[i]
    BY <1>1
<1>3. EntryKnows(e) /\ e.step = "find"
    BY <1>1, <1>2 DEF QueryInv, LaneKnows, BlockKnows, Lanes, FindTxs
<1>4. e.block \in Blocks /\ RowsUnder(e.block) \subseteq Txs
    BY DEF Entries, RowsUnder
<1> DEFINE d == [e EXCEPT !.txs = RowsUnder(e.block), !.step = "done"]
<1>5. WithEntry(i, d) /\ Reads
    BY <1>1, <1>2 DEF FindTxs
<1>6. /\ d \in Entries /\ d.block = e.block /\ d.txs = RowsUnder(e.block)
      /\ d.total = e.total /\ d.step = "done"
    BY <1>4 DEF Entries
<1>7. e.total \in {0, Cardinality(RowsUnder(e.block))}
      /\ Cardinality(RowsUnder(e.block)) \in Nat
    BY <1>3, <1>4, RowsFinite DEF EntryKnows
<1> HIDE DEF d
<1>8. EntryKnows(d)
    BY <1>6, <1>7 DEF EntryKnows, DetailsAreWhole
<1> QED
    BY <1>1, <1>2, <1>5, <1>6, <1>8, EntryStep
-----------------------------------------------------------------------------
(* The grouping of listed transactions under their blocks *)

\* A lane in which transactions are grouped gets the value v.
LEMMA GroupStep ==
    ASSUME QueryInv, NEW l \in {"tx", "list"}, NEW q \in LaneType, q = lane[l],
           q.step \in {"group", "countTxs"},
           NEW v \in LaneType, v.step \in {"group", "countTxs"}, v.rows = q.rows,
           OneEntryPerBlock(v.entries),
           \A i \in DOMAIN v.entries : ListedAreWhole(v.entries[i]),
           v.next > 1 => v.entries # << >>,
           v.step = "countTxs" =>
                /\ v.next \in DOMAIN v.rows
                /\ \A i \in DOMAIN v.entries :
                    v.entries[i].block # txTable[v.rows[v.next]],
           Moved(l, v), Reads
    PROVE  QueryInv'
<1>1. l \in Lanes /\ l # "block" /\ LaneKnows(l, q)
    BY DEF Lanes, QueryInv
<1>2. LaneKnows(l, v)
    BY <1>1 DEF LaneKnows, TxKnows
<1> QED
    BY <1>1, <1>2, MoveStep

\* The next of the listed transactions
LEMMA NextListed ==
    ASSUME TypeOK, StoreInv, QueryInv, NEW l \in {"tx", "list"}, NEW q \in LaneType,
           q = lane[l], q.step \in {"group", "countTxs"}, q.next \in DOMAIN q.rows
    PROVE  /\ q.rows[q.next] \in Txs
           /\ txTable[q.rows[q.next]] \in blockTable
           /\ txTable[q.rows[q.next]] \in Blocks
           /\ q.rows[q.next] \in RowsUnder(txTable[q.rows[q.next]])
<1>1. TxKnows(l, q)
    BY DEF QueryInv, LaneKnows, Lanes
<1>2. q.rows[q.next] \in StoredTxs
    BY <1>1 DEF TxKnows, Elements
<1> QED
    BY <1>2 DEF StoreInv, RowsReferToStoredBlocks, StoredTxs, RowsUnder, TypeOK

\* A listed transaction whose block has an entry
LEMMA AddToEntryStep ==
    ASSUME TypeOK, StoreInv, QueryInv, NEW l \in {"tx", "list"}, AddToEntry(l)
    PROVE  QueryInv'
<1>1. PICK q \in LaneType : q = lane[l]
    BY DEF QueryInv, ClientTyped, Lanes
<1>2. q.step = "group" /\ q.next \in DOMAIN q.rows /\ Reads
    BY <1>1 DEF AddToEntry, LaneType
<1>3. PICK t : t = q.rows[q.next]
    OBVIOUS
<1>4. t \in Txs /\ txTable[t] \in Blocks /\ t \in RowsUnder(txTable[t])
    BY <1>1, <1>2, <1>3, NextListed
<1>5. PICK i \in DOMAIN q.entries :
        /\ q.entries[i].block = txTable[t]
        /\ Moved(l, [q EXCEPT !.entries[i].txs = @ \union {t}, !.next = @ + 1])
    BY <1>1, <1>3 DEF AddToEntry, EntriesOf
<1> DEFINE e == [q.entries[i] EXCEPT !.txs = @ \union {t}]
           es == [q.entries EXCEPT ![i] = e]
           v == [q EXCEPT !.entries = es, !.next = @ + 1]
<1>6. Moved(l, v)
    BY <1>5 DEF LaneType
<1>7. q.entries \in Seq(Entries) /\ q.entries[i] \in Entries
    BY DEF LaneType
<1>8. /\ e \in Entries /\ e.block = q.entries[i].block
      /\ e.txs = q.entries[i].txs \union {t} /\ e.total = q.entries[i].total
    BY <1>4, <1>7 DEF Entries
<1>9. TxKnows(l, q)
    BY <1>1 DEF QueryInv, LaneKnows, Lanes
<1>10. ListedAreWhole(e)
    BY <1>4, <1>5, <1>8, <1>9 DEF TxKnows, ListedAreWhole
<1> HIDE DEF e
<1>11. /\ es \in Seq(Entries) /\ DOMAIN es = DOMAIN q.entries /\ es[i] = e
       /\ \A j \in DOMAIN q.entries \ {i} : es[j] = q.entries[j]
    BY <1>7, <1>8
<1>12. es # << >>
    BY <1>11
<1> HIDE DEF es
<1>13. v \in LaneType /\ v.step = "group" /\ v.rows = q.rows /\ v.entries = es
    <2>1. q.next + 1 \in Nat \ {0}
        BY DEF LaneType
    <2>2. v = [q EXCEPT !.entries = es, !.next = q.next + 1]
        BY DEF LaneType
    <2> QED
        BY <1>2, <1>11, <2>1, <2>2 DEF LaneType
<1> HIDE DEF v
<1>14. OneEntryPerBlock(es) /\ \A j \in DOMAIN es : ListedAreWhole(es[j])
    BY <1>8, <1>9, <1>10, <1>11 DEF TxKnows, OneEntryPerBlock
<1> QED
    BY <1>1, <1>2, <1>6, <1>12, <1>13, <1>14, GroupStep

\* A listed transaction whose block has no entry yet: the block is stored.
LEMMA FindBlockOfTxStep ==
    ASSUME TypeOK, StoreInv, QueryInv, NEW l \in {"tx", "list"}, FindBlockOfTx(l)
    PROVE  QueryInv'
<1>1. PICK q \in LaneType : q = lane[l]
    BY DEF QueryInv, ClientTyped, Lanes
<1>2. q.step = "group" /\ q.next \in DOMAIN q.rows /\ Reads
    BY <1>1 DEF FindBlockOfTx, LaneType
<1>3. TxKnows(l, q)
    BY <1>1 DEF QueryInv, LaneKnows, Lanes
<1> DEFINE v == [q EXCEPT !.step = "countTxs"]
<1>4. Moved(l, v)
    BY <1>1, <1>2, NextListed DEF FindBlockOfTx
<1>5. \A i \in DOMAIN q.entries : q.entries[i].block # txTable[q.rows[q.next]]
    BY <1>1 DEF FindBlockOfTx, EntriesOf
<1>6. /\ v \in LaneType /\ v.step = "countTxs" /\ v.rows = q.rows
      /\ v.entries = q.entries /\ v.next = q.next
    BY DEF LaneType, LaneSteps
<1> HIDE DEF v
<1> QED
    BY <1>1, <1>2, <1>3, <1>4, <1>5, <1>6, GroupStep DEF TxKnows

\* The entry of a block with its first listed transaction
LEMMA CountTxsOfBlockStep ==
    ASSUME TypeOK, StoreInv, FiniteTables, QueryInv, NEW l \in {"tx", "list"},
           CountTxsOfBlock(l)
    PROVE  QueryInv'
<1>1. PICK q \in LaneType : q = lane[l]
    BY DEF QueryInv, ClientTyped, Lanes
<1>2. TxKnows(l, q) /\ q.step = "countTxs" /\ Reads
    BY <1>1 DEF QueryInv, LaneKnows, Lanes, CountTxsOfBlock
<1>3. q.next \in DOMAIN q.rows
    BY <1>2 DEF TxKnows
<1>4. PICK t, b : t = q.rows[q.next] /\ b = txTable[t]
    OBVIOUS
<1>5. t \in Txs /\ b \in Blocks /\ t \in RowsUnder(b)
    BY <1>1, <1>2, <1>3, <1>4, NextListed
<1> DEFINE n == Cardinality(RowsUnder(b))
           e == [block |-> b, txs |-> {t}, step |-> "done", total |-> n]
           es == Append(q.entries, e)
           v == [q EXCEPT !.step = "group", !.next = @ + 1, !.entries = es]
<1>6. Moved(l, v)
    BY <1>1, <1>4 DEF CountTxsOfBlock
<1>7. n \in Nat
    BY <1>5, RowsFinite
<1>8. e \in Entries /\ e.block = b /\ ListedAreWhole(e)
    BY <1>5, <1>7 DEF Entries, ListedAreWhole
<1> HIDE DEF e, n
<1>9. q.entries \in Seq(Entries)
    BY DEF LaneType
<1>10. /\ es \in Seq(Entries) /\ DOMAIN es = DOMAIN q.entries \union {Len(q.entries) + 1}
       /\ es[Len(q.entries) + 1] = e /\ es # << >>
       /\ \A i \in DOMAIN q.entries : es[i] = q.entries[i]
    BY <1>8, <1>9
<1> HIDE DEF es
<1>11. v \in LaneType /\ v.step = "group" /\ v.rows = q.rows /\ v.entries = es
    <2>1. q.next + 1 \in Nat \ {0}
        BY DEF LaneType
    <2>2. v = [q EXCEPT !.step = "group", !.next = q.next + 1, !.entries = es]
        BY DEF LaneType
    <2> QED
        BY <1>10, <2>1, <2>2 DEF LaneType, LaneSteps
<1> HIDE DEF v
<1>12. \A i \in DOMAIN q.entries : q.entries[i].block # b
    BY <1>2, <1>4 DEF TxKnows
<1>13. OneEntryPerBlock(es)
    BY <1>2, <1>8, <1>10, <1>12 DEF TxKnows, OneEntryPerBlock
<1>14. \A i \in DOMAIN es : ListedAreWhole(es[i])
    BY <1>2, <1>8, <1>10 DEF TxKnows
<1> QED
    BY <1>1, <1>2, <1>6, <1>10, <1>11, <1>13, <1>14, GroupStep
-----------------------------------------------------------------------------
(* The answer *)

\* The entries of a finished lane
LEMMA FinishedLane ==
    ASSUME QueryInv, NEW l \in Lanes, Finished(l)
    PROVE  /\ lane[l].entries \in Seq(Entries)
           /\ OneEntryPerBlock(lane[l].entries)
           /\ \A e \in Elements(lane[l].entries) :
                IF l = "block" THEN DetailsAreWhole(e) ELSE ListedAreWhole(e)
           /\ Found(l) => lane[l].step # "off"
           /\ /\ lane[l].step # "off"
              /\ l \in LookedUp(request)
              /\ request.hash \in known \intersect (IF l = "block" THEN Blocks ELSE Txs)
              => Found(l)
<1>1. PICK q \in LaneType : q = lane[l]
    BY DEF QueryInv, ClientTyped
<1>2. LaneKnows(l, q) /\ q.entries \in Seq(Entries)
    BY <1>1 DEF QueryInv, LaneType
<1>3. CASE l = "block"
    <2>1. BlockKnows(q)
        BY <1>2, <1>3 DEF LaneKnows
    <2>2. q.step \in {"off", "error", "details"}
        BY <1>1, <1>3, <2>1 DEF Finished, BlockKnows
    <2>3. \A i \in DOMAIN q.entries : DetailsAreWhole(q.entries[i])
        BY <1>1, <1>3, <2>1, <2>2 DEF Finished, BlockKnows, EntryKnows
    <2> QED
        BY <1>1, <1>2, <1>3, <2>1, <2>2, <2>3
        DEF Elements, Found, BlockKnows, LaneKnows
<1>4. CASE l # "block"
    <2>1. TxKnows(l, q)
        BY <1>2, <1>4 DEF LaneKnows
    <2>2. /\ q.step \in {"off", "error", "group"}
          /\ q.step = "group" => q.next > Len(q.rows)
        BY <1>1, <1>4, <2>1 DEF Finished, TxKnows
    <2>3. q.step = "group" /\ q.rows # << >> => q.entries # << >>
        <3>1. q.rows \in Seq(Hashes) /\ q.next \in Nat
            BY DEF LaneType
        <3>2. q.rows # << >> => Len(q.rows) >= 1
            BY <3>1
        <3> QED
            BY <2>1, <2>2, <3>1, <3>2 DEF TxKnows
    <2> QED
        BY <1>1, <1>2, <1>4, <2>1, <2>2, <2>3 DEF Elements, Found, TxKnows, LaneKnows
<1> QED
    BY <1>3, <1>4

\* The answer holds the entries of the first lane that found something.
LEMMA AnswerStep ==
    ASSUME QueryInv, Answer
    PROVE  QueryInv'
<1> DEFINE es == IF Found("block") THEN lane["block"].entries
                 ELSE IF Found("tx") THEN lane["tx"].entries
                 ELSE lane["list"].entries
<1>1. /\ \A l \in Lanes : Finished(l)
      /\ answer'.blocks = es
      /\ answer'.status \in {"ok", "error"}
      /\ answer' = [status |-> answer'.status, blocks |-> es]
      /\ lane' = [l \in Lanes |-> Idle]
      /\ UNCHANGED <<vars, request, known, reader, push>>
      /\ \E l \in Lanes : lane[l].step # "off"
    BY DEF Answer
<1>2. /\ request \in Requests
      /\ \A l \in Lanes :
            lane[l].step = "off" <=> l \notin LookedUp(request) \union Counted(request)
    BY <1>1 DEF QueryInv, LanesInUse, Idle
<1>3. \A l \in Lanes :
        /\ lane[l].entries \in Seq(Entries)
        /\ OneEntryPerBlock(lane[l].entries)
        /\ \A e \in Elements(lane[l].entries) :
            IF l = "block" THEN DetailsAreWhole(e) ELSE ListedAreWhole(e)
        /\ Found(l) => lane[l].step # "off"
    BY <1>1, FinishedLane
<1>4. PICK k \in Lanes :
        /\ es = lane[k].entries
        /\ \A l \in Lanes : Found(l) => Found(k)
    BY DEF Found, Lanes
<1>5. es \in Seq(Entries) /\ OneEntryPerBlock(es)
    BY <1>3, <1>4
<1>6. Idle \in LaneType
    BY DEF Idle, LaneType, LaneSteps
<1>7. ClientTyped'
    BY <1>1, <1>5, <1>6 DEF QueryInv, ClientTyped
<1>8. NoRequest' /\ KnownIsStored' /\ LanesInUse'
    BY <1>1, <1>2, RequestTyped
    DEF QueryInv, NoRequest, KnownIsStored, LanesInUse, vars, StoredTxs
<1>9. ASSUME NEW l \in Lanes PROVE LaneKnows(l, lane[l])'
    BY <1>1, <1>9 DEF LaneKnows, BlockKnows, TxKnows, OneEntryPerBlock, Idle
<1>10. AnswersAreWhole'
    <2>1. ASSUME NEW e \in Elements(es)
          PROVE  CASE request.method \in {"getBlocks", "getBlockByHash"} -> DetailsAreWhole(e)
                   [] request.method \in {"getTxs", "getTxByHash"} -> ListedAreWhole(e)
                   [] OTHER -> DetailsAreWhole(e) \/ ListedAreWhole(e)
        <3>1. k \in LookedUp(request) \union Counted(request)
            BY <1>2, <1>3, <1>4, <2>1 DEF Found, Elements
        <3>2. IF k = "block" THEN DetailsAreWhole(e) ELSE ListedAreWhole(e)
            BY <1>3, <1>4, <2>1
        <3>3. /\ request.method \in {"getBlocks", "getBlockByHash"} => k = "block"
              /\ request.method \in {"getTxs", "getTxByHash"} => k # "block"
            BY <3>1 DEF LookedUp, Counted
        <3>4. DetailsAreWhole(e) \/ ListedAreWhole(e)
            BY <3>2
        <3>5. CASE request.method \in {"getBlocks", "getBlockByHash"}
            BY <3>2, <3>3, <3>5
        <3>6. CASE request.method \in {"getTxs", "getTxByHash"}
            BY <3>2, <3>3, <3>6
        <3>7. CASE request.method \notin {"getBlocks", "getBlockByHash", "getTxs", "getTxByHash"}
            BY <3>4, <3>7
        <3> QED
            BY <3>5, <3>6, <3>7
    <2>2. ASSUME NEW l \in {"block", "tx"}, l \in LookedUp(request),
                 request.hash \in known \intersect (IF l = "block" THEN Blocks ELSE Txs)
          PROVE  es # << >>
        <3>1. l \in Lanes /\ Found(l)
            BY <1>1, <1>2, <2>2, FinishedLane DEF Lanes
        <3> QED
            BY <1>4, <3>1 DEF Found
    <2>3. /\ request.method \in {"getBlockByHash", "searchByAddress"}
                => "block" \in LookedUp(request)
          /\ request.method \in {"getTxByHash", "searchByAddress"}
                => "tx" \in LookedUp(request)
        BY DEF LookedUp
    <2> HIDE DEF es
    <2>4. AnswersAreWhole'
        <3>1. /\ \A e : DetailsAreWhole(e)' <=> DetailsAreWhole(e)
              /\ \A e : ListedAreWhole(e)' <=> ListedAreWhole(e)
            BY <1>1 DEF DetailsAreWhole, ListedAreWhole, RowsUnder, vars
        <3>2. /\ answer'.blocks = es
              /\ UNCHANGED <<request, known>>
            BY <1>1
        <3>3. /\ \A i, j \in DOMAIN es : es[i].block = es[j].block => i = j
              /\ request.hash \in known \intersect Blocks
                    /\ request.method \in {"getBlockByHash", "searchByAddress"}
                => es # << >>
              /\ request.hash \in known \intersect Txs
                    /\ request.method \in {"getTxByHash", "searchByAddress"}
                => es # << >>
            BY <1>5, <2>2, <2>3 DEF OneEntryPerBlock
        <3> QED
            BY <2>1, <3>1, <3>2, <3>3 DEF AnswersAreWhole, Elements
    <2> QED
        BY <2>4
<1> QED
    BY <1>7, <1>8, <1>9, <1>10 DEF QueryInv
-----------------------------------------------------------------------------
(* The cursor of push_getTransactions *)

\* Among finitely many elements with a strict order, given by the set L[x] of
\* what is before x, one is the first.
LEMMA FirstExists ==
    ASSUME NEW S, IsFiniteSet(S), S # {}, NEW L \in [S -> SUBSET S],
           \A x \in S : x \notin L[x],
           \A x \in S : \A y \in L[x] : L[y] \subseteq L[x]
    PROVE  \E x \in S : L[x] = {}
<1> DEFINE Z == {L[x] : x \in S}
<1>1. IsWellFoundedOn(StrictSubsetOrdering(S), FiniteSubsetsOf(S))
    BY FS_StrictSubsetOrderingWellFounded
<1>2. Z \subseteq FiniteSubsetsOf(S) /\ Z # {}
    BY FS_Subset DEF FiniteSubsetsOf
<1>3. PICK A \in Z : \A B \in Z : ~(<<B, A>> \in StrictSubsetOrdering(S))
    BY <1>1, <1>2, WFMin
<1>4. PICK x \in S : A = L[x]
    OBVIOUS
<1>5. ASSUME NEW y \in L[x] PROVE FALSE
    <2>1. y \in S /\ L[y] \in Z /\ L[y] \subseteq L[x] /\ L[y] # L[x]
        OBVIOUS
    <2>2. <<L[y], L[x]>> \in StrictSubsetOrdering(S)
        BY <2>1 DEF StrictSubsetOrdering
    <2> QED
        BY <1>3, <1>4, <2>1, <2>2
<1> QED
    BY <1>5

\* Finitely many rows that have a ts have a first one.
LEMMA FirstRow ==
    ASSUME NEW S, IsFiniteSet(S), S # {}, \A t \in S : TsOf(t) \in Nat
    PROVE  \E t \in S : {u \in S : Before(TsOf(u), TsOf(t))} = {}
<1> DEFINE L == [t \in S |-> {u \in S : Before(TsOf(u), TsOf(t))}]
<1>1. L \in [S -> SUBSET S]
    OBVIOUS
<1>2. \A t \in S : L[t] = {u \in S : Before(TsOf(u), TsOf(t))}
    OBVIOUS
<1> HIDE DEF L
<1>3. \A t \in S : t \notin L[t]
    BY <1>2 DEF Before
<1>4. \A t \in S : \A u \in L[t] : L[u] \subseteq L[t]
    BY <1>2 DEF Before
<1>5. PICK t \in S : L[t] = {}
    BY <1>1, <1>3, <1>4, FirstExists
<1> QED
    BY <1>2, <1>5

\* And a last one.
LEMMA LastRow ==
    ASSUME NEW S, IsFiniteSet(S), S # {}, \A t \in S : TsOf(t) \in Nat
    PROVE  \E t \in S : \A u \in S : ~Before(TsOf(t), TsOf(u))
<1> DEFINE L == [t \in S |-> {u \in S : Before(TsOf(t), TsOf(u))}]
<1>1. L \in [S -> SUBSET S]
    OBVIOUS
<1>2. \A t \in S : L[t] = {u \in S : Before(TsOf(t), TsOf(u))}
    OBVIOUS
<1> HIDE DEF L
<1>3. \A t \in S : t \notin L[t]
    BY <1>2 DEF Before
<1>4. \A t \in S : \A u \in L[t] : L[u] \subseteq L[t]
    BY <1>2 DEF Before
<1>5. PICK t \in S : L[t] = {}
    BY <1>1, <1>3, <1>4, FirstExists
<1> QED
    BY <1>2, <1>5

\* lastTs is the ts of a row, and no row comes after it.
LEMMA LastTsIsLast ==
    ASSUME NEW S, IsFiniteSet(S), S # {}, \A t \in S : TsOf(t) \in Nat
    PROVE  /\ LastTs(S) \in {TsOf(t) : t \in S}
           /\ \A t \in S : ~Before(LastTs(S), TsOf(t))
<1>1. PICK u \in S : \A t \in S : ~Before(TsOf(u), TsOf(t))
    BY LastRow
<1>2. \E ts \in {TsOf(t) : t \in S} : \A t \in S : ~Before(ts, TsOf(t))
    BY <1>1
<1> QED
    BY <1>2 DEF LastTs

\* A call that has candidates answers some of them, and every candidate that is
\* not answered comes strictly after those that are.
LEMMA AnsweredFirst ==
    ASSUME NEW S, IsFiniteSet(S), \A t \in S : TsOf(t) \in Nat,
           NEW items \in FirstRows(S)
    PROVE  /\ items \subseteq S
           /\ items = {} => S = {}
           /\ \A t \in S \ items : \A u \in items : Before(TsOf(u), TsOf(t))
<1> DEFINE Ahd(t) == {u \in S : Before(TsOf(u), TsOf(t))}
<1>1. items = {t \in S : Cardinality(Ahd(t)) < CursorSize}
    BY DEF FirstRows
<1>2. \A t \in S : IsFiniteSet(Ahd(t)) /\ Cardinality(Ahd(t)) \in Nat
    BY FS_Subset, FS_CardinalityType
<1>3. items = {} => S = {}
    <2> SUFFICES ASSUME S # {} PROVE items # {}
        OBVIOUS
    <2>1. PICK t \in S : Ahd(t) = {}
        BY FirstRow
    <2>2. Cardinality(Ahd(t)) = 0
        BY <2>1, FS_EmptySet
    <2> QED
        BY <1>1, <2>2, RequestsAssumption
<1>4. ASSUME NEW t \in S \ items, NEW u \in items PROVE Before(TsOf(u), TsOf(t))
    <2> SUFFICES ASSUME ~Before(TsOf(u), TsOf(t)) PROVE FALSE
        OBVIOUS
    <2>1. u \in S
        BY <1>1
    <2>2. Ahd(t) \subseteq Ahd(u)
        BY <2>1 DEF Before
    <2>3. Cardinality(Ahd(t)) <= Cardinality(Ahd(u))
        BY <1>2, <2>1, <2>2, FS_Subset
    <2>4. t \in S /\ ~(Cardinality(Ahd(t)) < CursorSize) /\ Cardinality(Ahd(u)) < CursorSize
        BY <1>1
    <2>5. Cardinality(Ahd(t)) \in Nat /\ Cardinality(Ahd(u)) \in Nat
        BY <1>2, <2>1, <2>4
    <2> HIDE DEF Ahd
    <2> QED
        BY <2>3, <2>4, <2>5, RequestsAssumption
<1> QED
    BY <1>1, <1>3, <1>4
-----------------------------------------------------------------------------
(* The service composed with the ingestion *)

\* The client's reads leave the ingestion alone, and what it pushes are calls
\* of handleBlock like those of others.
LEMMA ServiceStep ==
    ASSUME ClientTyped, PushTyped, [ServiceNext]_serviceVars
    PROVE  [Next]_vars
<1>1. ASSUME NEW r \in Requests, Ask(r) PROVE UNCHANGED vars
    BY <1>1 DEF Ask
<1>2. ASSUME NEW l, CountRows(l) \/ FindPage(l) \/ FindOne(l) PROVE UNCHANGED vars
    BY <1>2 DEF CountRows, FindPage, FindOne, Reads
<1>3. ASSUME NEW i, CountTxs(i) \/ FindTxs(i) PROVE UNCHANGED vars
    BY <1>3 DEF CountTxs, FindTxs, Reads
<1>4. ASSUME NEW l, AddToEntry(l) \/ FindBlockOfTx(l) \/ CountTxsOfBlock(l)
      PROVE  UNCHANGED vars
    BY <1>4 DEF AddToEntry, FindBlockOfTx, CountTxsOfBlock, Reads
<1>5. CASE Answer
    BY <1>5 DEF Answer
<1>6. CASE CountHashes \/ FindHashes \/ FetchBlocks \/ GetTransactions
    BY <1>6 DEF CountHashes, FindHashes, FetchBlocks, GetTransactions, Turn
<1>7. CASE PutBlockHash \/ EndPush
    BY <1>7 DEF PutBlockHash, EndPush
<1>8. ASSUME NEW i \in DOMAIN push.items, Unparsable(i) PROVE UNCHANGED vars
    BY <1>8 DEF Unparsable
<1>9. ASSUME NEW i \in DOMAIN push.items, HandleBlock(i) PROVE Next
    <2>1. Deliver(PushCall, push.items[i]) /\ push.items[i] # Malformed
        BY <1>9 DEF HandleBlock
    <2>2. push.items[i] \in Blocks
        BY <2>1 DEF PushTyped
    <2> QED
        BY <2>1, <2>2, RequestsAssumption DEF Next
<1>10. ASSUME NEW i \in DOMAIN push.items, Handled(i) PROVE Next
    BY <1>10, RequestsAssumption DEF Handled, Next
<1>11. CASE Ingest
    BY <1>11, RequestsAssumption DEF Ingest, Next
<1>12. CASE UNCHANGED serviceVars
    BY <1>12 DEF serviceVars
<1> QED
    BY <1>1, <1>2, <1>3, <1>4, <1>5, <1>6, <1>7, <1>8, <1>9, <1>10, <1>11, <1>12
    DEF ServiceNext

\* A step of the reading client.
LEMMA ReaderTyped ==
    ASSUME TypeOK, FiniteTables, ClientTyped,
           reader.step # "off" => request \in Requests,
           reader.step = "page" => reader.page >= 1,
           CountHashes \/ FindHashes \/ FetchBlocks \/ GetTransactions
    PROVE  reader' \in ReaderType
<1> DEFINE r == reader
<1>1. r \in ReaderType /\ r.page \in Int /\ r.seen \subseteq Hashes /\ r.rows \in Seq(Hashes)
    BY DEF ClientTyped, ReaderType
<1>2. CASE CountHashes
    <2>1. reader' = [reader EXCEPT !.step = "page", !.page = FirstPage(reader.page)]
        BY <1>2 DEF CountHashes, Turn
    <2>2. FirstPage(reader.page) \in Int
        BY <1>1 DEF FirstPage
    <2> QED
        BY <1>1, <2>1, <2>2 DEF ReaderType
<1>3. CASE FindHashes
    <2>1. IsFiniteSet(Matching("block")) /\ Matching("block") \subseteq Hashes
        BY MatchingFinite DEF Lanes
    <2>2. PICK s \in Orders(Matching("block"), LAMBDA b : Ts[b]) :
            reader' = [reader EXCEPT
                !.step = IF Page(s, request.pageSize, reader.page) = << >>
                         THEN "done" ELSE "fetch",
                !.rows = Page(s, request.pageSize, reader.page)]
        BY <1>3 DEF FindHashes, Turn
    <2>3. s \in [1..Cardinality(Matching("block")) -> Matching("block")]
          /\ Elements(s) = Matching("block")
        BY DEF Orders
    <2>4. request.pageSize \in Nat /\ reader.page >= 1
        BY <1>3, RequestTyped DEF FindHashes
    <2>5. Page(s, request.pageSize, reader.page) \in Seq(Matching("block"))
        BY <1>1, <2>1, <2>3, <2>4, PageOf
    <2>6. PICK p \in Seq(Hashes) : p = Page(s, request.pageSize, reader.page)
        BY <2>1, <2>5
    <2> QED
        BY <1>1, <2>2, <2>6 DEF ReaderType
<1>4. CASE FetchBlocks
    <2>1. reader' = [reader EXCEPT !.step = "count", !.page = reader.page + 1, !.rows = << >>,
                !.seen = reader.seen \union (Elements(reader.rows) \intersect blockTable)]
        BY <1>4 DEF FetchBlocks, Turn
    <2>2. reader.page + 1 \in Int
        BY <1>1
    <2>3. reader.seen \union (Elements(reader.rows) \intersect blockTable) \subseteq Hashes
        BY <1>1 DEF TypeOK, Hashes
    <2>4. << >> \in Seq(Hashes)
        OBVIOUS
    <2> QED
        BY <1>1, <2>1, <2>2, <2>3, <2>4 DEF ReaderType
<1>5. CASE GetTransactions
    <2>1. PICK items \in FirstRows(Candidates) :
            reader' = IF items = {} THEN [reader EXCEPT !.step = "done"]
             ELSE [reader EXCEPT !.seen = reader.seen \union items, !.at = LastTs(items)]
        BY <1>5 DEF GetTransactions, Turn
    <2>2. IsFiniteSet(Candidates) /\ \A t \in Candidates : t \in StoredTxs /\ TsOf(t) \in Nat
        BY FS_Subset, RequestsAssumption
        DEF FiniteTables, Candidates, TsOf, TypeOK, StoredTxs
    <2>3. items \subseteq Candidates /\ IsFiniteSet(items)
        BY <2>2, AnsweredFirst, FS_Subset
    <2>4. items # {} => LastTs(items) \in Nat
        BY <2>2, <2>3, LastTsIsLast
    <2>5. items \subseteq Hashes
        BY <2>2, <2>3 DEF StoredTxs, Hashes
    <2> QED
        BY <1>1, <2>1, <2>4, <2>5 DEF ReaderType
<1> QED
    BY <1>2, <1>3, <1>4, <1>5
-----------------------------------------------------------------------------
(* A client that reads pages *)

Ahead(b) == {d \in Matching("block") : Before(Ts[d], Ts[b])}

\* A block with a ts of its own comes right after those that are before it.
LEMMA Position ==
    ASSUME NEW S, IsFiniteSet(S), S \subseteq Blocks,
           NEW s \in Seq(S), NoRepeats(s), Elements(s) = S,
           \A i \in DOMAIN s : \A j \in 1..(i - 1) : ~Before(Ts[s[i]], Ts[s[j]]),
           NEW p \in DOMAIN s,
           \A d \in S \ {s[p]} : Ts[d] # Ts[s[p]],
           NEW A, \A d : d \in A <=> d \in S /\ Before(Ts[d], Ts[s[p]])
    PROVE  p \in 1..Len(s) /\ Cardinality(A) = p - 1
<1> DEFINE f == [i \in 1..(p - 1) |-> s[i]]
<1>1. DOMAIN s = 1..Len(s) /\ Len(s) \in Nat /\ p \in 1..Len(s)
    OBVIOUS
<1>2. \A b \in S : Ts[b] \in Nat
    BY RequestsAssumption
<1>3. ASSUME NEW i \in 1..(p - 1)
      PROVE  s[i] \in A
    <2>1. i \in DOMAIN s /\ s[i] \in S /\ s[p] \in S
        BY <1>1
    <2>2. s[i] # s[p]
        BY <1>1, <2>1 DEF NoRepeats
    <2>3. Ts[s[i]] # Ts[s[p]] /\ ~Before(Ts[s[p]], Ts[s[i]])
        BY <2>1, <2>2
    <2> QED
        BY <1>2, <2>1, <2>3 DEF Before
<1>4. ASSUME NEW d \in A
      PROVE  \E i \in 1..(p - 1) : s[i] = d
    <2>1. PICK i \in DOMAIN s : s[i] = d
        BY DEF Elements
    <2>2. i # p
        BY <2>1, <1>2 DEF Before
    <2>3. ~(i > p)
        BY <1>1, <2>1
    <2> QED
        BY <1>1, <2>1, <2>2, <2>3
<1>5. f \in Bijection(1..(p - 1), A)
    <2>1. f \in [1..(p - 1) -> A]
        BY <1>3
    <2>2. \A i, j \in 1..(p - 1) : f[i] = f[j] => i = j
        BY <1>1 DEF NoRepeats
    <2>3. \A d \in A : \E i \in 1..(p - 1) : f[i] = d
        BY <1>4
    <2> HIDE DEF f
    <2> QED
        BY <2>1, <2>2, <2>3 DEF Bijection, Injection, Surjection, IsInjective
<1>6. IsFiniteSet(1..(p - 1)) /\ Cardinality(1..(p - 1)) = p - 1
    <2>1. PICK k \in Nat : k = p - 1
        BY <1>1
    <2>2. IsFiniteSet(1..k) /\ Cardinality(1..k) = k
        BY FS_Interval
    <2> QED
        BY <2>1, <2>2
<1> HIDE DEF f
<1>7. Cardinality(A) = p - 1
    BY <1>5, <1>6, FS_Bijection DEF ExistsBijection
<1> QED
    BY <1>1, <1>7

\* A page holds the rows between its bounds.
LEMMA PageHolds ==
    ASSUME NEW S, NEW s \in Seq(S), NEW size \in Nat \ {0}, NEW page \in Nat \ {0},
           NEW p \in 1..Len(s), (page - 1) * size < p
    PROVE  /\ Page(s, size, page) # << >>
           /\ p <= page * size => s[p] \in Elements(Page(s, size, page))
<1> DEFINE m == (page - 1) * size
           n == Least(page * size, Len(s))
<1>1. m \in Nat /\ page * size = m + size /\ page * size \in Nat
    OBVIOUS
<1>2. Page(s, size, page) = SubSeq(s, m + 1, n)
    BY DEF Page
<1> HIDE DEF m
<1>3. n \in Int /\ n <= Len(s) /\ n > m
    BY <1>1 DEF Least, m
<1>4. p <= page * size => p <= n
    BY <1>1 DEF Least
<1> HIDE DEF n
<1>5. PICK g : g = SubSeq(s, m + 1, n)
    OBVIOUS
<1>6. /\ g \in Seq(S) /\ Len(g) = n - m
      /\ \A i \in 1..Len(g) : g[i] = s[m + i]
    BY <1>1, <1>3, <1>5, Slice
<1>7. g # << >>
    BY <1>3, <1>1, <1>6
<1>8. ASSUME p <= page * size PROVE s[p] \in Elements(g)
    <2>1. p - m \in 1..Len(g) /\ m + (p - m) = p
        BY <1>1, <1>3, <1>4, <1>6, <1>8 DEF m
    <2>2. g[p - m] = s[p]
        BY <1>6, <2>1
    <2> QED
        BY <1>6, <2>1, <2>2 DEF Elements
<1> QED
    BY <1>2, <1>5, <1>7, <1>8

\* The block that the client must get, and what makes it certain.
Wanted(b) == InTime(Ts[b]) /\ \A d \in blockTable \ {b} : Ts[d] # Ts[b]

\* The client has the block, or holds its hash, or it is on a later page.
WillGet(b) ==
    \/ b \in reader.seen
    \/ reader.step = "fetch" /\ b \in Elements(reader.rows)
    \/ /\ reader.step \in {"count", "page"}
       /\ (FirstPage(reader.page) - 1) * request.pageSize <= Cardinality(Ahead(b))
    \/ /\ reader.step = "fetch"
       /\ reader.page * request.pageSize <= Cardinality(Ahead(b))

PagesKnow ==
    request \in Requests /\ request.method = "getBlockHashesInternal" =>
        /\ reader.step \in {"count", "page", "fetch", "done"}
        /\ request.page <= 1 /\ request.pageSize > 0 =>
            \A b \in known \intersect Blocks : Wanted(b) => WillGet(b)

\* The transactions that the client must get.
WantedTx(t) ==
    /\ CategoryOf[t] = request.category
    /\ Concerns(t, request.user)
    /\ Before(request.startTime, TsOf(t))

CursorKnows ==
    request \in Requests /\ request.method = "push_getTransactions" =>
        /\ reader.step \in {"query", "done"}
        /\ \A t \in known \intersect Txs : WantedTx(t) =>
            \/ t \in reader.seen
            \/ reader.step = "query" /\ Beyond(TsOf(t))

ReaderInv ==
    /\ reader.step \in {"page", "fetch"} => reader.page >= 1
    /\ PagesKnow
    /\ CursorKnows

\* Insertions move a block to later pages only.
LEMMA PagesStay ==
    ASSUME TypeOK, TypeOK', FiniteTables', Grows, UNCHANGED <<request, reader>>,
           ClientTyped, request \in Requests,
           NEW b \in Blocks, Wanted(b) => WillGet(b)
    PROVE  Wanted(b)' => WillGet(b)'
<1> SUFFICES ASSUME Wanted(b)' PROVE WillGet(b)'
    OBVIOUS
<1>1. Wanted(b)
    BY DEF Wanted, InTime, Grows
<1>2. Ahead(b) \subseteq Ahead(b)'
    BY DEF Ahead, Matching, InTime, Before, Grows
<1>3. Ahead(b)' \subseteq blockTable'
    BY DEF Ahead, Matching
<1>4. /\ Cardinality(Ahead(b)) \in Nat /\ Cardinality(Ahead(b)') \in Nat
      /\ Cardinality(Ahead(b)) <= Cardinality(Ahead(b)')
    BY <1>2, <1>3, FS_Subset, FS_CardinalityType DEF FiniteTables
<1>5. request.pageSize \in Nat /\ reader.page \in Int /\ FirstPage(reader.page) \in Int
    BY RequestTyped DEF ClientTyped, ReaderType, FirstPage
<1>6. PICK x, y \in Int : /\ x = (FirstPage(reader.page) - 1) * request.pageSize
                          /\ y = reader.page * request.pageSize
    BY <1>5
<1> QED
    BY <1>1, <1>4, <1>6 DEF WillGet, FirstPage

\* While others insert, the reading client's knowledge stays true.
LEMMA ReaderStays ==
    ASSUME TypeOK, TypeOK', FiniteTables', Grows, KnownIsStored, ClientTyped,
           UNCHANGED <<request, known, reader>>, ReaderInv
    PROVE  ReaderInv'
<1>1. PagesKnow'
    <2> SUFFICES ASSUME request \in Requests, request.method = "getBlockHashesInternal"
                 PROVE  PagesKnow'
        BY DEF PagesKnow
    <2>1. ASSUME NEW b \in Blocks, Wanted(b) => WillGet(b)
          PROVE  Wanted(b)' => WillGet(b)'
        BY <2>1, PagesStay
    <2> QED
        BY <2>1 DEF PagesKnow, ReaderInv
<1>2. CursorKnows'
    <2>1. ASSUME NEW t \in known \intersect Txs
          PROVE  TsOf(t)' = TsOf(t)
        <3>1. t \in StoredTxs
            BY RequestsAssumption DEF KnownIsStored, TypeOK
        <3> QED
            BY <3>1 DEF Grows, TsOf
    <2> QED
        BY <2>1 DEF CursorKnows, ReaderInv, WantedTx, Concerns, Before, Beyond
<1> QED
    BY <1>1, <1>2 DEF ReaderInv

\* When the client asks, nothing is behind it.
LEMMA AskReader ==
    ASSUME TypeOK, FiniteTables, ClientTyped, NoRequest, NEW r \in Requests, Ask(r)
    PROVE  ReaderInv'
<1>1. /\ request = None /\ request' = r /\ UNCHANGED vars
      /\ reader' = CASE r.method = "getBlockHashesInternal" ->
                        [reader EXCEPT !.step = "count", !.page = r.page]
                   [] r.method = "push_getTransactions" ->
                        [reader EXCEPT !.step = "query", !.at = r.startTime]
                   [] OTHER -> reader
    BY DEF Ask
<1>2. reader \in ReaderType /\ reader.step = "off"
    BY <1>1 DEF ClientTyped, NoRequest
<1>3. CASE r.method = "getBlockHashesInternal"
    <2>1. reader'.step = "count" /\ reader'.page = r.page
        BY <1>1, <1>2, <1>3 DEF ReaderType
    <2>2. ASSUME r.page <= 1, r.pageSize > 0, NEW b \in Blocks
          PROVE  WillGet(b)'
        <3>1. FirstPage(reader'.page) = 1
            BY <2>1, <2>2, RequestTyped DEF FirstPage
        <3>2. Ahead(b)' \subseteq blockTable
            BY <1>1 DEF Ahead, Matching, vars
        <3>3. (FirstPage(reader'.page) - 1) * r.pageSize = 0
            BY <3>1, RequestTyped
        <3>4. Cardinality(Ahead(b)') \in Nat
            BY <3>2, FS_Subset, FS_CardinalityType DEF FiniteTables
        <3> QED
            BY <1>1, <2>1, <3>3, <3>4 DEF WillGet
    <2> QED
        BY <1>1, <1>3, <2>1, <2>2 DEF ReaderInv, PagesKnow, CursorKnows
<1>4. CASE r.method = "push_getTransactions"
    <2>1. reader'.step = "query" /\ reader'.at = r.startTime
        BY <1>1, <1>2, <1>4 DEF ReaderType
    <2> QED
        BY <1>1, <1>4, <2>1
        DEF ReaderInv, PagesKnow, CursorKnows, WantedTx, Beyond, Before
<1>5. CASE r.method \notin {"getBlockHashesInternal", "push_getTransactions"}
    <2>1. reader' = reader
        BY <1>1, <1>5
    <2> QED
        BY <1>1, <1>2, <1>5, <2>1 DEF ReaderInv, PagesKnow, CursorKnows
<1> QED
    BY <1>3, <1>4, <1>5

\* The count makes no difference, but for the first page.
LEMMA CountHashesStep ==
    ASSUME ClientTyped, NoRequest, ReaderInv, CountHashes
    PROVE  ReaderInv'
<1>1. /\ reader.step = "count" /\ reader \in ReaderType
      /\ reader' = [reader EXCEPT !.step = "page", !.page = FirstPage(reader.page)]
      /\ UNCHANGED <<vars, request, known>>
    BY DEF CountHashes, Turn, ClientTyped
<1>2. request \in Requests /\ reader.page \in Int
    BY <1>1 DEF ClientTyped, NoRequest, ReaderType
<1>3. /\ reader'.step = "page" /\ reader'.page = FirstPage(reader.page)
      /\ reader'.seen = reader.seen
    BY <1>1 DEF ReaderType
<1>4. FirstPage(reader'.page) = FirstPage(reader.page) /\ reader'.page >= 1
    BY <1>2, <1>3 DEF FirstPage
<1>5. CursorKnows'
    BY <1>1, <1>2 DEF ReaderInv, CursorKnows
<1>6. ASSUME NEW b \in Blocks, WillGet(b) PROVE WillGet(b)'
    BY <1>1, <1>3, <1>4, <1>6 DEF WillGet, Ahead, Matching, InTime, Before, vars
<1>7. \A b \in Blocks : Wanted(b)' <=> Wanted(b)
    BY <1>1 DEF Wanted, InTime, vars
<1>8. PagesKnow'
    BY <1>1, <1>3, <1>6, <1>7 DEF ReaderInv, PagesKnow
<1> QED
    BY <1>3, <1>4, <1>5, <1>8 DEF ReaderInv

\* A wanted block is on the page that is read, or on a later one.
LEMMA FindHashesStep ==
    ASSUME TypeOK, FiniteTables, ClientTyped, NoRequest, KnownIsStored, ReaderInv,
           FindHashes
    PROVE  ReaderInv'
<1> DEFINE S == Matching("block")
           size == request.pageSize
           page == reader.page
<1>1. reader.step = "page" /\ reader \in ReaderType /\ UNCHANGED <<vars, request, known>>
    BY DEF FindHashes, Turn, ClientTyped
<1>2. request \in Requests /\ size \in Nat /\ page \in Nat \ {0}
    BY <1>1, RequestTyped DEF ClientTyped, NoRequest, ReaderType, ReaderInv
<1>3. IsFiniteSet(S) /\ S \subseteq Blocks
    BY MatchingFinite DEF Lanes, TypeOK
<1>4. PICK s \in Orders(S, LAMBDA b : Ts[b]) :
        reader' = [reader EXCEPT
            !.step = IF Page(s, size, page) = << >> THEN "done" ELSE "fetch",
            !.rows = Page(s, size, page)]
    BY DEF FindHashes, Turn
<1>5. s \in Seq(S) /\ Elements(s) = S /\ NoRepeats(s)
    BY <1>3, OrderOnce DEF Orders
<1>6. PICK got : got = Page(s, size, page)
    OBVIOUS
<1>7. /\ reader'.step = IF got = << >> THEN "done" ELSE "fetch"
      /\ reader'.rows = got /\ reader'.page = page /\ reader'.seen = reader.seen
    BY <1>1, <1>4, <1>6 DEF ReaderType
<1>8. ASSUME size > 0, NEW b \in known \intersect Blocks, Wanted(b), WillGet(b)
      PROVE  WillGet(b)'
    <2>1. b \in S
        BY <1>8, RequestsAssumption
        DEF KnownIsStored, StoredTxs, Wanted, Matching
    <2>2. PICK p \in DOMAIN s : s[p] = b
        BY <1>5, <2>1 DEF Elements
    <2>3. \A d \in S \ {b} : Ts[d] # Ts[b]
        BY <1>8 DEF Wanted, Matching
    <2>4. p \in 1..Len(s) /\ Cardinality(Ahead(b)) = p - 1
        <3>1. \A d : d \in Ahead(b) <=> d \in S /\ Before(Ts[d], Ts[s[p]])
            BY <2>2 DEF Ahead
        <3>2. \A d \in S \ {s[p]} : Ts[d] # Ts[s[p]]
            BY <2>2, <2>3
        <3>3. \A i \in DOMAIN s : \A j \in 1..(i - 1) : ~Before(Ts[s[i]], Ts[s[j]])
            BY DEF Orders
        <3> HIDE DEF S
        <3> QED
            BY <1>3, <1>5, <3>1, <3>2, <3>3, Position
    <2>5. CASE b \in reader.seen
        BY <1>7, <2>5 DEF WillGet
    <2>6. CASE b \notin reader.seen
        <3>1. (page - 1) * size <= p - 1
            BY <1>1, <1>2, <1>8, <2>4, <2>6 DEF WillGet, FirstPage
        <3>2. (page - 1) * size < p
            BY <1>2, <2>4, <3>1
        <3>3. got # << >> /\ (p <= page * size => b \in Elements(got))
            <4> HIDE DEF S, size, page
            <4>1. size \in Nat \ {0} /\ page \in Nat \ {0} /\ s \in Seq(S)
                BY <1>2, <1>5, <1>8
            <4> QED
                BY <1>6, <2>2, <2>4, <3>2, <4>1, PageHolds
        <3>4. Ahead(b)' = Ahead(b)
            BY <1>1 DEF Ahead, Matching, InTime, Before, vars
        <3>5. reader'.step = "fetch"
            BY <1>7, <3>3
        <3>6. PICK y \in Int : y = page * size
            BY <1>2
        <3>7. y > p - 1 => y >= p
            BY <2>4, <3>6
        <3> QED
            BY <1>1, <1>7, <2>4, <3>3, <3>4, <3>5, <3>6, <3>7 DEF WillGet
    <2> QED
        BY <2>5, <2>6
<1>9. \A b \in Blocks : Wanted(b)' <=> Wanted(b)
    BY <1>1 DEF Wanted, InTime, vars
<1>10. PagesKnow'
    BY <1>1, <1>7, <1>8, <1>9 DEF ReaderInv, PagesKnow
<1>11. CursorKnows'
    BY <1>1, <1>2 DEF ReaderInv, CursorKnows
<1> QED
    BY <1>2, <1>7, <1>10, <1>11 DEF ReaderInv

\* The hashes of a page are turned into blocks: they are stored.
LEMMA FetchBlocksStep ==
    ASSUME TypeOK, ClientTyped, NoRequest, KnownIsStored, ReaderInv, FetchBlocks
    PROVE  ReaderInv'
<1>1. /\ reader.step = "fetch" /\ reader \in ReaderType
      /\ reader' = [reader EXCEPT !.step = "count", !.page = reader.page + 1, !.rows = << >>,
            !.seen = reader.seen \union (Elements(reader.rows) \intersect blockTable)]
      /\ UNCHANGED <<vars, request, known>>
    BY DEF FetchBlocks, Turn, ClientTyped
<1>2. request \in Requests /\ reader.page \in Nat \ {0}
    BY <1>1 DEF ClientTyped, NoRequest, ReaderType, ReaderInv
<1>3. /\ reader'.step = "count" /\ reader'.page = reader.page + 1
      /\ reader'.seen = reader.seen \union (Elements(reader.rows) \intersect blockTable)
    BY <1>1 DEF ReaderType
<1>4. FirstPage(reader'.page) - 1 = reader.page
    BY <1>2, <1>3 DEF FirstPage
<1>5. ASSUME NEW b \in known \intersect Blocks, WillGet(b)
      PROVE  WillGet(b)'
    <2>1. b \in blockTable
        BY RequestsAssumption DEF KnownIsStored, StoredTxs
    <2>2. Ahead(b)' = Ahead(b)
        BY <1>1 DEF Ahead, Matching, InTime, Before, vars
    <2> QED
        BY <1>1, <1>3, <1>4, <1>5, <2>1, <2>2 DEF WillGet
<1>6. \A b \in Blocks : Wanted(b)' <=> Wanted(b)
    BY <1>1 DEF Wanted, InTime, vars
<1>7. PagesKnow'
    BY <1>1, <1>3, <1>5, <1>6 DEF ReaderInv, PagesKnow
<1>8. CursorKnows'
    BY <1>1, <1>2 DEF ReaderInv, CursorKnows
<1> QED
    BY <1>3, <1>7, <1>8 DEF ReaderInv

\* The rows that share the last ts are answered with it: none is jumped over.
LEMMA GetTransactionsStep ==
    ASSUME TypeOK, FiniteTables, ClientTyped, NoRequest, KnownIsStored, ReaderInv,
           GetTransactions
    PROVE  ReaderInv'
<1>1. reader.step = "query" /\ reader \in ReaderType /\ UNCHANGED <<vars, request, known>>
    BY DEF GetTransactions, Turn, ClientTyped
<1>2. PICK items \in FirstRows(Candidates) :
        reader' = IF items = {} THEN [reader EXCEPT !.step = "done"]
         ELSE [reader EXCEPT !.seen = reader.seen \union items, !.at = LastTs(items)]
    BY DEF GetTransactions, Turn
<1>3. IsFiniteSet(Candidates) /\ \A t \in Candidates : t \in StoredTxs /\ TsOf(t) \in Nat
    BY FS_Subset, RequestsAssumption
    DEF FiniteTables, Candidates, TsOf, TypeOK, StoredTxs
<1>4. /\ items \subseteq Candidates
      /\ items = {} => Candidates = {}
      /\ \A t \in Candidates \ items : \A u \in items : Before(TsOf(u), TsOf(t))
    BY <1>3, AnsweredFirst
<1>5. IsFiniteSet(items) /\ \A t \in items : TsOf(t) \in Nat
    BY <1>3, <1>4, FS_Subset
<1>6. request \in Requests
    BY <1>1 DEF ClientTyped, NoRequest
<1>7. ASSUME NEW t \in known \intersect Txs, WantedTx(t), Beyond(TsOf(t))
      PROVE  t \in Candidates
    <2>1. t \in StoredTxs
        BY RequestsAssumption DEF KnownIsStored, TypeOK
    <2> QED
        BY <1>7, <2>1 DEF WantedTx, Candidates
<1>8. \A t \in Txs : WantedTx(t)' <=> WantedTx(t)
    BY <1>1 DEF WantedTx, Concerns, Before, TsOf, vars
<1>9. CASE items = {}
    <2>1. reader'.step = "done" /\ reader'.seen = reader.seen
        BY <1>1, <1>2, <1>9 DEF ReaderType
    <2> QED
        BY <1>1, <1>4, <1>6, <1>7, <1>8, <1>9, <2>1
        DEF ReaderInv, PagesKnow, CursorKnows
<1>10. CASE items # {}
    <2>1. /\ reader'.step = "query" /\ reader'.seen = reader.seen \union items
          /\ reader'.at = LastTs(items)
        BY <1>1, <1>2, <1>10 DEF ReaderType
    <2>2. PICK u \in items : LastTs(items) = TsOf(u)
        BY <1>5, <1>10, LastTsIsLast
    <2>3. ASSUME NEW t \in Candidates \ items PROVE Beyond(TsOf(t))'
        <3>1. Before(TsOf(u), TsOf(t))
            BY <1>4
        <3> QED
            BY <1>1, <2>1, <2>2, <3>1 DEF Beyond, Before, TsOf, vars
    <2> QED
        BY <1>1, <1>6, <1>7, <1>8, <2>1, <2>3
        DEF ReaderInv, PagesKnow, CursorKnows
<1> QED
    BY <1>9, <1>10
-----------------------------------------------------------------------------
(* A client that pushes *)

\* handleBlock turned the block down for a reason that is still true.
Refused(b) == b \in blockTable \/ ~BlockIsValid(b)

\* What a status says of its block.
StatusIsTrue(i) ==
    /\ push.statuses[i] = "SUCCESS" => AddsNothing(push.items[i])
    /\ push.items[i] # Malformed /\ i \notin push.failed =>
        (AddsNothing(push.items[i]) \/ ~BlockIsValid(push.items[i]))

\* The call that is in progress is about the block that waits for its status.
Handling ==
    push.step = "handling" =>
        /\ pc[PushCall] # "idle"
        /\ block[PushCall] \in Blocks
        /\ \A i \in Remaining : IsNext(i) =>
            /\ push.items[i] = block[PushCall]
            /\ pc[PushCall] = "done" /\ ~ok[PushCall] /\ i \notin push.failed
                => Refused(block[PushCall])

PushInv ==
    /\ PushTyped
    /\ DOMAIN push.items \subseteq Nat
    /\ Handling
    /\ \A i \in DOMAIN push.statuses : StatusIsTrue(i)
    /\ push.step = "done" => DOMAIN push.statuses = DOMAIN push.items

\* The invariant says what the property says.
LEMMA PushInvIsEnough == PushInv => PushedIsStored
BY DEF PushInv, PushedIsStored, StatusIsTrue

\* A reason to turn a block down stays one, and what adds nothing adds nothing.
LEMMA ReasonsStay ==
    ASSUME Grows, UNCHANGED contract, NEW b
    PROVE  /\ AddsNothing(b) => AddsNothing(b)'
           /\ BlockIsValid(b)' <=> BlockIsValid(b)
           /\ Refused(b) => Refused(b)'
BY DEF Grows, contract, AddsNothing, BlockIsValid, Refused

\* A step of the others: the calls that push wait.
LEMMA PushWaits ==
    ASSUME PushInv, Grows, UNCHANGED <<contract, push>>, PushTyped',
           pc'[PushCall] = pc[PushCall], block'[PushCall] = block[PushCall],
           ok'[PushCall] = ok[PushCall]
    PROVE  PushInv'
<1>1. Handling'
    BY ReasonsStay DEF PushInv, Handling, Remaining, IsNext
<1>2. \A i \in DOMAIN push.statuses : StatusIsTrue(i)'
    BY ReasonsStay DEF PushInv, StatusIsTrue
<1> QED
    BY <1>1, <1>2 DEF PushInv

\* No step of the service changes what the node knows of the contract.
LEMMA ContractKept ==
    ASSUME [ServiceNext]_serviceVars
    PROVE  UNCHANGED contract
<1> USE DEF contract
<1>1. ASSUME NEW c \in Calls, Step(c) PROVE UNCHANGED contract
    BY <1>1 DEF Step, IsBlockAlreadyStored, ValidateBlock, FindTx, Prepared,
                CreateBlock, CreateTxs, Broadcast
<1>2. ASSUME NEW c, NEW b, Deliver(c, b) PROVE UNCHANGED contract
    BY <1>2 DEF Deliver
<1>3. ASSUME NEW c, Collect(c) \/ DbError(c) \/ AnswerLost(c) PROVE UNCHANGED contract
    BY <1>3 DEF Collect, DbError, AnswerLost
<1>4. CASE Ingest
    BY <1>1, <1>2, <1>3, <1>4 DEF Ingest
<1>5. ASSUME NEW r \in Requests, Ask(r) PROVE UNCHANGED contract
    BY <1>5 DEF Ask, vars
<1>6. ASSUME NEW l, CountRows(l) \/ FindPage(l) \/ FindOne(l) PROVE UNCHANGED contract
    BY <1>6 DEF CountRows, FindPage, FindOne, Reads, vars
<1>7. ASSUME NEW i, CountTxs(i) \/ FindTxs(i) PROVE UNCHANGED contract
    BY <1>7 DEF CountTxs, FindTxs, Reads, vars
<1>8. ASSUME NEW l, AddToEntry(l) \/ FindBlockOfTx(l) \/ CountTxsOfBlock(l)
      PROVE  UNCHANGED contract
    BY <1>8 DEF AddToEntry, FindBlockOfTx, CountTxsOfBlock, Reads, vars
<1>9. CASE Answer \/ CountHashes \/ FindHashes \/ FetchBlocks \/ GetTransactions
    BY <1>9 DEF Answer, CountHashes, FindHashes, FetchBlocks, GetTransactions, Turn, vars
<1>10. CASE PutBlockHash \/ EndPush
    BY <1>10 DEF PutBlockHash, EndPush, vars
<1>11. ASSUME NEW i, Unparsable(i) PROVE UNCHANGED contract
    BY <1>11 DEF Unparsable, vars
<1>12. ASSUME NEW i, HandleBlock(i) \/ Handled(i) PROVE UNCHANGED contract
    BY <1>2, <1>3, <1>12 DEF HandleBlock, Handled
<1>13. CASE UNCHANGED serviceVars
    BY <1>13 DEF serviceVars, vars
<1> QED
    BY <1>4, <1>5, <1>6, <1>7, <1>8, <1>9, <1>10, <1>11, <1>12, <1>13 DEF ServiceNext

\* One call leaves the others alone.
LEMMA OneCall ==
    ASSUME TypeOK, NEW c \in Calls, NEW d \in Calls \ {c},
           \/ \E b \in Blocks : Deliver(c, b)
           \/ Collect(c) \/ Step(c) \/ DbError(c)
    PROVE  pc'[d] = pc[d] /\ block'[d] = block[d] /\ ok'[d] = ok[d]
<1> USE DEF TypeOK
<1>1. ASSUME NEW b \in Blocks, Deliver(c, b)
      PROVE  pc'[d] = pc[d] /\ block'[d] = block[d] /\ ok'[d] = ok[d]
    BY <1>1 DEF Deliver
<1>2. CASE Collect(c)
    BY <1>2 DEF Collect
<1>3. ASSUME NEW returned, Return(c, returned)
      PROVE  pc'[d] = pc[d] /\ block'[d] = block[d] /\ ok'[d] = ok[d]
    BY <1>3 DEF Return
<1>4. ASSUME NEW step, Goto(c, step)
      PROVE  pc'[d] = pc[d] /\ block'[d] = block[d] /\ ok'[d] = ok[d]
    BY <1>4 DEF Goto
<1>5. CASE DbError(c)
    BY <1>3, <1>5 DEF DbError
<1>6. CASE FindTx(c)
    BY <1>6 DEF FindTx
<1>7. CASE Broadcast(c)
    BY <1>3, <1>7 DEF Broadcast
<1>8. CASE \/ IsBlockAlreadyStored(c) \/ ValidateBlock(c) \/ Prepared(c)
           \/ CreateBlock(c) \/ CreateTxs(c)
    BY <1>3, <1>4, <1>8
    DEF IsBlockAlreadyStored, ValidateBlock, Prepared, CreateBlock, CreateTxs
<1> QED
    BY <1>1, <1>2, <1>5, <1>6, <1>7, <1>8 DEF Step

\* A step of the call that pushes: it answers false only for a reason.
LEMMA PushStep ==
    ASSUME TypeOK, TypeOK', CallsInv, Grows, PushInv, PushTyped', Step(PushCall),
           UNCHANGED push, UNCHANGED contract
    PROVE  PushInv'
<1> DEFINE c == PushCall
<1>1. c \in Calls
    BY RequestsAssumption
<1>2. CASE pc[c] = "idle"
    <2>1. ~Step(c)
        BY <1>2 DEF Step, IsBlockAlreadyStored, ValidateBlock, FindTx, Prepared,
                    CreateBlock, CreateTxs, Broadcast
    <2> QED
        BY <2>1
<1>3. CASE pc[c] # "idle"
    <2>1. /\ block' = block /\ pc'[c] # "idle"
          /\ pc'[c] = "done" /\ ~ok'[c] => Refused(block[c])
        <3> USE DEF TypeOK
        <3>1. /\ Return(c, TRUE) => block' = block /\ pc'[c] = "done" /\ ok'[c]
              /\ Return(c, FALSE) => block' = block /\ pc'[c] = "done"
            BY <1>1 DEF Return
        <3>2. ASSUME NEW step \in Steps, Goto(c, step)
              PROVE  block' = block /\ pc'[c] = step
            BY <1>1, <3>2 DEF Goto
        <3> USE DEF Steps, DbSteps
        <3>3. CASE FindTx(c)
            BY <3>3 DEF FindTx
        <3>4. CASE Broadcast(c)
            BY <3>1, <3>4 DEF Broadcast
        <3>5. CASE IsBlockAlreadyStored(c)
            <4>1. CASE block[c] \in blockTable
                BY <3>1, <3>5, <4>1 DEF IsBlockAlreadyStored
            <4>2. CASE block[c] \notin blockTable
                BY <3>2, <3>5, <4>2 DEF IsBlockAlreadyStored
            <4> QED
                BY <4>1, <4>2
        <3>6. CASE ValidateBlock(c)
            <4>1. CASE BlockIsValid(block[c])
                BY <3>2, <3>6, <4>1 DEF ValidateBlock, Refused
            <4>2. CASE ~BlockIsValid(block[c])
                BY <3>1, <3>6, <4>2 DEF ValidateBlock, Refused
            <4> QED
                BY <4>1, <4>2
        <3>7. CASE Prepared(c)
            <4>1. CASE rows[c] = << >>
                BY <3>1, <3>7, <4>1 DEF Prepared
            <4>2. CASE rows[c] # << >>
                BY <3>2, <3>7, <4>2 DEF Prepared
            <4> QED
                BY <4>1, <4>2
        <3>8. CASE CreateBlock(c)
            <4>1. CASE block[c] \in blockTable
                BY <3>1, <3>8, <4>1 DEF CreateBlock, Refused
            <4>2. CASE block[c] \notin blockTable
                BY <3>2, <3>8, <4>2 DEF CreateBlock, Refused
            <4> QED
                BY <4>1, <4>2
        <3>9. CASE CreateTxs(c)
            <4>1. block[c] \in blockTable
                BY <1>1, <3>9 DEF CreateTxs, CallsInv, CallKnows, Writing, InProgress
            <4>2. CASE RowsConflict(c)
                BY <3>1, <3>9, <4>1, <4>2 DEF CreateTxs, Refused
            <4>3. CASE ~RowsConflict(c)
                BY <3>2, <3>9, <4>3 DEF CreateTxs
            <4> QED
                BY <4>2, <4>3
        <3> QED
            BY <3>3, <3>4, <3>5, <3>6, <3>7, <3>8, <3>9 DEF Step
    <2>2. Handling'
        BY <2>1, ReasonsStay DEF PushInv, Handling, Remaining, IsNext
    <2>3. \A i \in DOMAIN push.statuses : StatusIsTrue(i)'
        BY ReasonsStay DEF PushInv, StatusIsTrue
    <2> QED
        BY <2>2, <2>3 DEF PushInv
<1> QED
    BY <1>2, <1>3

\* The database fails while the block is handled: the position is noted.
LEMMA PushFails ==
    ASSUME TypeOK, Grows, PushInv, PushTyped', UNCHANGED contract,
           DbError(PushCall) \/ AnswerLost(PushCall),
           push' = [push EXCEPT !.failed = @ \union {i \in Remaining : IsNext(i)}]
    PROVE  PushInv'
<1> DEFINE F == push.failed \union {i \in Remaining : IsNext(i)}
<1>1. PushCall \in Calls
    BY RequestsAssumption
<1>2. /\ push'.step = push.step /\ push'.items = push.items
      /\ push'.statuses = push.statuses /\ push'.failed = F
    <2>1. push = [step |-> push.step, items |-> push.items,
                  statuses |-> push.statuses, failed |-> push.failed]
        BY DEF PushInv, PushTyped
    <2> QED
        BY <2>1
<1>3. block' = block /\ pc'[PushCall] # "idle"
    BY <1>1 DEF DbError, AnswerLost, Return, TypeOK
<1>4. Remaining' = Remaining /\ \A i : IsNext(i)' <=> IsNext(i)
    BY <1>2 DEF Remaining, IsNext
<1>5. Handling'
    BY <1>2, <1>3, <1>4 DEF PushInv, Handling
<1>6. \A i \in DOMAIN push.statuses : StatusIsTrue(i)'
    BY <1>2, ReasonsStay DEF PushInv, StatusIsTrue
<1> QED
    BY <1>2, <1>5, <1>6 DEF PushInv

\* The status that a block gets is true.
LEMMA NotedStep ==
    ASSUME Grows, UNCHANGED contract, PushInv, PushTyped',
           NEW i \in DOMAIN push.items, i \in Remaining,
           NEW status, push' = Noted(i, status),
           status = "SUCCESS" => AddsNothing(push.items[i]),
           push.items[i] # Malformed /\ i \notin push.failed =>
                (AddsNothing(push.items[i]) \/ ~BlockIsValid(push.items[i]))
    PROVE  PushInv'
<1> DEFINE st == [j \in DOMAIN push.statuses \union {i} |->
                        IF j = i THEN status ELSE push.statuses[j]]
<1>1. /\ push' = [push EXCEPT !.step = "send", !.statuses = st]
      /\ DOMAIN st = DOMAIN push.statuses \union {i}
      /\ st[i] = status
      /\ \A j \in DOMAIN push.statuses : j # i => st[j] = push.statuses[j]
    BY DEF Noted
<1> HIDE DEF st
<1>2. /\ push'.step = "send" /\ push'.items = push.items
      /\ push'.statuses = st /\ push'.failed = push.failed
    <2>1. push = [step |-> push.step, items |-> push.items,
                  statuses |-> push.statuses, failed |-> push.failed]
        BY DEF PushInv, PushTyped
    <2> QED
        BY <1>1, <2>1
<1>3. StatusIsTrue(i)'
    BY <1>1, <1>2, ReasonsStay DEF StatusIsTrue
<1>4. ASSUME NEW j \in DOMAIN push.statuses, j # i PROVE StatusIsTrue(j)'
    BY <1>1, <1>2, <1>4, ReasonsStay DEF PushInv, StatusIsTrue
<1> QED
    BY <1>1, <1>2, <1>3, <1>4 DEF PushInv, Handling

\* The steps of the pushing client.
LEMMA PushClientStep ==
    ASSUME TypeOK, TypeOK', CallsInv, Grows, PushInv, PushTyped', UNCHANGED contract,
           request \in Requests,
           \/ PutBlockHash \/ EndPush
           \/ \E i \in DOMAIN push.items : Unparsable(i) \/ HandleBlock(i) \/ Handled(i)
    PROVE  PushInv'
<1>0. push = [step |-> push.step, items |-> push.items,
              statuses |-> push.statuses, failed |-> push.failed]
    BY DEF PushInv, PushTyped
<1>1. CASE PutBlockHash
    <2> DEFINE sent == {i \in DOMAIN request.hashes : request.hashes[i] \notin blockTable}
               items == [i \in sent |-> request.hashes[i]]
    <2>1. push.step = "snapshot" /\ push' = [push EXCEPT !.step = "send", !.items = items]
        BY <1>1 DEF PutBlockHash, Pushes
    <2>2. DOMAIN request.hashes \subseteq Nat /\ DOMAIN items = sent
        <3>1. request.hashes \in Seq(Blocks \union {Malformed})
            BY RequestTyped
        <3> QED
            BY <3>1
    <2>3. push.statuses = << >>
        BY <2>1 DEF PushInv, PushTyped
    <2> HIDE DEF items
    <2>4. push'.step = "send" /\ push'.items = items /\ push'.statuses = << >>
        BY <1>0, <2>1, <2>3
    <2> QED
        BY <2>2, <2>4 DEF PushInv, Handling
<1>2. CASE EndPush
    <2>1. /\ push'.step = "done" /\ push'.items = push.items
          /\ push'.statuses = push.statuses /\ push'.failed = push.failed
        BY <1>0, <1>2 DEF EndPush, Pushes
    <2>2. DOMAIN push.statuses = DOMAIN push.items
        BY <1>2 DEF EndPush, Remaining, PushInv, PushTyped
    <2>3. \A i \in DOMAIN push.statuses : StatusIsTrue(i)'
        BY <2>1, ReasonsStay DEF PushInv, StatusIsTrue
    <2> QED
        BY <2>1, <2>2, <2>3 DEF PushInv, Handling
<1>3. ASSUME NEW i \in DOMAIN push.items, Unparsable(i) PROVE PushInv'
    <2>1. i \in Remaining /\ push.items[i] = Malformed /\ push' = Noted(i, "REJECTED")
        BY <1>3 DEF Unparsable, Pushes, IsNext
    <2> QED
        BY <2>1, NotedStep
<1>4. ASSUME NEW i \in DOMAIN push.items, HandleBlock(i) PROVE PushInv'
    <2>1. /\ push.step = "send" /\ IsNext(i) /\ push.items[i] # Malformed
          /\ Deliver(PushCall, push.items[i])
          /\ push' = [push EXCEPT !.step = "handling"]
        BY <1>4 DEF HandleBlock, Pushes
    <2>2. /\ push'.step = "handling" /\ push'.items = push.items
          /\ push'.statuses = push.statuses /\ push'.failed = push.failed
        BY <1>0, <2>1
    <2>3. push.items[i] \in Blocks
        BY <2>1 DEF PushInv, PushTyped
    <2>4. pc'[PushCall] = "findBlock" /\ block'[PushCall] = push.items[i]
        BY <2>1, RequestsAssumption DEF Deliver, TypeOK
    <2>5. Remaining' = Remaining /\ \A j : IsNext(j)' <=> IsNext(j)
        BY <2>2 DEF Remaining, IsNext
    <2>6. \A j \in Remaining : IsNext(j) => j = i
        <3>1. Remaining \subseteq Nat
            BY DEF PushInv, Remaining
        <3> QED
            BY <2>1, <3>1 DEF IsNext
    <2>7. Handling'
        BY <2>2, <2>3, <2>4, <2>5, <2>6 DEF Handling
    <2>8. \A j \in DOMAIN push.statuses : StatusIsTrue(j)'
        BY <2>2, ReasonsStay DEF PushInv, StatusIsTrue
    <2> QED
        BY <2>2, <2>7, <2>8 DEF PushInv
<1>5. ASSUME NEW i \in DOMAIN push.items, Handled(i) PROVE PushInv'
    <2>1. /\ push.step = "handling" /\ IsNext(i) /\ pc[PushCall] = "done"
          /\ push' = Noted(i, IF ok[PushCall] THEN "SUCCESS" ELSE "REJECTED")
        BY <1>5 DEF Handled, Collect, Pushes
    <2>2. i \in Remaining /\ push.items[i] = block[PushCall]
        BY <2>1 DEF IsNext, PushInv, Handling
    <2>3. CASE ok[PushCall]
        <3>1. AddsNothing(push.items[i])
            BY <2>1, <2>2, <2>3, RequestsAssumption
            DEF CallsInv, CallKnows, Acked, AddsNothing
        <3> QED
            BY <2>1, <2>2, <2>3, <3>1, NotedStep
    <2>4. CASE ~ok[PushCall]
        <3>1. i \notin push.failed => Refused(push.items[i])
            BY <2>1, <2>2, <2>4 DEF PushInv, Handling
        <3>2. push' = Noted(i, "REJECTED")
            BY <2>1, <2>4
        <3> QED
            BY <2>2, <3>1, <3>2, NotedStep DEF Refused, AddsNothing
    <2> QED
        BY <2>3, <2>4
<1> QED
    BY <1>1, <1>2, <1>3, <1>4, <1>5
-----------------------------------------------------------------------------
(* The invariant of the service *)

ServiceInv == InductiveInv /\ FiniteTables /\ QueryInv /\ ReaderInv /\ PushInv

\* The invariant holds initially.
LEMMA ServiceInvInit == ServiceInit => ServiceInv
<1> SUFFICES ASSUME ServiceInit PROVE ServiceInv
    OBVIOUS
<1>1. Init
    BY DEF ServiceInit
<1>2. InductiveInv
    BY <1>1, InitTypeOK, InitInv DEF InductiveInv
<1>3. FiniteTables
    BY <1>1, InitFinite
<1>4. ClientTyped /\ PushTyped /\ NoRequest
    BY ClientInit
<1>5. request = None /\ known = {} /\ \A l \in Lanes : lane[l] = Idle
    BY DEF ServiceInit
<1>6. QueryInv
    <2>1. KnownIsStored /\ LanesInUse
        BY <1>5 DEF KnownIsStored, LanesInUse
    <2>2. ASSUME NEW l \in Lanes PROVE LaneKnows(l, lane[l])
        BY <1>5 DEF LaneKnows, BlockKnows, TxKnows, OneEntryPerBlock, Idle
    <2>3. AnswersAreWhole
        BY <1>4, <1>5 DEF NoRequest, AnswersAreWhole
    <2> QED
        BY <1>4, <2>1, <2>2, <2>3 DEF QueryInv
<1>7. ReaderInv
    BY <1>4, <1>5, RequestTyped DEF NoRequest, ReaderInv, PagesKnow, CursorKnows
<1>8. PushInv
    BY <1>4 DEF ServiceInit, PushInv, Handling
<1> QED
    BY <1>2, <1>3, <1>6, <1>7, <1>8 DEF ServiceInv

\* A read of a query leaves the other clients alone.
LEMMA ReadStep ==
    ASSUME ServiceInv, PushTyped', UNCHANGED <<vars, request, known, reader, push>>
    PROVE  ReaderInv' /\ PushInv'
<1>1. Grows /\ TypeOK /\ TypeOK' /\ FiniteTables' /\ UNCHANGED contract
    BY NoGrowth DEF ServiceInv, InductiveInv, FiniteTables, TypeOK, StoredTxs, vars, contract
<1>2. ReaderInv'
    BY <1>1, ReaderStays DEF ServiceInv, QueryInv
<1>3. PushInv'
    BY <1>1, PushWaits DEF ServiceInv, vars
<1> QED
    BY <1>2, <1>3

\* A step of the ingestion.
LEMMA IngestStep ==
    ASSUME ServiceInv, TypeOK', FiniteTables', Grows, PushTyped', UNCHANGED contract,
           Ingest
    PROVE  QueryInv' /\ ReaderInv' /\ PushInv'
<1>1. /\ UNCHANGED <<request, known, lane, answer, reader>>
      /\ push'.step = push.step
    <2>1. push = [step |-> push.step, items |-> push.items,
                  statuses |-> push.statuses, failed |-> push.failed]
        BY DEF ServiceInv, PushInv, PushTyped
    <2> QED
        BY <2>1 DEF Ingest, Client, Pushes, query
<1>2. QueryInv'
    BY <1>1, OtherStep DEF ServiceInv, QueryInv, ClientTyped, NoRequest
<1>3. ReaderInv'
    BY <1>1, ReaderStays DEF ServiceInv, InductiveInv, QueryInv
<1>4. PushCall \in Calls
    BY RequestsAssumption
<1>5. ASSUME NEW c \in Calls \ {PushCall}, UNCHANGED Client,
             \/ \E b \in Blocks : Deliver(c, b)
             \/ Collect(c) \/ Step(c) \/ DbError(c)
      PROVE  PushInv'
    <2>1. /\ pc'[PushCall] = pc[PushCall] /\ block'[PushCall] = block[PushCall]
          /\ ok'[PushCall] = ok[PushCall]
        BY <1>4, <1>5, OneCall DEF ServiceInv, InductiveInv
    <2> QED
        BY <1>5, <2>1, PushWaits DEF ServiceInv, Client
<1>6. ASSUME Step(PushCall), UNCHANGED Client PROVE PushInv'
    <2>1. TypeOK /\ CallsInv /\ PushInv /\ UNCHANGED push
        BY <1>6 DEF ServiceInv, InductiveInv, Client
    <2> QED
        BY <1>6, <2>1, PushStep
<1>7. ASSUME DbError(PushCall) \/ AnswerLost(PushCall),
             Pushes([push EXCEPT !.failed = @ \union {i \in Remaining : IsNext(i)}])
      PROVE  PushInv'
    <2>1. TypeOK /\ PushInv
        BY DEF ServiceInv, InductiveInv
    <2>2. push' = [push EXCEPT !.failed = @ \union {i \in Remaining : IsNext(i)}]
        BY <1>7 DEF Pushes
    <2> QED
        BY <1>7, <2>1, <2>2, PushFails
<1>8. PushInv'
    BY <1>5, <1>6, <1>7 DEF Ingest
<1> QED
    BY <1>2, <1>3, <1>8

\* Every step of the service keeps the invariant.
LEMMA ServiceInvNext == ServiceInv /\ [ServiceNext]_serviceVars => ServiceInv'
<1> SUFFICES ASSUME ServiceInv, [ServiceNext]_serviceVars PROVE ServiceInv'
    OBVIOUS
<1>1. /\ TypeOK /\ StoreInv /\ CallsInv /\ FiniteTables /\ ReaderInv /\ PushInv
      /\ QueryInv /\ ClientTyped /\ NoRequest /\ KnownIsStored /\ PushTyped
    BY DEF ServiceInv, InductiveInv, QueryInv, PushInv
<1>2. [Next]_vars
    BY <1>1, ServiceStep
<1>3. InductiveInv'
    BY <1>1, <1>2, NextTypeOK, NextInv DEF InductiveInv
<1>4. Grows /\ FiniteTables'
    BY <1>2, IngestionGrows DEF ServiceInv
<1>5. PushTyped' /\ UNCHANGED contract
    BY <1>1, PushTypedNext, ContractKept
<1>6. TypeOK'
    BY <1>3 DEF InductiveInv
<1> SUFFICES QueryInv' /\ ReaderInv' /\ PushInv'
    BY <1>3, <1>4 DEF ServiceInv
<1>7. ASSUME QueryInv', UNCHANGED <<vars, request, known, reader, push>>
      PROVE  QueryInv' /\ ReaderInv' /\ PushInv'
    BY <1>5, <1>7, ReadStep
<1>8. ASSUME NEW r \in Requests, Ask(r) PROVE QueryInv' /\ ReaderInv' /\ PushInv'
    <2>1. QueryInv' /\ ReaderInv'
        BY <1>1, <1>8, AskStep, AskReader
    <2>2. push.step = "off" /\ push.statuses = << >>
        BY <1>1, <1>8 DEF Ask, NoRequest, PushTyped
    <2>3. /\ push'.step \in {"off", "snapshot"} /\ push'.items = push.items
          /\ push'.statuses = << >>
        <3>1. push' = push \/ push' = [push EXCEPT !.step = "snapshot"]
            BY <1>8 DEF Ask
        <3> QED
            BY <1>1, <2>2, <3>1 DEF PushTyped
    <2>4. PushInv'
        BY <1>1, <1>5, <2>3 DEF PushInv, Handling
    <2> QED
        BY <2>1, <2>4
<1>9. ASSUME NEW l \in {"block", "list"}, CountRows(l) \/ FindPage(l)
      PROVE  QueryInv' /\ ReaderInv' /\ PushInv'
    <2>1. QueryInv'
        BY <1>1, <1>9, CountRowsStep, FindPageStep
    <2> QED
        BY <1>7, <1>9, <2>1 DEF CountRows, FindPage, Reads
<1>10. ASSUME NEW l \in {"block", "tx"}, FindOne(l)
       PROVE  QueryInv' /\ ReaderInv' /\ PushInv'
    <2>1. QueryInv'
        BY <1>1, <1>10, FindOneStep
    <2> QED
        BY <1>7, <1>10, <2>1 DEF FindOne, Reads
<1>11. ASSUME NEW i \in DOMAIN lane["block"].entries, CountTxs(i) \/ FindTxs(i)
       PROVE  QueryInv' /\ ReaderInv' /\ PushInv'
    <2>1. QueryInv'
        BY <1>1, <1>11, CountTxsStep, FindTxsStep
    <2> QED
        BY <1>7, <1>11, <2>1 DEF CountTxs, FindTxs, Reads
<1>12. ASSUME NEW l \in {"tx", "list"},
              AddToEntry(l) \/ FindBlockOfTx(l) \/ CountTxsOfBlock(l)
       PROVE  QueryInv' /\ ReaderInv' /\ PushInv'
    <2>1. QueryInv'
        BY <1>1, <1>12, AddToEntryStep, FindBlockOfTxStep, CountTxsOfBlockStep
    <2> QED
        BY <1>7, <1>12, <2>1 DEF AddToEntry, FindBlockOfTx, CountTxsOfBlock, Reads
<1>13. CASE Answer
    <2>1. QueryInv'
        BY <1>1, <1>13, AnswerStep
    <2> QED
        BY <1>7, <1>13, <2>1 DEF Answer
<1>14. CASE CountHashes \/ FindHashes \/ FetchBlocks \/ GetTransactions
    <2>1. UNCHANGED <<vars, request, known, lane, answer, push>> /\ reader.step # "off"
        BY <1>14 DEF CountHashes, FindHashes, FetchBlocks, GetTransactions, Turn, query
    <2>2. request \in Requests /\ request # None
        BY <1>1, <2>1, RequestTyped DEF NoRequest, ClientTyped
    <2>3. reader' \in ReaderType
        BY <1>1, <1>14, <2>2, ReaderTyped DEF ReaderInv
    <2>4. QueryInv'
        BY <1>1, <1>4, <2>1, <2>2, <2>3, OtherStep
    <2>5. ReaderInv'
        BY <1>1, <1>14, CountHashesStep, FindHashesStep, FetchBlocksStep, GetTransactionsStep
    <2>6. PushInv'
        BY <1>1, <1>4, <1>5, <2>1, PushWaits DEF vars
    <2> QED
        BY <2>4, <2>5, <2>6
<1>15. CASE \/ PutBlockHash \/ EndPush
            \/ \E i \in DOMAIN push.items : Unparsable(i) \/ HandleBlock(i) \/ Handled(i)
    <2>1. UNCHANGED <<request, known, lane, answer, reader>> /\ push.step # "off"
        BY <1>15 DEF PutBlockHash, EndPush, Unparsable, HandleBlock, Handled, Pushes, query
    <2>2. request \in Requests /\ request # None
        BY <1>1, <2>1, Busy, RequestTyped
    <2>3. QueryInv'
        BY <1>1, <1>4, <2>1, <2>2, OtherStep DEF ClientTyped
    <2>4. ReaderInv'
        BY <1>1, <1>4, <1>6, <2>1, ReaderStays
    <2>5. PushInv'
        BY <1>1, <1>4, <1>5, <1>6, <1>15, <2>2, PushClientStep
    <2> QED
        BY <2>3, <2>4, <2>5
<1>16. CASE Ingest
    BY <1>4, <1>5, <1>6, <1>16, IngestStep
<1>17. CASE UNCHANGED serviceVars
    <2>1. /\ UNCHANGED <<vars, request, known, lane, answer, reader, push>>
        BY <1>17 DEF serviceVars, query
    <2>2. QueryInv'
        BY <1>1, <1>4, <2>1, OtherStep DEF ClientTyped, NoRequest
    <2> QED
        BY <1>7, <2>1, <2>2
<1> QED
    BY <1>8, <1>9, <1>10, <1>11, <1>12, <1>13, <1>14, <1>15, <1>16, <1>17 DEF ServiceNext

\* The invariant holds in every reachable state.
THEOREM ServiceIsSafe == ServiceSpec => []ServiceInv
BY ServiceInvInit, ServiceInvNext, PTL DEF ServiceSpec

\* Every variable has its type, and no page before the first is ever read.
THEOREM ServiceTypeCorrect == ServiceSpec => []ServiceTypeOK
<1>1. ServiceInv => ServiceTypeOK
    <2> SUFFICES ASSUME ServiceInv PROVE ServiceTypeOK
        OBVIOUS
    <2>1. ASSUME NEW l \in Lanes
          PROVE  /\ lane[l].entries \in Seq(Entries)
                 /\ lane[l].step = "countTxs" => lane[l].next \in DOMAIN lane[l].rows
        <3>1. PICK q \in LaneType : q = lane[l]
            BY DEF ServiceInv, QueryInv, ClientTyped
        <3>2. LaneKnows(l, q) /\ q.entries \in Seq(Entries)
            BY <3>1 DEF ServiceInv, QueryInv, LaneType
        <3> QED
            BY <3>1, <3>2 DEF LaneKnows, BlockKnows, TxKnows
    <2>2. reader.seen \subseteq Hashes
        BY DEF ServiceInv, QueryInv, ClientTyped, ReaderType
    <2> QED
        BY <2>1, <2>2
        DEF ServiceInv, InductiveInv, QueryInv, ClientTyped, ReaderInv, PushInv, PushTyped,
            Hashes, ServiceTypeOK
<1> QED
    BY <1>1, ServiceIsSafe, PTL

\* What a query answers is one consistent view of each block, although rows are
\* added between its reads.
THEOREM WholeAnswers == ServiceSpec => []AnswersAreWhole
<1>1. ServiceInv => AnswersAreWhole
    BY DEF ServiceInv, QueryInv
<1> QED
    BY <1>1, ServiceIsSafe, PTL

\* A client that pages through the hashes misses no block that was there.
THEOREM PagesMissNothing == ServiceSpec => []PagesCoverStoredBlocks
<1>1. ServiceInv => PagesCoverStoredBlocks
    <2> SUFFICES ASSUME ServiceInv, ReaderDone("getBlockHashesInternal"),
                        request.page <= 1, request.pageSize > 0,
                        NEW b \in known \intersect Blocks, Wanted(b)
                 PROVE  b \in reader.seen
        BY DEF PagesCoverStoredBlocks, Wanted
    <2>1. request \in Requests
        BY DEF ReaderDone, ServiceInv, QueryInv, ClientTyped
    <2>2. WillGet(b)
        BY <2>1 DEF ReaderDone, ServiceInv, ReaderInv, PagesKnow
    <2> QED
        BY <2>2 DEF WillGet, ReaderDone
<1> QED
    BY <1>1, ServiceIsSafe, PTL

\* A client that follows lastTs misses no transaction that was there.
THEOREM CursorMissesNothing == ServiceSpec => []CursorCoversStoredTxs
<1>1. ServiceInv => CursorCoversStoredTxs
    <2> SUFFICES ASSUME ServiceInv, ReaderDone("push_getTransactions"),
                        NEW t \in known \intersect Txs, WantedTx(t)
                 PROVE  t \in reader.seen
        BY DEF CursorCoversStoredTxs, WantedTx
    <2>1. request \in Requests
        BY DEF ReaderDone, ServiceInv, QueryInv, ClientTyped
    <2> QED
        BY <2>1 DEF ReaderDone, ServiceInv, ReaderInv, CursorKnows
<1> QED
    BY <1>1, ServiceIsSafe, PTL

\* Each status of a pushed batch says what became of its block.
THEOREM StatusesAreTrue == ServiceSpec => []PushedIsStored
<1>1. ServiceInv => PushedIsStored
    BY PushInvIsEnough DEF ServiceInv
<1> QED
    BY <1>1, ServiceIsSafe, PTL
=============================================================================
