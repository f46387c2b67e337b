-------------------------- MODULE QueueClientProofs -------------------------
(***************************************************************************)
(* Theorems about QueueClient, for any validators, polls, page size and    *)
(* bounds.  The invariant says of each poll in progress how its variables  *)
(* hang together; NothingSkipped and OffsetInQueue are inductive with it.  *)
(***************************************************************************)
EXTENDS QueueClient, FiniteSetTheorems, TLAPS

PollType ==
    [pc : {"idle", "read", "accept", "update"}, at : Validators \union {NoEndpoint},
     todo : SUBSET Validators,
     found : [Validators -> Offsets], requests : 0..MaxRequests,
     last : Offsets, item : Offsets, upto : Offsets]

\* A poll in progress is at an endpoint, has not gone back behind the offset it
\* found there, and holds a reply that is in the queue and continues what was
\* offered.  The parameters are the poll's record r, the queues' lengths and
\* what was offered.
PollInv(r, len, given) ==
    r.pc # "idle" =>
        /\ r.at \in Validators
        /\ r.found[r.at] <= r.last
        /\ \A v \in Validators : r.found[v] <= len[v] /\ 1..r.found[v] \subseteq given[v]
        /\ 1..r.last \subseteq given[r.at]
        /\ r.pc = "read" => r.requests < MaxRequests
        /\ r.pc # "read" =>
            /\ r.last < r.upto
            /\ r.upto <= len[r.at]
        /\ r.pc = "accept" =>
            /\ r.item \in 1..r.upto
            /\ 1..(r.item - 1) \subseteq given[r.at]
        /\ r.pc = "update" => 1..r.upto \subseteq given[r.at]

\* A table of offsets that is covered by what was offered.
Covered(o, len, given) ==
    \A v \in Validators : o[v] <= len[v] /\ 1..o[v] \subseteq given[v]

\* The variables other than poll.
DataType ==
    /\ queueLen \in [Validators -> Offsets]
    /\ enabled \subseteq Validators
    /\ clients \in [Validators -> Nat]
    /\ state \in [Validators -> {0, 1}]
    /\ offset \in [Validators -> Offsets]
    /\ toInit \subseteq Validators
    /\ offered \in [Validators -> SUBSET Items]
    /\ accepted \in [Validators -> SUBSET Items]
    /\ failures \in 0..MaxFailures

Inv ==
    /\ DataType
    /\ Covered(offset, queueLen, offered)
    /\ poll \in [Polls -> PollType]
    /\ \A p \in Polls : PollInv(poll[p], queueLen, offered)
    /\ \A p \in Polls, v \in Validators : poll[p].found[v] <= queueLen[v]
-----------------------------------------------------------------------------
LEMMA IdleInv ==
    /\ Idle \in PollType
    /\ Idle.pc = "idle"
    /\ \A v \in Validators : Idle.found[v] = 0
BY ConstantsAssumption DEF Idle, PollType, Offsets

\* The next endpoint is read from the offset that was found for it.
LEMMA NextEndpointInv ==
    ASSUME Inv, NEW p \in Polls, poll[p].pc # "idle", NextEndpoint(p)
    PROVE  \E r \in PollType :
            /\ poll' = [poll EXCEPT ![p] = r]
            /\ PollInv(r, queueLen, offered)
            /\ \A v \in Validators : r.found[v] <= queueLen[v]
<1> USE ConstantsAssumption
<1>1. CASE poll[p].todo = {}
    <2>1. poll' = [poll EXCEPT ![p] = Idle]
        BY <1>1 DEF NextEndpoint
    <2>2. \A v \in Validators : Idle.found[v] <= queueLen[v]
        BY IdleInv DEF Inv, DataType, Offsets
    <2>3. PollInv(Idle, queueLen, offered)
        BY IdleInv DEF PollInv
    <2>4. QED
        BY <2>1, <2>2, <2>3, IdleInv
<1>2. CASE poll[p].todo # {}
    <2>1. PICK v \in First(poll[p].todo) : poll' = [poll EXCEPT ![p] =
            [poll[p] EXCEPT !.pc = "read", !.at = v, !.todo = @ \ {v}, !.requests = 0,
                            !.last = poll[p].found[v], !.item = 0, !.upto = 0]]
        BY <1>2 DEF NextEndpoint
    <2> DEFINE r == [poll[p] EXCEPT !.pc = "read", !.at = v, !.todo = @ \ {v},
                       !.requests = 0, !.last = poll[p].found[v], !.item = 0, !.upto = 0]
    <2>2. poll[p] \in PollType
        BY DEF Inv
    <2>3. v \in Validators
        BY <2>2 DEF First, PollType
    <2>4. r \in PollType
        <3>1. poll[p].todo \ {v} \in SUBSET Validators
            BY <2>2 DEF PollType
        <3>2. poll[p].found[v] \in Offsets /\ 0 \in Offsets /\ 0 \in 0..MaxRequests
            BY <2>2, <2>3 DEF PollType, Offsets
        <3>3. v \in Validators \union {NoEndpoint}
            BY <2>3
        <3> DEFINE t == poll[p].todo \ {v}
                   l == poll[p].found[v]
        <3>4. t \in SUBSET Validators /\ l \in Offsets
            BY <3>1, <3>2
        <3>5. r = [poll[p] EXCEPT !.pc = "read", !.at = v, !.todo = t, !.requests = 0,
                                  !.last = l, !.item = 0, !.upto = 0]
            OBVIOUS
        <3> HIDE DEF t, l, r
        <3>6. QED
            BY <2>2, <3>2, <3>3, <3>4, <3>5 DEF PollType
    <2>5. /\ r.pc = "read" /\ r.at = v /\ r.requests = 0
          /\ r.last = poll[p].found[v] /\ r.found = poll[p].found
        BY <2>2 DEF PollType
    <2>6. PollInv(poll[p], queueLen, offered)
        BY DEF Inv
    <2>7. PollInv(r, queueLen, offered)
        <3> HIDE DEF r
        <3>1. poll[p].found[v] \in Nat
            BY <2>2, <2>3 DEF PollType, Offsets
        <3>2. QED
            BY <2>3, <2>5, <2>6, <3>1 DEF PollInv
    <2>8. \A w \in Validators : r.found[w] <= queueLen[w]
        BY <2>5 DEF Inv
    <2>9. poll' = [poll EXCEPT ![p] = r]
        BY <2>1
    <2> HIDE DEF r
    <2>10. QED
        BY <2>4, <2>7, <2>8, <2>9
<1>3. QED
    BY <1>1, <1>2

\* The parts of the invariant about one poll, for the one that takes a step.
LEMMA PollStep ==
    ASSUME Inv, NEW p \in Polls, NEW r \in PollType,
           poll' = [poll EXCEPT ![p] = r],
           UNCHANGED queueLen,
           \A v \in Validators : offered[v] \subseteq offered'[v],
           PollInv(r, queueLen, offered'),
           \A v \in Validators : r.found[v] <= queueLen[v],
           DataType', Covered(offset', queueLen, offered')
    PROVE  Inv'
<1> USE ConstantsAssumption
<1>1. poll' \in [Polls -> PollType]
    BY DEF Inv
<1>2. ASSUME NEW q \in Polls PROVE PollInv(poll'[q], queueLen, offered')
    <2>1. CASE q = p
        BY <2>1 DEF Inv
    <2>2. CASE q # p
        <3>1. poll'[q] = poll[q] /\ PollInv(poll[q], queueLen, offered)
            BY <2>2 DEF Inv
        <3>2. QED
            BY <3>1 DEF PollInv
    <2>3. QED
        BY <2>1, <2>2
<1>3. ASSUME NEW q \in Polls, NEW v \in Validators PROVE poll'[q].found[v] <= queueLen[v]
    BY DEF Inv
<1>4. QED
    BY <1>1, <1>2, <1>3 DEF Inv
-----------------------------------------------------------------------------
LEMMA InitInv == Init => Inv
<1> USE ConstantsAssumption
<1>1. SUFFICES ASSUME Init PROVE Inv
    OBVIOUS
<1>2. DataType
    BY <1>1 DEF Init, DataType, Offsets, Items
<1>3. \A p \in Polls : poll[p] = Idle
    BY <1>1 DEF Init
<1>4. poll \in [Polls -> PollType]
    BY <1>1, IdleInv DEF Init
<1>5. \A p \in Polls : PollInv(poll[p], queueLen, offered)
    BY <1>3, IdleInv DEF PollInv
<1>6. \A v \in Validators : queueLen[v] = 0 /\ offset[v] = 0
    BY <1>1 DEF Init
<1>7. QED
    BY <1>2, <1>3, <1>4, <1>5, <1>6, IdleInv DEF Inv, Covered

\* A longer queue, or more offered items, break nothing.
LEMMA AppendItemInv ==
    ASSUME Inv, NEW v \in Validators, AppendItem(v)
    PROVE  Inv'
<1> USE ConstantsAssumption DEF AppendItem, table, items
<1>1. \A w \in Validators : queueLen'[w] \in Nat /\ queueLen[w] \in Nat /\ queueLen[w] <= queueLen'[w]
    BY DEF Inv, DataType, Offsets
<1>2. DataType'
    BY DEF Inv, DataType, Offsets
<1>3. Covered(offset, queueLen', offered)
    BY <1>1 DEF Inv, DataType, Offsets, Covered
<1>4. \A p \in Polls : PollInv(poll[p], queueLen', offered)
    <2>1. SUFFICES ASSUME NEW p \in Polls PROVE PollInv(poll[p], queueLen', offered)
        OBVIOUS
    <2>2. PollInv(poll[p], queueLen, offered) /\ poll[p] \in PollType
        BY DEF Inv
    <2>3. QED
        BY <1>1, <2>2 DEF PollInv, PollType, Offsets
<1>5. \A p \in Polls, w \in Validators : poll[p].found[w] <= queueLen'[w]
    BY <1>1 DEF Inv, PollType, Offsets
<1>6. QED
    BY <1>2, <1>3, <1>4, <1>5 DEF Inv

\* A step that changes the contract state, the rows without the offsets or the
\* validators to initialise, and leaves the polls alone.
LEMMA OtherInv ==
    ASSUME Inv, DataType', UNCHANGED <<queueLen, offset, poll, offered>>
    PROVE  Inv'
BY DEF Inv, Covered

LEMMA InitClientInv ==
    ASSUME Inv, NEW v \in Validators, InitClient(v)
    PROVE  Inv'
<1> USE ConstantsAssumption DEF InitClient, remote, items
<1>1. Cardinality(Rows) \in Nat
    BY FS_Subset, FS_CardinalityType DEF Rows
<1> DEFINE id == IF clients[v] = 0 THEN 1 + Cardinality(Rows) ELSE clients[v]
<1>2. id \in Nat
    BY <1>1 DEF Inv, DataType
<1>3. clients' = [clients EXCEPT ![v] = id]
    OBVIOUS
<1> HIDE DEF id
<1>4. DataType'
    BY <1>2, <1>3 DEF Inv, DataType
<1>5. QED
    BY <1>4, OtherInv

LEMMA StatusChangedInv ==
    ASSUME Inv, NEW v \in Validators, StatusChanged(v)
    PROVE  Inv'
BY OtherInv DEF StatusChanged, table, items, Inv, DataType

LEMMA CrashInv ==
    ASSUME Inv, Crash
    PROVE  Inv'
<1> USE ConstantsAssumption DEF Crash, Fails, remote, table, items
<1>1. DataType'
    BY DEF Inv, DataType
<1>2. poll' \in [Polls -> PollType] /\ \A p \in Polls : poll'[p] = Idle
    BY IdleInv
<1>3. \A p \in Polls : PollInv(poll'[p], queueLen, offered)
    BY <1>2, IdleInv DEF PollInv
<1>4. \A p \in Polls, v \in Validators : poll'[p].found[v] <= queueLen[v]
    BY <1>2, IdleInv DEF Inv, DataType, Offsets
<1>5. QED
    BY <1>1, <1>2, <1>3, <1>4 DEF Inv, Covered
-----------------------------------------------------------------------------
\* A poll starts from the offsets that the table holds.
LEMMA StartPollInv ==
    ASSUME Inv, NEW p \in Polls, StartPoll(p)
    PROVE  Inv'
<1> USE ConstantsAssumption
<1> DEFINE ends == {w \in Rows : state[w] = 1}
<1>1. PICK v \in First(ends) : poll' = [poll EXCEPT ![p] =
            [Idle EXCEPT !.pc = "read", !.at = v, !.todo = ends \ {v},
                         !.found = offset, !.last = offset[v]]]
    BY DEF StartPoll
<1> DEFINE r == [Idle EXCEPT !.pc = "read", !.at = v, !.todo = ends \ {v},
                             !.found = offset, !.last = offset[v]]
<1>2. v \in Validators
    BY DEF First, Rows
<1>3. /\ r.pc = "read" /\ r.at = v /\ r.found = offset /\ r.last = offset[v]
      /\ r.requests = 0 /\ r.item = 0 /\ r.upto = 0 /\ r.todo = ends \ {v}
    BY DEF Idle
<1>4. r \in PollType
    <2>1. ends \ {v} \in SUBSET Validators
        BY DEF Rows
    <2>2. offset \in [Validators -> Offsets] /\ offset[v] \in Offsets /\ 0 \in Offsets
        BY <1>2 DEF Inv, DataType, Offsets
    <2> DEFINE t == ends \ {v}
    <2> HIDE DEF ends
    <2>3. r = [Idle EXCEPT !.pc = "read", !.at = v, !.todo = t,
                           !.found = offset, !.last = offset[v]]
        OBVIOUS
    <2>4. t \in SUBSET Validators
        BY <2>1 DEF ends
    <2> HIDE DEF t, r
    <2>5. QED
        BY <1>2, <2>2, <2>3, <2>4, IdleInv DEF PollType
<1>5. poll' = [poll EXCEPT ![p] = r]
    BY <1>1
<1>6. UNCHANGED <<queueLen, offset, offered>> /\ DataType'
    BY DEF StartPoll, remote, table, items, Inv, DataType
<1> HIDE DEF r, ends
<1>7. Covered(offset, queueLen, offered) /\ offset[v] \in Nat
    BY <1>2 DEF Inv, DataType, Offsets
<1>8. PollInv(r, queueLen, offered)
    BY <1>2, <1>3, <1>7 DEF PollInv, Covered
<1>9. \A w \in Validators : r.found[w] <= queueLen[w]
    BY <1>3, <1>7 DEF Covered
<1>10. QED
    BY <1>4, <1>5, <1>6, <1>7, <1>8, <1>9, PollStep

\* The reply continues the offset and is in the queue.
LEMMA ReadItemsInv ==
    ASSUME Inv, NEW p \in Polls, ReadItems(p)
    PROVE  Inv'
<1> USE ConstantsAssumption
<1>1. UNCHANGED <<queueLen, offset, offered>> /\ DataType' /\ Covered(offset, queueLen, offered)
    BY DEF ReadItems, remote, table, items, Inv, DataType
<1>2. poll[p].pc = "read" /\ poll[p] \in PollType /\ PollInv(poll[p], queueLen, offered)
    BY DEF ReadItems, Inv
<1>3. CASE queueLen[Endpoint(p)] <= poll[p].last
    <2>1. PICK r \in PollType : /\ poll' = [poll EXCEPT ![p] = r]
                                /\ PollInv(r, queueLen, offered)
                                /\ \A v \in Validators : r.found[v] <= queueLen[v]
        BY <1>2, <1>3, NextEndpointInv DEF ReadItems
    <2>2. QED
        BY <1>1, <2>1, PollStep
<1>4. CASE ~(queueLen[Endpoint(p)] <= poll[p].last)
    <2> DEFINE v == poll[p].at
               n == queueLen[v]
               u == Least(n, poll[p].last + PageSize)
               r == [poll[p] EXCEPT !.pc = "accept", !.requests = @ + 1,
                                    !.item = poll[p].last + 1, !.upto = u]
    <2>1. v \in Validators /\ n \in Offsets /\ poll[p].last \in Offsets /\ n > poll[p].last
        BY <1>2, <1>4 DEF PollInv, Inv, DataType, PollType, Offsets, Endpoint
    <2>2. u \in Offsets /\ u <= n /\ poll[p].last < u /\ poll[p].last + 1 \in Offsets
        BY <2>1 DEF Least, Offsets
    <2>3. poll' = [poll EXCEPT ![p] = r]
        BY <1>4 DEF ReadItems, Endpoint
    <2> HIDE DEF u
    <2>4. poll[p].requests + 1 \in 0..MaxRequests
        BY <1>2 DEF PollInv, PollType
    <2>5. r \in PollType
        BY <1>2, <2>2, <2>4 DEF PollType
    <2>6. /\ r.pc = "accept" /\ r.at = v /\ r.found = poll[p].found /\ r.last = poll[p].last
          /\ r.item = poll[p].last + 1 /\ r.upto = u
        BY <1>2 DEF PollType
    <2> HIDE DEF r
    <2>7. PollInv(r, queueLen, offered)
        <3>1. r.item \in 1..r.upto /\ r.item - 1 = poll[p].last
            BY <2>1, <2>2, <2>6 DEF Offsets
        <3>2. QED
            BY <1>2, <2>1, <2>2, <2>6, <3>1 DEF PollInv
    <2>8. \A w \in Validators : r.found[w] <= queueLen[w]
        BY <2>6 DEF Inv
    <2>9. QED
        BY <1>1, <2>3, <2>5, <2>7, <2>8, PollStep
<1>5. QED
    BY <1>3, <1>4

LEMMA ReadFailsInv ==
    ASSUME Inv, NEW p \in Polls, ReadFails(p)
    PROVE  Inv'
<1> USE ConstantsAssumption
<1>1. UNCHANGED <<queueLen, offset, offered>> /\ DataType' /\ Covered(offset, queueLen, offered)
    BY DEF ReadFails, Fails, remote, table, items, Inv, DataType
<1>2. PICK r \in PollType : /\ poll' = [poll EXCEPT ![p] = r]
                            /\ PollInv(r, queueLen, offered)
                            /\ \A v \in Validators : r.found[v] <= queueLen[v]
    BY NextEndpointInv DEF ReadFails
<1>3. QED
    BY <1>1, <1>2, PollStep

\* Each item is offered before the next one of the reply.
LEMMA AcceptItemInv ==
    ASSUME Inv, NEW p \in Polls, NEW answer \in BOOLEAN, AcceptItem(p, answer)
    PROVE  Inv'
<1> USE ConstantsAssumption
<1> DEFINE v == poll[p].at
           k == poll[p].item
           r == IF k = poll[p].upto THEN [poll[p] EXCEPT !.pc = "update"]
                                    ELSE [poll[p] EXCEPT !.item = k + 1]
<1>1. poll[p].pc = "accept" /\ poll[p] \in PollType /\ PollInv(poll[p], queueLen, offered)
    BY DEF AcceptItem, Inv
<1>2. /\ v \in Validators /\ poll[p].upto \in Offsets /\ k \in 1..poll[p].upto /\ k \in Items
      /\ poll[p].last \in Offsets
    BY <1>1 DEF PollInv, PollType, Offsets, Items
<1>3. /\ UNCHANGED <<queueLen, offset, enabled, clients, state, toInit>>
      /\ offered' = [offered EXCEPT ![v] = @ \union {k}]
      /\ accepted' = [accepted EXCEPT ![v] = IF answer THEN @ \union {k} ELSE @]
      /\ failures' \in 0..MaxFailures
    BY DEF AcceptItem, Fails, remote, table, Endpoint, Inv, DataType
<1>4. DataType'
    BY <1>2, <1>3 DEF Inv, DataType
<1>5. \A w \in Validators : offered[w] \subseteq offered'[w]
    BY <1>2, <1>3 DEF Inv, DataType
<1>6. Covered(offset', queueLen, offered')
    BY <1>3, <1>5 DEF Inv, Covered
<1>7. poll' = [poll EXCEPT ![p] = r]
    BY DEF AcceptItem
<1>8. r \in PollType
    BY <1>1, <1>2 DEF PollType, Offsets
<1>9. /\ r.at = v /\ r.found = poll[p].found /\ r.last = poll[p].last /\ r.upto = poll[p].upto
      /\ k = poll[p].upto => r.pc = "update" /\ r.item = k
      /\ k # poll[p].upto => r.pc = "accept" /\ r.item = k + 1
    BY <1>1 DEF PollType
<1> HIDE DEF r
<1>10. 1..k \subseteq offered'[v]
    <2>1. 1..(k - 1) \subseteq offered[v]
        BY <1>1 DEF PollInv
    <2>2. 1..k = 1..(k - 1) \union {k}
        BY <1>2
    <2>3. k \in offered'[v]
        BY <1>2, <1>3 DEF Inv, DataType
    <2>4. QED
        BY <1>2, <1>5, <2>1, <2>2, <2>3
<1>11. PollInv(r, queueLen, offered')
    <2>1. \A w \in Validators : r.found[w] <= queueLen[w] /\ 1..r.found[w] \subseteq offered'[w]
        BY <1>1, <1>5, <1>9 DEF PollInv
    <2>2. 1..r.last \subseteq offered'[v] /\ r.found[v] <= r.last /\ r.last < r.upto
          /\ r.upto <= queueLen[v]
        BY <1>1, <1>2, <1>5, <1>9 DEF PollInv
    <2>3. CASE k = poll[p].upto
        BY <1>2, <1>9, <1>10, <2>1, <2>2, <2>3 DEF PollInv
    <2>4. CASE k # poll[p].upto
        <3>1. r.item \in 1..r.upto /\ r.item - 1 = k
            BY <1>2, <1>9, <2>4 DEF Offsets
        <3>2. QED
            BY <1>2, <1>9, <1>10, <2>1, <2>2, <2>4, <3>1 DEF PollInv
    <2>5. QED
        BY <2>3, <2>4
<1>12. \A w \in Validators : r.found[w] <= queueLen[w]
    BY <1>9 DEF Inv
<1>13. QED
    BY <1>3, <1>4, <1>5, <1>6, <1>7, <1>8, <1>11, <1>12, PollStep

\* The offset that is stored is covered: every item of the reply was offered.
LEMMA UpdateOffsetInv ==
    ASSUME Inv, NEW p \in Polls, UpdateOffset(p)
    PROVE  Inv'
<1> USE ConstantsAssumption
<1> DEFINE v == poll[p].at
           u == poll[p].upto
<1>1. poll[p].pc = "update" /\ poll[p] \in PollType /\ PollInv(poll[p], queueLen, offered)
    BY DEF UpdateOffset, Inv
<1>2. /\ v \in Validators /\ u \in Offsets /\ u <= queueLen[v] /\ 1..u \subseteq offered[v]
      /\ poll[p].last < u /\ poll[p].found[v] <= poll[p].last
    BY <1>1 DEF PollInv, PollType
<1>3. /\ UNCHANGED <<queueLen, enabled, clients, state, toInit, offered, accepted, failures>>
      /\ offset' = [offset EXCEPT ![v] = u]
    BY DEF UpdateOffset, remote, items, Endpoint
<1>4. DataType'
    BY <1>2, <1>3 DEF Inv, DataType
<1>5. Covered(offset', queueLen, offered')
    BY <1>2, <1>3 DEF Inv, DataType, Covered
<1>6. CASE poll[p].requests = MaxRequests
    <2>1. PICK r \in PollType : /\ poll' = [poll EXCEPT ![p] = r]
                                /\ PollInv(r, queueLen, offered)
                                /\ \A w \in Validators : r.found[w] <= queueLen[w]
        BY <1>1, <1>6, NextEndpointInv DEF UpdateOffset
    <2>2. QED
        BY <1>3, <1>4, <1>5, <2>1, PollStep
<1>7. CASE poll[p].requests # MaxRequests
    <2> DEFINE r == [poll[p] EXCEPT !.pc = "read", !.last = u, !.item = 0, !.upto = 0]
    <2>1. poll' = [poll EXCEPT ![p] = r]
        BY <1>7 DEF UpdateOffset
    <2>2. r \in PollType
        <3>1. 0 \in Offsets
            BY DEF Offsets
        <3> HIDE DEF u
        <3>2. QED
            BY <1>1, <1>2, <3>1 DEF PollType
    <2>3. /\ r.pc = "read" /\ r.at = v /\ r.found = poll[p].found /\ r.last = u
          /\ r.requests = poll[p].requests
        BY <1>1 DEF PollType
    <2> HIDE DEF r
    <2>4. r.requests < MaxRequests
        BY <1>1, <1>7, <2>3 DEF PollType
    <2>5. r.found[v] <= r.last
        BY <1>1, <1>2, <2>3 DEF PollType, Offsets
    <2>6. PollInv(r, queueLen, offered)
        BY <1>1, <1>2, <2>3, <2>4, <2>5 DEF PollInv
    <2>7. \A w \in Validators : r.found[w] <= queueLen[w]
        BY <2>3 DEF Inv
    <2>8. QED
        BY <1>3, <1>4, <1>5, <2>1, <2>2, <2>6, <2>7, PollStep
<1>8. QED
    BY <1>6, <1>7

LEMMA UpdateFailsInv ==
    ASSUME Inv, NEW p \in Polls, UpdateFails(p)
    PROVE  Inv'
<1> USE ConstantsAssumption
<1>1. UNCHANGED <<queueLen, offset, offered>> /\ DataType' /\ Covered(offset, queueLen, offered)
    BY DEF UpdateFails, Fails, remote, table, items, Inv, DataType
<1>2. PollInv(Idle, queueLen, offered) /\ \A v \in Validators : Idle.found[v] <= queueLen[v]
    BY IdleInv DEF PollInv, Inv, DataType, Offsets
<1>3. poll' = [poll EXCEPT ![p] = Idle]
    BY DEF UpdateFails
<1>4. QED
    BY <1>1, <1>2, <1>3, IdleInv, PollStep
-----------------------------------------------------------------------------
LEMMA NextInv == Inv /\ [Next]_vars => Inv'
<1>1. SUFFICES ASSUME Inv, [Next]_vars PROVE Inv'
    OBVIOUS
<1>2. ASSUME NEW v \in Validators, AppendItem(v) PROVE Inv'
    BY <1>1, <1>2, AppendItemInv
<1>3. ASSUME NEW v \in Validators, StatusChanged(v) PROVE Inv'
    BY <1>1, <1>3, StatusChangedInv
<1>4. ASSUME NEW v \in Validators, InitClient(v) PROVE Inv'
    BY <1>1, <1>4, InitClientInv
<1>5. ASSUME NEW p \in Polls, StartPoll(p) PROVE Inv'
    BY <1>1, <1>5, StartPollInv
<1>6. ASSUME NEW p \in Polls, ReadItems(p) PROVE Inv'
    BY <1>1, <1>6, ReadItemsInv
<1>7. ASSUME NEW p \in Polls, NEW answer \in BOOLEAN, AcceptItem(p, answer) PROVE Inv'
    BY <1>1, <1>7, AcceptItemInv
<1>8. ASSUME NEW p \in Polls, UpdateOffset(p) PROVE Inv'
    BY <1>1, <1>8, UpdateOffsetInv
<1>9. ASSUME NEW p \in Polls, ReadFails(p) PROVE Inv'
    BY <1>1, <1>9, ReadFailsInv
<1>10. ASSUME NEW p \in Polls, UpdateFails(p) PROVE Inv'
    BY <1>1, <1>10, UpdateFailsInv
<1>11. CASE Crash
    BY <1>1, <1>11, CrashInv
<1>12. CASE UNCHANGED vars
    <2>1. UNCHANGED <<queueLen, offset, poll, offered>> /\ DataType'
        BY <1>1, <1>12 DEF vars, Inv, DataType
    <2>2. QED
        BY <1>1, <2>1, OtherInv
<1>13. QED
    BY <1>1, <1>2, <1>3, <1>4, <1>5, <1>6, <1>7, <1>8, <1>9, <1>10, <1>11, <1>12 DEF Next, Step

LEMMA Invariant == Spec => []Inv
BY InitInv, NextInv, PTL DEF Spec

\* Every variable has its type, and a poll in progress is at an endpoint.
THEOREM TypeInvariant == Spec => []TypeOK
<1>1. Inv => TypeOK
    BY DEF Inv, DataType, TypeOK, PollType, PollInv, Endpoint
<1>2. QED
    BY <1>1, Invariant, PTL

\* No item below a stored offset, or below one that a poll goes on from, was
\* left out: delivery to accept is at least once, whatever polls overlap, are
\* refused or die.
THEOREM NoItemIsSkipped == Spec => []NothingSkipped
<1>1. Inv => NothingSkipped
    BY DEF Inv, Covered, NothingSkipped, PollInv, Endpoint
<1>2. QED
    BY <1>1, Invariant, PTL

\* No offset is beyond the end of its queue.
THEOREM OffsetsAreInTheirQueues == Spec => []OffsetInQueue
<1>1. Inv => OffsetInQueue
    BY DEF Inv, Covered, OffsetInQueue
<1>2. QED
    BY <1>1, Invariant, PTL

\* Only a poll changes an offset, to one beyond the offset it started from.
THEOREM OffsetsAreStoredByPolls == Spec => OffsetStoredByPoll
<1> DEFINE A == \A v \in Validators : offset'[v] # offset[v] =>
        \E p \in Polls : /\ poll[p].pc = "update" /\ Endpoint(p) = v
                         /\ offset'[v] > poll[p].found[v]
<1>1. ASSUME Inv, [Next]_vars PROVE [A]_vars
    <2>1. CASE \E p \in Polls : UpdateOffset(p)
        <3>1. PICK p \in Polls : UpdateOffset(p)
            BY <2>1
        <3>2. /\ poll[p].pc = "update" /\ poll[p] \in PollType
              /\ PollInv(poll[p], queueLen, offered)
            BY <1>1, <3>1 DEF UpdateOffset, Inv
        <3>3. /\ poll[p].at \in Validators
              /\ poll[p].found[poll[p].at] < poll[p].upto
            BY <3>2 DEF PollInv, PollType, Offsets
        <3>4. offset' = [offset EXCEPT ![poll[p].at] = poll[p].upto]
            BY <3>1 DEF UpdateOffset, Endpoint
        <3>5. QED
            BY <1>1, <3>2, <3>3, <3>4 DEF Inv, DataType, PollType, Offsets, Endpoint
    <2>2. CASE UNCHANGED offset
        BY <2>2
    <2>3. CASE UNCHANGED vars
        BY <2>3 DEF vars
    <2>4. (\E p \in Polls : UpdateOffset(p)) \/ UNCHANGED offset \/ UNCHANGED vars
        BY <1>1 DEF Next, Step, vars, table, AppendItem, StatusChanged, InitClient, Crash,
            StartPoll, ReadItems, ReadFails, AcceptItem, UpdateFails
    <2>5. QED
        BY <2>1, <2>2, <2>3, <2>4
<1>2. QED
    BY <1>1, Invariant, PTL DEF Spec, OffsetStoredByPoll
=============================================================================
