------------------------- MODULE ArchieveSyncProofs -------------------------
(***************************************************************************)
(* Theorems about ArchieveSync, for any peers, pages, records and failures.*)
(* The progress of a peer is kept in its record, in the client's offset    *)
(* and in the step of the task; the invariant relates the three, for one   *)
(* peer at a time.                                                         *)
(***************************************************************************)
EXTENDS ArchieveSync, TLAPS

TaskType ==
    [pc : {"none", "ask", "saveOffset", "saveState", "check", "fetch", "done"},
     page : SUBSET Blocks, missing : SUBSET Blocks,
     success : BOOLEAN, hasProcessed : BOOLEAN]

\* How the record r, the client's offset c, the answered pages a and the task t
\* of peer n hang together when the blocks st are stored.
Progress(n, r, c, a, t, st) ==
    /\ c <= Len(Pages[n]) + 1
    /\ r # NoRecord =>
        /\ r.offset <= Len(Pages[n]) + 1
        /\ 1..(r.offset - 1) \subseteq a
        /\ c # 0 => r.offset <= c /\ 1..(c - 1) \subseteq a
        /\ r.state = 1 => PagesOf(n) \subseteq a
    /\ t.pc = "saveOffset" => c # 0
    /\ t.pc = "saveState" => c = Len(Pages[n]) + 1
    /\ t.pc = "done" /\ t.success /\ ~t.hasProcessed => t.page \subseteq st

\* A peer that is not in the map yet has no client and no task.
Mapped(n) ==
    n \notin clientMap => client[n] = 0 /\ task[n].pc \in {"none", "done"}

DataType ==
    /\ stored \subseteq Blocks
    /\ sync \in {"off", "map", "launch", "running"}
    /\ toMap \subseteq Peers
    /\ nodeInfo \subseteq Peers
    /\ clientMap \subseteq nodeInfo
    /\ toMap \intersect nodeInfo = {}
    /\ complete \in BOOLEAN

PeerType ==
    /\ record \in [Peers -> Records \union {NoRecord}]
    /\ client \in [Peers -> Nat]
    /\ task \in [Peers -> TaskType]
    /\ answered \in [Peers -> SUBSET Nat]

Inv ==
    /\ DataType
    /\ PeerType
    /\ \A n \in Peers : Progress(n, record[n], client[n], answered[n], task[n], stored)
    /\ \A n \in Peers : Mapped(n)

LEMMA LenType == \A n \in Peers : Len(Pages[n]) \in Nat /\ Pages[n] \in Seq(SUBSET Blocks)
<1>1. ASSUME NEW n \in Peers PROVE Pages[n] \in Seq(SUBSET Blocks)
    BY ConstantsAssumption
<1>2. ASSUME NEW n \in Peers PROVE Len(Pages[n]) \in Nat
    BY <1>1
<1>3. QED
    BY <1>1, <1>2

LEMMA NoTaskType == NoTask \in TaskType /\ NoTask.pc = "none"
BY DEF NoTask, TaskType

LEMMA InitInv == Init => Inv
<1> USE ConstantsAssumption
<1>1. SUFFICES ASSUME Init PROVE Inv
    OBVIOUS
<1>2. DataType
    BY <1>1 DEF Init, DataType
<1>3. answered \in [Peers -> SUBSET Nat]
    BY <1>1 DEF Init, Records
<1>4. PeerType
    BY <1>1, <1>3, NoTaskType DEF Init, PeerType
<1>5. ASSUME NEW n \in Peers
      PROVE  Progress(n, record[n], client[n], answered[n], task[n], stored)
    <2>1. record[n] = InitRecords[n] /\ client[n] = 0 /\ task[n] = NoTask
        BY <1>1 DEF Init
    <2>2. InitRecords[n] # NoRecord =>
            /\ InitRecords[n].offset \in Nat \ {0}
            /\ InitRecords[n].offset <= Len(Pages[n]) + 1
            /\ InitRecords[n].state = 1 => InitRecords[n].offset = Len(Pages[n]) + 1
            /\ answered[n] = 1..(InitRecords[n].offset - 1)
        BY <1>1 DEF Init, Records
    <2>3. QED
        BY <2>1, <2>2, LenType, NoTaskType DEF Progress, PagesOf
<1>6. ASSUME NEW n \in Peers PROVE Mapped(n)
    BY <1>1, NoTaskType DEF Init, Mapped
<1>7. QED
    BY <1>2, <1>4, <1>5, <1>6 DEF Inv
-----------------------------------------------------------------------------
\* More stored blocks break nothing.
LEMMA ProgressMonotonic ==
    ASSUME NEW n \in Peers, NEW r, NEW c, NEW a, NEW t, NEW st, NEW st2,
           st \subseteq st2, Progress(n, r, c, a, t, st)
    PROVE  Progress(n, r, c, a, t, st2)
BY DEF Progress

\* The steps of a peer's task: they change what concerns this peer only.
LEMMA PeerStep ==
    ASSUME Inv, NEW n \in clientMap, NEW t \in TaskType, task' = [task EXCEPT ![n] = t],
           NEW r \in Records \union {NoRecord}, record' = [record EXCEPT ![n] = r],
           NEW c \in Nat, client' = [client EXCEPT ![n] = c],
           NEW a \in SUBSET Nat, answered' = [answered EXCEPT ![n] = a],
           UNCHANGED <<sync, toMap, nodeInfo, clientMap, complete>>,
           stored \subseteq stored', stored' \subseteq Blocks,
           Progress(n, r, c, a, t, stored')
    PROVE  Inv'
<1>1. n \in Peers
    BY DEF Inv, DataType
<1>2. DataType'
    BY DEF Inv, DataType
<1>3. PeerType'
    BY <1>1 DEF Inv, PeerType
<1>4. ASSUME NEW m \in Peers
      PROVE  Progress(m, record'[m], client'[m], answered'[m], task'[m], stored')
    <2>1. CASE m = n
        BY <1>1, <2>1 DEF Inv, PeerType
    <2>2. CASE m # n
        <3>1. /\ record'[m] = record[m] /\ client'[m] = client[m]
              /\ answered'[m] = answered[m] /\ task'[m] = task[m]
            BY <2>2 DEF Inv, PeerType
        <3>2. Progress(m, record[m], client[m], answered[m], task[m], stored)
            BY DEF Inv
        <3>3. QED
            BY <3>1, <3>2, ProgressMonotonic
    <2>3. QED
        BY <2>1, <2>2
<1>5. ASSUME NEW m \in Peers PROVE Mapped(m)'
    BY <1>1 DEF Inv, Mapped, PeerType
<1>6. QED
    BY <1>2, <1>3, <1>4, <1>5 DEF Inv

\* A task that does something is that of a mapped peer.
LEMMA ActiveIsMapped ==
    ASSUME Inv, NEW n \in Peers, task[n].pc \notin {"none", "done"}
    PROVE  n \in clientMap
BY DEF Inv, Mapped

\* The ends of a task leave the peer's progress as it is.
LEMMA FinishInv ==
    ASSUME Inv, NEW n \in Peers, task[n].pc \notin {"none", "done"},
           NEW success \in BOOLEAN, NEW hasProcessed \in BOOLEAN,
           Finish(n, success, hasProcessed),
           UNCHANGED <<record, client, answered, sync, toMap, nodeInfo, clientMap, complete>>,
           stored \subseteq stored', stored' \subseteq Blocks,
           success /\ ~hasProcessed => task[n].page \subseteq stored'
    PROVE  Inv'
<1> DEFINE t == [task[n] EXCEPT !.pc = "done", !.success = success,
                                !.hasProcessed = hasProcessed]
<1>1. task[n] \in TaskType
    BY DEF Inv, PeerType
<1>2. t \in TaskType /\ t.pc = "done" /\ t.success = success
      /\ t.hasProcessed = hasProcessed /\ t.page = task[n].page
    BY <1>1 DEF TaskType
<1>3. task' = [task EXCEPT ![n] = t]
    BY DEF Finish
<1> HIDE DEF t
<1>4. Progress(n, record[n], client[n], answered[n], t, stored')
    <2>1. Progress(n, record[n], client[n], answered[n], task[n], stored)
        BY DEF Inv
    <2>2. QED
        BY <1>2, <2>1 DEF Progress
<1>5. /\ record' = [record EXCEPT ![n] = record[n]]
      /\ client' = [client EXCEPT ![n] = client[n]]
      /\ answered' = [answered EXCEPT ![n] = answered[n]]
    BY DEF Inv, PeerType
<1>6. record[n] \in Records \union {NoRecord} /\ client[n] \in Nat /\ answered[n] \in SUBSET Nat
    BY DEF Inv, PeerType
<1>7. QED
    BY <1>2, <1>3, <1>4, <1>5, <1>6, ActiveIsMapped, PeerStep

LEMMA TaskFailsInv ==
    ASSUME Inv, NEW n \in Peers, TaskFails(n)
    PROVE  Inv'
<1>1. stored \subseteq stored' /\ stored' \subseteq Blocks
    BY DEF TaskFails, Inv, DataType
<1>2. QED
    BY <1>1, FinishInv DEF TaskFails

\* The client's offset grows with the pages that were answered.
LEMMA AskHashesInv ==
    ASSUME Inv, NEW n \in Peers, AskHashes(n)
    PROVE  Inv'
<1> DEFINE c == client[n]
<1>1. /\ task[n].pc = "ask" /\ task[n] \in TaskType
      /\ Progress(n, record[n], c, answered[n], task[n], stored)
      /\ record[n] \in Records \union {NoRecord} /\ c \in Nat /\ answered[n] \in SUBSET Nat
    BY DEF AskHashes, Inv, PeerType
<1>2. stored \subseteq stored' /\ stored' \subseteq Blocks
    BY DEF AskHashes, Inv, DataType
<1>3. n \in clientMap
    BY <1>1, ActiveIsMapped
<1>4. record' = [record EXCEPT ![n] = record[n]]
    BY DEF AskHashes, Inv, PeerType
<1>5. CASE c = 0
    BY <1>1, <1>2, <1>5, FinishInv DEF AskHashes
<1>6. CASE c # 0 /\ c \in PagesOf(n)
    <2> DEFINE page == Pages[n][c]
               t == [task[n] EXCEPT !.pc = "saveOffset", !.page = page]
               a == answered[n] \union {c}
    <2>1. page \in SUBSET Blocks
        BY <1>6, LenType DEF PagesOf
    <2>2. task' = [task EXCEPT ![n] = t] /\ answered' = [answered EXCEPT ![n] = a]
          /\ client' = [client EXCEPT ![n] = c + 1]
        BY <1>6 DEF AskHashes
    <2> HIDE DEF page
    <2>3. t \in TaskType /\ t.pc = "saveOffset"
        BY <1>1, <2>1 DEF TaskType
    <2>4. a \in SUBSET Nat /\ c + 1 \in Nat /\ answered[n] \subseteq a
        BY <1>1
    <2> HIDE DEF t
    <2>5. Progress(n, record[n], c + 1, a, t, stored')
        <3>1. c + 1 <= Len(Pages[n]) + 1
            BY <1>6, LenType DEF PagesOf
        <3>2. ASSUME record[n] # NoRecord
              PROVE  /\ record[n].offset <= c + 1
                     /\ 1..(record[n].offset - 1) \subseteq a
                     /\ 1..((c + 1) - 1) \subseteq a
            <4>1. record[n].offset \in Nat
                BY <1>1, <3>2 DEF Records
            <4>2. record[n].offset <= c /\ 1..(c - 1) \subseteq answered[n]
                BY <1>1, <1>6, <3>2 DEF Progress
            <4>3. 1..((c + 1) - 1) = 1..(c - 1) \union {c}
                BY <1>1, <1>6
            <4>4. QED
                BY <1>1, <4>1, <4>2, <4>3
        <3>3. record[n] # NoRecord => record[n].offset <= Len(Pages[n]) + 1
                    /\ (record[n].state = 1 => PagesOf(n) \subseteq a)
            BY <1>1, <2>4 DEF Progress
        <3>4. c + 1 # 0
            BY <1>1
        <3> HIDE DEF a, c
        <3>5. QED
            BY <2>3, <3>1, <3>2, <3>3, <3>4 DEF Progress
    <2>6. QED
        BY <1>1, <1>2, <1>3, <1>4, <2>2, <2>3, <2>4, <2>5, PeerStep DEF AskHashes
<1>7. CASE c # 0 /\ c \notin PagesOf(n)
    <2> DEFINE t == [task[n] EXCEPT !.pc = "saveState"]
    <2>1. task' = [task EXCEPT ![n] = t] /\ UNCHANGED <<client, answered>>
        BY <1>7 DEF AskHashes, Inv, PeerType
    <2>2. t \in TaskType /\ t.pc = "saveState"
        BY <1>1 DEF TaskType
    <2>3. client' = [client EXCEPT ![n] = c] /\ answered' = [answered EXCEPT ![n] = answered[n]]
        BY <2>1 DEF Inv, PeerType
    <2> HIDE DEF t
    <2>4. c = Len(Pages[n]) + 1
        BY <1>1, <1>7, LenType DEF Progress, PagesOf
    <2>5. Progress(n, record[n], c, answered[n], t, stored')
        BY <1>1, <2>2, <2>4 DEF Progress
    <2>6. QED
        BY <1>1, <1>2, <1>3, <1>4, <2>1, <2>2, <2>3, <2>5, PeerStep DEF AskHashes
<1>8. QED
    BY <1>5, <1>6, <1>7

\* What is saved has been answered.
LEMMA SaveProgressInv ==
    ASSUME Inv, NEW n \in Peers, SaveProgress(n)
    PROVE  Inv'
<1>1. /\ task[n].pc \in {"saveOffset", "saveState"} /\ task[n] \in TaskType
      /\ Progress(n, record[n], client[n], answered[n], task[n], stored)
      /\ record[n] \in Records \union {NoRecord} /\ client[n] \in Nat
      /\ answered[n] \in SUBSET Nat
    BY DEF SaveProgress, Inv, PeerType
<1>2. stored \subseteq stored' /\ stored' \subseteq Blocks
    BY DEF SaveProgress, Inv, DataType
<1>3. n \in clientMap
    BY <1>1, ActiveIsMapped
<1>4. CASE record[n] = NoRecord
    BY <1>1, <1>2, <1>4, FinishInv DEF SaveProgress
<1>5. CASE record[n] # NoRecord
    <2> DEFINE t == [task[n] EXCEPT !.pc = "check"]
               r == IF task[n].pc = "saveOffset" THEN [record[n] EXCEPT !.offset = client[n]]
                                                 ELSE [record[n] EXCEPT !.state = 1]
    <2>1. task' = [task EXCEPT ![n] = t] /\ record' = [record EXCEPT ![n] = r]
        BY <1>5 DEF SaveProgress, Inv, PeerType
    <2>2. t \in TaskType /\ t.pc = "check"
        BY <1>1 DEF TaskType
    <2>3. /\ client' = [client EXCEPT ![n] = client[n]]
          /\ answered' = [answered EXCEPT ![n] = answered[n]]
        BY DEF SaveProgress, Inv, PeerType
    <2>4. record[n] \in Records
        BY <1>1, <1>5
    <2>5. CASE task[n].pc = "saveOffset"
        <3>1. client[n] \in Nat \ {0}
            BY <1>1, <2>5 DEF Progress
        <3>2. r \in Records /\ r.offset = client[n] /\ r.state = record[n].state
            BY <2>4, <2>5, <3>1 DEF Records
        <3> HIDE DEF r, t
        <3>3. Progress(n, r, client[n], answered[n], t, stored')
            BY <1>1, <1>5, <2>2, <3>1, <3>2 DEF Progress
        <3>4. QED
            BY <1>1, <1>2, <1>3, <2>1, <2>2, <2>3, <3>2, <3>3, PeerStep DEF SaveProgress
    <2>6. CASE task[n].pc = "saveState"
        <3>1. r \in Records /\ r.offset = record[n].offset /\ r.state = 1
            BY <2>4, <2>6 DEF Records
        <3>2. PagesOf(n) \subseteq answered[n]
            <4>1. client[n] = Len(Pages[n]) + 1 /\ client[n] # 0
                BY <1>1, <2>6, LenType DEF Progress
            <4>2. 1..(client[n] - 1) \subseteq answered[n]
                BY <1>1, <1>5, <4>1 DEF Progress
            <4>3. client[n] - 1 = Len(Pages[n])
                BY <4>1, LenType
            <4>4. QED
                BY <4>2, <4>3 DEF PagesOf
        <3> HIDE DEF r, t
        <3>3. Progress(n, r, client[n], answered[n], t, stored')
            BY <1>1, <1>5, <2>2, <3>1, <3>2 DEF Progress
        <3>4. QED
            BY <1>1, <1>2, <1>3, <2>1, <2>2, <2>3, <3>1, <3>3, PeerStep DEF SaveProgress
    <2>7. QED
        BY <1>1, <2>5, <2>6
<1>6. QED
    BY <1>4, <1>5

LEMMA CheckHashesInv ==
    ASSUME Inv, NEW n \in Peers, CheckHashes(n)
    PROVE  Inv'
<1>1. /\ task[n].pc = "check" /\ task[n] \in TaskType
      /\ Progress(n, record[n], client[n], answered[n], task[n], stored)
      /\ record[n] \in Records \union {NoRecord} /\ client[n] \in Nat
      /\ answered[n] \in SUBSET Nat
    BY DEF CheckHashes, Inv, PeerType
<1>2. stored' = stored /\ stored' \subseteq Blocks
    BY DEF CheckHashes, Inv, DataType
<1>3. n \in clientMap
    BY <1>1, ActiveIsMapped
<1>4. CASE task[n].page \subseteq stored
    BY <1>1, <1>2, <1>4, FinishInv DEF CheckHashes
<1>5. CASE ~(task[n].page \subseteq stored)
    <2> DEFINE missing == task[n].page \ stored
               t == [task[n] EXCEPT !.pc = "fetch", !.missing = missing]
    <2>1. missing \in SUBSET Blocks
        BY <1>1 DEF TaskType
    <2>2. task' = [task EXCEPT ![n] = t]
        BY <1>5 DEF CheckHashes
    <2> HIDE DEF missing
    <2>3. t \in TaskType /\ t.pc = "fetch"
        BY <1>1, <2>1 DEF TaskType
    <2>4. /\ client' = [client EXCEPT ![n] = client[n]]
          /\ answered' = [answered EXCEPT ![n] = answered[n]]
          /\ record' = [record EXCEPT ![n] = record[n]]
        BY DEF CheckHashes, Inv, PeerType
    <2> HIDE DEF t
    <2>5. Progress(n, record[n], client[n], answered[n], t, stored')
        BY <1>1, <2>3 DEF Progress
    <2>6. QED
        BY <1>1, <1>2, <1>3, <2>2, <2>3, <2>4, <2>5, PeerStep DEF CheckHashes
<1>6. QED
    BY <1>4, <1>5

LEMMA HandleBlocksInv ==
    ASSUME Inv, NEW n \in Peers, NEW done \in SUBSET task[n].missing, HandleBlocks(n, done)
    PROVE  Inv'
<1>1. stored \subseteq stored' /\ stored' \subseteq Blocks
    BY DEF HandleBlocks, Inv, DataType, PeerType, TaskType
<1>2. QED
    BY <1>1, FinishInv DEF HandleBlocks

LEMMA FetchFailsInv ==
    ASSUME Inv, NEW n \in Peers, FetchFails(n)
    PROVE  Inv'
<1>1. stored \subseteq stored' /\ stored' \subseteq Blocks
    BY DEF FetchFails, Inv, DataType
<1>2. QED
    BY <1>1, FinishInv DEF FetchFails
-----------------------------------------------------------------------------
\* Steps that leave what concerns the peers alone.
LEMMA OtherInv ==
    ASSUME Inv, DataType', UNCHANGED <<record, client, task, answered, clientMap>>,
           stored \subseteq stored'
    PROVE  Inv'
<1>1. ASSUME NEW n \in Peers
      PROVE  Progress(n, record[n], client[n], answered[n], task[n], stored')
    BY ProgressMonotonic DEF Inv
<1>2. QED
    BY <1>1 DEF Inv, PeerType, Mapped

LEMMA StartSyncInv ==
    ASSUME Inv, StartSync
    PROVE  Inv'
<1>1. DataType'
    BY DEF StartSync, Inv, DataType
<1>2. QED
    BY <1>1, OtherInv DEF StartSync

LEMMA MapFailsInv ==
    ASSUME Inv, NEW n \in Peers, MapFails(n)
    PROVE  Inv'
<1>1. DataType'
    BY DEF MapFails, Inv, DataType
<1>2. QED
    BY <1>1, OtherInv DEF MapFails

LEMMA EndIterationInv ==
    ASSUME Inv, EndIteration
    PROVE  Inv'
<1>1. DataType'
    BY DEF EndIteration, Inv, DataType
<1>2. QED
    BY <1>1, OtherInv DEF EndIteration

LEMMA StoreElsewhereInv ==
    ASSUME Inv, NEW b \in Blocks, StoreElsewhere(b)
    PROVE  Inv'
<1>1. DataType'
    BY DEF StoreElsewhere, memory, Inv, DataType
<1>2. QED
    BY <1>1, OtherInv DEF StoreElsewhere, memory

\* The record of a peer that is read to the end goes; nothing relies on it.
LEMMA DeleteSyncedRecordInv ==
    ASSUME Inv, NEW n \in Peers, DeleteSyncedRecord(n)
    PROVE  Inv'
<1>1. UNCHANGED <<stored, sync, toMap, nodeInfo, clientMap, client, task, complete>>
      /\ record' = [record EXCEPT ![n] = NoRecord]
      /\ answered' = [answered EXCEPT ![n] = {}]
    BY DEF DeleteSyncedRecord, memory
<1>2. DataType' /\ PeerType' /\ \A m \in Peers : Mapped(m)'
    BY <1>1 DEF Inv, DataType, PeerType, Mapped
<1>3. ASSUME NEW m \in Peers
      PROVE  Progress(m, record'[m], client[m], answered'[m], task[m], stored)
    <2>1. Progress(m, record[m], client[m], answered[m], task[m], stored)
        BY DEF Inv
    <2>2. CASE m = n
        BY <1>1, <2>1, <2>2 DEF Inv, PeerType, Progress
    <2>3. CASE m # n
        BY <1>1, <2>1, <2>3 DEF Inv, PeerType
    <2>4. QED
        BY <2>2, <2>3
<1>4. QED
    BY <1>1, <1>2, <1>3 DEF Inv

\* A new process has no clients; the records and what they stand for remain.
LEMMA CrashInv ==
    ASSUME Inv, Crash
    PROVE  Inv'
<1>1. DataType'
    BY DEF Crash, Inv, DataType
<1>2. PeerType' /\ \A n \in Peers : client'[n] = 0 /\ task'[n] = NoTask
    BY NoTaskType DEF Crash, Inv, PeerType
<1>3. ASSUME NEW n \in Peers
      PROVE  Progress(n, record[n], client'[n], answered[n], task'[n], stored)
    <2>1. Progress(n, record[n], client[n], answered[n], task[n], stored)
        BY DEF Inv
    <2>2. QED
        BY <1>2, <2>1, NoTaskType, LenType DEF Progress
<1>4. \A n \in Peers : Mapped(n)'
    BY <1>2, NoTaskType DEF Mapped
<1>5. QED
    BY <1>1, <1>2, <1>3, <1>4 DEF Crash, Inv

\* A peer is mapped when it has no client yet: the client starts where the
\* record says.
LEMMA MapPeerInv ==
    ASSUME Inv, NEW n \in Peers, MapPeer(n)
    PROVE  Inv'
<1>1. DataType' /\ n \notin clientMap
    BY DEF MapPeer, Inv, DataType
<1>2. client[n] = 0 /\ task[n].pc \in {"none", "done"}
    BY <1>1 DEF Inv, Mapped
<1>3. Progress(n, record[n], client[n], answered[n], task[n], stored)
    BY DEF Inv
<1>4. UNCHANGED <<stored, task, answered>>
    BY DEF MapPeer
<1>5. CASE record[n] = NoRecord
    <2> DEFINE r == [offset |-> 1, state |-> 0]
    <2>1. record' = [record EXCEPT ![n] = r] /\ UNCHANGED <<clientMap, client>>
        BY <1>5 DEF MapPeer
    <2>2. r \in Records /\ r.offset = 1 /\ r.state = 0
        BY DEF Records
    <2> HIDE DEF r
    <2>3. PeerType' /\ \A m \in Peers : Mapped(m)'
        BY <1>4, <2>1, <2>2 DEF Inv, PeerType, Mapped
    <2>4. ASSUME NEW m \in Peers
          PROVE  Progress(m, record'[m], client[m], answered[m], task[m], stored)
        <3>1. CASE m = n
            <4>1. record'[m] = r
                BY <2>1, <3>1 DEF Inv, PeerType
            <4>2. QED
                BY <1>2, <1>3, <2>2, <3>1, <4>1, LenType DEF Progress
        <3>2. CASE m # n
            BY <2>1, <3>2 DEF Inv, PeerType
        <3>3. QED
            BY <3>1, <3>2
    <2>5. QED
        BY <1>1, <1>4, <2>1, <2>3, <2>4 DEF Inv
<1>6. CASE record[n] # NoRecord
    <2> DEFINE c == IF Synced(n) THEN 0 ELSE record[n].offset
    <2>1. /\ client' = [client EXCEPT ![n] = c] /\ UNCHANGED record
          /\ clientMap' = clientMap \union {n}
        BY <1>6 DEF MapPeer
    <2>2. record[n].offset \in Nat \ {0}
        BY <1>6 DEF Inv, PeerType, Records
    <2>3. c \in Nat /\ (c = 0 \/ c = record[n].offset)
        BY <2>2
    <2> HIDE DEF c
    <2>4. PeerType' /\ \A m \in Peers : Mapped(m)'
        BY <1>4, <2>1, <2>3 DEF Inv, PeerType, Mapped
    <2>5. ASSUME NEW m \in Peers
          PROVE  Progress(m, record[m], client'[m], answered[m], task[m], stored)
        <3>1. CASE m = n
            <4>1. client'[m] = c
                BY <2>1, <3>1 DEF Inv, PeerType
            <4>2. QED
                BY <1>2, <1>3, <1>6, <2>2, <2>3, <3>1, <4>1, LenType DEF Progress
        <3>2. CASE m # n
            BY <2>1, <3>2 DEF Inv, PeerType
        <3>3. QED
            BY <3>1, <3>2
    <2>6. QED
        BY <1>1, <1>4, <2>1, <2>4, <2>5 DEF Inv
<1>7. QED
    BY <1>5, <1>6

LEMMA LaunchInv ==
    ASSUME Inv, Launch
    PROVE  Inv'
<1>1. UNCHANGED <<stored, record, toMap, nodeInfo, clientMap, client, complete, answered>>
      /\ DataType'
    BY DEF Launch, Inv, DataType
<1> DEFINE t == [NoTask EXCEPT !.pc = "ask"]
<1>2. t \in TaskType /\ t.pc = "ask"
    BY DEF NoTask, TaskType
<1>3. task' = [n \in Peers |-> IF n \in clientMap THEN t ELSE NoTask]
    BY DEF Launch
<1> HIDE DEF t
<1>4. PeerType' /\ \A n \in Peers : Mapped(n)'
    BY <1>1, <1>2, <1>3, NoTaskType DEF Inv, PeerType, Mapped
<1>5. ASSUME NEW n \in Peers
      PROVE  Progress(n, record[n], client[n], answered[n], task'[n], stored)
    <2>1. task'[n].pc \in {"ask", "none"}
        BY <1>2, <1>3, NoTaskType
    <2>2. Progress(n, record[n], client[n], answered[n], task[n], stored)
        BY DEF Inv
    <2>3. QED
        BY <2>1, <2>2 DEF Progress
<1>6. QED
    BY <1>1, <1>4, <1>5 DEF Inv
-----------------------------------------------------------------------------
LEMMA NextInv == Inv /\ [Next]_vars => Inv'
<1>1. SUFFICES ASSUME Inv, [Next]_vars PROVE Inv'
    OBVIOUS
<1>2. ASSUME NEW n \in Peers, TaskStep(n) PROVE Inv'
    BY <1>1, <1>2, AskHashesInv, SaveProgressInv, CheckHashesInv, FetchFailsInv,
        HandleBlocksInv DEF TaskStep
<1>3. ASSUME NEW n \in Peers, MapPeer(n) \/ MapFails(n) PROVE Inv'
    BY <1>1, <1>3, MapPeerInv, MapFailsInv
<1>4. ASSUME NEW n \in Peers, TaskFails(n) \/ DeleteSyncedRecord(n) PROVE Inv'
    BY <1>1, <1>4, TaskFailsInv, DeleteSyncedRecordInv
<1>5. ASSUME NEW b \in Blocks, StoreElsewhere(b) PROVE Inv'
    BY <1>1, <1>5, StoreElsewhereInv
<1>6. CASE StartSync \/ Launch \/ EndIteration \/ Crash
    BY <1>1, <1>6, StartSyncInv, LaunchInv, EndIterationInv, CrashInv
<1>7. CASE UNCHANGED vars
    <2>1. DataType'
        BY <1>1, <1>7 DEF Inv, DataType, vars
    <2>2. QED
        BY <1>1, <1>7, <2>1, OtherInv DEF vars
<1>8. QED
    BY <1>1, <1>2, <1>3, <1>4, <1>5, <1>6, <1>7 DEF Next

LEMMA Invariant == Spec => []Inv
BY InitInv, NextInv, PTL DEF Spec

\* Every variable has its type; only mapped peers are asked.
THEOREM TypeInvariant == Spec => []TypeOK
<1>1. Inv => TypeOK
    BY DEF Inv, DataType, PeerType, TaskType, Progress, TypeOK
<1>2. QED
    BY <1>1, Invariant, PTL

\* No saved offset is ahead of its client, and no page below either was left
\* out, whatever fails, is deleted or is begun again.
THEOREM ProgressFollowsAnswers == Spec => []OffsetsFollowAnswers
<1>1. Inv => OffsetsFollowAnswers
    BY DEF Inv, Progress, OffsetsFollowAnswers
<1>2. QED
    BY <1>1, Invariant, PTL

\* Only a peer all of whose pages were answered is marked as synced.
THEOREM MarkedPeersAreRead == Spec => []SyncedIsReadToEnd
<1>1. Inv => SyncedIsReadToEnd
    BY DEF Inv, Progress, SyncedIsReadToEnd, Synced
<1>2. QED
    BY <1>1, Invariant, PTL

\* The loop ends only when every block of the last answers is stored.
THEOREM LastPagesAreStored == Spec => EndsWithPagesStored
<1> DEFINE A == complete' /\ ~complete => \A n \in clientMap : task[n].page \subseteq stored'
<1>1. Inv /\ [Next]_vars => [A]_vars
    <2>1. SUFFICES ASSUME Inv, Next, complete', ~complete, NEW n \in clientMap
                   PROVE  task[n].page \subseteq stored'
        OBVIOUS
    <2>2. EndIteration
        BY <2>1 DEF Next, StartSync, Launch, Crash, MapPeer, MapFails, TaskStep, AskHashes,
            SaveProgress, CheckHashes, FetchFails, HandleBlocks, TaskFails, DeleteSyncedRecord,
            StoreElsewhere, memory
    <2>3. task[n].pc = "done" /\ task[n].success /\ ~task[n].hasProcessed /\ stored' = stored
        BY <2>1, <2>2 DEF EndIteration
    <2>4. Progress(n, record[n], client[n], answered[n], task[n], stored)
        BY <2>1 DEF Inv, DataType
    <2>5. QED
        BY <2>3, <2>4 DEF Progress
<1>2. QED
    BY <1>1, Invariant, PTL DEF Spec, EndsWithPagesStored
-----------------------------------------------------------------------------
(* What the end of a sync means.  Without failures all peers are read in step, *)
(* one page per iteration, each from the offset of its record, whether or not  *)
(* the blocks of a page are fetched and stored.  An iteration whose pages name *)
(* no missing block ends the loop, so every list is read to its end if there   *)
(* is no such iteration before the last page.                                  *)

Start(n) == InitRecords[n].offset

\* The page that iteration j reads of peer n, none after the last one.
PageAt(n, j) == IF Start(n) + j <= Len(Pages[n]) THEN Pages[n][Start(n) + j] ELSE {}

\* The blocks that iterations before j have named.
Named(j) == {b \in Blocks : \E n \in Peers, i \in 0..(j - 1) : b \in PageAt(n, i)}
Known(j) == InitStored \union Deliveries \union Named(j)

\* Every peer was begun and not read to the end before.
SyncWasBegun ==
    \A n \in Peers : InitRecords[n] # NoRecord /\ InitRecords[n].state = 0

\* While a peer has a page left, the pages of the iteration name a block that
\* neither an earlier iteration nor another path brings.
IterationsBringBlocks ==
    \A n \in Peers : \A i \in Start(n)..Len(Pages[n]) :
        \E m \in Peers : ~(PageAt(m, i - Start(n)) \subseteq Known(i - Start(n)))

\* The offset of a client after j iterations.
Position(n, j) == IF Start(n) + j <= Len(Pages[n]) THEN Start(n) + j ELSE Len(Pages[n]) + 1

Beginning ==
    /\ sync \in {"off", "map"}
    /\ record = InitRecords
    /\ stored \subseteq Known(0)
    /\ nodeInfo = clientMap
    /\ toMap = IF sync = "map" THEN Peers \ clientMap ELSE {}
    /\ sync = "off" => clientMap = {}
    /\ \A n \in Peers :
        /\ task[n].pc = "none"
        /\ client[n] = IF n \in clientMap THEN Start(n) ELSE 0

AllMapped == toMap = {} /\ nodeInfo = Peers /\ clientMap = Peers

\* j iterations are over, and only what they named can have been stored by them.
Waiting(j) ==
    /\ sync \in {"off", "launch"}
    /\ AllMapped
    /\ stored \subseteq Known(j)
    /\ \A n \in Peers : client[n] = Position(n, j) /\ task[n].pc \in {"none", "done"}

\* The task of peer n in iteration j.
InTurn(n, j) ==
    /\ task[n].pc # "none"
    /\ task[n].pc = "ask" => client[n] = Position(n, j) /\ task[n].page = {}
    /\ task[n].pc # "ask" => client[n] = Position(n, j + 1) /\ task[n].page = PageAt(n, j)
    /\ task[n].pc = "saveState" => task[n].page = {}
    /\ task[n].pc = "fetch" => task[n].missing \subseteq task[n].page

Processed(n) == task[n].pc = "done" /\ task[n].hasProcessed

Iterating(j) ==
    /\ sync = "running"
    /\ AllMapped
    /\ stored \subseteq Known(j + 1)
    /\ (\A n \in Peers : ~Processed(n)) => stored \subseteq Known(j)
    /\ \A n \in Peers : InTurn(n, j)

\* Only a peer that was read to the end can lose its record.
Closed(n) ==
    record[n] = NoRecord \/ Synced(n) =>
        client[n] = Len(Pages[n]) + 1 /\ task[n].pc # "saveOffset"

ReadInv ==
    /\ Inv
    /\ complete => sync = "off"
    /\ CompleteMeansRead
    /\ \A n \in Peers : Closed(n)
    /\ Beginning \/ \E j \in Nat : Waiting(j) \/ Iterating(j)

LEMMA PageAtType ==
    ASSUME NEW n \in Peers, InitRecords[n] # NoRecord, NEW j \in Nat
    PROVE  Start(n) \in Nat \ {0} /\ Start(n) <= Len(Pages[n]) + 1
           /\ PageAt(n, j) \in SUBSET Blocks /\ Position(n, j) \in Nat \ {0}
<1>1. InitRecords[n] \in Records /\ Start(n) <= Len(Pages[n]) + 1
    BY ConstantsAssumption DEF Start
<1>2. Start(n) \in Nat \ {0}
    BY <1>1 DEF Records, Start
<1>3. PageAt(n, j) \in SUBSET Blocks
    BY <1>2, LenType DEF PageAt
<1>4. QED
    BY <1>1, <1>2, <1>3, LenType DEF Position

\* What iteration j reads is the page at its offset, and the next offset.
LEMMA PositionStep ==
    ASSUME NEW n \in Peers, InitRecords[n] # NoRecord, NEW j \in Nat
    PROVE  /\ Position(n, j) \in PagesOf(n) =>
                /\ PageAt(n, j) = Pages[n][Position(n, j)]
                /\ Position(n, j + 1) = Position(n, j) + 1
           /\ Position(n, j) \notin PagesOf(n) =>
                /\ PageAt(n, j) = {} /\ Position(n, j) = Len(Pages[n]) + 1
                /\ Position(n, j + 1) = Position(n, j)
<1>1. Start(n) \in Nat \ {0} /\ Start(n) <= Len(Pages[n]) + 1 /\ Len(Pages[n]) \in Nat
    BY PageAtType, LenType
<1>2. CASE Start(n) + j <= Len(Pages[n])
    BY <1>1, <1>2 DEF Position, PageAt, PagesOf
<1>3. CASE ~(Start(n) + j <= Len(Pages[n]))
    BY <1>1, <1>3 DEF Position, PageAt, PagesOf
<1>4. QED
    BY <1>2, <1>3

LEMMA NamedStep ==
    ASSUME SyncWasBegun, NEW j \in Nat
    PROVE  /\ Named(0) = {} /\ Known(0) = InitStored \union Deliveries
           /\ Named(j + 1) = Named(j) \union UNION {PageAt(n, j) : n \in Peers}
           /\ Known(j) \subseteq Known(j + 1)
           /\ \A n \in Peers : PageAt(n, j) \subseteq Known(j + 1)
<1>1. Named(0) = {}
    BY DEF Named
<1>2. ASSUME NEW b \in Named(j + 1)
      PROVE  b \in Named(j) \union UNION {PageAt(n, j) : n \in Peers}
    <2>1. PICK n \in Peers, i \in 0..((j + 1) - 1) : b \in PageAt(n, i)
        BY <1>2 DEF Named
    <2>2. b \in Blocks /\ (i = j \/ i \in 0..(j - 1))
        BY <2>1, <1>2 DEF Named
    <2>3. QED
        BY <2>1, <2>2 DEF Named
<1>3. ASSUME NEW b \in Named(j) PROVE b \in Named(j + 1)
    <2>1. PICK n \in Peers, i \in 0..(j - 1) : b \in PageAt(n, i) /\ b \in Blocks
        BY <1>3 DEF Named
    <2>2. i \in 0..((j + 1) - 1)
        OBVIOUS
    <2>3. QED
        BY <2>1, <2>2 DEF Named
<1>4. ASSUME NEW n \in Peers, NEW b \in PageAt(n, j) PROVE b \in Named(j + 1)
    <2>1. b \in Blocks
        BY PageAtType DEF SyncWasBegun
    <2>2. j \in 0..((j + 1) - 1)
        OBVIOUS
    <2>3. QED
        BY <2>1, <2>2 DEF Named
<1>5. QED
    BY <1>1, <1>2, <1>3, <1>4 DEF Known

\* When the pages of iteration j name only what was known before it, no peer has
\* a page left.
LEMMA NothingLeft ==
    ASSUME SyncWasBegun, IterationsBringBlocks, NEW j \in Nat,
           \A m \in Peers : PageAt(m, j) \subseteq Known(j)
    PROVE  \A n \in Peers : Position(n, j + 1) > Len(Pages[n])
<1>1. SUFFICES ASSUME NEW n \in Peers PROVE Position(n, j + 1) > Len(Pages[n])
    OBVIOUS
<1>2. Start(n) \in Nat \ {0} /\ Len(Pages[n]) \in Nat
    <2>1. InitRecords[n] # NoRecord
        BY DEF SyncWasBegun
    <2>2. QED
        BY <2>1, PageAtType, LenType, 0 \in Nat
<1>3. Start(n) + j > Len(Pages[n])
    <2>1. SUFFICES ASSUME Start(n) + j <= Len(Pages[n]) PROVE FALSE
        BY <1>2
    <2>2. Start(n) + j \in Start(n)..Len(Pages[n]) /\ (Start(n) + j) - Start(n) = j
        BY <1>2, <2>1
    <2>3. PICK m \in Peers : ~(PageAt(m, j) \subseteq Known(j))
        BY <2>2 DEF IterationsBringBlocks
    <2>4. QED
        BY <2>3
<1>4. QED
    BY <1>2, <1>3 DEF Position
-----------------------------------------------------------------------------
LEMMA InitRead ==
    ASSUME SyncWasBegun, Init
    PROVE  ReadInv
<1>1. Inv /\ ~complete /\ CompleteMeansRead
    BY InitInv DEF Init, CompleteMeansRead
<1>2. ASSUME NEW n \in Peers PROVE Closed(n)
    BY DEF Init, SyncWasBegun, Closed, Synced
<1>3. Beginning
    BY NoTaskType, 0 \in Nat, NamedStep DEF Init, Beginning
<1>4. QED
    BY <1>1, <1>2, <1>3 DEF ReadInv

OthersStay(n) ==
    \A m \in Peers \ {n} :
        task'[m] = task[m] /\ client'[m] = client[m] /\ record'[m] = record[m]

\* A task moves in its iteration and the others stay where they are.
LEMMA TaskMoves ==
    ASSUME ReadInv, SyncWasBegun, NEW j \in Nat, Iterating(j), Inv', NEW n \in Peers,
           OthersStay(n), UNCHANGED <<sync, toMap, nodeInfo, clientMap, complete>>,
           stored \subseteq stored', stored' \subseteq Known(j + 1),
           stored' = stored \/ Processed(n)', ~Processed(n), InTurn(n, j)', Closed(n)'
    PROVE  ReadInv'
<1>1. ASSUME NEW m \in Peers, m # n
      PROVE  task'[m] = task[m] /\ client'[m] = client[m] /\ record'[m] = record[m]
    BY <1>1 DEF OthersStay
<1>2. ASSUME NEW m \in Peers PROVE InTurn(m, j)'
    <2>1. CASE m = n
        BY <2>1
    <2>2. CASE m # n
        <3>1. InTurn(m, j)
            BY DEF Iterating
        <3>2. QED
            BY <1>1, <2>2, <3>1 DEF InTurn
    <2>3. QED
        BY <2>1, <2>2
<1>3. ASSUME NEW m \in Peers PROVE Closed(m)'
    <2>1. CASE m = n
        BY <2>1
    <2>2. CASE m # n
        <3>1. Closed(m)
            BY DEF ReadInv
        <3>2. QED
            BY <1>1, <2>2, <3>1 DEF Closed, Synced
    <2>3. QED
        BY <2>1, <2>2
<1>4. (\A m \in Peers : ~Processed(m)') => stored' \subseteq Known(j)
    <2>1. SUFFICES ASSUME \A m \in Peers : ~Processed(m)' PROVE stored' \subseteq Known(j)
        OBVIOUS
    <2>2. stored' = stored
        BY <2>1
    <2>3. ASSUME NEW m \in Peers PROVE ~Processed(m)
        <3>1. CASE m = n
            BY <3>1
        <3>2. CASE m # n
            BY <1>1, <2>1, <3>2 DEF Processed
        <3>3. QED
            BY <3>1, <3>2
    <2>4. QED
        BY <2>2, <2>3 DEF Iterating
<1>5. Iterating(j)'
    BY <1>2, <1>4 DEF Iterating, AllMapped
<1>6. ~complete'
    BY DEF ReadInv, Iterating
<1>7. QED
    BY <1>3, <1>5, <1>6 DEF ReadInv, CompleteMeansRead

\* A task that does something is in an iteration.
LEMMA ActiveInTurn ==
    ASSUME ReadInv, NEW n \in Peers, task[n].pc \notin {"none", "done"}
    PROVE  \E j \in Nat : Iterating(j)
BY DEF ReadInv, Beginning, Waiting

LEMMA AskHashesRead ==
    ASSUME ReadInv, Inv', SyncWasBegun, NEW n \in Peers, AskHashes(n)
    PROVE  ReadInv'
<1>1. task[n].pc = "ask" /\ task[n] \in TaskType
    BY DEF AskHashes, ReadInv, Inv, PeerType
<1>0. OthersStay(n)
    BY DEF AskHashes, Finish, OthersStay, ReadInv, Inv, PeerType
<1>2. PICK j \in Nat : Iterating(j)
    BY <1>1, ActiveInTurn
<1>3. client[n] = Position(n, j) /\ task[n].page = {}
    BY <1>1, <1>2 DEF Iterating, InTurn
<1>4. InitRecords[n] # NoRecord
    BY DEF SyncWasBegun
<1>5. client[n] \in Nat \ {0}
    BY <1>3, <1>4, PageAtType
<1>6. stored' = stored /\ stored \subseteq Known(j + 1) /\ ~Processed(n)
    BY <1>1, <1>2 DEF AskHashes, Iterating, Processed
<1>7. /\ record' = [record EXCEPT ![n] = record[n]]
      /\ UNCHANGED <<record, sync, toMap, nodeInfo, clientMap, complete>>
    BY DEF AskHashes, ReadInv, Inv, PeerType
<1>8. Closed(n)
    BY DEF ReadInv
<1>9. CASE client[n] \in PagesOf(n)
    <2> DEFINE t == [task[n] EXCEPT !.pc = "saveOffset", !.page = Pages[n][client[n]]]
    <2>1. task' = [task EXCEPT ![n] = t] /\ client' = [client EXCEPT ![n] = client[n] + 1]
        BY <1>5, <1>9 DEF AskHashes
    <2>2. t.pc = "saveOffset" /\ t.page = PageAt(n, j) /\ client[n] + 1 = Position(n, j + 1)
        BY <1>1, <1>3, <1>4, <1>9, PositionStep DEF TaskType
    <2> HIDE DEF t
    <2>3. task'[n] = t /\ client'[n] = Position(n, j + 1)
        BY <2>1, <2>2 DEF ReadInv, Inv, PeerType
    <2>4. InTurn(n, j)'
        BY <2>2, <2>3 DEF InTurn
    <2>5. client[n] # Len(Pages[n]) + 1
        BY <1>9, LenType DEF PagesOf
    <2>6. Closed(n)'
        BY <1>7, <1>8, <2>5 DEF Closed, Synced
    <2>7. QED
        BY <1>0, <1>2, <1>6, <1>7, <2>4, <2>6, TaskMoves
<1>10. CASE client[n] \notin PagesOf(n)
    <2> DEFINE t == [task[n] EXCEPT !.pc = "saveState"]
    <2>1. task' = [task EXCEPT ![n] = t] /\ client' = client
        BY <1>5, <1>10 DEF AskHashes, ReadInv, Inv, PeerType
    <2>2. t.pc = "saveState" /\ t.page = PageAt(n, j) /\ client[n] = Position(n, j + 1)
        BY <1>1, <1>3, <1>4, <1>10, PositionStep DEF TaskType
    <2> HIDE DEF t
    <2>3. task'[n] = t /\ client'[n] = Position(n, j + 1)
        BY <2>1, <2>2 DEF ReadInv, Inv, PeerType
    <2>4. InTurn(n, j)'
        <3>1. t.page = {}
            BY <1>3, <1>4, <1>10, <2>2, PositionStep
        <3>2. QED
            BY <2>2, <2>3, <3>1 DEF InTurn
    <2>5. Closed(n)'
        BY <1>7, <1>8, <2>1, <2>2, <2>3 DEF Closed, Synced
    <2>6. QED
        BY <1>0, <1>2, <1>6, <1>7, <2>4, <2>5, TaskMoves
<1>11. QED
    BY <1>9, <1>10

LEMMA SaveProgressRead ==
    ASSUME ReadInv, Inv', SyncWasBegun, NEW n \in Peers, SaveProgress(n)
    PROVE  ReadInv'
<1>1. task[n].pc \in {"saveOffset", "saveState"} /\ task[n] \in TaskType
      /\ Progress(n, record[n], client[n], answered[n], task[n], stored)
    BY DEF SaveProgress, ReadInv, Inv, PeerType
<1>0. OthersStay(n)
    BY DEF SaveProgress, Finish, OthersStay, ReadInv, Inv, PeerType
<1>2. PICK j \in Nat : Iterating(j)
    BY <1>1, ActiveInTurn
<1>3. client[n] = Position(n, j + 1) /\ task[n].page = PageAt(n, j)
    BY <1>1, <1>2 DEF Iterating, InTurn
<1>4. stored' = stored /\ stored \subseteq Known(j + 1) /\ ~Processed(n)
    BY <1>1, <1>2 DEF SaveProgress, Iterating, Processed
<1>5. /\ client' = [client EXCEPT ![n] = client[n]]
      /\ UNCHANGED <<client, sync, toMap, nodeInfo, clientMap, complete>>
    BY DEF SaveProgress, ReadInv, Inv, PeerType
<1>6. Closed(n)
    BY DEF ReadInv
<1>7. task[n].pc = "saveState" => client[n] = Len(Pages[n]) + 1 /\ task[n].page = {}
    BY <1>1, <1>2 DEF Progress, Iterating, InTurn
<1>8. CASE record[n] = NoRecord
    <2> DEFINE t == [task[n] EXCEPT !.pc = "done", !.success = FALSE, !.hasProcessed = FALSE]
    <2>1. task' = [task EXCEPT ![n] = t] /\ record' = [record EXCEPT ![n] = record[n]]
          /\ UNCHANGED record
        BY <1>8 DEF SaveProgress, Finish, ReadInv, Inv, PeerType
    <2>2. t.pc = "done" /\ t.page = task[n].page
        BY <1>1 DEF TaskType
    <2> HIDE DEF t
    <2>3. task[n].pc = "saveState"
        BY <1>1, <1>6, <1>8 DEF Closed
    <2>4. task'[n] = t
        BY <2>1 DEF ReadInv, Inv, PeerType
    <2>5. InTurn(n, j)'
        BY <1>3, <1>5, <1>7, <2>2, <2>3, <2>4 DEF InTurn
    <2>6. Closed(n)'
        BY <1>5, <1>6, <2>1, <2>2, <2>4 DEF Closed, Synced
    <2>7. QED
        BY <1>0, <1>2, <1>4, <1>5, <2>5, <2>6, TaskMoves
<1>9. CASE record[n] # NoRecord
    <2> DEFINE t == [task[n] EXCEPT !.pc = "check"]
               r == IF task[n].pc = "saveOffset" THEN [record[n] EXCEPT !.offset = client[n]]
                                                 ELSE [record[n] EXCEPT !.state = 1]
    <2>1. task' = [task EXCEPT ![n] = t] /\ record' = [record EXCEPT ![n] = r]
        BY <1>9 DEF SaveProgress, ReadInv, Inv, PeerType
    <2>2. t.pc = "check" /\ t.page = task[n].page
        BY <1>1 DEF TaskType
    <2>3. record[n] \in Records
        BY <1>9 DEF ReadInv, Inv, PeerType
    <2>4. r \in Records \/ task[n].pc = "saveState"
        <3>1. task[n].pc = "saveOffset" => client[n] \in Nat \ {0}
            BY <1>1 DEF Progress, ReadInv, Inv, PeerType
        <3>2. QED
            BY <1>1, <2>3, <3>1 DEF Records
    <2>5. task[n].pc = "saveOffset" => r.state = record[n].state
        BY <2>3 DEF Records
    <2> HIDE DEF t, r
    <2>6. task'[n] = t /\ record'[n] = r
        BY <2>1 DEF ReadInv, Inv, PeerType
    <2>7. InTurn(n, j)'
        BY <1>3, <1>5, <2>2, <2>6 DEF InTurn
    <2>8. Closed(n)'
        <3>1. CASE task[n].pc = "saveOffset"
            <4>1. ~Synced(n)
                BY <1>6, <3>1 DEF Closed
            <4>2. r.state # 1
                BY <1>9, <2>5, <3>1, <4>1 DEF Synced
            <4>3. r # NoRecord
                BY <2>4, <3>1, ConstantsAssumption
            <4>4. QED
                BY <2>6, <4>2, <4>3 DEF Closed, Synced
        <3>2. CASE task[n].pc = "saveState"
            BY <1>5, <1>7, <2>2, <2>6, <3>2 DEF Closed
        <3>3. QED
            BY <1>1, <3>1, <3>2
    <2>9. QED
        BY <1>0, <1>2, <1>4, <1>5, <2>7, <2>8, TaskMoves
<1>10. QED
    BY <1>8, <1>9

LEMMA CheckHashesRead ==
    ASSUME ReadInv, Inv', SyncWasBegun, NEW n \in Peers, CheckHashes(n)
    PROVE  ReadInv'
<1>1. task[n].pc = "check" /\ task[n] \in TaskType
    BY DEF CheckHashes, ReadInv, Inv, PeerType
<1>0. OthersStay(n)
    BY DEF CheckHashes, Finish, OthersStay, ReadInv, Inv, PeerType
<1>2. PICK j \in Nat : Iterating(j)
    BY <1>1, ActiveInTurn
<1>3. client[n] = Position(n, j + 1) /\ task[n].page = PageAt(n, j)
    BY <1>1, <1>2 DEF Iterating, InTurn
<1>4. stored' = stored /\ stored \subseteq Known(j + 1) /\ ~Processed(n)
    BY <1>1, <1>2 DEF CheckHashes, Iterating, Processed
<1>5. /\ client' = [client EXCEPT ![n] = client[n]]
      /\ record' = [record EXCEPT ![n] = record[n]]
      /\ UNCHANGED <<record, client, sync, toMap, nodeInfo, clientMap, complete>>
    BY DEF CheckHashes, ReadInv, Inv, PeerType
<1>6. Closed(n)
    BY DEF ReadInv
<1>7. ASSUME NEW t, task' = [task EXCEPT ![n] = t], t.pc # "saveOffset", InTurn(n, j)'
      PROVE  ReadInv'
    <2>1. task'[n] = t
        BY <1>7 DEF ReadInv, Inv, PeerType
    <2>2. Closed(n)'
        BY <1>5, <1>6, <1>7, <2>1 DEF Closed, Synced
    <2>3. QED
        BY <1>0, <1>2, <1>4, <1>5, <1>7, <2>2, TaskMoves
<1>8. CASE task[n].page \subseteq stored
    <2> DEFINE t == [task[n] EXCEPT !.pc = "done", !.success = TRUE, !.hasProcessed = FALSE]
    <2>1. task' = [task EXCEPT ![n] = t]
        BY <1>8 DEF CheckHashes, Finish
    <2>2. t.pc = "done" /\ t.page = task[n].page
        BY <1>1 DEF TaskType
    <2> HIDE DEF t
    <2>3. task'[n] = t
        BY <2>1 DEF ReadInv, Inv, PeerType
    <2>4. InTurn(n, j)'
        BY <1>3, <1>4, <1>5, <1>8, <2>2, <2>3 DEF InTurn
    <2>5. QED
        BY <1>7, <2>1, <2>2, <2>4
<1>9. CASE ~(task[n].page \subseteq stored)
    <2> DEFINE missing == task[n].page \ stored
               t == [task[n] EXCEPT !.pc = "fetch", !.missing = missing]
    <2>1. task' = [task EXCEPT ![n] = t]
        BY <1>9 DEF CheckHashes
    <2>2. t.pc = "fetch" /\ t.page = task[n].page /\ t.missing = task[n].page \ stored
        BY <1>1 DEF TaskType
    <2> HIDE DEF t
    <2>3. task'[n] = t
        BY <2>1 DEF ReadInv, Inv, PeerType
    <2>4. InTurn(n, j)'
        BY <1>3, <1>4, <1>5, <2>2, <2>3 DEF InTurn
    <2>5. QED
        BY <1>7, <2>1, <2>2, <2>4
<1>10. QED
    BY <1>8, <1>9

\* A task ends with its blocks fetched or not.
LEMMA FetchRead ==
    ASSUME ReadInv, Inv', SyncWasBegun, NEW n \in Peers,
           FetchFails(n) \/ \E done \in SUBSET task[n].missing : HandleBlocks(n, done)
    PROVE  ReadInv'
<1>1. task[n].pc = "fetch" /\ task[n] \in TaskType
    BY DEF FetchFails, HandleBlocks, ReadInv, Inv, PeerType
<1>2. /\ OthersStay(n)
      /\ UNCHANGED <<record, client, sync, toMap, nodeInfo, clientMap, complete>>
    BY DEF FetchFails, HandleBlocks, Finish, OthersStay, ReadInv, Inv, PeerType
<1>3. PICK j \in Nat : Iterating(j)
    BY <1>1, ActiveInTurn
<1>4. /\ client[n] = Position(n, j + 1) /\ task[n].page = PageAt(n, j)
      /\ task[n].missing \subseteq task[n].page
    BY <1>1, <1>3 DEF Iterating, InTurn
<1>5. ~Processed(n) /\ stored \subseteq Known(j + 1) /\ task[n].missing \subseteq Known(j + 1)
    BY <1>1, <1>3, <1>4, NamedStep DEF Iterating, Processed
<1>6. Closed(n)
    BY DEF ReadInv
<1>7. ASSUME NEW processed \in BOOLEAN, Finish(n, processed, processed),
             stored \subseteq stored', stored' \subseteq Known(j + 1),
             stored' = stored \/ processed
      PROVE  ReadInv'
    <2> DEFINE t == [task[n] EXCEPT !.pc = "done", !.success = processed,
                                    !.hasProcessed = processed]
    <2>1. task' = [task EXCEPT ![n] = t]
        BY <1>7 DEF Finish
    <2>2. t.pc = "done" /\ t.page = task[n].page /\ t.hasProcessed = processed
        BY <1>1 DEF TaskType
    <2> HIDE DEF t
    <2>3. task'[n] = t
        BY <2>1 DEF ReadInv, Inv, PeerType
    <2>4. InTurn(n, j)'
        BY <1>2, <1>4, <2>2, <2>3 DEF InTurn
    <2>5. Closed(n)'
        BY <1>2, <1>6, <2>2, <2>3 DEF Closed, Synced
    <2>6. stored' = stored \/ Processed(n)'
        BY <1>7, <2>2, <2>3 DEF Processed
    <2>7. QED
        BY <1>2, <1>3, <1>5, <1>7, <2>4, <2>5, <2>6, TaskMoves
<1>8. CASE FetchFails(n)
    BY <1>5, <1>7, <1>8 DEF FetchFails
<1>9. ASSUME NEW done \in SUBSET task[n].missing, HandleBlocks(n, done) PROVE ReadInv'
    BY <1>5, <1>7, <1>9 DEF HandleBlocks
<1>10. QED
    BY <1>8, <1>9
-----------------------------------------------------------------------------
\* The loop goes on with the next iteration, or ends with every list read.
LEMMA EndIterationRead ==
    ASSUME ReadInv, Inv', SyncWasBegun, IterationsBringBlocks, EndIteration
    PROVE  ReadInv'
<1>1. PICK j \in Nat : Iterating(j)
    BY DEF EndIteration, ReadInv, Beginning, Waiting
<1>2. UNCHANGED <<stored, record, toMap, nodeInfo, clientMap, client, task>>
      /\ sync' \in {"off", "launch"}
    BY DEF EndIteration
<1>3. \A n \in Peers : InTurn(n, j) /\ task[n].pc = "done"
    BY <1>1 DEF EndIteration, Iterating, AllMapped
<1>4. \A n \in Peers : task[n].page = PageAt(n, j) /\ client[n] = Position(n, j + 1)
    BY <1>3 DEF InTurn
<1>5. Waiting(j + 1)'
    BY <1>1, <1>2, <1>3, <1>4 DEF Iterating, Waiting, AllMapped
<1>6. (complete => sync = "off")' /\ CompleteMeansRead'
    <2>1. CASE \A n \in clientMap : task[n].success /\ ~task[n].hasProcessed
        <3>1. \A n \in Peers : task[n].success /\ ~task[n].hasProcessed
            BY <1>1, <2>1 DEF Iterating, AllMapped
        <3>2. stored \subseteq Known(j)
            BY <1>1, <3>1 DEF Iterating, Processed
        <3>3. \A n \in Peers : PageAt(n, j) \subseteq stored
            BY <1>3, <1>4, <3>1 DEF ReadInv, Inv, Progress
        <3>4. \A n \in Peers : Position(n, j + 1) > Len(Pages[n])
            BY <3>2, <3>3, NothingLeft
        <3>5. QED
            BY <1>2, <1>4, <2>1, <3>4 DEF EndIteration, CompleteMeansRead
    <2>2. CASE ~(\A n \in clientMap : task[n].success /\ ~task[n].hasProcessed)
        <3>1. ~complete'
            BY <1>1, <2>2 DEF EndIteration, ReadInv, Iterating
        <3>2. QED
            BY <3>1 DEF CompleteMeansRead
    <2>3. QED
        BY <2>1, <2>2
<1>7. \A n \in Peers : Closed(n)'
    BY <1>2 DEF ReadInv, Closed, Synced
<1>8. QED
    BY <1>5, <1>6, <1>7 DEF ReadInv

LEMMA StartSyncRead ==
    ASSUME ReadInv, Inv', SyncWasBegun, StartSync
    PROVE  ReadInv'
<1>1. UNCHANGED <<stored, record, nodeInfo, clientMap, client, task>> /\ sync = "off"
      /\ ~complete'
    BY DEF StartSync
<1>2. (complete => sync = "off")' /\ CompleteMeansRead' /\ \A n \in Peers : Closed(n)'
    BY <1>1 DEF ReadInv, CompleteMeansRead, Closed, Synced
<1>3. CASE Beginning
    <2>1. nodeInfo = {}
        BY <1>1, <1>3 DEF Beginning
    <2>2. Beginning'
        BY <1>1, <1>3, <2>1 DEF StartSync, Beginning
    <2>3. QED
        BY <1>2, <2>2 DEF ReadInv
<1>4. CASE \E j \in Nat : Waiting(j) \/ Iterating(j)
    <2>1. PICK j \in Nat : Waiting(j)
        BY <1>1, <1>4 DEF Iterating
    <2>2. CASE nodeInfo = {}
        <3>1. Peers = {} /\ clientMap = {}
            BY <2>1, <2>2 DEF Waiting, AllMapped
        <3>2. Known(j) \subseteq Known(0)
            BY <3>1 DEF Known, Named
        <3>3. record = InitRecords
            BY <3>1, ConstantsAssumption DEF ReadInv, Inv, PeerType
        <3>4. Beginning'
            BY <1>1, <2>1, <2>2, <3>1, <3>2, <3>3 DEF StartSync, Beginning, Waiting
        <3>5. QED
            BY <1>2, <3>4 DEF ReadInv
    <2>3. CASE nodeInfo # {}
        <3>1. Waiting(j)'
            BY <1>1, <2>1, <2>3 DEF StartSync, Waiting, AllMapped
        <3>2. QED
            BY <1>2, <3>1 DEF ReadInv
    <2>4. QED
        BY <2>2, <2>3
<1>5. QED
    BY <1>3, <1>4 DEF ReadInv

LEMMA MapPeerRead ==
    ASSUME ReadInv, Inv', SyncWasBegun, NEW n \in Peers, MapPeer(n)
    PROVE  ReadInv'
<1>1. /\ sync = "map" /\ n \in toMap /\ toMap' = toMap \ {n} /\ nodeInfo' = nodeInfo \union {n}
      /\ UNCHANGED <<stored, sync, task, complete, answered>>
    BY DEF MapPeer
<1>2. Beginning
    BY <1>1 DEF ReadInv, Waiting, Iterating
<1>3. n \notin clientMap /\ client[n] = 0 /\ task[n].pc = "none"
    BY <1>1, <1>2 DEF Beginning
<1>4. record[n] = InitRecords[n] /\ record[n] # NoRecord /\ ~Synced(n)
    BY <1>2 DEF Beginning, SyncWasBegun, Synced
<1>5. /\ clientMap' = clientMap \union {n} /\ record' = record
      /\ client' = [client EXCEPT ![n] = Start(n)]
    BY <1>4 DEF MapPeer, Start
<1>6. Beginning'
    <2>1. client \in [Peers -> Nat]
        BY DEF ReadInv, Inv, PeerType
    <2>2. ASSUME NEW m \in Peers
          PROVE  task'[m].pc = "none" /\ client'[m] = IF m \in clientMap' THEN Start(m) ELSE 0
        BY <1>1, <1>2, <1>5, <2>1, <2>2 DEF Beginning
    <2>3. QED
        BY <1>1, <1>2, <1>5, <2>2 DEF Beginning
<1>7. \A m \in Peers : Closed(m)'
    BY <1>5, <1>6 DEF Beginning, SyncWasBegun, Closed, Synced
<1>8. QED
    BY <1>1, <1>6, <1>7 DEF ReadInv, CompleteMeansRead

LEMMA LaunchRead ==
    ASSUME ReadInv, Inv', SyncWasBegun, Launch
    PROVE  ReadInv'
<1>1. /\ sync \in {"launch", "map"} /\ toMap = {} /\ sync' = "running"
      /\ UNCHANGED <<stored, record, toMap, nodeInfo, clientMap, client, complete>>
    BY DEF Launch
<1>2. PICK j \in Nat : /\ AllMapped
                       /\ \A n \in Peers : client[n] = Position(n, j)
                       /\ stored \subseteq Known(j)
    <2>1. CASE Beginning
        <3>1. sync = "map" /\ Peers \ clientMap = {}
            BY <1>1, <2>1 DEF Beginning
        <3>2. clientMap = Peers /\ nodeInfo = Peers
            BY <2>1, <3>1 DEF Beginning, ReadInv, Inv, DataType
        <3>3. AllMapped
            BY <1>1, <3>2 DEF AllMapped
        <3>4. ASSUME NEW n \in Peers PROVE client[n] = Position(n, 0)
            <4>1. client[n] = Start(n) /\ InitRecords[n] # NoRecord
                BY <2>1, <3>2 DEF Beginning, SyncWasBegun
            <4>2. Start(n) \in Nat \ {0} /\ Start(n) <= Len(Pages[n]) + 1
                BY <4>1, PageAtType, 0 \in Nat
            <4>3. QED
                BY <4>1, <4>2, LenType DEF Position
        <3>5. stored \subseteq Known(0)
            BY <2>1 DEF Beginning
        <3>6. QED
            BY <3>3, <3>4, <3>5, 0 \in Nat
    <2>2. CASE \E j \in Nat : Waiting(j) \/ Iterating(j)
        BY <1>1, <2>2 DEF Waiting, Iterating
    <2>3. QED
        BY <2>1, <2>2 DEF ReadInv
<1>3. clientMap = Peers
    BY <1>2 DEF AllMapped
<1> DEFINE t == [NoTask EXCEPT !.pc = "ask"]
<1>4. t.pc = "ask" /\ t.page = {}
    BY DEF NoTask
<1>5. task' = [n \in Peers |-> t]
    BY <1>3 DEF Launch
<1> HIDE DEF t
<1>6. ASSUME NEW n \in Peers PROVE InTurn(n, j)' /\ ~Processed(n)' /\ Closed(n)'
    <2>1. task'[n] = t
        BY <1>5
    <2>2. Closed(n)
        BY DEF ReadInv
    <2>3. QED
        BY <1>1, <1>2, <1>4, <2>1, <2>2 DEF InTurn, Processed, Closed, Synced
<1>7. stored \subseteq Known(j + 1)
    BY <1>2, NamedStep
<1>8. Iterating(j)'
    BY <1>1, <1>2, <1>6, <1>7 DEF Iterating, AllMapped
<1>9. (complete => sync = "off")' /\ CompleteMeansRead'
    BY <1>1 DEF ReadInv, CompleteMeansRead
<1>10. QED
    BY <1>6, <1>8, <1>9 DEF ReadInv

\* The job deletes the record of a peer whose pages are all read.
LEMMA DeleteSyncedRecordRead ==
    ASSUME ReadInv, Inv', SyncWasBegun, NEW n \in Peers, DeleteSyncedRecord(n)
    PROVE  ReadInv'
<1>1. /\ UNCHANGED <<stored, sync, toMap, nodeInfo, clientMap, client, task, complete>>
      /\ record' = [record EXCEPT ![n] = NoRecord] /\ Synced(n)
    BY DEF DeleteSyncedRecord, memory
<1>2. (complete => sync = "off")' /\ CompleteMeansRead'
    BY <1>1 DEF ReadInv, CompleteMeansRead
<1>3. ASSUME NEW m \in Peers PROVE Closed(m)'
    <2>1. Closed(m) /\ Closed(n)
        BY DEF ReadInv
    <2>2. m # n => record'[m] = record[m]
        BY <1>1 DEF ReadInv, Inv, PeerType
    <2>3. QED
        BY <1>1, <2>1, <2>2 DEF Closed, Synced
<1>4. ~Beginning
    BY <1>1 DEF Beginning, SyncWasBegun, Synced
<1>5. PICK j \in Nat : Waiting(j) \/ Iterating(j)
    BY <1>4 DEF ReadInv
<1>6. (Waiting(j) \/ Iterating(j))'
    BY <1>1, <1>5 DEF Waiting, Iterating, AllMapped, InTurn, Processed
<1>7. QED
    BY <1>2, <1>3, <1>6 DEF ReadInv

LEMMA StoreElsewhereRead ==
    ASSUME ReadInv, Inv', SyncWasBegun, NEW b \in Blocks, StoreElsewhere(b)
    PROVE  ReadInv'
<1>1. /\ UNCHANGED <<record, sync, toMap, nodeInfo, clientMap, client, task, complete>>
      /\ stored' = stored \union {b} /\ b \in Deliveries
    BY DEF StoreElsewhere, memory
<1>2. (complete => sync = "off")' /\ CompleteMeansRead'
    BY <1>1 DEF ReadInv, CompleteMeansRead
<1>3. \A m \in Peers : Closed(m)'
    BY <1>1 DEF ReadInv, Closed, Synced
<1>4. \A j \in Nat : b \in Known(j)
    BY <1>1 DEF Known
<1>5. CASE Beginning
    <2>1. Beginning'
        BY <1>1, <1>4, <1>5, 0 \in Nat DEF Beginning
    <2>2. QED
        BY <1>2, <1>3, <2>1 DEF ReadInv
<1>6. ASSUME NEW j \in Nat, Waiting(j) \/ Iterating(j)
      PROVE  ReadInv'
    <2>1. Waiting(j) => Waiting(j)'
        BY <1>1, <1>4 DEF Waiting, AllMapped
    <2>2. Iterating(j) => Iterating(j)'
        <3>1. SUFFICES ASSUME Iterating(j) PROVE Iterating(j)'
            OBVIOUS
        <3>2. \A m \in Peers : InTurn(m, j)'
            BY <1>1, <3>1 DEF Iterating, InTurn
        <3>3. b \in Known(j) /\ b \in Known(j + 1)
            BY <1>4
        <3>4. QED
            BY <1>1, <3>1, <3>2, <3>3 DEF Iterating, AllMapped, Processed
    <2>3. QED
        BY <1>2, <1>3, <1>6, <2>1, <2>2 DEF ReadInv
<1>7. QED
    BY <1>5, <1>6 DEF ReadInv

LEMMA NextRead ==
    ASSUME SyncWasBegun, IterationsBringBlocks, ~Failures, ReadInv, [Next]_vars
    PROVE  ReadInv'
<1>1. Inv'
    BY NextInv DEF ReadInv
<1>2. ASSUME NEW n \in Peers, TaskStep(n) PROVE ReadInv'
    BY <1>1, <1>2, AskHashesRead, SaveProgressRead, CheckHashesRead, FetchRead
        DEF TaskStep
<1>3. ASSUME NEW n \in Peers, MapPeer(n) \/ DeleteSyncedRecord(n) PROVE ReadInv'
    BY <1>1, <1>3, MapPeerRead, DeleteSyncedRecordRead
<1>4. \A n \in Peers : ~MapFails(n) /\ ~TaskFails(n)
    BY DEF MapFails, TaskFails
<1>5. ASSUME NEW b \in Blocks, StoreElsewhere(b) PROVE ReadInv'
    BY <1>1, <1>5, StoreElsewhereRead
<1>6. CASE StartSync \/ Launch \/ EndIteration \/ Crash
    BY <1>1, <1>6, StartSyncRead, LaunchRead, EndIterationRead DEF Crash
<1>7. CASE UNCHANGED vars
    <2>1. \A n \in Peers : Closed(n)'
        BY <1>7 DEF vars, ReadInv, Closed, Synced
    <2>2. Beginning => Beginning'
        BY <1>7 DEF vars, Beginning
    <2>3. ASSUME NEW j \in Nat, Waiting(j) \/ Iterating(j) PROVE (Waiting(j) \/ Iterating(j))'
        BY <1>7, <2>3 DEF vars, Waiting, Iterating, AllMapped, InTurn, Processed
    <2>4. (complete => sync = "off")' /\ CompleteMeansRead'
        BY <1>7 DEF vars, ReadInv, CompleteMeansRead
    <2>5. QED
        BY <1>1, <2>1, <2>2, <2>3, <2>4 DEF ReadInv
<1>8. QED
    BY <1>2, <1>3, <1>4, <1>5, <1>6, <1>7 DEF Next

\* A sync of peers that were begun before ends only when the list of each is read
\* to its end, whatever is fetched, rejected or stored by other paths and whatever
\* records the job deletes, if nothing else fails and no iteration before the last
\* page names only blocks that are known.
THEOREM CompleteSyncsReadAll ==
    ASSUME ~Failures, SyncWasBegun, IterationsBringBlocks
    PROVE  Spec => []CompleteMeansRead
<1>1. Init => ReadInv
    BY InitRead
<1>2. ReadInv /\ [Next]_vars => ReadInv'
    BY NextRead
<1>3. ReadInv => CompleteMeansRead
    BY DEF ReadInv
<1>4. QED
    BY <1>1, <1>2, <1>3, PTL DEF Spec
-----------------------------------------------------------------------------
(* The fourth finding in general: with one record that says synced, a process *)
(* that does not fail never comes to the end of its sync.                     *)

HeldUp(n) ==
    /\ Synced(n) /\ client[n] = 0 /\ ~complete
    /\ task[n].pc \in {"none", "ask", "done"} /\ ~task[n].success
    /\ \/ sync = "off" /\ nodeInfo = {}
       \/ sync = "map" /\ n \in toMap
       \/ n \in clientMap

LEMMA HeldUpStep ==
    ASSUME ~Failures, ~CronRuns, Inv, NEW n \in Peers, HeldUp(n), [Next]_vars
    PROVE  HeldUp(n)'
<1>1. /\ task \in [Peers -> TaskType] /\ client \in [Peers -> Nat]
      /\ record \in [Peers -> Records \union {NoRecord}] /\ clientMap \subseteq Peers
    BY DEF Inv, DataType, PeerType
<1>2. CASE StartSync
    BY <1>2 DEF StartSync, HeldUp, Synced
<1>3. CASE Launch
    <2>1. n \in clientMap
        BY <1>3 DEF Launch, HeldUp
    <2>2. task'[n].pc = "ask" /\ ~task'[n].success
        BY <1>3, <2>1 DEF Launch, NoTask
    <2>3. QED
        BY <1>3, <2>1, <2>2 DEF Launch, HeldUp, Synced
<1>4. CASE EndIteration
    <2>1. n \in clientMap
        BY <1>4 DEF EndIteration, HeldUp
    <2>2. ~complete'
        BY <1>4, <2>1 DEF EndIteration, HeldUp
    <2>3. QED
        BY <1>4, <2>1, <2>2 DEF EndIteration, HeldUp, Synced
<1>5. ASSUME NEW m \in Peers, MapPeer(m) PROVE HeldUp(n)'
    <2>1. record[n] # NoRecord /\ record[n].state = 1
        BY DEF HeldUp, Synced
    <2>2. record'[n] = record[n] /\ client'[n] = 0
        BY <1>1, <1>5, <2>1 DEF MapPeer, HeldUp, Synced
    <2>3. m = n => n \in clientMap'
        BY <1>5, <2>1 DEF MapPeer
    <2>4. clientMap \subseteq clientMap' /\ UNCHANGED <<sync, task, complete>>
          /\ sync = "map" /\ toMap' = toMap \ {m}
        BY <1>5 DEF MapPeer
    <2>5. QED
        BY <2>2, <2>3, <2>4 DEF HeldUp, Synced
<1>6. ASSUME NEW m \in Peers, TaskStep(m) PROVE HeldUp(n)'
    <2>1. UNCHANGED <<sync, toMap, nodeInfo, clientMap, complete>>
        BY <1>6 DEF TaskStep, AskHashes, SaveProgress, CheckHashes, FetchFails, HandleBlocks
    <2>2. CASE m = n
        <3>1. AskHashes(n) /\ Finish(n, FALSE, FALSE) /\ UNCHANGED <<record, client>>
            BY <1>6, <2>2 DEF TaskStep, AskHashes, SaveProgress, CheckHashes, FetchFails, HandleBlocks, HeldUp
        <3>2. task'[n].pc = "done" /\ ~task'[n].success
            BY <1>1, <3>1 DEF Finish, TaskType
        <3>3. QED
            BY <2>1, <3>1, <3>2 DEF HeldUp, Synced
    <2>3. CASE m # n
        <3>1. task'[n] = task[n] /\ record'[n] = record[n] /\ client'[n] = client[n]
            BY <1>1, <1>6, <2>3
                DEF TaskStep, AskHashes, SaveProgress, CheckHashes, FetchFails, HandleBlocks, Finish
        <3>2. QED
            BY <2>1, <3>1 DEF HeldUp, Synced
    <2>4. QED
        BY <2>2, <2>3
<1>7. ASSUME NEW b \in Blocks, StoreElsewhere(b) PROVE HeldUp(n)'
    BY <1>7 DEF StoreElsewhere, memory, HeldUp, Synced
<1>8. ~Crash /\ \A m \in Peers : ~MapFails(m) /\ ~TaskFails(m) /\ ~DeleteSyncedRecord(m)
    BY DEF Crash, MapFails, TaskFails, DeleteSyncedRecord
<1>9. CASE UNCHANGED vars
    BY <1>9 DEF vars, HeldUp, Synced
<1>10. QED
    BY <1>2, <1>3, <1>4, <1>5, <1>6, <1>7, <1>8, <1>9 DEF Next

\* A peer whose record says synced at the start, which its client is never told,
\* keeps every sync of the process from completing, if nothing fails and the job
\* does not delete the record.
THEOREM SyncedRecordsHoldUp ==
    ASSUME ~Failures, ~CronRuns, NEW n \in Peers,
           InitRecords[n] # NoRecord, InitRecords[n].state = 1
    PROVE  Spec => []~complete
<1>1. Init => HeldUp(n)
    BY NoTaskType DEF Init, HeldUp, Synced, NoTask
<1>2. Inv /\ HeldUp(n) /\ [Next]_vars => HeldUp(n)'
    BY HeldUpStep
<1>3. HeldUp(n) => ~complete
    BY DEF HeldUp
<1>4. QED
    BY <1>1, <1>2, <1>3, Invariant, PTL DEF Spec
-----------------------------------------------------------------------------
(* The third finding in general: without records no peer gets into the map. *)

AsksNobody ==
    /\ clientMap = {}
    /\ toMap \intersect nodeInfo = {} /\ toMap \union nodeInfo \subseteq Peers
    /\ \A n \in Peers : task[n].pc = "none"
    /\ \A n \in Peers : record[n] # NoRecord => n \in nodeInfo
    /\ sync = "map" => toMap \union nodeInfo = Peers
    /\ stored \subseteq InitStored \union Deliveries

LEMMA AsksNobodyStep ==
    ASSUME ~Failures, Inv, AsksNobody, [Next]_vars
    PROVE  AsksNobody'
<1>1. record \in [Peers -> Records \union {NoRecord}]
    BY DEF Inv, PeerType
<1>2. CASE StartSync
    BY <1>2 DEF StartSync, AsksNobody
<1>3. CASE Launch
    <2>1. task' = [n \in Peers |-> NoTask]
        BY <1>3 DEF Launch, AsksNobody
    <2>2. QED
        BY <1>3, <2>1, NoTaskType DEF Launch, AsksNobody
<1>4. CASE EndIteration
    BY <1>4 DEF EndIteration, AsksNobody
<1>5. ASSUME NEW m \in Peers, MapPeer(m) PROVE AsksNobody'
    <2>1. record[m] = NoRecord
        BY <1>5 DEF MapPeer, AsksNobody
    <2>2. \A n \in Peers : record'[n] # NoRecord => n = m \/ record[n] # NoRecord
        BY <1>1, <1>5, <2>1 DEF MapPeer
    <2>3. UNCHANGED <<clientMap, task, sync, stored>>
          /\ toMap' = toMap \ {m} /\ nodeInfo' = nodeInfo \union {m} /\ m \in toMap
        BY <1>5, <2>1 DEF MapPeer
    <2>4. QED
        BY <2>2, <2>3 DEF AsksNobody
<1>6. \A m \in Peers : ~TaskStep(m)
    BY DEF TaskStep, AskHashes, SaveProgress, CheckHashes, FetchFails, HandleBlocks, AsksNobody
<1>7. ASSUME NEW m \in Peers, DeleteSyncedRecord(m) PROVE AsksNobody'
    <2>1. \A n \in Peers : record'[n] # NoRecord => record[n] # NoRecord
        BY <1>1, <1>7 DEF DeleteSyncedRecord
    <2>2. QED
        BY <1>7, <2>1 DEF DeleteSyncedRecord, memory, AsksNobody
<1>8. ASSUME NEW b \in Blocks, StoreElsewhere(b) PROVE AsksNobody'
    BY <1>8 DEF StoreElsewhere, memory, AsksNobody
<1>9. ~Crash /\ \A m \in Peers : ~MapFails(m) /\ ~TaskFails(m)
    BY DEF Crash, MapFails, TaskFails
<1>10. CASE UNCHANGED vars
    BY <1>10 DEF vars, AsksNobody
<1>11. QED
    BY <1>2, <1>3, <1>4, <1>5, <1>6, <1>7, <1>8, <1>9, <1>10 DEF Next

\* A process that finds no records and does not fail asks no peer for anything,
\* in all its syncs: what it stores comes by other paths.
THEOREM FirstSyncsCopyNothing ==
    ASSUME ~Failures, \A n \in Peers : InitRecords[n] = NoRecord
    PROVE  Spec => [](stored \subseteq InitStored \union Deliveries)
<1>1. Init => AsksNobody
    BY NoTaskType DEF Init, AsksNobody
<1>2. Inv /\ AsksNobody /\ [Next]_vars => AsksNobody'
    BY AsksNobodyStep
<1>3. AsksNobody => stored \subseteq InitStored \union Deliveries
    BY DEF AsksNobody
<1>4. QED
    BY <1>1, <1>2, <1>3, Invariant, PTL DEF Spec
=============================================================================
