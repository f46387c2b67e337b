---------------------------- MODULE ArchieveSync ----------------------------
(***************************************************************************)
(* Copying the log of the other archival nodes when this node joins the    *)
(* network (archieveSync.service.ts, anodeClient.service.ts).              *)
(*                                                                         *)
(* initBlockSync runs iterations.  In each of them every peer in           *)
(* anodeClientMap is asked, concurrently, for its next page of block       *)
(* hashes, and the blocks that are not stored are fetched and handled.     *)
(* The loop ends after an iteration in which every peer succeeded and no   *)
(* block had to be handled.  Table anodeSyncInfo keeps the progress per    *)
(* peer; a cron job deletes the records of peers that were read to the     *)
(* end.  A peer is another archival node: it answers with the hashes of    *)
(* its blocks up to ts_cutoff, newest first, in pages that do not change   *)
(* while they are read (push_getBlockHashByTimeInternal).                  *)
(***************************************************************************)
EXTENDS Naturals, Sequences

CONSTANTS
    Peers,       \* the active archival nodes except self, by url
    Blocks,
    Pages,       \* [Peers -> Seq(SUBSET Blocks)], pages of block hashes
    InitRecords, \* [Peers -> Records \union {NoRecord}], anodeSyncInfo at start
    InitStored,  \* the blocks stored at start
    Deliveries,  \* the blocks that queues and push_putBlock may bring meanwhile
    Failures,    \* whether requests, database, handleBlock and process can fail
    CronRuns,    \* whether the deletion job runs
    NoRecord

Records == [offset : Nat \ {0}, state : {0, 1}]

ASSUME ConstantsAssumption ==
    /\ Pages \in [Peers -> Seq(SUBSET Blocks)]
    /\ InitRecords \in [Peers -> Records \union {NoRecord}]
    /\ \A n \in Peers : InitRecords[n] # NoRecord =>
        /\ InitRecords[n].offset <= Len(Pages[n]) + 1
        /\ InitRecords[n].state = 1 => InitRecords[n].offset = Len(Pages[n]) + 1
    /\ InitStored \subseteq Blocks /\ Deliveries \subseteq Blocks
    /\ Failures \in BOOLEAN /\ CronRuns \in BOOLEAN
    /\ NoRecord \notin Records

VARIABLES
    stored,    \* the block hashes in table Block
    record,    \* table anodeSyncInfo
    sync,      \* where initBlockSync is; "off" is isSyncing = false
    toMap,     \* the peers getANodeMap has not come to
    nodeInfo,  \* keys of nodeInfo
    clientMap, \* keys of anodeClientMap
    client,    \* each ANodeClient: its offset, 0 before init
    task,      \* getBlockHashValidateAndGetFullBlock of each peer
    complete,  \* "Block sync complete!!!" was the end of the last sync
    answered   \* the pages that each peer has answered for this record

memory == <<sync, toMap, nodeInfo, clientMap, client, task, complete>>
vars == <<stored, record, sync, toMap, nodeInfo, clientMap, client, task,
          complete, answered>>

\* A task: its step, the hashes of the page, those to fetch, and its result.
NoTask == [pc |-> "none", page |-> {}, missing |-> {},
           success |-> FALSE, hasProcessed |-> FALSE]

\* The pages of peer n that have hashes; it answers with none after them.
PagesOf(n) == 1..Len(Pages[n])
Synced(n) == record[n] # NoRecord /\ record[n].state = 1

Init ==
    /\ stored = InitStored
    /\ record = InitRecords
    /\ sync = "off"
    /\ toMap = {}
    /\ nodeInfo = {}
    /\ clientMap = {}
    /\ client = [n \in Peers |-> 0]
    /\ task = [n \in Peers |-> NoTask]
    /\ complete = FALSE
    /\ answered = [n \in Peers |->
            IF InitRecords[n] = NoRecord THEN {} ELSE 1..(InitRecords[n].offset - 1)]
-----------------------------------------------------------------------------
(* The rest of the node *)

\* A poll's accept or push_putBlock has handleBlock store a block.
StoreElsewhere(b) ==
    /\ b \in Deliveries \ stored
    /\ stored' = stored \union {b}
    /\ UNCHANGED <<record, memory, answered>>

\* The cron job deleteSyncedRecords deletes a record in state 1.
DeleteSyncedRecord(n) ==
    /\ CronRuns
    /\ Synced(n)
    /\ record' = [record EXCEPT ![n] = NoRecord]
    /\ answered' = [answered EXCEPT ![n] = {}]
    /\ UNCHANGED <<stored, memory>>

Crash ==
    /\ Failures
    /\ sync' = "off"
    /\ toMap' = {}
    /\ nodeInfo' = {}
    /\ clientMap' = {}
    /\ client' = [n \in Peers |-> 0]
    /\ task' = [n \in Peers |-> NoTask]
    /\ complete' = FALSE
    /\ UNCHANGED <<stored, record, answered>>
-----------------------------------------------------------------------------
(* initBlockSync and getANodeMap *)

\* Contract event NodeAdded names this node; a sync in progress skips it.
StartSync ==
    /\ sync = "off"
    /\ complete' = FALSE
    /\ IF nodeInfo = {} THEN sync' = "map" /\ toMap' = Peers
                        ELSE sync' = "launch" /\ UNCHANGED toMap
    /\ UNCHANGED <<stored, record, nodeInfo, clientMap, client, task, answered>>

\* A turn of getANodeMap.  A peer without a record gets one, and a client that
\* is not put into anodeClientMap; a peer read to the end gets a client that is
\* not initialised.
MapPeer(n) ==
    /\ sync = "map" /\ n \in toMap
    /\ toMap' = toMap \ {n}
    /\ nodeInfo' = nodeInfo \union {n}
    /\ IF record[n] = NoRecord
       THEN /\ record' = [record EXCEPT ![n] = [offset |-> 1, state |-> 0]]
            /\ UNCHANGED <<clientMap, client>>
       ELSE /\ clientMap' = clientMap \union {n}
            /\ client' = [client EXCEPT ![n] = IF Synced(n) THEN 0
                                                            ELSE record[n].offset]
            /\ UNCHANGED record
    /\ UNCHANGED <<stored, sync, task, complete, answered>>

\* The database fails: getANodeMap and the sync end, nodeInfo stays.
MapFails(n) ==
    /\ Failures
    /\ sync = "map" /\ n \in toMap
    /\ nodeInfo' = nodeInfo \union {n}
    /\ toMap' = {}
    /\ sync' = "off"
    /\ UNCHANGED <<stored, record, clientMap, client, task, complete, answered>>

\* The next iteration: all clients at once.
Launch ==
    /\ sync \in {"launch", "map"} /\ toMap = {}
    /\ sync' = "running"
    /\ task' = [n \in Peers |-> IF n \in clientMap THEN [NoTask EXCEPT !.pc = "ask"]
                                                   ELSE NoTask]
    /\ UNCHANGED <<stored, record, toMap, nodeInfo, clientMap, client, complete, answered>>

\* Mutant: the loop ends as soon as one peer has nothing new.
EndIterationOnAny ==
    /\ sync = "running"
    /\ \A n \in clientMap : task[n].pc = "done"
    /\ IF \E n \in clientMap : task[n].success /\ ~task[n].hasProcessed
       THEN sync' = "off" /\ complete' = TRUE
       ELSE sync' = "launch" /\ UNCHANGED complete
    /\ UNCHANGED <<stored, record, toMap, nodeInfo, clientMap, client, task, answered>>

\* Mutant: the loop ends when all succeeded, whatever was processed.
EndIterationOnSuccess ==
    /\ sync = "running"
    /\ \A n \in clientMap : task[n].pc = "done"
    /\ IF \A n \in clientMap : task[n].success
       THEN sync' = "off" /\ complete' = TRUE
       ELSE sync' = "launch" /\ UNCHANGED complete
    /\ UNCHANGED <<stored, record, toMap, nodeInfo, clientMap, client, task, answered>>

\* The end of an iteration: break, or sleep and go on.
EndIteration ==
    /\ sync = "running"
    /\ \A n \in clientMap : task[n].pc = "done"
    /\ IF \A n \in clientMap : task[n].success /\ ~task[n].hasProcessed
       THEN sync' = "off" /\ complete' = TRUE
       ELSE sync' = "launch" /\ UNCHANGED complete
    /\ UNCHANGED <<stored, record, toMap, nodeInfo, clientMap, client, task, answered>>
-----------------------------------------------------------------------------
(* getBlockHashValidateAndGetFullBlock *)

Finish(n, success, hasProcessed) ==
    task' = [task EXCEPT ![n] = [task[n] EXCEPT !.pc = "done", !.success = success,
                                                !.hasProcessed = hasProcessed]]

\* A request or the database fails: the error is caught, success: false.
TaskFails(n) ==
    /\ Failures
    /\ task[n].pc \in {"ask", "saveOffset", "saveState", "check"}
    /\ Finish(n, FALSE, FALSE)
    /\ UNCHANGED <<stored, record, sync, toMap, nodeInfo, clientMap, client,
                   complete, answered>>

\* Mutant: the offset goes on also after the last page.
AskHashesPastEnd(n) ==
    /\ task[n].pc = "ask" /\ client[n] # 0
    /\ client' = [client EXCEPT ![n] = @ + 1]
    /\ answered' = [answered EXCEPT ![n] = @ \union {client[n]}]
    /\ IF client[n] \in PagesOf(n)
       THEN task' = [task EXCEPT ![n] = [task[n] EXCEPT !.pc = "saveOffset",
                                                        !.page = Pages[n][client[n]]]]
       ELSE task' = [task EXCEPT ![n].pc = "saveState"]
    /\ UNCHANGED <<stored, record, sync, toMap, nodeInfo, clientMap, complete>>

\* Mutant: the last page is taken for the end.
AskHashesButLast(n) ==
    /\ task[n].pc = "ask" /\ client[n] # 0
    /\ IF client[n] < Len(Pages[n])
       THEN /\ task' = [task EXCEPT ![n] = [task[n] EXCEPT !.pc = "saveOffset",
                                                           !.page = Pages[n][client[n]]]]
            /\ client' = [client EXCEPT ![n] = @ + 1]
            /\ answered' = [answered EXCEPT ![n] = @ \union {client[n]}]
       ELSE /\ task' = [task EXCEPT ![n].pc = "saveState"]
            /\ UNCHANGED <<client, answered>>
    /\ UNCHANGED <<stored, record, sync, toMap, nodeInfo, clientMap, complete>>

\* push_anode_get_blockHash: the offset in memory goes on before it is saved.  A
\* client that is not initialised has no id, and no offset to ask with: it fails.
AskHashes(n) ==
    /\ task[n].pc = "ask"
    /\ IF client[n] = 0 THEN Finish(n, FALSE, FALSE) /\ UNCHANGED <<client, answered>>
       ELSE IF client[n] \in PagesOf(n)
       THEN /\ task' = [task EXCEPT ![n] = [task[n] EXCEPT !.pc = "saveOffset",
                                                           !.page = Pages[n][client[n]]]]
            /\ client' = [client EXCEPT ![n] = @ + 1]
            /\ answered' = [answered EXCEPT ![n] = @ \union {client[n]}]
       ELSE /\ task' = [task EXCEPT ![n].pc = "saveState"]
            /\ UNCHANGED <<client, answered>>
    /\ UNCHANGED <<stored, record, sync, toMap, nodeInfo, clientMap, complete>>

\* Mutant: the offset saved is that of the page after the next one.
SaveProgressAhead(n) ==
    /\ task[n].pc \in {"saveOffset", "saveState"}
    /\ IF record[n] = NoRecord
       THEN Finish(n, FALSE, FALSE) /\ UNCHANGED record
       ELSE /\ record' = [record EXCEPT ![n] = IF task[n].pc = "saveOffset"
                                               THEN [record[n] EXCEPT !.offset = client[n] + 1]
                                               ELSE [record[n] EXCEPT !.state = 1]]
            /\ task' = [task EXCEPT ![n].pc = "check"]
    /\ UNCHANGED <<stored, sync, toMap, nodeInfo, clientMap, client, complete, answered>>

\* updateAnodeSyncInfo throws when the record was deleted.
SaveProgress(n) ==
    /\ task[n].pc \in {"saveOffset", "saveState"}
    /\ IF record[n] = NoRecord
       THEN Finish(n, FALSE, FALSE) /\ UNCHANGED record
       ELSE /\ record' = [record EXCEPT ![n] = IF task[n].pc = "saveOffset"
                                               THEN [record[n] EXCEPT !.offset = client[n]]
                                               ELSE [record[n] EXCEPT !.state = 1]]
            /\ task' = [task EXCEPT ![n].pc = "check"]
    /\ UNCHANGED <<stored, sync, toMap, nodeInfo, clientMap, client, complete, answered>>

\* Mutant: an empty page goes on to the fetch.
CheckHashesAlwaysFetch(n) ==
    /\ task[n].pc = "check"
    /\ task' = [task EXCEPT ![n] = [task[n] EXCEPT !.pc = "fetch",
                                                   !.missing = task[n].page \ stored]]
    /\ UNCHANGED <<stored, record, sync, toMap, nodeInfo, clientMap, client,
                   complete, answered>>

\* isBlockAlreadyStored for every hash of the page.
CheckHashes(n) ==
    /\ task[n].pc = "check"
    /\ IF task[n].page \subseteq stored
       THEN Finish(n, TRUE, FALSE)
       ELSE task' = [task EXCEPT ![n] = [task[n] EXCEPT !.pc = "fetch",
                                                        !.missing = task[n].page \ stored]]
    /\ UNCHANGED <<stored, record, sync, toMap, nodeInfo, clientMap, client,
                   complete, answered>>

\* getBlockFromBlockHash has no blocks to return, and the task fails after its
\* offset has gone on.  It sends the list of hashes one level deeper than
\* getBlocksByHashesInternal takes it, so a peer of this version refuses, with or
\* without Failures; a block that the peer has no more comes as null.
FetchFails(n) ==
    /\ task[n].pc = "fetch"
    /\ Finish(n, FALSE, FALSE)
    /\ UNCHANGED <<stored, record, sync, toMap, nodeInfo, clientMap, client,
                   complete, answered>>

\* A peer that takes the list returns the blocks, and handleBlock handles them.  It
\* resolves also when it rejects a block or finds all transactions stored, which
\* counts as a success: any part of the blocks may be stored.
HandleBlocks(n, done) ==
    /\ task[n].pc = "fetch"
    /\ done \subseteq task[n].missing
    /\ stored' = stored \union done
    /\ Finish(n, TRUE, TRUE)
    /\ UNCHANGED <<record, sync, toMap, nodeInfo, clientMap, client, complete, answered>>

TaskStep(n) ==
    \/ AskHashes(n)
    \/ SaveProgress(n)
    \/ CheckHashes(n)
    \/ FetchFails(n)
    \/ \E done \in SUBSET task[n].missing : HandleBlocks(n, done)

Next ==
    \/ StartSync \/ Launch \/ EndIteration \/ Crash
    \/ \E n \in Peers : MapPeer(n) \/ MapFails(n) \/ TaskStep(n) \/ TaskFails(n)
                        \/ DeleteSyncedRecord(n)
    \/ \E b \in Blocks : StoreElsewhere(b)

Spec == Init /\ [][Next]_vars

\* The event loop and the timers; nothing starts a sync but the contract's event.
FairSpec ==
    /\ Spec
    /\ WF_vars(Launch) /\ WF_vars(EndIteration)
    /\ \A n \in Peers : WF_vars(MapPeer(n)) /\ WF_vars(TaskStep(n))
-----------------------------------------------------------------------------
(* Properties *)

\* Every variable has its type; only mapped peers are asked.
TypeOK ==
    /\ stored \subseteq Blocks
    /\ record \in [Peers -> Records \union {NoRecord}]
    /\ sync \in {"off", "map", "launch", "running"}
    /\ toMap \subseteq Peers
    /\ nodeInfo \subseteq Peers
    /\ clientMap \subseteq nodeInfo
    /\ client \in [Peers -> Nat]
    /\ task \in [Peers -> [pc : {"none", "ask", "saveOffset", "saveState", "check",
                                 "fetch", "done"},
                           page : SUBSET Blocks, missing : SUBSET Blocks,
                           success : BOOLEAN, hasProcessed : BOOLEAN]]
    /\ complete \in BOOLEAN
    /\ answered \in [Peers -> SUBSET Nat]
    /\ \A n \in Peers : client[n] <= Len(Pages[n]) + 1

\* The saved offset is never ahead of the client's, and no page below either of
\* them was left out: after a crash the sync goes on at a page whose
\* predecessors the peer has answered.
OffsetsFollowAnswers ==
    \A n \in Peers : record[n] # NoRecord =>
        /\ 1..(record[n].offset - 1) \subseteq answered[n]
        /\ client[n] # 0 => /\ record[n].offset <= client[n]
                            /\ 1..(client[n] - 1) \subseteq answered[n]

\* Only a peer all of whose pages were answered is marked as synced, and may
\* lose its record to the cron job.
SyncedIsReadToEnd ==
    \A n \in Peers : Synced(n) => PagesOf(n) \subseteq answered[n]

\* The loop ends only when every block that the last answers named is stored,
\* also those that another peer's task or another path has stored.
EndsWithPagesStored ==
    [][complete' /\ ~complete => \A n \in clientMap : task[n].page \subseteq stored']_vars

\* A sync that reports its completion has all blocks that the peers listed.
CompleteMeansSynced ==
    complete => \A n \in Peers : \A i \in PagesOf(n) : Pages[n][i] \subseteq stored

\* A sync that reports its completion has read the list of every peer to its end.
CompleteMeansRead ==
    complete => \A n \in Peers : client[n] > Len(Pages[n])

\* A sync ends, and says that it is complete.
SyncCompletes == sync # "off" ~> complete
=============================================================================
