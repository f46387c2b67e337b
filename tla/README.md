# A verification project for push-anode

push-anode is the archival node of the Push Network.  It pulls blocks from the
queues of the validators, receives blocks that are pushed to it, copies the log
of older archival nodes, stores blocks and transactions in PostgreSQL, answers
queries over JSON-RPC and streams block events over WebSockets.  This directory
holds TLA+ models of its core, TLC configurations and proofs.  Paths below are
relative to the repository's `src/modules/`.

## 1. The system

The process is one Node.js event loop.  Its components run concurrently in the
sense that every `await` of a database call or a request is a point where other
handlers, timers and contract events run.  No two database calls share a
transaction.

| component | state | operations | talks to |
|---|---|---|---|
| block ingestion, `archive/archive-node.service.ts` | tables Block and Transaction | `accept`, `handleBlock`, `isBlockAlreadyStored` | database, contract state, broadcaster |
| block validation, `validator/{blockUtil,pushSdkUtil}.ts` and the protobuf messages | none | `checkBlockAsSNode`, `checkBlockAsAttestor`, signing | caller |
| queue polling, `queue/*.ts` | table dsetClient, a cron job | start-up upserts, `pollRemoteQueue` | validators' queues, ingestion |
| archive synchronisation, `archieveSync/*.ts` | table anodeSyncInfo, `nodeInfo`, `anodeClientMap`, `isSyncing`, offsets of the clients | `getANodeMap`, `initBlockSync`, a task per peer, the deletion job | other archival nodes, ingestion |
| contract state, `validator/validator-contract-state.service.ts` | maps of nodes, block parameters | load, subscribe, queries | contract events |
| event broadcast, `websockets/eventBroadcaster.ts` | none | `broadcast` | subscribers' sockets |
| WebSocket server, `websockets/{websockerServer,subscriptionHandler,connectionManager}.ts` | nonces, connections, subscribers | authentication, subscription, close | contract state, validators |
| block RPC, `block/block.service.ts`, `src/rpc.service.ts` | none | `push_putBlockHash`, `push_putBlock`, paginated queries | ingestion, database |
| transaction RPC, `tx/tx.service.ts` | none | paginated queries, grouping | database |

What is hard, and what makes each part correct:

- *Ingestion.*  The same block arrives by three paths, blocks share
  transactions, `block.create` and `transaction.createMany` are separate commits
  and lookups precede them.  Correct means: a row refers to a stored block, a
  block gets all its rows or none, subscribers hear of everything once and as
  stored, a success answer is never wrong, only blocks of known validators are
  inserted, every call returns.
- *Polling.*  Polls overlap, each with its own copy of the offsets; requests,
  updates and the process fail.  Correct means: nothing below an offset was left
  out, and everything is offered to `accept` in the end.
- *Synchronisation.*  Peers are read concurrently, progress is kept in memory
  and in the table, a job deletes records, other paths store blocks meanwhile.
  Correct means: progress never runs ahead of what was read, the end of a sync
  means that every list was read and the last pages are stored, and a sync ends.
- *WebSocket server.*  Nonces, connections and subscribers are keyed by an
  address that several sockets of a validator share, and timers, answers and
  closes of the sockets come in any order.  Correct means: a nonce
  authenticates one socket only, no timer closes an authenticated one, the newest
  subscriber is sent every event, no challenge stays open.
- *Contract state.*  The contract changes while it is read, request by request,
  and its listeners are installed after the reads.  Correct means: the copy is
  what the contract says once the events under way are handled, except for what
  changed between its read and its listener.
- *Block validation.*  What a signature is over is rebuilt from the block by
  clearing, parsing and serialising; attestations belong to signatures by their
  position.  Correct means: what validators of the contract assemble is accepted
  by a node that knows them, and what is accepted is what they signed.
- *RPC.*  An answer is put together from several reads between which others
  write; a snapshot is stale when the sender acts on it; pages shift.  Correct
  means: an answer shows whole blocks, a client that reads to the end has what
  was stored when it began, each pushed block gets its own, true status.

`PROJECT.json` lists the hazards line by line with the properties about them.

## 2. The modules

| module | models | notes |
|---|---|---|
| `ArchiveLog` | what readers and subscribers may rely on | abstract specification |
| `ArchiveNode` | `handleBlock` | the core; refines `ArchiveLog` |
| `QueueClient` | polling | |
| `ArchieveSync` | synchronisation | the source's spelling |
| `ValidatorContractState` | the copy of the validator contract | |
| `PushMessages` | protobuf messages as bytes and as objects | operators |
| `BlockUtil` | signing and checking blocks and transactions | operators over `PushMessages` |
| `BlockAcceptance` | a block from its producer to `validateBlock` | composes `ValidatorContractState` and `BlockUtil` |
| `BlockService` | JSON-RPC: pushes and queries of blocks and transactions | extends `ArchiveNode` |
| `WebSocketServer` | authentication, subscription and delivery of events | |
| `ArchiveNodeProofs`, `QueueClientProofs`, `ArchieveSyncProofs`, `ValidatorContractStateProofs`, `PushMessagesProofs`, `BlockAcceptanceProofs`, `BlockServiceProofs`, `WebSocketServerProofs` | theorems about the module of that name | checked by TLAPS |
| `MCArchiveNode`, `MCQueueClient`, `MCArchieveSync`, `MCBlockAcceptance`, `MCBlockService`, `MCWebSocketServer` | instances for TLC | |

Operators that carry the comment "Mutant" are wrong variants of the definition
that follows them.  No specification uses them; they are kept to check that each
property notices a plausible mistake.

### ArchiveNode

`Calls` are slots for calls in flight.  A call's `pc` names the database call it
has issued; an action is the answer to that call with the synchronous code up to
the next one:

| action | code (`archive-node.service.ts`) |
|---|---|
| `Deliver`, `Collect` | a caller of `handleBlock` (`accept` 57-82, `push_putBlock`, the sync) |
| `IsBlockAlreadyStored` | 86-91 |
| `ValidateBlock` | 94-96, 137-151 with `checkBlockAsSNode` |
| `FindTx`, `Prepared` | the turns of `prepareTransactionsData` 189-223; 111-114 |
| `CreateBlock` | 116, an error when the primary key exists |
| `CreateTxs` | 119, one INSERT: an error, and no row, when one key exists or is repeated |
| `Broadcast` | 121-130 |
| `DbError`, `AnswerLost` | 131-134: a failed call; a write that is committed but reported as failed |
| `Crash` | the process ends; the next one loads whatever the contract says then |
| `NodeAdded`, `BlockParamsUpdated` | contract events |

A block is the sequence of its transactions and the sequence of addresses its
signatures recover to; hashes identify blocks and transactions, so equal hashes
are equal model values.  JSON conversion and byte formats are left out.  The set
of validators never shrinks while a process runs, as in the code; a status
change leaves a validator in the map and so concerns only polling.

`ArchiveLog` has three actions: a block is recorded, the transactions that were
missing are all stored under it, and what is stored under it is announced once.
`ImplementsArchiveLog` says that `ArchiveNode` only does that; the mapping is the
instance `Log == INSTANCE ArchiveLog WITH ...`, the identity of tables and events.

### QueueClient

| action | code (`queue/`) |
|---|---|
| `InitClient` | `queue-client-helper.service.ts` 18-79: one upsert of the start-up loop |
| `StartPoll` | the cron job of `queue-manager.service.ts`; `findMany` in `queue-client.service.ts` 24-57 |
| `ReadItems`, `ReadFails` | 59-77, 132-155: a reply, or none |
| `AcceptItem` | 79-96: one turn of the loop over the items of a reply |
| `UpdateOffset`, `UpdateFails` | 98-106: `dsetClient.update`, and the next request or endpoint (`NextEndpoint`) |
| `Crash` | the process ends; the next one starts with the upserts |

`poll[p]` holds the local variables of one run of `pollRemoteQueue`; `Polls` is
the number of runs that may overlap, which the cron job does not limit.
Endpoints are polled in the order of their ids, as `findMany` lists them; id 0
stands for no row.  The history variables `offered` and `accepted` collect the
items passed to `accept` and those it returned true for.  The queue of a
validator is external: the log 1, 2, ... and replies that continue after the
offset asked for.  `StatusChanged` stands for contract events that change what
`isEnabled` answers; `InitClient` reads it at its turn, the list of validators at
the start.  `failures` counts the requests, updates, items and processes that
fail, up to `MaxFailures`.

### ArchieveSync

`sync` says where `initBlockSync` is, `task[n]` where the task of peer `n` is;
`client[n]` is the offset in the `ANodeClient`, `record[n]` the row of
anodeSyncInfo.  A peer answers with fixed pages (blocks up to `ts_cutoff`).  A
client that was not initialised has offset 0, and all its requests fail: it has
no url with `/rpc` and no record id.  `answered` is a history variable: the
pages whose hashes the peer returned since its record was made.  `complete` is
set when a sync ends with "Block sync complete!!!".

A page whose blocks are missing ends in one of two ways, with or without
`Failures`.  `FetchFails`: `getBlockFromBlockHash` wraps its list of hashes once
more (`anodeClient.service.ts` 116) than `getBlocksByHashesInternal` takes it
(`rpc.service.ts` 82), and its empty `catch` (119) makes a refusal `undefined`, on
which the task fails.  By reading, a peer of this version always refuses; a peer
that takes the list is a case of its own, since peers are other programs.
`HandleBlocks`: the peer answered, and any part of the missing blocks is stored,
since `handleBlock` resolves, and so counts as a success (213), also when it
rejects a block or finds all its transactions stored.  Either way the offset has
gone on, and the page is not asked for again.

### ValidatorContractState

| action | code (`validator/validator-contract-state.service.ts`) |
|---|---|
| `ReadParams`, `SubscribeParams` | `loadConstantsAndSubscribeToUpdates` 269-298; the nodes of the environment 415-429 |
| `ListNodes`, `ReadNode` | `loadVSDNodesAndSubscribeToUpdates` 301-340: a list of one type, a node of it |
| `Continue` | what follows a request: the next node or type, or the listeners 344-388 |
| `HandleEvent` | the listeners |
| `AddNode`, `ChangeStatus`, `UpdateBlockParams` | the contract, external |
| `Restart` | a request of `connect` fails or the process dies |

`heard` is a history variable: the nodes, and `Params`, that did not change
between their read and the installation of their listener.  What is not in it
may stay wrong until the next event or restart; the code reads first and
subscribes then (270, 302), and `MapsFollowContract` says that nothing else is
lost.  The nodes of `VALIDATOR_CONTRACT_TEST_VALIDATORS`
replace the contract's validators as they stand there, with no listener for
changes.  A banned validator stays in the map and so an acceptable signer, since
validation takes all keys of the map (`archive-node.service.ts` 138).

### PushMessages, BlockUtil, BlockAcceptance

A message is modelled twice: as its bytes, the sequence of its fields as they
stand on the wire, and as the object that the accessors show.  For each message
there is an operator that reads (`BlockOf`) and one that writes (`BlockBytes`);
unknown fields are skipped, a later field replaces an earlier one, defaults are
not written, and fields are written in the order of the generated code.  Hence
reading and writing again may change bytes, which is what the signature checks
depend on.  `IsBlock` and the predicates before it say which objects the
accessors can build: the domain of the writers, and of the round trip proved
about them.

`BlockUtil` has an operator per function.  Cryptography is ideal: a signature is
its signer and the bytes it is over.  `RecoverSigner` is `recoverSignerAddress`
(431-462) with its copying and clearing; `CheckTx` includes CAIP addresses and
the three validations of INIT_DID.  A check that throws rejects, as in its
callers.  `checkTxPayload` (333, 345) makes its failures but does not return them, so it
is no guard.  `RecoverPatchAddress` is right only for the block that its first
signer alone has signed.

`BlockAcceptance` adds the path of one block: `Produce`, `Attest`, `Send`,
`Recode` (a carrier writes the bytes in another form or damages them) and
`ValidateBlock` at the node.  `AppendPatches` adds the attestations in the order
in which they came, and `wire` is the only thing the node gets.  A carrier cannot
make up the signature of a node (`IsUnforged`), the usual assumption on
signatures, and bytes that do not parse end at the decoder.  Validators are another program; they are modelled
by the functions of `blockUtil.ts` that are written for them and that this node
does not call.  Attestations beyond a signature are ignored by
`checkBlockAsSNode`.

### BlockService

| action | code |
|---|---|
| `Ask`, `Answer` | the handlers of `rpc.service.ts` with their defaults |
| `CountRows`, `FindPage` | `block.service.ts` 34-63, `tx.service.ts` 63-169 |
| `FindOne` | `block.service.ts` 199-223, `tx.service.ts` 171-190 |
| `CountTxs`, `FindTxs` | the details of each block, at a time: `block.service.ts` 63-103, 225-250 |
| `AddToEntry`, `FindBlockOfTx`, `CountTxsOfBlock` | `groupTransactionsByBlock`, `tx.service.ts` 273-319 |
| `CountHashes`, `FindHashes`, `FetchBlocks` | `block.service.ts` 112-197: the two methods other archival nodes call |
| `GetTransactions` | `push_getTransactions` 312-385, by a client that reads to the end |
| `PutBlockHash` | `push_putBlockHash` 258-275 |
| `Unparsable`, `HandleBlock`, `Handled`, `EndPush` | `push_putBlock` 282-310 |
| `Ingest` | other calls of `handleBlock`, and failures: actions of `ArchiveNode` |

A step is one database read with the code after it; the three queries of a
search (`Lanes`) run concurrently.  The module extends `ArchiveNode`, so what is
stored between two reads is what `handleBlock` can store.  Rows with equal
`ts` come in any order in every read.  Contract events and crashes are left to
the runs of `ArchiveNode`.

Worth knowing when reading the code: the "duplicate" answer of `push_putBlock`,
which the example at `rpc.service.ts` 336-358 shows, cannot happen, since
`handleBlock` never answers `[false, null]`; `isFirstQuery` is always false; the
default `startTime` 0 with the default DESC finds nothing; page 0 of the queries
that do not correct it is rejected by Prisma; a client that stops at
`totalPages` may miss rows, as the total is of an earlier read; `lastTs` is in
milliseconds and `firstTs` in seconds.

### WebSocketServer

| action | code (`websockets/`) |
|---|---|
| `Connection` | `websockerServer.ts` 66-82: timer, nonce, challenge |
| `AuthTimeout` | 70-76 |
| `HealthCheck` | 89-101 |
| `AuthResponse` | 103-111: an answer is compared with the stored nonce, up to the first await |
| `Verify` | 113-139: the same answer after its awaits; `Authenticated` (131-138, 166-198) or `Rejected` (140-145) |
| `Subscribe` | 172-187, 224-246 and `handleSubscriptionRequest` of `subscriptionHandler.ts` 26-45 |
| `Closed` | the socket ends; the listener 194-197 exists after authentication only |
| `Broadcast` | `eventBroadcaster.ts` 30-56; the library drops what is sent on a socket that is not open |

A nonce is identified with the socket it was made for.  An answer names any
address and any nonce (`NoSocket` stands for a string that is no nonce of this
process), and its signature is right or not: the code compares the named nonce
with the one stored under the named address, but neither with the socket nor the
address with the header.  So a socket may be authenticated for another address
than it named, for several, or by a nonce that was sent on another socket;
`authed[s]` holds the addresses, one listener of `handleNewConnection` for each,
and `usedBy[r]` the sockets that the nonce of `r` has authenticated.

The handler awaits two functions that are not asynchronous, so it goes on before
any other callback, but after the messages of the same chunk of data, which the
library emits in one callback.  `answers` holds the answers that were found right
up to the await; while there are any, only messages of the same socket come in
(`Receiving`), and once one of them has gone on (`draining`) none do.  Hence two
answers of a chunk may be checked against one nonce, and one of them may
authenticate a socket which a further message has begun to close.  `Verify` takes
the answers in any order.  `newest`, `since`, `received` and `usedBy` are history
variables.

## 3. The runs

| run | question | result |
|---|---|---|
| `ArchiveNode_faults` | is the store right with 3 calls in flight, shared and repeated transactions, errors, lost answers, crashes, contract events? | holds; so do the inductive invariant and the refinement |
| `ArchiveNode_live` | do calls return and store, is a block that shares no transaction complete and announced, if the database answers? | holds |
| `ArchiveNode_comprehensive` | is every stored block complete? | violated, finding 1 |
| `QueueClient_overlap` | is an item left out by overlapping, failing polls; who moves an offset; is every item offered? | holds |
| `QueueClient_refused` | was everything below the offset accepted? | violated, finding 2 |
| `ArchieveSync_faults` | do records follow the answers, does the loop end only with the last pages stored? | holds |
| `ArchieveSync_resumed` | does a resumed sync of three peers read every list to its end, and end, whatever is fetched and stored? | holds |
| `ArchieveSync_fresh` | does the end of a first sync mean that everything was copied? | violated, finding 3 |
| `ArchieveSync_synced_peer` | does it end, when a record says synced? | violated, finding 4 |
| `BlockAcceptance` | does the copy follow the contract; is what validators assemble accepted, and only what they signed? | holds |
| `BlockService` | are answers whole, pages complete, statuses true, while blocks are stored? | holds |
| `WebSocketServer` | can a nonce be used twice or a timer close an authenticated socket, do subscribers miss events, is a single socket decided? | holds |

*Bounds.*  Ingestion: three calls are needed for two to race on one block while
a third takes a shared transaction; three blocks of at most two transactions
contain a shared, a repeated and a private transaction; quorums 1 and 2 of two
signers let validation fail and succeed.  The events need no bound: each
block is announced at most once.  Calls are symmetric in the run without
liveness.  Polling: two items per queue (`MaxItems`) make pages of one and of two
items; two validators make an endpoint after another; two polls overlap; one
failure (`MaxFailures`) can be of any kind at any step, and the theorems hold for
any number.  Synchronisation: two or three peers with one or two
pages that share a block; records and clients are bounded by the pages.  Contract:
two changes (`MaxChanges`) are an event during the load and one after it; three
validators and an archival node of four types of url; quorums 1 and 3 are a
block without attestations and one with two, whose order matters; status 3 is
the one that is not enabled; the two environments are an archival node and a
node with test validators.  The seven recoded forms are one reordering that
keeps the meaning and a loss or change of each part of a block.  RPC: three
blocks, two of one time, with four transactions, one of them shared; eleven
requests, one per method and filter, with page 0, a page size below the number
of rows and the cursor's page of one (`CursorSize`, 30 in the code), so that ties
go past the end of a page.  Sockets: a
validator with two sockets (`Sockets`; each is used once) has every conflict over
one entry, another with a single socket is the case `SingleSocketIsDecided` is
about; one event (`MaxEvents`) lies
before or after each change of a subscriber; the theorem about events holds for
any number.  Answers name each address and each nonce.

*Deadlock* is checked in every run.

*Fairness* is used for liveness only: weak fairness of the steps of a
call, a poll or a task (the event loop runs a continuation whose answer has
come; without `Failures` the database and the peers answer, and a poll meets
finitely many failures), of the start-up loop, of the cron job that starts polls, and of the continuations
of answers.  The timers of sockets are strongly fair: a timer that has run out
fires between two callbacks, and a peer that sends chunk after chunk makes it
wait for the end of each, but not for ever.
Nothing is assumed about
callers, contract events, new queue items or the start of a sync.

## 4. Findings

1. *Stored blocks can stay incomplete for ever* (`ArchiveNode_comprehensive`).
   Calls for b1 = (t1, t2) and b3 = (t1) both find t1 missing.  b3 stores t1, b1's
   `createMany` fails, its row in Block stays, and every redelivery is answered
   as "already exists".  t2 never gets stored, against README.md's
   "comprehensive log of all processed transactions".  A failed `createMany`, or
   a crash before it, has the same effect.
2. *A refused item is passed over* (`QueueClient_refused`).  The offset advances
   whatever `accept` answered, so a transient error loses the block on this path.
3. *The first sync asks nobody* (`ArchieveSync_fresh`).  A peer without a record
   gets a client that is never put into `anodeClientMap`.
4. *A synced record makes the next process's sync endless*
   (`ArchieveSync_synced_peer`).  Its client is put into the map uninitialised and
   fails for ever.

Further deviations of the same kind are listed as hazards: a failure in
`getANodeMap` leaves `nodeInfo` filled and the client map empty, the offset of a
client passes a page whose blocks could not be fetched or were not stored, and by
reading every fetch from a peer of this version is refused
(`anodeClient.service.ts` 116), so a sync that was resumed, too, reads all lists
and says that it is complete without all blocks: `CompleteMeansSynced` fails there
as in finding 3, and `CompleteMeansRead` is what remains.  An iteration whose
pages name no missing block ends the loop (`archieveSync.service.ts` 274) though
later pages may name some.

## 5. What is proved

Each theorem holds for all values of the constants that satisfy the module's
assumption, with failures and crashes where the module has them.

| module | theorem | states |
|---|---|---|
| `ArchiveNodeProofs` | `TypeCorrect` | `[]TypeOK` |
| | `SafeIngestion` | `[]InductiveInv` |
| | `BlocksAreAtomic` | `[]AllOrNothing` |
| | `RowsAreUnderStoredBlocks` | `[]RowsReferToStoredBlocks` |
| | `EventsAreTrue`, `SubscribersAreToldOnce` | `[]EventsMatchTables`, `[](AnnouncedOnce /\ EventsMatchTables)` |
| | `SuccessIsDurable` | `[]AcksAreDurable` |
| | `InsertionsAreValidated` | `InsertedUnderKnownSigners` |
| | `DisjointBlocksBecomeComplete` | `[]DisjointBlocksAreComplete`, if nothing fails |
| | `IngestionImplementsLog` | `ImplementsArchiveLog` |
| `QueueClientProofs` | `TypeInvariant` | `[]TypeOK` |
| | `NoItemIsSkipped` | `[]NothingSkipped` |
| | `OffsetsAreInTheirQueues` | `[]OffsetInQueue` |
| | `OffsetsAreStoredByPolls` | `OffsetStoredByPoll` |
| `ArchieveSyncProofs` | `TypeInvariant` | `[]TypeOK` |
| | `ProgressFollowsAnswers` | `[]OffsetsFollowAnswers` |
| | `MarkedPeersAreRead` | `[]SyncedIsReadToEnd` |
| | `LastPagesAreStored` | `EndsWithPagesStored` |
| | `CompleteSyncsReadAll` | `[]CompleteMeansRead`, under three conditions, see below |
| | `SyncedRecordsHoldUp` | `[]~complete`, with a synced record and no failure (finding 4) |
| | `FirstSyncsCopyNothing` | no sync stores anything, without records and failures (finding 3) |
| `ValidatorContractStateProofs` | `CopyFollowsContract` | `[]MapsFollowContract` |
| | `ContractTypeCorrect` | `[]ContractTypeOK` |
| `PushMessagesProofs` | `BlocksSurviveTheWire` | `BlockOf(BlockBytes(b)) = b` for every block object |
| | `BytesTellBlocksApart` | `BlockBytes` is injective |
| `BlockAcceptanceProofs` | `AcceptanceFollowsContract` | `Spec => ContractSpec`: the module refines `ValidatorContractState` |
| | `AcceptanceTypeCorrect` | `[]TypeOK` |
| | `CopyFollowsWithBlocks` | `[]MapsFollowContract` |
| | `AcceptedBlocksAreAsSigned` | `AcceptedIsAsSigned` |
| | `AssembledBlocksPass` | `AssembledIsAccepted` |
| `BlockServiceProofs` | `ServiceTypeCorrect` | `[]ServiceTypeOK` |
| | `ServiceIsSafe` | `[]ServiceInv` |
| | `WholeAnswers` | `[]AnswersAreWhole` |
| | `PagesMissNothing` | `[]PagesCoverStoredBlocks` |
| | `CursorMissesNothing` | `[]CursorCoversStoredTxs` |
| | `StatusesAreTrue` | `[]PushedIsStored` |
| `WebSocketServerProofs` | `TypeInvariant` | `[]TypeOK` |
| | `NoncesArePending` | `[]NonceIsPending` |
| | `SubscribersHearAll` | `[]NewestSubscriberHearsAll` |
| | `NoncesAuthenticateOne` | `[]NonceAuthenticatesOne` |
| | `TimersSpareAuthenticated` | `AuthenticatedStaysOpen`: steps of timers only |

*Assumptions.*  Blocks have finite sequences of transactions and signers, and
`NoBlock` is no block; the validators of the contract are finitely many; peers
have finite lists of pages, and records that an earlier process left lie within
them; test validators are of type VNode; the values that stand for "none" are
none of the others.  Acceptance: nodes are finitely many and at least one, the
quorum is positive, produced blocks are proper objects without signatures, and a
signature is not the empty byte string.  RPC: time stamps, start times and page
sizes are naturals, pages any integers, the page of the cursor is positive.
Where a theorem has further conditions they are in its statement.

*Ingestion.*  `AllOrNothing` is not inductive: it depends on what a call knows
when its insertion succeeds.  While it scans, each transaction it has passed is
stored or among its rows (`Scanning`); transactions are never removed, so this
survives what others do.  After the scan the whole block is stored or among the
rows (`Ready`), so an insertion that succeeds completes the block.  The primary
key of Block makes at most one call ever write a block (`Exclusive`), hence
between its two writes no row refers to the block and no event names it, and
after the second the rows under it are exactly its own (`Writing`).  From this
follow what events say and that they are unique, since a transaction lies under
one block.  `InsertedUnderKnownSigners` has its own invariant: the signers of a
call past its validation stay known until the process dies, and then the call is
gone.  `DisjointBlocksBecomeComplete` delimits finding 1: the rows of a call are
distinct (`RowsOnce`), so if no other block contains them and nothing fails they
cannot conflict (`DisjointRowsFit`).  TLC checks `InductiveInv` as an invariant of
`ArchiveNode_faults`.

*Polling.*  `PollInv` relates a poll's variables: the offset it found is at most
its last one, which is below the reply's end, which is in the queue; everything
up to the last offset, and the items of the reply before the current one, was
offered.  An older poll may write a smaller offset back, but only one below
which nothing was left out either.

*Synchronisation.*  `Progress` relates a peer's record, the offset of its client
and the step of its task to the pages that were answered: the record is behind
the client, the client behind the answers, a task that is about to write state
1 has read to the end, and one that reports nothing new has its page stored.
`CompleteMeansRead` is false in general (finding 3, and what follows the findings);
`CompleteSyncsReadAll` delimits when it holds: nothing fails but fetches, every
peer was begun and not read to its end before (`SyncWasBegun`), and while a peer
has a page left, each iteration names a block that is known neither from earlier
ones nor from elsewhere (`IterationsBringBlocks`; peers with the same log and
disjoint pages meet it, as does `ArchieveSync_resumed`).  Nothing is assumed about
fetches or about what `handleBlock` stores.  The invariant (`ReadInv`) is that all
peers move in step: there is a number j of iterations such that each client is at
`Position(n, j)` or has just gone on from there, and what is stored was there at
the start, was named by the first j iterations or is what other paths bring, until
a task of the current iteration handles its blocks.  So an iteration in which no
task failed or processed blocks named known blocks only, and nothing is left to
read.  Other paths may store blocks and the job may delete records meanwhile.

*Contract state.*  `Follows` says what the events under way still have to bring
to a node that is in `heard`: without an event its entry is right; otherwise the
last event says what the contract says, and if the node has no entry an event
that adds it comes first, so no status event is dropped.  `Phased` says that no
event can be under way before the listeners are installed, so reads never meet
events.

*Messages.*  The writer of a message emits its fields in the order of their
numbers, and a field that is absent has its default.  The reader looks for the
last field of a number, so writing and reading field by field are inverse, for
single and repeated fields, for maps and for nested messages.  From this follows
that a signature over the bytes of a block is one over the block.

*Acceptance.*  `AccInv` distinguishes a block that is not begun, in the making, or
under way.  In the making the draft is what a validator produced and each patch
is the signature of another validator over the draft with one signer and its own
votes (`Gathered`), no two by the same; under way the bytes parse to a block whose
signatures by nodes are among those of the draft.  A producer signs a block
without signers, an attestor one with exactly one, so by the round trip neither
signature can pass for the other: this is why a signature that checks at index i
was made for that block and those votes.  Validators are only added to the
contract, so who signed stays one; with `MapsFollowContract`
and `CaughtUp` the node knows them too, and `AssembledIsAccepted` follows from the
same reconstruction run forwards.

*RPC.*  Of ingestion the queries use only what `ArchiveLog` promises (`Grows`): tables
grow, and a block has no rows or all of them, for ever the same.  So what one read
of a query saw is still there at its next (`LaneKnows`), and an entry that shows a
transaction of a block counts all of it.  A reader of pages keeps `PagesKnow`: each
block that was stored when it began and has a ts of its own is among those seen,
among the rows of the current page, or at a place of the listing that the pages
read so far have not passed (`WillGet`); an insertion can only move it to a later
place.  A reader of the cursor keeps
`CursorKnows`: what it has not seen lies strictly beyond the cursor, because a
call returns all rows that tie with the last one.  `PushInv` relates each pushed
block to the call that handles it: its status is written from the answer of that
call, and `AcksAreDurable` makes it true for good.

*Sockets.*  `NonceInv` relates sockets, nonces and answers.  A socket has no timer
before its connection nor after its authentication (`SocketsInv`), so a timer
that fires is not that of an authenticated socket.  All answers that await
are of one socket, and the nonce of each is still stored or was deleted since and
has authenticated no other socket (`AnswersInv`): this is why overlapping answers
cannot use a nonce for two sockets, though the code binds a nonce to none.
`SubscribersInv` says that the entry of an address is the socket that was confirmed
last, whatever closes.

## 6. What is only model-checked, and what is not modelled

Liveness is checked by TLC only (`EveryCallReturns`, `ValidatedIsStored`,
`DisjointBlocksAreAnnounced`, `EveryItemIsOffered`, `SyncCompletes`,
`SingleSocketIsDecided`); ENABLED and fairness are beyond the prover.
Every invariant and action property of the passing runs is also proved; the
properties of the four violation runs do not hold in general.

Not modelled:

- cryptography, hashing and the conversions to JSON and hexadecimal; which
  accounts and shards a block affects;
- the protobuf messages no code of the repository uses;
- reads of the database that fail within a query, the counts of `push_getCounts`
  and the health answers, each of which is one read without further state;
- `checkBlockFinalized`, which nothing calls, and the lists of active nodes: the
  one that is read is the constant `Peers` of `ArchieveSync`;
- `nodeRandomMinCount` and `nodeRandomPingCount`, which nothing reads;
- dead code (`updateQueueOffset`, `readLastOffset`, `pollRemoteQueues`,
  `waitNotify`, `stringCounter`, `initializeConnection` of the connection manager,
  and with it the monitoring, which acts on `lastPong` only);
- the shutdown of the WebSocket server and subscriptions without BLOCK;
- application start, configuration, seed script, logging, the IP middleware and
  throttling, which take no part in the protocols.

## 7. Plan

Done: all modules of section 2 and the proofs of their safety properties.  To
come:

1. A composition of polling and synchronisation over `ArchiveLog`, in which
   `accept` and `HandleBlocks` are steps of the abstract log.
2. An abstract specification of one session per socket, which `WebSocketServer`
   implements.
