----------------------------- MODULE QueueClient ----------------------------
(***************************************************************************)
(* Reading the validators' block queues (queue-client.service.ts,          *)
(* queue-client-helper.service.ts, queue-manager.service.ts).              *)
(*                                                                         *)
(* Table dsetClient keeps for each validator the offset up to which its    *)
(* queue was read.  A cron job starts pollRemoteQueue every ten seconds    *)
(* whether or not the former poll has ended, so polls overlap; each keeps  *)
(* the offsets it read at its start and its own lastOffset.  The queue of  *)
(* a validator is external: a log of items 1, 2, ..., of which a reply     *)
(* holds the first few after the offset asked for.                         *)
(***************************************************************************)
EXTENDS Naturals, FiniteSets

CONSTANTS
    Validators,  \* the validators of the contract, except this node
    Polls,       \* the polls that can be in progress at a time
    MaxItems,    \* bound: items appended to a validator's queue
    PageSize,    \* items in a reply of push_readBlockQueue
    MaxRequests, \* CLIENT_REQUEST_PER_SCHEDULED_JOB
    MaxFailures, \* bound: refused items, failures of requests, database, process
    NoEndpoint

ASSUME ConstantsAssumption ==
    /\ IsFiniteSet(Validators)
    /\ MaxItems \in Nat
    /\ PageSize \in Nat \ {0}
    /\ MaxRequests \in Nat \ {0}
    /\ MaxFailures \in Nat
    /\ NoEndpoint \notin Validators

VARIABLES
    queueLen, \* the number of items in each validator's queue
    enabled,  \* the validators whose status in the contract state is enabled
    clients,  \* table dsetClient: [Validators -> ids], 0 without a row
    state,    \* dsetClient.state: 1 is polled
    offset,   \* dsetClient.target_offset
    toInit,   \* the validators still to upsert at start; then polling starts
    poll,     \* each poll's variables, or Idle
    offered,  \* items passed to ArchiveNodeService.accept
    accepted, \* items that accept answered true for
    failures  \* the number of failures so far

remote == <<queueLen, enabled>>
table == <<clients, state, offset>>
items == <<offered, accepted>>
vars ==
    <<queueLen, enabled, clients, state, offset, toInit, poll, offered, accepted, failures>>

Items == 1..MaxItems
Offsets == 0..MaxItems
Least(a, b) == IF a <= b THEN a ELSE b
Polling == toInit = {}
Rows == {v \in Validators : clients[v] # 0}

(***************************************************************************)
(* The variables of pollRemoteQueue:                                       *)
(*   pc        its next step                                               *)
(*   at        the current endpoint                                        *)
(*   todo      the endpoints after it                                      *)
(*   found     the target_offset that findMany found for each              *)
(*   requests  the requests answered by the current endpoint (the loop's i)*)
(*   last      lastOffset                                                  *)
(*   item      the item of the reply that accept is called for next        *)
(*   upto      reply.lastOffset                                            *)
(***************************************************************************)
Idle == [pc |-> "idle", at |-> NoEndpoint, todo |-> {}, found |-> [v \in Validators |-> 0],
         requests |-> 0, last |-> 0, item |-> 0, upto |-> 0]

Endpoint(p) == poll[p].at

\* orderBy: { id: 'asc' }
First(S) == {v \in S : \A w \in S \ {v} : clients[v] < clients[w]}

Init ==
    /\ queueLen = [v \in Validators |-> 0]
    /\ enabled \in SUBSET Validators
    /\ clients = [v \in Validators |-> 0]
    /\ state = [v \in Validators |-> 0]
    /\ offset = [v \in Validators |-> 0]
    /\ toInit = enabled
    /\ poll = [p \in Polls |-> Idle]
    /\ offered = [v \in Validators |-> {}]
    /\ accepted = [v \in Validators |-> {}]
    /\ failures = 0
-----------------------------------------------------------------------------
(* The outside world *)

Fails == failures < MaxFailures /\ failures' = failures + 1

\* A validator appends a block to its queue.
AppendItem(v) ==
    /\ queueLen[v] < MaxItems
    /\ queueLen' = [queueLen EXCEPT ![v] = @ + 1]
    /\ UNCHANGED <<enabled, table, toInit, poll, items, failures>>

\* Contract events NodeAdded and NodeStatusChanged; getAllValidatorsExceptSelf.
StatusChanged(v) ==
    /\ enabled' = IF v \in enabled THEN enabled \ {v} ELSE enabled \union {v}
    /\ UNCHANGED <<queueLen, table, toInit, poll, items, failures>>

-----------------------------------------------------------------------------
(* Start: initClientForEveryQueueForEveryValidator *)

\* Mutant of InitClient: the update of the upsert resets the offset.
InitClientFromZero(v) ==
    /\ v \in toInit
    /\ toInit' = toInit \ {v}
    /\ clients' = [clients EXCEPT ![v] = IF @ = 0 THEN 1 + Cardinality(Rows) ELSE @]
    /\ state' = [state EXCEPT ![v] = IF v \in enabled THEN 1 ELSE 0]
    /\ offset' = [offset EXCEPT ![v] = 0]
    /\ UNCHANGED <<remote, poll, items, failures>>

\* dsetClient.upsert: an existing row keeps its offset.  The status is read at
\* this turn of the loop, the list of validators before the loop.
InitClient(v) ==
    /\ v \in toInit
    /\ toInit' = toInit \ {v}
    /\ clients' = [clients EXCEPT ![v] = IF @ = 0 THEN 1 + Cardinality(Rows) ELSE @]
    /\ state' = [state EXCEPT ![v] = IF v \in enabled THEN 1 ELSE 0]
    /\ UNCHANGED <<remote, offset, poll, items, failures>>

\* The process dies with its polls; the next one reads the contract.
Crash ==
    /\ Fails
    /\ toInit' = enabled
    /\ poll' = [p \in Polls |-> Idle]
    /\ UNCHANGED <<remote, table, items>>
-----------------------------------------------------------------------------
(* pollRemoteQueue *)

\* Mutants of NextEndpoint: lastOffset or the request count of the endpoint
\* before is kept, as variables declared outside the loop would be.
NextEndpointKeepsLast(p) ==
    IF poll[p].todo = {} THEN poll' = [poll EXCEPT ![p] = Idle]
    ELSE \E v \in First(poll[p].todo) : poll' = [poll EXCEPT ![p] =
            [poll[p] EXCEPT !.pc = "read", !.at = v, !.todo = @ \ {v}, !.requests = 0,
                            !.item = 0, !.upto = 0]]

NextEndpointKeepsCount(p) ==
    IF poll[p].todo = {} THEN poll' = [poll EXCEPT ![p] = Idle]
    ELSE \E v \in First(poll[p].todo) : poll' = [poll EXCEPT ![p] =
            [poll[p] EXCEPT !.pc = "read", !.at = v, !.todo = @ \ {v},
                            !.last = poll[p].found[v], !.item = 0, !.upto = 0]]

\* Leave the current endpoint for the next one, with the offset found for it.
NextEndpoint(p) ==
    IF poll[p].todo = {} THEN poll' = [poll EXCEPT ![p] = Idle]
    ELSE \E v \in First(poll[p].todo) : poll' = [poll EXCEPT ![p] =
            [poll[p] EXCEPT !.pc = "read", !.at = v, !.todo = @ \ {v}, !.requests = 0,
                            !.last = poll[p].found[v], !.item = 0, !.upto = 0]]

\* The cron job fires: dsetClient.findMany of the endpoints in state 1.
StartPoll(p) ==
    LET endpoints == {v \in Rows : state[v] = 1} IN
    /\ Polling
    /\ poll[p].pc = "idle"
    /\ \E v \in First(endpoints) : poll' = [poll EXCEPT ![p] =
            [Idle EXCEPT !.pc = "read", !.at = v, !.todo = endpoints \ {v},
                         !.found = offset, !.last = offset[v]]]
    /\ UNCHANGED <<remote, table, toInit, items, failures>>

\* Mutants of ReadItems: the offset advances by whole pages; the newest item
\* is never asked for.
ReadItemsWholePages(p) ==
    LET n == queueLen[Endpoint(p)] IN
    /\ poll[p].pc = "read"
    /\ IF n <= poll[p].last
       THEN NextEndpoint(p)
       ELSE poll' = [poll EXCEPT ![p] =
                [poll[p] EXCEPT !.pc = "accept", !.requests = @ + 1,
                                !.item = poll[p].last + 1,
                                !.upto = poll[p].last + PageSize]]
    /\ UNCHANGED <<remote, table, toInit, items, failures>>

ReadItemsButNewest(p) ==
    LET n == queueLen[Endpoint(p)] IN
    /\ poll[p].pc = "read"
    /\ IF n <= poll[p].last + 1
       THEN NextEndpoint(p)
       ELSE poll' = [poll EXCEPT ![p] =
                [poll[p] EXCEPT !.pc = "accept", !.requests = @ + 1,
                                !.item = poll[p].last + 1,
                                !.upto = Least(n, poll[p].last + PageSize)]]
    /\ UNCHANGED <<remote, table, toInit, items, failures>>

\* readItems: an empty reply ends the endpoint.
ReadItems(p) ==
    LET n == queueLen[Endpoint(p)] IN
    /\ poll[p].pc = "read"
    /\ IF n <= poll[p].last
       THEN NextEndpoint(p)
       ELSE poll' = [poll EXCEPT ![p] =
                [poll[p] EXCEPT !.pc = "accept", !.requests = @ + 1,
                                !.item = poll[p].last + 1,
                                !.upto = Least(n, poll[p].last + PageSize)]]
    /\ UNCHANGED <<remote, table, toInit, items, failures>>

\* A failed request is null, and ends the endpoint too.
ReadFails(p) ==
    /\ Fails
    /\ poll[p].pc = "read"
    /\ NextEndpoint(p)
    /\ UNCHANGED <<remote, table, toInit, items>>

\* consumer.accept(item): its answer is only counted.
AcceptItem(p, answer) ==
    LET v == Endpoint(p)
        k == poll[p].item
    IN  /\ poll[p].pc = "accept"
        /\ IF answer THEN UNCHANGED failures ELSE Fails
        /\ offered' = [offered EXCEPT ![v] = @ \union {k}]
        /\ accepted' = [accepted EXCEPT ![v] = IF answer THEN @ \union {k} ELSE @]
        /\ poll' = [poll EXCEPT ![p] =
                IF k = poll[p].upto
                THEN [poll[p] EXCEPT !.pc = "update"]
                ELSE [poll[p] EXCEPT !.item = k + 1]]
        /\ UNCHANGED <<remote, table, toInit>>

\* dsetClient.update of target_offset, then the loop's next turn.
UpdateOffset(p) ==
    /\ poll[p].pc = "update"
    /\ offset' = [offset EXCEPT ![Endpoint(p)] = poll[p].upto]
    /\ IF poll[p].requests = MaxRequests
       THEN NextEndpoint(p)
       ELSE poll' = [poll EXCEPT ![p] =
                [poll[p] EXCEPT !.pc = "read", !.last = poll[p].upto, !.item = 0, !.upto = 0]]
    /\ UNCHANGED <<remote, clients, state, toInit, items, failures>>

\* The update throws, and the whole poll ends (as when findMany throws).
UpdateFails(p) ==
    /\ Fails
    /\ poll[p].pc = "update"
    /\ poll' = [poll EXCEPT ![p] = Idle]
    /\ UNCHANGED <<remote, table, toInit, items>>

Step(p) ==
    \/ ReadItems(p)
    \/ \E answer \in BOOLEAN : AcceptItem(p, answer)
    \/ UpdateOffset(p)

Next ==
    \/ \E v \in Validators : AppendItem(v) \/ StatusChanged(v) \/ InitClient(v)
    \/ \E p \in Polls : StartPoll(p) \/ Step(p) \/ ReadFails(p) \/ UpdateFails(p)
    \/ Crash

Spec == Init /\ [][Next]_vars

\* The cron job fires for ever and the event loop serves every poll; failures
\* are finitely many (MaxFailures).
FairSpec ==
    /\ Spec
    /\ \A v \in Validators : WF_vars(InitClient(v))
    /\ \A p \in Polls : WF_vars(StartPoll(p)) /\ WF_vars(Step(p))
-----------------------------------------------------------------------------
(* Properties *)

\* Every variable has its type, and a poll in progress is at an endpoint.
TypeOK ==
    /\ queueLen \in [Validators -> Offsets]
    /\ enabled \subseteq Validators
    /\ clients \in [Validators -> Nat]
    /\ state \in [Validators -> {0, 1}]
    /\ offset \in [Validators -> Offsets]
    /\ toInit \subseteq Validators
    /\ poll \in [Polls ->
        [pc : {"idle", "read", "accept", "update"}, at : Validators \union {NoEndpoint},
         todo : SUBSET Validators,
         found : [Validators -> Offsets], requests : 0..MaxRequests,
         last : Offsets, item : Offsets, upto : Offsets]]
    /\ offered \in [Validators -> SUBSET Items]
    /\ accepted \in [Validators -> SUBSET Items]
    /\ failures \in 0..MaxFailures
    /\ \A p \in Polls : poll[p].pc # "idle" => Endpoint(p) \in Validators

\* No item below a stored offset, or below an offset that a poll goes on from,
\* was left out: at-least-once delivery to accept, with overlapping polls that
\* write each other's offsets back, failed requests and crashes.
NothingSkipped ==
    /\ \A v \in Validators : 1..offset[v] \subseteq offered[v]
    /\ \A p \in Polls : poll[p].pc # "idle" =>
        /\ \A v \in Validators : 1..poll[p].found[v] \subseteq offered[v]
        /\ 1..poll[p].last \subseteq offered[Endpoint(p)]

\* No offset is beyond the end of its queue, where new items would be missed.
OffsetInQueue ==
    /\ \A v \in Validators : offset[v] <= queueLen[v]
    /\ \A p \in Polls, v \in Validators : poll[p].found[v] <= queueLen[v]

\* An item below the offset was accepted: it is in the log.  Refused items are
\* not read again, so a transient refusal loses the item.
AcceptedBelowOffset ==
    \A v \in Validators : 1..offset[v] \subseteq accepted[v]

\* An offset changes only when a poll stores one beyond the offset it started
\* from: a restart, a failure or the end of a poll never resets it.  It may still
\* go back, to where an older, overlapping poll has come.
OffsetStoredByPoll ==
    [][\A v \in Validators : offset'[v] # offset[v] =>
        \E p \in Polls : /\ poll[p].pc = "update" /\ Endpoint(p) = v
                         /\ offset'[v] > poll[p].found[v]]_vars

\* Every item of a polled validator is offered in the end, although polls
\* overlap, write each other's offsets back, fail and are cut off by crashes,
\* unless the validator is disabled at a restart.
EveryItemIsOffered ==
    \A v \in Validators : \A k \in Items :
        queueLen[v] >= k /\ Polling /\ state[v] = 1
            ~> k \in offered[v] \/ state[v] = 0
=============================================================================
