----------------------- MODULE ValidatorContractState -----------------------
(***************************************************************************)
(* The node's copy of the validator contract                               *)
(* (validator-contract-state.service.ts).                                  *)
(*                                                                         *)
(* connect() reads the block parameters and subscribes to their changes,   *)
(* then reads the nodes of each type, one request at a time, and only then *)
(* subscribes to theirs.  Every request is an await at which the contract  *)
(* may change.  The contract itself is external: it registers a node once, *)
(* changes its status, and emits an event for each change.                 *)
(***************************************************************************)
EXTENDS Naturals, Sequences, FiniteSets

CONSTANTS
    Nodes,
    NodeType,     \* [Nodes -> Types]
    ApiUrl,       \* [Nodes -> urls], nodeApiBaseUrl in the contract
    Registered,   \* the nodes in the contract at first
    Quorums,      \* the values of valPerBlock
    Environments, \* the environment variables, a set of [archival, test]
    TestNodes,    \* VALIDATOR_CONTRACT_TEST_VALIDATORS, a set of nodes
    NoUrl,        \* null
    NewStatuses,  \* the statuses that nodes change to
    MaxChanges    \* bound on changes of the contract

Types == {"VNode", "SNode", "ANode"}
OK == 0
Reported == 1
Slashed == 2
BannedAndUnstaked == 3
Statuses == 0..4
Params == "params"

ASSUME ContractAssumption ==
    /\ NodeType \in [Nodes -> Types]
    /\ Registered \subseteq Nodes
    /\ TestNodes \subseteq {n \in Nodes : NodeType[n] = "VNode"}
    /\ NewStatuses \subseteq Statuses
    /\ Params \notin Nodes
    /\ MaxChanges \in Nat

VARIABLES
    status,    \* the contract: [registered nodes -> Statuses]
    quorum,    \* the contract: valPerBlock
    changes,   \* how often the contract has changed
    events,    \* events under way to the listeners
    env,       \* the environment of the process
    phase,     \* the request that connect() waits for; "ready" at its end
    todo,      \* the listed nodes of this type that are still to be read
    listed,    \* whether the nodes of this type have been listed
    listening, \* whether the listeners of node events are installed
    maps,      \* vnodes, snodes and anodes, by type
    valPerBlock,
    heard      \* history: what has not changed unheard since it was read

contract == <<status, quorum, changes>>
client == <<env, phase, todo, listed, listening, maps, valPerBlock>>
contractVars == <<contract, events, client, heard>>

NoNodes == [type \in Types |-> << >>]
-----------------------------------------------------------------------------
(* Queries *)

\* A url is [parsable, long, scheme, local]; .local hosts keep http.
FixNodeUrl(url) ==
    IF url.long \/ ~url.parsable THEN NoUrl
    ELSE [url EXCEPT !.scheme = IF @ = "http" /\ ~url.local THEN "https" ELSE @]
-----------------------------------------------------------------------------
(* The contract *)

\* An event reaches the process if its listener is installed by then.
Emit(what, event, heardOf) ==
    LET subscribed == IF what = Params THEN phase \notin {"params", "target"} ELSE listening
    IN  /\ events' = IF subscribed THEN Append(events, event) ELSE events
        /\ heard' = IF ~subscribed THEN heard \ {what} ELSE heard \cup heardOf
        /\ changes < MaxChanges
        /\ changes' = changes + 1
        /\ UNCHANGED client

AddNode(n) ==
    /\ n \notin DOMAIN status
    /\ status' = [k \in DOMAIN status \cup {n} |-> IF k = n THEN OK ELSE status[k]]
    /\ Emit(n, [type |-> "NodeAdded", node |-> n], {n})
    /\ UNCHANGED quorum

ChangeStatus(n, s) ==
    /\ n \in DOMAIN status /\ status[n] # s
    /\ status' = [status EXCEPT ![n] = s]
    /\ Emit(n, [type |-> "NodeStatusChanged", node |-> n, status |-> s], {})
    /\ UNCHANGED quorum

UpdateBlockParams(k) ==
    /\ quorum # k
    /\ quorum' = k
    /\ Emit(Params, [type |-> "BlockParamsUpdated", valPerBlock |-> k], {})
    /\ UNCHANGED status
-----------------------------------------------------------------------------
(* Loading *)

Info(n, s) == [url |-> FixNodeUrl(ApiUrl[n]), nodeType |-> NodeType[n], nodeStatus |-> s]
\* A node of the environment is taken as it stands there.
EnvInfo(n) == [url |-> ApiUrl[n], nodeType |-> NodeType[n], nodeStatus |-> OK]
With(map, n, ni) == [k \in DOMAIN map \cup {n} |-> IF k = n THEN ni ELSE map[k]]

InitContractState ==
    /\ status = [n \in Registered |-> OK]
    /\ quorum \in Quorums
    /\ changes = 0
    /\ events = << >>
    /\ env \in Environments
    /\ phase = "params"
    /\ todo = {} /\ listed = FALSE /\ listening = FALSE
    /\ maps = NoNodes
    /\ valPerBlock = 0
    /\ heard = {}

ReadParams ==
    /\ phase = "params"
    /\ valPerBlock' = quorum
    /\ heard' = heard \cup {Params}
    /\ phase' = "target"
    /\ UNCHANGED <<contract, events, env, todo, listed, listening, maps>>

\* valPerBlockTarget has been read: the listener is installed, and the nodes of
\* the environment replace those of the contract.
SubscribeParams ==
    /\ phase = "target"
    /\ IF env.test
       THEN /\ phase' = "ready"
            /\ maps' = [maps EXCEPT !["VNode"] = [n \in TestNodes |-> EnvInfo(n)]]
       ELSE phase' = "VNode" /\ UNCHANGED maps
    /\ UNCHANGED <<contract, events, env, todo, listed, listening, valPerBlock, heard>>

\* The turn after a request: the next node, the next type, or the listeners.
Continue(rest) ==
    /\ todo' = rest
    /\ listed' = (rest # {})
    /\ phase' = CASE rest # {} -> phase
                  [] rest = {} /\ phase = "VNode" -> "SNode"
                  [] rest = {} /\ phase = "SNode" /\ env.archival -> "ANode"
                  [] OTHER -> "ready"
    /\ listening' = (phase' = "ready")
    /\ UNCHANGED <<contract, events, env, valPerBlock>>

\* getVNodes, getSNodes, getANodes
ListNodes ==
    /\ phase \in Types /\ ~listed
    /\ Continue({n \in DOMAIN status : NodeType[n] = phase})
    /\ heard' = heard \cup {n \in Nodes \ DOMAIN status : NodeType[n] = phase}
    /\ UNCHANGED maps

\* getNodeInfo
ReadNode(n) ==
    /\ n \in todo
    /\ maps' = [maps EXCEPT ![phase] = With(@, n, Info(n, status[n]))]
    /\ heard' = heard \cup {n}
    /\ Continue(todo \ {n})

\* The process dies, or a request fails, and connect() with it; it is restarted.
Restart ==
    /\ phase # "params"
    /\ phase' = "params"
    /\ events' = << >>
    /\ todo' = {} /\ listed' = FALSE /\ listening' = FALSE
    /\ maps' = NoNodes
    /\ valPerBlock' = 0
    /\ heard' = {}
    /\ UNCHANGED <<contract, env>>
-----------------------------------------------------------------------------
(* Events *)

\* Mutant of GetNodeMapByType: every node is a validator.
GetNodeMapOfValidators(type) == "VNode"

GetNodeMapByType(type) == type

\* Mutant of Holder: the status of validators only.
HolderIfValidator(n) == {type \in {"VNode"} : n \in DOMAIN maps[type]}

\* vnodes.get(n) ?? snodes.get(n) ?? anodes.get(n)
Holder(n) ==
    IF n \in DOMAIN maps["VNode"] THEN {"VNode"}
    ELSE IF n \in DOMAIN maps["SNode"] THEN {"SNode"}
    ELSE {type \in {"ANode"} : n \in DOMAIN maps[type]}

\* An event for a node that is in no map is only logged.
HandleEvent ==
    /\ events # << >>
    /\ events' = Tail(events)
    /\ LET e == Head(events) IN
        \/ /\ e.type = "NodeAdded"
           /\ maps' = [maps EXCEPT ![GetNodeMapByType(NodeType[e.node])]
                            = With(@, e.node, Info(e.node, OK))]
           /\ UNCHANGED valPerBlock
        \/ /\ e.type = "NodeStatusChanged"
           /\ maps' = [type \in Types |->
                IF type \in Holder(e.node)
                THEN [maps[type] EXCEPT ![e.node].nodeStatus = e.status] ELSE maps[type]]
           /\ UNCHANGED valPerBlock
        \/ /\ e.type = "BlockParamsUpdated"
           /\ valPerBlock' = e.valPerBlock
           /\ UNCHANGED maps
    /\ UNCHANGED <<contract, env, phase, todo, listed, listening, heard>>

Connect == ReadParams \/ SubscribeParams \/ ListNodes \/ \E n \in Nodes : ReadNode(n)
ChangeContract ==
    \/ \E n \in Nodes : AddNode(n)
    \/ \E n \in Nodes, s \in NewStatuses : ChangeStatus(n, s)
    \/ \E k \in Quorums : UpdateBlockParams(k)
NextContractState == ChangeContract \/ Connect \/ HandleEvent \/ Restart
ContractSpec == InitContractState /\ [][NextContractState]_contractVars
-----------------------------------------------------------------------------
\* Every node is in the map of its type, with a fixed url if it is the contract's.
ContractTypeOK ==
    /\ DOMAIN status \subseteq Nodes /\ \A n \in DOMAIN status : status[n] \in Statuses
    /\ quorum \in Quorums
    /\ changes \in 0..MaxChanges
    /\ Len(events) <= MaxChanges
    /\ env \in Environments
    /\ phase \in Types \cup {"params", "target", "ready"}
    /\ todo \subseteq {n \in DOMAIN status : NodeType[n] = phase}
    /\ listed \in BOOLEAN /\ listening \in BOOLEAN
    /\ \A type \in Types : \A n \in DOMAIN maps[type] :
        /\ maps[type][n] \in IF env.test THEN {EnvInfo(n)} ELSE {Info(n, s) : s \in Statuses}
        /\ NodeType[n] = type
    /\ valPerBlock \in Quorums \cup {0}
    /\ heard \subseteq Nodes \cup {Params}

\* What changes between a read and the installation of its listener is missed
\* (270-276, 302-344).  Everything else follows the contract once the events
\* under way are handled: no read overwrites a newer event, and no event is
\* handled before its node is known.
MapsFollowContract ==
    phase = "ready" /\ events = << >> =>
        /\ Params \in heard => valPerBlock = quorum
        /\ ~env.test => \A n \in heard \ {Params} :
            /\ n \in DOMAIN maps[NodeType[n]] <=> n \in DOMAIN status
            /\ n \in DOMAIN status => maps[NodeType[n]][n] = Info(n, status[n])
=============================================================================
