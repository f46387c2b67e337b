--------------------------- MODULE WebSocketServer --------------------------
(***************************************************************************)
(* Validators that follow the log over WebSockets (websockerServer.ts,     *)
(* subscriptionHandler.ts, eventBroadcaster.ts).                           *)
(*                                                                         *)
(* A new socket is sent a nonce, which is stored under the address that    *)
(* the socket names in its header.  The peer answers with an address, a    *)
(* nonce and a signature, and may then subscribe.  Nonces, connections and *)
(* subscribers are kept by address, while a validator that reconnects has  *)
(* several sockets at a time; and the address of an answer is compared     *)
(* neither with the header nor the nonce with the socket it was sent on.   *)
(* So a handler of one socket may touch the entries of another.            *)
(*                                                                         *)
(* A handler runs until it awaits.  An answer awaits twice, functions that *)
(* are not asynchronous: it goes on after the messages that came in the    *)
(* same chunk of its socket, and before any other callback.  What a socket *)
(* still receives while it closes is handled.  A restart of the process    *)
(* begins again with Init.                                                 *)
(***************************************************************************)
EXTENDS Naturals

CONSTANTS
    Sockets,   \* bound: each socket is used once
    Addrs,     \* validator addresses
    Addr,      \* [Sockets -> Addrs], header validator-address
    MaxEvents, \* bound: block events
    NoSocket   \* no entry; no nonce of this process

ASSUME ConstantsAssumption ==
    /\ Addr \in [Sockets -> Addrs]
    /\ MaxEvents \in Nat
    /\ NoSocket \notin Sockets

VARIABLES
    vnodes,      \* keys of ValidatorContractState's map of validator nodes
    sock,        \* each socket's readyState
    authTimeout, \* the sockets whose authentication timer runs
    nonceMap,    \* address -> the socket whose nonce is stored
    answers,     \* the answers whose nonce was found, while they await
    draining,    \* some of them have gone on, the rest of them will
    authed,      \* the addresses handleNewConnection was called with, by socket
    usedBy,      \* the sockets that each socket's nonce has authenticated
    connections, \* ConnectionManager.connections: address -> socket
    subscribers, \* SubscriptionHandler.subscribers: address -> socket
    newest,      \* the socket of each address that was confirmed last
    since,       \* the number of events broadcast when it was confirmed
    sent,        \* the number of events broadcast
    received     \* the numbers of the events sent on each socket

auth == <<answers, draining, authed, usedBy>>
history == <<newest, since>>
events == <<sent, received>>
vars == <<vnodes, sock, authTimeout, nonceMap, auth, connections, subscribers,
          history, events>>

\* Message AUTH_RESPONSE on socket ws, with the nonce that was sent on a socket.
Answers == [ws : Sockets, claimed : Addrs, nonce : Sockets, signed : BOOLEAN]

\* A callback of the event loop: no answer awaits.
Callback == answers = {}
\* The socket receives a message, maybe one of the chunk that brought the answers.
Receiving(s) ==
    /\ sock[s] \in {"open", "closing"}
    /\ ~draining /\ \A m \in answers : m.ws = s

Close(s) == sock' = [sock EXCEPT ![s] = IF @ = "open" THEN "closing" ELSE @]

\* Mutant: the entry stays, with no nonce in it.
DeleteNonceKeepsKey(a) == nonceMap' = [nonceMap EXCEPT ![a] = "undefined"]
DeleteNonce(a) == nonceMap' = [nonceMap EXCEPT ![a] = NoSocket]
ClearTimeout(s) == authTimeout' = authTimeout \ {s}

Init ==
    /\ vnodes \in SUBSET Addrs
    /\ sock = [s \in Sockets |-> "new"]
    /\ authTimeout = {}
    /\ nonceMap = [a \in Addrs |-> NoSocket]
    /\ answers = {}
    /\ draining = FALSE
    /\ authed = [s \in Sockets |-> {}]
    /\ usedBy = [s \in Sockets |-> {}]
    /\ connections = [a \in Addrs |-> NoSocket]
    /\ subscribers = [a \in Addrs |-> NoSocket]
    /\ newest = [a \in Addrs |-> NoSocket]
    /\ since = [a \in Addrs |-> 0]
    /\ sent = 0
    /\ received = [s \in Sockets |-> {}]
-----------------------------------------------------------------------------
\* Contract event NodeAdded of a validator.
NodeAdded(a) ==
    /\ Callback
    /\ vnodes' = vnodes \union {a}
    /\ UNCHANGED <<sock, authTimeout, nonceMap, auth, connections, subscribers,
                   history, events>>

\* The connection handler: the timer, the nonce and the challenge.
Connection(s) ==
    /\ Callback /\ sock[s] = "new"
    /\ sock' = [sock EXCEPT ![s] = "open"]
    /\ authTimeout' = authTimeout \union {s}
    /\ nonceMap' = [nonceMap EXCEPT ![Addr[s]] = s]
    /\ UNCHANGED <<vnodes, auth, connections, subscribers, history, events>>

\* Mutant: the timer leaves the nonce where it is.
AuthTimeoutKeepsNonce(s) ==
    /\ Callback /\ s \in authTimeout
    /\ ClearTimeout(s)
    /\ IF nonceMap[Addr[s]] # NoSocket THEN Close(s) ELSE UNCHANGED sock
    /\ UNCHANGED <<vnodes, nonceMap, auth, connections, subscribers, history, events>>

\* Mutant: the timer closes when no nonce is left.
AuthTimeoutInverted(s) ==
    /\ Callback /\ s \in authTimeout
    /\ ClearTimeout(s)
    /\ IF nonceMap[Addr[s]] = NoSocket THEN Close(s) /\ UNCHANGED nonceMap
                                       ELSE DeleteNonce(Addr[s]) /\ UNCHANGED sock
    /\ UNCHANGED <<vnodes, auth, connections, subscribers, history, events>>

\* The timer of a socket looks for any nonce of the address.
AuthTimeout(s) ==
    /\ Callback /\ s \in authTimeout
    /\ ClearTimeout(s)
    /\ IF nonceMap[Addr[s]] # NoSocket
       THEN Close(s) /\ DeleteNonce(Addr[s])
       ELSE UNCHANGED <<sock, nonceMap>>
    /\ UNCHANGED <<vnodes, auth, connections, subscribers, history, events>>

\* Message HEALTH_CHECK; an authenticated socket may send it too.
HealthCheck(s) ==
    /\ Receiving(s)
    /\ Close(s)
    /\ ClearTimeout(s)
    /\ DeleteNonce(Addr[s])
    /\ UNCHANGED <<vnodes, auth, connections, subscribers, history, events>>

\* An error in the message handler: it is the nonce of the header that goes.
Rejected(s) ==
    /\ Close(s)
    /\ DeleteNonce(Addr[s])
    /\ ClearTimeout(s)

\* Message AUTH_RESPONSE up to its first await: its nonce must be the one stored
\* under the address it names.
AuthResponse(s, claimed, nonce, signed) ==
    /\ Receiving(s)
    /\ IF nonce # NoSocket /\ nonceMap[claimed] = nonce
       THEN /\ answers' = answers \union {[ws |-> s, claimed |-> claimed,
                                           nonce |-> nonce, signed |-> signed]}
            /\ UNCHANGED <<sock, authTimeout, nonceMap>>
       ELSE Rejected(s) /\ UNCHANGED answers
    /\ UNCHANGED <<vnodes, draining, authed, usedBy, connections, subscribers,
                   history, events>>

\* Mutant: the timer goes on after the authentication.
AuthenticatedKeepsTimer(m) ==
    /\ DeleteNonce(m.claimed)
    /\ authed' = [authed EXCEPT ![m.ws] = @ \union {m.claimed}]
    /\ usedBy' = [usedBy EXCEPT ![m.nonce] = @ \union {m.ws}]
    /\ connections' = [connections EXCEPT ![m.claimed] = m.ws]
    /\ UNCHANGED <<sock, authTimeout>>

\* Mutant: it is the nonce of the header that goes, as after an error.
AuthenticatedDeletesHeader(m) ==
    /\ ClearTimeout(m.ws)
    /\ DeleteNonce(Addr[m.ws])
    /\ authed' = [authed EXCEPT ![m.ws] = @ \union {m.claimed}]
    /\ usedBy' = [usedBy EXCEPT ![m.nonce] = @ \union {m.ws}]
    /\ connections' = [connections EXCEPT ![m.claimed] = m.ws]
    /\ UNCHANGED sock

\* The answer is right: handleNewConnection, also on a socket that another message
\* of the chunk has begun to close.
Authenticated(m) ==
    /\ ClearTimeout(m.ws)
    /\ DeleteNonce(m.claimed)
    /\ authed' = [authed EXCEPT ![m.ws] = @ \union {m.claimed}]
    /\ usedBy' = [usedBy EXCEPT ![m.nonce] = @ \union {m.ws}]
    /\ connections' = [connections EXCEPT ![m.claimed] = m.ws]
    /\ UNCHANGED sock

\* The answer goes on after its awaits: signature and validator are verified.
Verify(m) ==
    /\ m \in answers
    /\ answers' = answers \ {m}
    /\ draining' = (answers' # {})
    /\ IF m.signed /\ m.claimed \in vnodes
       THEN Authenticated(m)
       ELSE Rejected(m.ws) /\ UNCHANGED <<authed, usedBy, connections>>
    /\ UNCHANGED <<vnodes, subscribers, history, events>>

\* Message SUBSCRIBE, naming address a, to each listener that handleNewConnection
\* has added: that of another address closes the socket, that of a replaces the
\* address's entry.
Subscribe(s, a) ==
    /\ Receiving(s) /\ authed[s] # {}
    /\ IF authed[s] = {a} THEN UNCHANGED sock ELSE Close(s)
    /\ IF a \in authed[s] /\ a \in vnodes
       THEN /\ subscribers' = [subscribers EXCEPT ![a] = s]
            /\ newest' = [newest EXCEPT ![a] = s]
            /\ since' = [since EXCEPT ![a] = sent]
       ELSE UNCHANGED <<subscribers, history>>
    /\ UNCHANGED <<vnodes, authTimeout, nonceMap, auth, connections, events>>

\* Mutant: the close removes the subscribers of the socket's addresses, as
\* handleDisconnection of ConnectionManager would, were it called.
ClosedUnsubscribes(s) ==
    /\ Callback /\ sock[s] \in {"open", "closing"}
    /\ sock' = [sock EXCEPT ![s] = "closed"]
    /\ connections' = [a \in Addrs |-> IF a \in authed[s] THEN NoSocket ELSE connections[a]]
    /\ subscribers' = [a \in Addrs |-> IF a \in authed[s] THEN NoSocket ELSE subscribers[a]]
    /\ UNCHANGED <<vnodes, authTimeout, nonceMap, auth, history, events>>

\* The socket closes, by its peer, the network, or the end of closing; only
\* handleNewConnection has a listener for it.
Closed(s) ==
    /\ Callback /\ sock[s] \in {"open", "closing"}
    /\ sock' = [sock EXCEPT ![s] = "closed"]
    /\ connections' = [a \in Addrs |-> IF a \in authed[s] THEN NoSocket ELSE connections[a]]
    /\ UNCHANGED <<vnodes, authTimeout, nonceMap, auth, subscribers, history, events>>

\* EventBroadcaster.broadcast: what is sent on a socket not open is dropped.
Broadcast ==
    /\ Callback /\ sent < MaxEvents
    /\ sent' = sent + 1
    /\ received' = [s \in Sockets |->
            IF sock[s] = "open" /\ \E a \in Addrs : subscribers[a] = s
            THEN received[s] \union {sent + 1} ELSE received[s]]
    /\ UNCHANGED <<vnodes, sock, authTimeout, nonceMap, auth, connections,
                   subscribers, history>>

Next ==
    \/ \E a \in Addrs : NodeAdded(a)
    \/ \E s \in Sockets :
        \/ Connection(s) \/ AuthTimeout(s) \/ HealthCheck(s) \/ Closed(s)
        \/ \E a \in Addrs :
            \/ Subscribe(s, a)
            \/ \E nonce \in Sockets \union {NoSocket}, signed \in BOOLEAN :
                    AuthResponse(s, a, nonce, signed)
    \/ \E m \in answers : Verify(m)
    \/ Broadcast

Spec == Init /\ [][Next]_vars

\* Awaits that wait for nothing return, and timers fire, between the chunks of data.
FairSpec ==
    /\ Spec
    /\ WF_vars(\E m \in answers : Verify(m))
    /\ \A s \in Sockets : SF_vars(AuthTimeout(s))
-----------------------------------------------------------------------------
(* Properties *)

\* Every variable has its type.
TypeOK ==
    /\ vnodes \subseteq Addrs
    /\ sock \in [Sockets -> {"new", "open", "closing", "closed"}]
    /\ authTimeout \subseteq Sockets
    /\ nonceMap \in [Addrs -> Sockets \union {NoSocket}]
    /\ answers \subseteq Answers
    /\ draining \in BOOLEAN
    /\ authed \in [Sockets -> SUBSET Addrs]
    /\ usedBy \in [Sockets -> SUBSET Sockets]
    /\ connections \in [Addrs -> Sockets \union {NoSocket}]
    /\ subscribers \in [Addrs -> Sockets \union {NoSocket}]
    /\ newest \in [Addrs -> Sockets \union {NoSocket}]
    /\ since \in [Addrs -> 0..MaxEvents]
    /\ sent \in 0..MaxEvents
    /\ received \in [Sockets -> SUBSET (1..MaxEvents)]

\* A stored nonce was sent on a socket of the address and has authenticated none.
\* The timer of that socket still runs, so the nonce does not stay for ever, unless
\* the socket was authenticated with another nonce.
NonceIsPending ==
    \A a \in Addrs : nonceMap[a] # NoSocket =>
        /\ Addr[nonceMap[a]] = a
        /\ usedBy[nonceMap[a]] = {}
        /\ nonceMap[a] \in authTimeout \/ authed[nonceMap[a]] # {}

\* A nonce authenticates one socket at most, whichever sockets answer with it and
\* however many answers are checked before the first of them goes on.
NonceAuthenticatesOne ==
    \A r \in Sockets : \A s, t \in usedBy[r] : s = t

\* No authentication timer closes an authenticated socket: its own was cleared
\* before another connection of the address could store a nonce for it to find.
AuthenticatedStaysOpen ==
    [][\A s, r \in Sockets : authed[s] # {} /\ AuthTimeout(r) => sock'[s] = sock[s]]_vars

\* From its confirmation until it closes, or until another socket of the
\* validator subscribes, a subscriber is sent every block event.
NewestSubscriberHearsAll ==
    \A a \in Addrs : newest[a] # NoSocket /\ sock[newest[a]] = "open" =>
        (since[a] + 1)..sent \subseteq received[newest[a]]

\* A socket whose address no other socket names in its header is authenticated or
\* closed in the end, unless another socket has answered with its nonce.  With
\* several of one header, the nonce that the timer looks for may be gone.
SingleSocketIsDecided ==
    \A s \in Sockets :
        (\A r \in Sockets \ {s} : Addr[r] # Addr[s]) =>
            (sock[s] = "open" ~> authed[s] # {} \/ sock[s] # "open" \/ usedBy[s] # {})
=============================================================================
