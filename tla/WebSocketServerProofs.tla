------------------------ MODULE WebSocketServerProofs -----------------------
(***************************************************************************)
(* Theorems about WebSocketServer, for any sockets and validators.  A      *)
(* socket is new, waits with a running timer, or is authenticated without  *)
(* one; a nonce is stored, or known to the answers of one socket that were *)
(* checked against it, or has authenticated that socket.                   *)
(***************************************************************************)
EXTENDS WebSocketServer, TLAPS

\* A socket is in no set before its connection, and has no timer after its
\* authentication.
SocketsInv ==
    /\ \A s \in authTimeout : sock[s] # "new" /\ authed[s] = {}
    /\ \A s \in Sockets : authed[s] # {} \/ usedBy[s] # {} => sock[s] # "new"

\* The answers that await are of one socket.  The nonce of each is still stored, or
\* was deleted since, and has authenticated no other socket.
AnswersInv ==
    \A m \in answers :
        /\ \A k \in answers : k.ws = m.ws
        /\ sock[m.ws] # "new" /\ sock[m.nonce] # "new"
        /\ Addr[m.nonce] = m.claimed
        /\ nonceMap[m.claimed] \in {m.nonce, NoSocket}
        /\ usedBy[m.nonce] \subseteq {m.ws}

\* The subscriber of an address is the socket that was confirmed last.
SubscribersInv ==
    \A a \in Addrs :
        /\ subscribers[a] = newest[a]
        /\ newest[a] # NoSocket => a \in authed[newest[a]]

NonceInv == SocketsInv /\ NonceIsPending /\ NonceAuthenticatesOne /\ AnswersInv

Inv ==
    /\ TypeOK
    /\ NonceInv
    /\ SubscribersInv
    /\ NewestSubscriberHearsAll

LEMMA InitInv == Init => Inv
<1> USE ConstantsAssumption
<1>1. SUFFICES ASSUME Init PROVE Inv
    OBVIOUS
<1>2. TypeOK
    <2>1. vnodes \subseteq Addrs /\ authTimeout \subseteq Sockets /\ answers \subseteq Answers
        BY <1>1 DEF Init
    <2>2. sock \in [Sockets -> {"new", "open", "closing", "closed"}]
        BY <1>1 DEF Init
    <2>3. draining \in BOOLEAN
        BY <1>1 DEF Init
    <2>4. authed \in [Sockets -> SUBSET Addrs] /\ usedBy \in [Sockets -> SUBSET Sockets]
        BY <1>1 DEF Init
    <2>5. /\ nonceMap \in [Addrs -> Sockets \union {NoSocket}]
          /\ connections \in [Addrs -> Sockets \union {NoSocket}]
          /\ subscribers \in [Addrs -> Sockets \union {NoSocket}]
          /\ newest \in [Addrs -> Sockets \union {NoSocket}]
        BY <1>1 DEF Init
    <2>6. 0 \in 0..MaxEvents
        OBVIOUS
    <2>7. since \in [Addrs -> 0..MaxEvents] /\ sent \in 0..MaxEvents
        BY <1>1, <2>6 DEF Init
    <2>8. received \in [Sockets -> SUBSET (1..MaxEvents)]
        BY <1>1 DEF Init
    <2>9. QED
        BY <2>1, <2>2, <2>3, <2>4, <2>5, <2>7, <2>8 DEF TypeOK
<1>3. NonceInv
    <2>1. SocketsInv
        BY <1>1 DEF Init, SocketsInv
    <2>2. NonceIsPending
        BY <1>1 DEF Init, NonceIsPending
    <2>3. NonceAuthenticatesOne /\ AnswersInv
        BY <1>1 DEF Init, NonceAuthenticatesOne, AnswersInv
    <2>4. QED
        BY <2>1, <2>2, <2>3 DEF NonceInv
<1>4. \A a \in Addrs : newest[a] = NoSocket /\ subscribers[a] = NoSocket
    BY <1>1 DEF Init
<1>5. QED
    BY <1>2, <1>3, <1>4 DEF Inv, SubscribersInv, NewestSubscriberHearsAll
-----------------------------------------------------------------------------
(* An answer, checked or verified *)

AnswerOf(s, claimed, nonce, signed) ==
    [ws |-> s, claimed |-> claimed, nonce |-> nonce, signed |-> signed]

LEMMA AnswerType ==
    ASSUME NEW s \in Sockets, NEW claimed \in Addrs, NEW nonce \in Sockets, NEW signed \in BOOLEAN
    PROVE  LET m == AnswerOf(s, claimed, nonce, signed)
           IN  m \in Answers /\ m.ws = s /\ m.claimed = claimed /\ m.nonce = nonce
BY DEF Answers, AnswerOf

\* The first part of the handler adds an answer, or rejects.
LEMMA AuthResponseCases ==
    ASSUME TypeOK, NEW s \in Sockets, NEW claimed \in Addrs,
           NEW nonce \in Sockets \union {NoSocket}, NEW signed \in BOOLEAN,
           AuthResponse(s, claimed, nonce, signed)
    PROVE  \/ /\ nonce \in Sockets /\ nonceMap[claimed] = nonce
              /\ answers' = answers \union {AnswerOf(s, claimed, nonce, signed)}
              /\ UNCHANGED <<sock, authTimeout, nonceMap>>
           \/ Rejected(s) /\ UNCHANGED answers
BY DEF AuthResponse, AnswerOf

\* The second part authenticates or rejects.
LEMMA VerifyCases ==
    ASSUME NEW m \in answers, Verify(m)
    PROVE  \/ Authenticated(m)
           \/ Rejected(m.ws) /\ UNCHANGED <<authed, usedBy, connections>>
<1>1. CASE m.signed /\ m.claimed \in vnodes
    BY <1>1, Zenon DEF Verify
<1>2. CASE ~(m.signed /\ m.claimed \in vnodes)
    BY <1>2, Zenon DEF Verify
<1>3. QED
    BY <1>1, <1>2, Zenon
-----------------------------------------------------------------------------
LEMMA TypeStep == TypeOK /\ [Next]_vars => TypeOK'
<1> USE ConstantsAssumption DEF TypeOK
<1>1. SUFFICES ASSUME TypeOK, [Next]_vars PROVE TypeOK'
    OBVIOUS
<1>2. ASSUME NEW a \in Addrs, NodeAdded(a) PROVE TypeOK'
    BY <1>1, <1>2 DEF NodeAdded, auth, history, events
<1>3. ASSUME NEW s \in Sockets, Connection(s) PROVE TypeOK'
    BY <1>1, <1>3 DEF Connection, auth, history, events
<1>4. ASSUME NEW s \in Sockets, AuthTimeout(s) PROVE TypeOK'
    BY <1>1, <1>4 DEF AuthTimeout, ClearTimeout, Close, DeleteNonce, auth, history, events
<1>5. ASSUME NEW s \in Sockets, HealthCheck(s) PROVE TypeOK'
    BY <1>1, <1>5 DEF HealthCheck, ClearTimeout, Close, DeleteNonce, auth, history, events
<1>6. ASSUME NEW s \in Sockets, NEW a \in Addrs, NEW nonce \in Sockets \union {NoSocket},
             NEW signed \in BOOLEAN, AuthResponse(s, a, nonce, signed)
      PROVE  TypeOK'
    <2>1. UNCHANGED <<vnodes, draining, authed, usedBy, connections, subscribers, history, events>>
        BY <1>6 DEF AuthResponse
    <2>2. CASE Rejected(s) /\ UNCHANGED answers
        BY <1>1, <2>1, <2>2 DEF Rejected, ClearTimeout, Close, DeleteNonce, history, events
    <2>3. CASE /\ nonce \in Sockets
               /\ answers' = answers \union {AnswerOf(s, a, nonce, signed)}
               /\ UNCHANGED <<sock, authTimeout, nonceMap>>
        BY <1>1, <2>1, <2>3, AnswerType DEF history, events
    <2>4. QED
        BY <1>1, <1>6, <2>2, <2>3, AuthResponseCases
<1>7. ASSUME NEW m \in answers, Verify(m) PROVE TypeOK'
    <2>1. /\ m.ws \in Sockets /\ m.claimed \in Addrs /\ m.nonce \in Sockets
          /\ answers' \subseteq answers /\ draining' \in BOOLEAN
          /\ UNCHANGED <<vnodes, subscribers, history, events>>
        BY <1>1, <1>7 DEF Verify, Answers
    <2>2. CASE Authenticated(m)
        BY <1>1, <2>1, <2>2 DEF Authenticated, ClearTimeout, DeleteNonce, history, events
    <2>3. CASE Rejected(m.ws) /\ UNCHANGED <<authed, usedBy, connections>>
        BY <1>1, <2>1, <2>3 DEF Rejected, ClearTimeout, Close, DeleteNonce, history, events
    <2>4. QED
        BY <1>7, <2>2, <2>3, VerifyCases
<1>8. ASSUME NEW s \in Sockets, NEW a \in Addrs, Subscribe(s, a) PROVE TypeOK'
    <2>1. sock' \in [Sockets -> {"new", "open", "closing", "closed"}]
        BY <1>1, <1>8 DEF Subscribe, Close
    <2>2. QED
        BY <1>1, <1>8, <2>1 DEF Subscribe, auth, history, events
<1>9. ASSUME NEW s \in Sockets, Closed(s) PROVE TypeOK'
    BY <1>1, <1>9 DEF Closed, auth, history, events
<1>10. CASE Broadcast
    BY <1>1, <1>10 DEF Broadcast, auth, history
<1>11. CASE UNCHANGED vars
    BY <1>1, <1>11 DEF vars, auth, history, events
<1>12. QED
    BY <1>1, <1>2, <1>3, <1>4, <1>5, <1>6, <1>7, <1>8, <1>9, <1>10, <1>11 DEF Next
-----------------------------------------------------------------------------
\* Steps that do not touch nonces, timers and answers, and open no socket.
LEMMA NonceFrame ==
    ASSUME TypeOK, NonceInv, UNCHANGED <<authTimeout, nonceMap, auth>>,
           \A s \in Sockets : sock'[s] = "new" => sock[s] = "new"
    PROVE  NonceInv'
<1>1. answers \subseteq Answers
    BY DEF TypeOK
<1>2. \A m \in answers : m.ws \in Sockets /\ m.nonce \in Sockets
    BY <1>1 DEF Answers
<1>3. QED
    BY <1>2 DEF TypeOK, NonceInv, SocketsInv, NonceIsPending, NonceAuthenticatesOne, AnswersInv, auth

\* The end of a socket: its timer, and the nonce of its header.
LEMMA EndStep ==
    ASSUME TypeOK, NonceInv, NEW s \in Sockets, Close(s), ClearTimeout(s), DeleteNonce(Addr[s]),
           answers' \subseteq answers, UNCHANGED <<authed, usedBy>>
    PROVE  NonceInv'
<1> USE ConstantsAssumption DEF TypeOK
<1>1. /\ \A r \in Sockets : sock'[r] = "new" => sock[r] = "new"
      /\ authTimeout' = authTimeout \ {s}
      /\ \A a \in Addrs : nonceMap'[a] = IF a = Addr[s] THEN NoSocket ELSE nonceMap[a]
    BY DEF Close, ClearTimeout, DeleteNonce
<1>2. SocketsInv'
    BY <1>1 DEF NonceInv, SocketsInv
<1>3. NonceIsPending'
    BY <1>1 DEF NonceInv, NonceIsPending
<1>4. NonceAuthenticatesOne'
    BY DEF NonceInv, NonceAuthenticatesOne
<1>5. AnswersInv'
    <2>1. \A m \in answers : m.ws \in Sockets /\ m.nonce \in Sockets /\ m.claimed \in Addrs
        BY DEF Answers
    <2>2. QED
        BY <1>1, <2>1 DEF NonceInv, AnswersInv
<1>6. QED
    BY <1>2, <1>3, <1>4, <1>5 DEF NonceInv

\* The answer's nonce is gone for good, and this socket is the one that used it.
LEMMA AuthenticatedStep ==
    ASSUME TypeOK, NonceInv, NEW m \in answers, Authenticated(m), answers' \subseteq answers
    PROVE  NonceInv'
<1> USE ConstantsAssumption DEF TypeOK
<1>1. m.ws \in Sockets /\ m.nonce \in Sockets /\ m.claimed \in Addrs
    BY DEF Answers
<1>2. /\ authTimeout' = authTimeout \ {m.ws} /\ sock' = sock
      /\ \A a \in Addrs : nonceMap'[a] = IF a = m.claimed THEN NoSocket ELSE nonceMap[a]
      /\ \A s \in Sockets : s # m.ws => authed'[s] = authed[s]
      /\ authed'[m.ws] # {}
      /\ \A r \in Sockets : r # m.nonce => usedBy'[r] = usedBy[r]
      /\ usedBy'[m.nonce] = usedBy[m.nonce] \union {m.ws}
    BY <1>1 DEF Authenticated, ClearTimeout, DeleteNonce
<1>3. /\ sock[m.ws] # "new" /\ sock[m.nonce] # "new" /\ Addr[m.nonce] = m.claimed
      /\ usedBy[m.nonce] \subseteq {m.ws}
    BY DEF NonceInv, AnswersInv
<1>4. SocketsInv'
    BY <1>1, <1>2, <1>3 DEF NonceInv, SocketsInv
<1>5. NonceIsPending'
    <2>1. SUFFICES ASSUME NEW a \in Addrs, nonceMap'[a] # NoSocket
                   PROVE  /\ Addr[nonceMap'[a]] = a /\ usedBy'[nonceMap'[a]] = {}
                          /\ nonceMap'[a] \in authTimeout' \/ authed'[nonceMap'[a]] # {}
        BY DEF NonceIsPending
    <2>2. a # m.claimed /\ nonceMap'[a] = nonceMap[a] /\ nonceMap[a] \in Sockets
        BY <1>2, <2>1
    <2>3. /\ Addr[nonceMap[a]] = a /\ usedBy[nonceMap[a]] = {}
          /\ nonceMap[a] \in authTimeout \/ authed[nonceMap[a]] # {}
        BY <2>1, <2>2 DEF NonceInv, NonceIsPending
    <2>4. QED
        BY <1>2, <1>3, <2>2, <2>3
<1>6. NonceAuthenticatesOne'
    BY <1>2, <1>3 DEF NonceInv, NonceAuthenticatesOne
<1>7. AnswersInv'
    <2>1. SUFFICES ASSUME NEW k \in answers
                   PROVE  /\ \A l \in answers : l.ws = k.ws
                          /\ sock[k.ws] # "new" /\ sock[k.nonce] # "new"
                          /\ Addr[k.nonce] = k.claimed
                          /\ nonceMap'[k.claimed] \in {k.nonce, NoSocket}
                          /\ usedBy'[k.nonce] \subseteq {k.ws}
        BY <1>2 DEF AnswersInv
    <2>2. k.nonce \in Sockets /\ k.claimed \in Addrs
        BY DEF Answers
    <2>3. /\ \A l \in answers : l.ws = k.ws
          /\ sock[k.ws] # "new" /\ sock[k.nonce] # "new" /\ Addr[k.nonce] = k.claimed
          /\ nonceMap[k.claimed] \in {k.nonce, NoSocket} /\ usedBy[k.nonce] \subseteq {k.ws}
        BY DEF NonceInv, AnswersInv
    <2>4. QED
        BY <1>2, <1>3, <2>2, <2>3
<1>8. QED
    BY <1>4, <1>5, <1>6, <1>7 DEF NonceInv

LEMMA ConnectionStep ==
    ASSUME TypeOK, NonceInv, NEW s \in Sockets, Connection(s)
    PROVE  NonceInv'
<1> USE ConstantsAssumption DEF TypeOK
<1>1. /\ answers = {} /\ sock[s] = "new" /\ UNCHANGED <<answers, authed, usedBy>>
      /\ authTimeout' = authTimeout \union {s}
      /\ \A r \in Sockets : sock'[r] = IF r = s THEN "open" ELSE sock[r]
      /\ \A a \in Addrs : nonceMap'[a] = IF a = Addr[s] THEN s ELSE nonceMap[a]
    BY DEF Connection, Callback, auth
<1>2. SocketsInv'
    BY <1>1 DEF NonceInv, SocketsInv
<1>3. NonceIsPending'
    BY <1>1 DEF NonceInv, SocketsInv, NonceIsPending
<1>4. NonceAuthenticatesOne' /\ AnswersInv'
    BY <1>1 DEF NonceInv, NonceAuthenticatesOne, AnswersInv
<1>5. QED
    BY <1>2, <1>3, <1>4 DEF NonceInv

\* A timer that finds a nonce takes the socket's own away, or a newer one of the
\* address; one that finds none has no nonce of its socket to leave behind.
LEMMA AuthTimeoutStep ==
    ASSUME TypeOK, NonceInv, NEW s \in Sockets, AuthTimeout(s)
    PROVE  NonceInv'
<1>1. ClearTimeout(s) /\ UNCHANGED <<answers, authed, usedBy>>
    BY DEF AuthTimeout, auth
<1>2. CASE nonceMap[Addr[s]] # NoSocket
    BY <1>1, <1>2, EndStep DEF AuthTimeout
<1>3. CASE nonceMap[Addr[s]] = NoSocket
    <2>1. UNCHANGED <<sock, nonceMap>> /\ authTimeout' = authTimeout \ {s}
        BY <1>1, <1>3 DEF AuthTimeout, ClearTimeout
    <2>2. SocketsInv' /\ NonceAuthenticatesOne' /\ AnswersInv'
        BY <1>1, <2>1 DEF NonceInv, SocketsInv, NonceAuthenticatesOne, AnswersInv
    <2>3. NonceIsPending'
        BY <1>1, <1>3, <2>1 DEF NonceInv, NonceIsPending
    <2>4. QED
        BY <2>2, <2>3 DEF NonceInv
<1>4. QED
    BY <1>2, <1>3

LEMMA AuthResponseStep ==
    ASSUME TypeOK, NonceInv, NEW s \in Sockets, NEW claimed \in Addrs,
           NEW nonce \in Sockets \union {NoSocket}, NEW signed \in BOOLEAN,
           AuthResponse(s, claimed, nonce, signed)
    PROVE  NonceInv'
<1>1. UNCHANGED <<authed, usedBy>> /\ sock[s] # "new" /\ \A m \in answers : m.ws = s
    BY DEF AuthResponse, Receiving
<1>2. CASE Rejected(s) /\ UNCHANGED answers
    BY <1>1, <1>2, EndStep DEF Rejected
<1>3. CASE /\ nonce \in Sockets /\ nonceMap[claimed] = nonce
           /\ answers' = answers \union {AnswerOf(s, claimed, nonce, signed)}
           /\ UNCHANGED <<sock, authTimeout, nonceMap>>
    <2> DEFINE m == AnswerOf(s, claimed, nonce, signed)
    <2>1. m.ws = s /\ m.claimed = claimed /\ m.nonce = nonce
        BY <1>3, AnswerType
    <2> HIDE DEF m
    <2>2. Addr[nonce] = claimed /\ usedBy[nonce] = {} /\ sock[nonce] # "new"
        BY <1>3, ConstantsAssumption DEF NonceInv, NonceIsPending, SocketsInv
    <2>3. answers' = answers \union {m}
        BY <1>3 DEF m
    <2>4. AnswersInv'
        BY <1>1, <1>3, <2>1, <2>2, <2>3 DEF NonceInv, AnswersInv
    <2>5. (SocketsInv /\ NonceIsPending /\ NonceAuthenticatesOne)'
        BY <1>1, <1>3 DEF NonceInv, SocketsInv, NonceIsPending, NonceAuthenticatesOne
    <2>6. QED
        BY <2>4, <2>5 DEF NonceInv
<1>4. QED
    BY <1>2, <1>3, AuthResponseCases

LEMMA NonceStep == TypeOK /\ NonceInv /\ [Next]_vars => NonceInv'
<1>1. SUFFICES ASSUME TypeOK, NonceInv, [Next]_vars PROVE NonceInv'
    OBVIOUS
<1>2. ASSUME NEW a \in Addrs, NodeAdded(a) PROVE NonceInv'
    BY <1>1, <1>2, NonceFrame DEF NodeAdded
<1>3. ASSUME NEW s \in Sockets, HealthCheck(s) PROVE NonceInv'
    BY <1>1, <1>3, EndStep DEF HealthCheck, auth
<1>4. ASSUME NEW m \in answers, Verify(m) PROVE NonceInv'
    <2>1. answers' \subseteq answers /\ m.ws \in Sockets
        BY <1>1, <1>4 DEF Verify, TypeOK, Answers
    <2>2. CASE Authenticated(m)
        BY <1>1, <2>1, <2>2, AuthenticatedStep
    <2>3. CASE Rejected(m.ws) /\ UNCHANGED <<authed, usedBy, connections>>
        BY <1>1, <2>1, <2>3, EndStep DEF Rejected
    <2>4. QED
        BY <1>4, <2>2, <2>3, VerifyCases
<1>5. ASSUME NEW s \in Sockets, NEW a \in Addrs, Subscribe(s, a) PROVE NonceInv'
    <2>1. \A r \in Sockets : sock'[r] = "new" => sock[r] = "new"
        BY <1>1, <1>5 DEF Subscribe, Close, TypeOK
    <2>2. QED
        BY <1>1, <1>5, <2>1, NonceFrame DEF Subscribe
<1>6. ASSUME NEW s \in Sockets, Closed(s) PROVE NonceInv'
    <2>1. \A r \in Sockets : sock'[r] = "new" => sock[r] = "new"
        BY <1>1, <1>6 DEF Closed, TypeOK
    <2>2. QED
        BY <1>1, <1>6, <2>1, NonceFrame DEF Closed
<1>7. CASE Broadcast
    BY <1>1, <1>7, NonceFrame DEF Broadcast
<1>8. CASE UNCHANGED vars
    BY <1>1, <1>8, NonceFrame DEF vars
<1>9. QED
    BY <1>1, <1>2, <1>3, <1>4, <1>5, <1>6, <1>7, <1>8, ConnectionStep, AuthTimeoutStep,
        AuthResponseStep DEF Next
-----------------------------------------------------------------------------
\* A subscriber never becomes open again, and only Broadcast sends.
LEMMA SubscriberFrame ==
    ASSUME Inv, UNCHANGED <<subscribers, history, events>>,
           \A s \in Sockets : authed[s] \subseteq authed'[s],
           \A s \in Sockets : authed[s] # {} /\ sock'[s] = "open" => sock[s] = "open"
    PROVE  SubscribersInv' /\ NewestSubscriberHearsAll'
BY DEF Inv, TypeOK, SubscribersInv, NewestSubscriberHearsAll, history, events

LEMMA SubscribeStep ==
    ASSUME Inv, NEW s \in Sockets, NEW a \in Addrs, Subscribe(s, a)
    PROVE  SubscribersInv' /\ NewestSubscriberHearsAll'
<1> USE ConstantsAssumption
<1>1. \A r \in Sockets : sock'[r] = "open" => sock[r] = "open"
    BY DEF Subscribe, Close, Inv, TypeOK
<1>2. UNCHANGED <<authed, events>>
    BY DEF Subscribe, auth
<1>3. CASE a \in authed[s] /\ a \in vnodes
    <2>1. /\ subscribers' = [subscribers EXCEPT ![a] = s]
          /\ newest' = [newest EXCEPT ![a] = s] /\ since' = [since EXCEPT ![a] = sent]
        BY <1>3 DEF Subscribe
    <2>2. SubscribersInv'
        BY <1>2, <1>3, <2>1 DEF Inv, TypeOK, SubscribersInv
    <2>3. ASSUME NEW c \in Addrs, newest'[c] # NoSocket, sock'[newest'[c]] = "open"
          PROVE  (since'[c] + 1)..sent' \subseteq received'[newest'[c]]
        <3>1. CASE c = a
            <4>1. since'[c] = sent /\ sent' = sent /\ sent \in Nat
                BY <1>2, <2>1, <3>1 DEF Inv, TypeOK, events
            <4>2. QED
                BY <4>1
        <3>2. CASE c # a
            <4>1. newest'[c] = newest[c] /\ since'[c] = since[c] /\ newest[c] \in Sockets
                BY <2>1, <2>3, <3>2 DEF Inv, TypeOK
            <4>2. QED
                BY <1>1, <1>2, <2>3, <4>1 DEF Inv, NewestSubscriberHearsAll, events
        <3>3. QED
            BY <3>1, <3>2
    <2>4. QED
        BY <2>2, <2>3 DEF NewestSubscriberHearsAll
<1>4. CASE ~(a \in authed[s] /\ a \in vnodes)
    BY <1>1, <1>2, <1>4, SubscriberFrame DEF Subscribe
<1>5. QED
    BY <1>3, <1>4

LEMMA BroadcastStep ==
    ASSUME Inv, Broadcast
    PROVE  SubscribersInv' /\ NewestSubscriberHearsAll'
<1>1. SubscribersInv'
    BY DEF Inv, SubscribersInv, Broadcast, auth, history
<1>2. ASSUME NEW a \in Addrs, newest[a] # NoSocket, sock[newest[a]] = "open"
      PROVE  (since[a] + 1)..sent' \subseteq received'[newest[a]]
    <2> DEFINE s == newest[a]
    <2>1. s \in Sockets /\ subscribers[a] = s
        BY <1>2 DEF Inv, TypeOK, SubscribersInv
    <2>2. received'[s] = received[s] \union {sent + 1} /\ sent' = sent + 1
        BY <1>2, <2>1 DEF Broadcast
    <2>3. (since[a] + 1)..sent \subseteq received[s] /\ sent \in Nat /\ since[a] \in Nat
        BY <1>2, ConstantsAssumption DEF Inv, TypeOK, NewestSubscriberHearsAll
    <2> HIDE DEF s
    <2>4. QED
        BY <2>2, <2>3 DEF s
<1>3. QED
    BY <1>1, <1>2 DEF Broadcast, history, NewestSubscriberHearsAll

LEMMA SubscriberStep == Inv /\ [Next]_vars => SubscribersInv' /\ NewestSubscriberHearsAll'
<1>1. SUFFICES ASSUME Inv, [Next]_vars PROVE SubscribersInv' /\ NewestSubscriberHearsAll'
    OBVIOUS
<1>2. ASSUME NEW a \in Addrs, NodeAdded(a) PROVE SubscribersInv' /\ NewestSubscriberHearsAll'
    BY <1>1, <1>2, SubscriberFrame DEF NodeAdded, auth
<1>3. ASSUME NEW s \in Sockets, Connection(s) PROVE SubscribersInv' /\ NewestSubscriberHearsAll'
    BY <1>1, <1>3, SubscriberFrame DEF Connection, auth, Inv, TypeOK, NonceInv, SocketsInv
<1>4. ASSUME NEW s \in Sockets, AuthTimeout(s) \/ HealthCheck(s)
      PROVE  SubscribersInv' /\ NewestSubscriberHearsAll'
    BY <1>1, <1>4, SubscriberFrame DEF AuthTimeout, HealthCheck, Close, auth, Inv, TypeOK
<1>5. ASSUME NEW s \in Sockets, NEW a \in Addrs, NEW nonce \in Sockets \union {NoSocket},
             NEW signed \in BOOLEAN, AuthResponse(s, a, nonce, signed)
      PROVE  SubscribersInv' /\ NewestSubscriberHearsAll'
    BY <1>1, <1>5, SubscriberFrame DEF AuthResponse, Rejected, Close, Inv, TypeOK
<1>6. ASSUME NEW m \in answers, Verify(m) PROVE SubscribersInv' /\ NewestSubscriberHearsAll'
    <2>1. m.ws \in Sockets /\ UNCHANGED <<subscribers, history, events>>
        BY <1>1, <1>6 DEF Verify, Inv, TypeOK, Answers
    <2>2. CASE Authenticated(m)
        BY <1>1, <2>1, <2>2, SubscriberFrame DEF Authenticated, Inv, TypeOK
    <2>3. CASE Rejected(m.ws) /\ UNCHANGED <<authed, usedBy, connections>>
        BY <1>1, <2>1, <2>3, SubscriberFrame DEF Rejected, Close, Inv, TypeOK
    <2>4. QED
        BY <1>6, <2>2, <2>3, VerifyCases
<1>7. ASSUME NEW s \in Sockets, Closed(s) PROVE SubscribersInv' /\ NewestSubscriberHearsAll'
    BY <1>1, <1>7, SubscriberFrame DEF Closed, auth, Inv, TypeOK
<1>8. CASE UNCHANGED vars
    BY <1>1, <1>8, SubscriberFrame DEF vars, auth
<1>9. QED
    BY <1>1, <1>2, <1>3, <1>4, <1>5, <1>6, <1>7, <1>8, SubscribeStep, BroadcastStep DEF Next

LEMMA Invariant == Spec => []Inv
<1>1. Inv /\ [Next]_vars => Inv'
    BY TypeStep, NonceStep, SubscriberStep DEF Inv
<1>2. QED
    BY <1>1, InitInv, PTL DEF Spec
-----------------------------------------------------------------------------
\* Every variable has its type.
THEOREM TypeInvariant == Spec => []TypeOK
<1>1. Inv => TypeOK
    BY DEF Inv
<1>2. QED
    BY <1>1, Invariant, PTL

\* A stored nonce is that of a socket of its address, has authenticated none, and
\* is removed by a running timer, unless its socket used another nonce.
THEOREM NoncesArePending == Spec => []NonceIsPending
<1>1. Inv => NonceIsPending
    BY DEF Inv, NonceInv
<1>2. QED
    BY <1>1, Invariant, PTL

\* No two sockets are authenticated with one nonce.
THEOREM NoncesAuthenticateOne == Spec => []NonceAuthenticatesOne
<1>1. Inv => NonceAuthenticatesOne
    BY DEF Inv, NonceInv
<1>2. QED
    BY <1>1, Invariant, PTL

\* The newest subscriber of a validator is sent every event while it is open.
THEOREM SubscribersHearAll == Spec => []NewestSubscriberHearsAll
<1>1. Inv => NewestSubscriberHearsAll
    BY DEF Inv
<1>2. QED
    BY <1>1, Invariant, PTL

\* A step of an authentication timer, whosever it is, leaves the state of every
\* authenticated socket as it is.
THEOREM TimersSpareAuthenticated == Spec => AuthenticatedStaysOpen
<1> DEFINE A == \A s, r \in Sockets : authed[s] # {} /\ AuthTimeout(r) => sock'[s] = sock[s]
<1>1. Inv /\ [Next]_vars => [A]_vars
    <2>1. SUFFICES ASSUME Inv, NEW s \in Sockets, NEW r \in Sockets, authed[s] # {},
                          AuthTimeout(r)
                   PROVE  sock'[s] = sock[s]
        OBVIOUS
    <2>2. r # s
        BY <2>1 DEF Inv, NonceInv, SocketsInv, AuthTimeout
    <2>3. QED
        BY <2>1, <2>2 DEF AuthTimeout, Close, Inv, TypeOK
<1>2. QED
    BY <1>1, Invariant, PTL DEF Spec, AuthenticatedStaysOpen
=============================================================================
