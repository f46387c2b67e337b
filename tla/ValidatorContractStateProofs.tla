-------------------- MODULE ValidatorContractStateProofs --------------------
(***************************************************************************)
(* Theorems about ValidatorContractState, for any nodes, environments and  *)
(* contents of the contract.  The invariant says what the events under way *)
(* still have to bring to the maps.                                        *)
(***************************************************************************)
EXTENDS ValidatorContractState, TLAPS

NodeEvent ==
    [type : {"NodeAdded"}, node : Nodes]
    \union [type : {"NodeStatusChanged"}, node : Nodes, status : Statuses]
ParamsEvent == [type : {"BlockParamsUpdated"}, valPerBlock : Quorums]
Event == NodeEvent \union ParamsEvent

\* The places of the events about node n, and of those about parameters.
About(es, n) == {i \in DOMAIN es : es[i] \in NodeEvent /\ es[i].node = n}
AboutParams(es) == {i \in DOMAIN es : es[i] \in ParamsEvent}

Outcome(e) == IF e.type = "NodeAdded" THEN OK ELSE e.status
LastIn(i, S) == i \in S /\ \A j \in S : j <= i

\* The node n, its status st in the contract, the events es and the map m of its
\* type: without an event the map is right, otherwise the last event says what
\* the contract says, and the first one adds the node if it is not there yet.
Follows(n, st, es, m) ==
    /\ About(es, n) = {} /\ n \in DOMAIN m => m[n] = Info(n, st[n])
    /\ n \in DOMAIN st /\ n \notin DOMAIN m =>
        \E i \in About(es, n) : es[i].type = "NodeAdded"
    /\ \A i : LastIn(i, About(es, n)) => Outcome(es[i]) = st[n]
    /\ n \notin DOMAIN m =>
        \A i \in About(es, n) : es[i].type = "NodeStatusChanged" =>
            \E j \in About(es, n) : j < i /\ es[j].type = "NodeAdded"

\* What has events or is in a map is in the contract.
Known(n, st, es, m) == About(es, n) # {} \/ n \in DOMAIN m => n \in DOMAIN st

\* The same as Follows of the block parameters.
ParamsFollow(q, es, v) ==
    /\ AboutParams(es) = {} => v = q
    /\ \A i : LastIn(i, AboutParams(es)) => es[i].valPerBlock = q

\* A map of the nodes of a type, of the contract unless test holds.
Map(test, type, m) ==
    /\ m = [n \in DOMAIN m |-> m[n]]
    /\ \A n \in DOMAIN m :
        /\ n \in Nodes /\ NodeType[n] = type
        /\ ~test => \E s \in Statuses : m[n] = Info(n, s)

Typed ==
    /\ status = [n \in DOMAIN status |-> status[n]]
    /\ DOMAIN status \subseteq Nodes
    /\ \A n \in DOMAIN status : status[n] \in Statuses
    /\ events \in Seq(Event)
    /\ phase \in Types \union {"params", "target", "ready"}
    /\ todo \subseteq DOMAIN status
    /\ \A n \in todo : NodeType[n] = phase
    /\ listening \in BOOLEAN
    /\ maps = [type \in Types |-> maps[type]]
    /\ \A type \in Types : Map(env.test, type, maps[type])
    /\ heard \subseteq Nodes \union {Params}

\* What has been installed, read and emitted in which phase.
Phased ==
    /\ listening => phase = "ready" /\ ~env.test
    /\ ~listening => \A n \in Nodes : About(events, n) = {}
    /\ phase = "ready" /\ ~listening => env.test
    /\ phase \in {"params", "target"} => events = << >> /\ maps = NoNodes
    /\ env.test => phase \notin Types

Inv ==
    /\ Typed
    /\ Phased
    /\ Params \in heard => ParamsFollow(quorum, events, valPerBlock)
    /\ ~env.test => \A n \in Nodes :
        /\ Known(n, status, events, maps[NodeType[n]])
        /\ n \in heard => Follows(n, status, events, maps[NodeType[n]])
-----------------------------------------------------------------------------
(* Events *)

LEMMA EventKinds ==
    /\ NodeEvent \intersect ParamsEvent = {}
    /\ \A e \in NodeEvent : e.type \in {"NodeAdded", "NodeStatusChanged"} /\ e.node \in Nodes
    /\ \A e \in Event : e.type = "BlockParamsUpdated" <=> e \in ParamsEvent
    /\ \A e \in Event : e.type = "NodeStatusChanged" => e \in NodeEvent /\ e.status \in Statuses
BY DEF NodeEvent, ParamsEvent, Event

LEMMA AppendAbout ==
    ASSUME NEW es \in Seq(Event), NEW e \in Event, NEW n
    PROVE  /\ Append(es, e) \in Seq(Event)
           /\ \A i \in DOMAIN es : Append(es, e)[i] = es[i]
           /\ Append(es, e)[Len(es) + 1] = e
           /\ \A i \in DOMAIN es : i \in Nat /\ i < Len(es) + 1
           /\ About(Append(es, e), n) = About(es, n) \union
                (IF e \in NodeEvent /\ e.node = n THEN {Len(es) + 1} ELSE {})
           /\ AboutParams(Append(es, e)) = AboutParams(es) \union
                (IF e \in ParamsEvent THEN {Len(es) + 1} ELSE {})
<1> DEFINE all == Append(es, e)
<1>1. all \in Seq(Event) /\ DOMAIN all = DOMAIN es \union {Len(es) + 1}
    OBVIOUS
<1>2. /\ \A i \in DOMAIN es : all[i] = es[i]
      /\ all[Len(es) + 1] = e
      /\ \A i \in DOMAIN es : i \in Nat /\ i < Len(es) + 1
    OBVIOUS
<1>3. About(all, n) = About(es, n) \union
        (IF e \in NodeEvent /\ e.node = n THEN {Len(es) + 1} ELSE {})
    <2> HIDE DEF all
    <2> QED BY <1>1, <1>2 DEF About
<1>4. AboutParams(all) = AboutParams(es) \union
        (IF e \in ParamsEvent THEN {Len(es) + 1} ELSE {})
    <2> HIDE DEF all
    <2> QED BY <1>1, <1>2 DEF AboutParams
<1>5. QED
    BY <1>1, <1>2, <1>3, <1>4

LEMMA TailAbout ==
    ASSUME NEW es \in Seq(Event), es # << >>, NEW n
    PROVE  /\ Tail(es) \in Seq(Event)
           /\ DOMAIN Tail(es) \subseteq Nat /\ DOMAIN es \subseteq Nat
           /\ 1 \in DOMAIN es
           /\ \A i \in DOMAIN es : i = 1 \/ i - 1 \in DOMAIN Tail(es)
           /\ \A i \in DOMAIN Tail(es) : i + 1 \in DOMAIN es /\ Tail(es)[i] = es[i + 1] /\ i + 1 # 1
           /\ \A i \in DOMAIN Tail(es) : i \in About(Tail(es), n) <=> i + 1 \in About(es, n)
           /\ \A i \in DOMAIN Tail(es) :
                i \in AboutParams(Tail(es)) <=> i + 1 \in AboutParams(es)
<1> DEFINE rest == Tail(es)
<1>1. rest \in Seq(Event) /\ Len(rest) = Len(es) - 1 /\ Len(es) \in Nat \ {0}
    OBVIOUS
<1>2. \A i \in 1..Len(rest) : rest[i] = es[i + 1]
    OBVIOUS
<1>3. DOMAIN rest = 1..Len(rest) /\ DOMAIN es = 1..Len(es)
    BY <1>1
<1> HIDE DEF rest
<1>4. \A i \in DOMAIN rest : i + 1 \in DOMAIN es /\ rest[i] = es[i + 1]
    BY <1>1, <1>2, <1>3
<1>5. \A i \in DOMAIN rest : i \in About(rest, n) <=> i + 1 \in About(es, n)
    BY <1>4 DEF About
<1>6. \A i \in DOMAIN rest : i \in AboutParams(rest) <=> i + 1 \in AboutParams(es)
    BY <1>4 DEF AboutParams
<1>7. /\ DOMAIN rest \subseteq Nat /\ DOMAIN es \subseteq Nat
      /\ 1 \in DOMAIN es
      /\ \A i \in DOMAIN es : i = 1 \/ i - 1 \in DOMAIN rest
      /\ \A i \in DOMAIN rest : i + 1 # 1
    BY <1>1, <1>3
<1>8. QED
    BY <1>1, <1>4, <1>5, <1>6, <1>7 DEF rest
-----------------------------------------------------------------------------
(* Follows, as events are emitted and handled *)

\* Other nodes change in the contract and in the maps.
LEMMA FollowsSame ==
    ASSUME NEW n, NEW st, NEW st1, NEW es, NEW m, NEW m1,
           Known(n, st, es, m), Follows(n, st, es, m),
           n \in DOMAIN st1 <=> n \in DOMAIN st, n \in DOMAIN st => st1[n] = st[n],
           n \in DOMAIN m1 <=> n \in DOMAIN m, n \in DOMAIN m => m1[n] = m[n]
    PROVE  Follows(n, st1, es, m1)
<1>1. About(es, n) # {} => st1[n] = st[n]
    BY DEF Known
<1>2. \A i : LastIn(i, About(es, n)) => Outcome(es[i]) = st1[n]
    BY <1>1 DEF Follows, LastIn
<1>3. About(es, n) = {} /\ n \in DOMAIN m1 => m1[n] = Info(n, st1[n])
    BY DEF Known, Follows
<1>4. QED
    BY <1>2, <1>3 DEF Follows

\* Nothing that concerns n is emitted.
LEMMA FollowsEmitOther ==
    ASSUME NEW n \in Nodes, NEW st, NEW es \in Seq(Event), NEW e \in Event, NEW m,
           e \notin NodeEvent \/ e.node # n
    PROVE  /\ About(Append(es, e), n) = About(es, n)
           /\ Known(n, st, es, m) => Known(n, st, Append(es, e), m)
           /\ Follows(n, st, es, m) => Follows(n, st, Append(es, e), m)
<1>1. /\ About(Append(es, e), n) = About(es, n)
      /\ \A i \in About(es, n) : Append(es, e)[i] = es[i]
    BY AppendAbout DEF About
<1>2. QED
    BY <1>1 DEF Follows, Known, LastIn

\* An event about n is emitted that says its new status.
LEMMA FollowsEmit ==
    ASSUME NEW n \in Nodes, NEW st1, NEW es \in Seq(Event), NEW e \in NodeEvent, NEW m,
           e.node = n, Outcome(e) = st1[n],
           \/ e.type = "NodeAdded" /\ About(es, n) = {}
           \/ e.type = "NodeStatusChanged"
              /\ \E st : n \in DOMAIN st /\ Follows(n, st, es, m)
    PROVE  Follows(n, st1, Append(es, e), m)
<1> DEFINE all == Append(es, e)
           l == Len(es) + 1
<1>1. /\ About(all, n) = About(es, n) \union {l}
      /\ \A i \in About(es, n) : all[i] = es[i] /\ i \in Nat /\ i < l
      /\ all[l] = e /\ l \in Nat
    BY AppendAbout DEF About, Event
<1> HIDE DEF all, l
<1>2. \A i : LastIn(i, About(all, n)) => Outcome(all[i]) = st1[n]
    BY <1>1 DEF LastIn
<1>3. About(all, n) # {}
    BY <1>1
<1>4. CASE e.type = "NodeAdded" /\ About(es, n) = {}
    <2>1. \A i \in About(all, n) : i = l /\ all[i].type = "NodeAdded"
        BY <1>1, <1>4
    <2>2. \A i \in About(all, n) : all[i].type # "NodeStatusChanged"
        BY <2>1
    <2>3. \E i \in About(all, n) : all[i].type = "NodeAdded"
        BY <1>3, <2>1
    <2>4. Follows(n, st1, all, m)
        BY <1>2, <1>3, <2>2, <2>3 DEF Follows
    <2>5. QED
        BY <2>4 DEF all
<1>5. ASSUME NEW st, e.type = "NodeStatusChanged", n \in DOMAIN st, Follows(n, st, es, m)
      PROVE  Follows(n, st1, all, m)
    <2>1. n \notin DOMAIN m => \E i \in About(es, n) : es[i].type = "NodeAdded"
        BY <1>5 DEF Follows
    <2>2. n \notin DOMAIN m => \E i \in About(all, n) : all[i].type = "NodeAdded" /\ i < l
        BY <2>1, <1>1
    <2>3. n \notin DOMAIN m =>
            \A i \in About(es, n) : es[i].type = "NodeStatusChanged" =>
                \E j \in About(es, n) : j < i /\ es[j].type = "NodeAdded"
        BY <1>5 DEF Follows
    <2>4. n \notin DOMAIN m =>
            \A i \in About(all, n) : all[i].type = "NodeStatusChanged" =>
                \E j \in About(all, n) : j < i /\ all[j].type = "NodeAdded"
        BY <2>2, <2>3, <1>1
    <2>5. QED
        BY <2>2, <2>4, <1>2, <1>3 DEF Follows
<1>6. QED
    BY <1>4, <1>5 DEF all

\* The first event concerns another node, or parameters.
LEMMA FollowsHandleOther ==
    ASSUME NEW n \in Nodes, NEW st, NEW es \in Seq(Event), es # << >>, NEW m, NEW m1,
           Follows(n, st, es, m), 1 \notin About(es, n),
           n \in DOMAIN m1 <=> n \in DOMAIN m, n \in DOMAIN m => m1[n] = m[n]
    PROVE  Follows(n, st, Tail(es), m1)
<1> DEFINE rest == Tail(es)
<1>1. /\ \A i \in About(rest, n) : i \in Nat /\ i + 1 \in About(es, n) /\ rest[i] = es[i + 1]
      /\ \A i \in About(es, n) : i \in Nat /\ i - 1 \in About(rest, n) /\ i = (i - 1) + 1
    BY TailAbout DEF About
<1> HIDE DEF rest
<1>2. About(rest, n) = {} <=> About(es, n) = {}
    BY <1>1
<1>3. ASSUME NEW i, LastIn(i, About(rest, n))
      PROVE  Outcome(rest[i]) = st[n]
    <2>1. i \in About(rest, n) /\ i + 1 \in About(es, n) /\ rest[i] = es[i + 1]
        BY <1>1, <1>3 DEF LastIn
    <2>2. \A j \in About(es, n) : j - 1 <= i
        BY <1>1, <1>3 DEF LastIn
    <2>3. LastIn(i + 1, About(es, n))
        BY <1>1, <2>1, <2>2 DEF LastIn
    <2>4. QED
        BY <2>1, <2>3 DEF Follows
<1>4. ASSUME n \notin DOMAIN m1, NEW i \in About(rest, n), rest[i].type = "NodeStatusChanged"
      PROVE  \E j \in About(rest, n) : j < i /\ rest[j].type = "NodeAdded"
    <2>1. PICK k \in About(es, n) : k < i + 1 /\ es[k].type = "NodeAdded"
        BY <1>1, <1>4 DEF Follows
    <2>2. k - 1 \in About(rest, n) /\ k - 1 < i /\ rest[k - 1] = es[k]
        BY <1>1, <2>1
    <2>3. QED
        BY <2>1, <2>2
<1>5. ASSUME n \in DOMAIN st, n \notin DOMAIN m1
      PROVE  \E i \in About(rest, n) : rest[i].type = "NodeAdded"
    <2>1. PICK k \in About(es, n) : es[k].type = "NodeAdded"
        BY <1>5 DEF Follows
    <2>2. k - 1 \in About(rest, n) /\ rest[k - 1] = es[k]
        BY <1>1, <2>1
    <2>3. QED
        BY <2>1, <2>2
<1>6. About(rest, n) = {} /\ n \in DOMAIN m1 => m1[n] = Info(n, st[n])
    BY <1>2 DEF Follows
<1>7. Follows(n, st, rest, m1)
    BY <1>3, <1>4, <1>5, <1>6 DEF Follows
<1>8. QED
    BY <1>7 DEF rest

\* The first event concerns n and is written to its map.
LEMMA FollowsHandle ==
    ASSUME NEW n \in Nodes, NEW st, NEW es \in Seq(Event), es # << >>, NEW m, NEW m1,
           Follows(n, st, es, m), 1 \in About(es, n),
           n \in DOMAIN m1, m1[n] = Info(n, Outcome(es[1]))
    PROVE  Follows(n, st, Tail(es), m1)
<1> DEFINE rest == Tail(es)
<1>1. /\ \A i \in About(rest, n) : i \in Nat /\ i + 1 \in About(es, n) /\ rest[i] = es[i + 1]
      /\ \A i \in About(es, n) : i \in Nat /\ (i = 1 \/ i - 1 \in About(rest, n))
    BY TailAbout DEF About
<1> HIDE DEF rest
<1>2. ASSUME About(rest, n) = {}
      PROVE  Outcome(es[1]) = st[n]
    <2>1. LastIn(1, About(es, n))
        BY <1>1, <1>2 DEF LastIn
    <2>2. QED
        BY <2>1 DEF Follows
<1>3. ASSUME NEW i, LastIn(i, About(rest, n))
      PROVE  Outcome(rest[i]) = st[n]
    <2>1. i \in About(rest, n) /\ i \in Nat /\ i + 1 \in About(es, n) /\ rest[i] = es[i + 1]
        BY <1>1, <1>3 DEF LastIn
    <2>2. \A j \in About(es, n) : j \in Nat /\ j <= i + 1
        BY <1>1, <1>3, <2>1 DEF LastIn
    <2>3. LastIn(i + 1, About(es, n))
        BY <2>1, <2>2 DEF LastIn
    <2>4. QED
        BY <2>1, <2>3 DEF Follows
<1>4. Follows(n, st, rest, m1)
    BY <1>2, <1>3 DEF Follows
<1>5. QED
    BY <1>4 DEF rest

LEMMA ParamsFollowEmit ==
    ASSUME NEW q, NEW q1, NEW es \in Seq(Event), NEW e \in Event, NEW v,
           ParamsFollow(q, es, v),
           IF e \in ParamsEvent THEN e.valPerBlock = q1 ELSE q1 = q
    PROVE  ParamsFollow(q1, Append(es, e), v)
<1>1. /\ AboutParams(Append(es, e)) = AboutParams(es) \union
            (IF e \in ParamsEvent THEN {Len(es) + 1} ELSE {})
      /\ \A i \in AboutParams(es) : Append(es, e)[i] = es[i] /\ i \in Nat /\ i < Len(es) + 1
      /\ Append(es, e)[Len(es) + 1] = e /\ Len(es) + 1 \in Nat
    BY AppendAbout DEF AboutParams
<1>2. CASE e \in ParamsEvent
    BY <1>1, <1>2 DEF ParamsFollow, LastIn
<1>3. CASE e \notin ParamsEvent
    <2>1. AboutParams(Append(es, e)) = AboutParams(es)
        BY <1>1, <1>3
    <2>2. \A i : LastIn(i, AboutParams(es)) => Append(es, e)[i] = es[i]
        BY <1>1 DEF LastIn
    <2>3. QED
        BY <1>3, <2>1, <2>2 DEF ParamsFollow
<1>4. QED
    BY <1>2, <1>3

LEMMA ParamsFollowHandle ==
    ASSUME NEW q, NEW es \in Seq(Event), es # << >>, NEW v, NEW v1,
           ParamsFollow(q, es, v),
           v1 = IF es[1] \in ParamsEvent THEN es[1].valPerBlock ELSE v
    PROVE  ParamsFollow(q, Tail(es), v1)
<1> DEFINE rest == Tail(es)
<1>1. /\ \A i \in AboutParams(rest) :
            i \in Nat /\ i + 1 \in AboutParams(es) /\ rest[i] = es[i + 1]
      /\ \A i \in AboutParams(es) : i \in Nat /\ (i = 1 \/ i - 1 \in AboutParams(rest))
      /\ 1 \in AboutParams(es) <=> es[1] \in ParamsEvent
    BY TailAbout DEF AboutParams
<1> HIDE DEF rest
<1>2. ASSUME AboutParams(rest) = {}
      PROVE  v1 = q
    <2>1. CASE es[1] \in ParamsEvent
        BY <1>1, <1>2, <2>1 DEF ParamsFollow, LastIn
    <2>2. CASE es[1] \notin ParamsEvent
        BY <1>1, <1>2, <2>2 DEF ParamsFollow
    <2>3. QED
        BY <2>1, <2>2
<1>3. ASSUME NEW i, LastIn(i, AboutParams(rest))
      PROVE  rest[i].valPerBlock = q
    <2>1. i \in AboutParams(rest) /\ i \in Nat /\ i + 1 \in AboutParams(es) /\ rest[i] = es[i + 1]
        BY <1>1, <1>3 DEF LastIn
    <2>2. \A j \in AboutParams(es) : j \in Nat /\ j <= i + 1
        BY <1>1, <1>3, <2>1 DEF LastIn
    <2>3. LastIn(i + 1, AboutParams(es))
        BY <2>1, <2>2 DEF LastIn
    <2>4. QED
        BY <2>1, <2>3 DEF ParamsFollow
<1>4. ParamsFollow(q, rest, v1)
    BY <1>2, <1>3 DEF ParamsFollow
<1>5. QED
    BY <1>4 DEF rest
-----------------------------------------------------------------------------
(* Maps *)

LEMMA WithMap ==
    ASSUME NEW test, NEW type, NEW m, Map(test, type, m), NEW n \in Nodes, NodeType[n] = type,
           NEW s \in Statuses
    PROVE  /\ Map(test, type, With(m, n, Info(n, s)))
           /\ DOMAIN With(m, n, Info(n, s)) = DOMAIN m \union {n}
           /\ With(m, n, Info(n, s))[n] = Info(n, s)
           /\ \A k \in DOMAIN m \ {n} : With(m, n, Info(n, s))[k] = m[k]
BY DEF Map, With

LEMMA StatusMap ==
    ASSUME NEW test, ~test, NEW type, NEW m, Map(test, type, m), NEW n \in DOMAIN m, NEW s \in Statuses
    PROVE  /\ Map(test, type, [m EXCEPT ![n].nodeStatus = s])
           /\ DOMAIN [m EXCEPT ![n].nodeStatus = s] = DOMAIN m
           /\ [m EXCEPT ![n].nodeStatus = s][n] = Info(n, s)
           /\ \A k \in DOMAIN m \ {n} : [m EXCEPT ![n].nodeStatus = s][k] = m[k]
<1> DEFINE m1 == [m EXCEPT ![n].nodeStatus = s]
<1>1. PICK s0 \in Statuses : m[n] = Info(n, s0)
    BY DEF Map
<1>2. m1[n] = [m[n] EXCEPT !.nodeStatus = s]
    BY DEF Map
<1>3. m1[n] = Info(n, s)
    BY <1>1, <1>2 DEF Info
<1>4. DOMAIN m1 = DOMAIN m /\ m1 = [k \in DOMAIN m1 |-> m1[k]]
      /\ \A k \in DOMAIN m \ {n} : m1[k] = m[k]
    BY DEF Map
<1> HIDE DEF m1
<1>5. Map(test, type, m1)
    BY <1>3, <1>4 DEF Map
<1>6. QED
    BY <1>3, <1>4, <1>5 DEF m1

LEMMA NoEvents ==
    /\ << >> \in Seq(Event)
    /\ \A n : About(<< >>, n) = {}
    /\ AboutParams(<< >>) = {}
BY DEF About, AboutParams

\* Without events a node follows if it is in the map exactly when it is in the
\* contract.
LEMMA FollowsQuiet ==
    ASSUME NEW n, NEW st, NEW es, NEW m, About(es, n) = {},
           n \in DOMAIN m <=> n \in DOMAIN st,
           n \in DOMAIN m => m[n] = Info(n, st[n])
    PROVE  Follows(n, st, es, m)
BY DEF Follows, LastIn

LEMMA ParamsQuiet ==
    ASSUME NEW q, NEW es, AboutParams(es) = {}
    PROVE  ParamsFollow(q, es, q)
BY DEF ParamsFollow, LastIn
-----------------------------------------------------------------------------
LEMMA InitInv == InitContractState => Inv
<1> SUFFICES ASSUME InitContractState PROVE Inv
    OBVIOUS
<1> USE DEF InitContractState
<1>1. NoNodes = [type \in Types |-> NoNodes[type]]
      /\ \A type \in Types : DOMAIN NoNodes[type] = {} /\ Map(env.test, type, NoNodes[type])
    BY DEF NoNodes, Map
<1>2. /\ status = [n \in DOMAIN status |-> status[n]]
      /\ DOMAIN status \subseteq Nodes
      /\ \A n \in DOMAIN status : status[n] \in Statuses
    BY ContractAssumption DEF Statuses, OK
<1>3. Typed
    BY <1>1, <1>2, NoEvents DEF Typed
<1>4. Phased
    BY NoEvents DEF Phased, Types
<1>5. \A n \in Nodes : DOMAIN maps[NodeType[n]] = {}
    BY <1>1, ContractAssumption
<1>6. QED
    BY <1>3, <1>4, <1>5, NoEvents DEF Inv, Known
-----------------------------------------------------------------------------
(* The contract changes *)

\* What every change has in common: the typing of what it leaves alone.
LEMMA EmitTyped ==
    ASSUME Inv, NEW what, NEW e \in Event, NEW heardOf \in SUBSET Nodes,
           Emit(what, e, heardOf),
           e \in NodeEvent => what # Params, e \in ParamsEvent => what = Params
    PROVE  /\ events' \in Seq(Event)
           /\ heard' \subseteq Nodes \union {Params}
           /\ UNCHANGED <<env, phase, todo, listed, listening, maps, valPerBlock>>
           /\ ~listening => \A n \in Nodes : About(events', n) = {}
           /\ phase \in {"params", "target"} => events' = << >>
<1> USE DEF Emit, client
<1>1. events' = events \/ events' = Append(events, e)
    OBVIOUS
<1>2. events \in Seq(Event) /\ heard \subseteq Nodes \union {Params}
    BY DEF Inv, Typed
<1>3. events' \in Seq(Event)
    BY <1>1, <1>2, AppendAbout
<1>4. heard' \subseteq Nodes \union {Params}
    BY <1>2
<1>5. ASSUME ~listening
      PROVE  \A n \in Nodes : About(events', n) = {}
    <2>1. \A n \in Nodes : About(events, n) = {}
        BY <1>5 DEF Inv, Phased
    <2>2. events' = events \/ e \notin NodeEvent
        BY <1>5, EventKinds DEF Event
    <2>3. QED
        BY <2>1, <2>2, <1>1, <1>2, FollowsEmitOther
<1>6. phase \in {"params", "target"} => events' = << >>
    <2>1. phase \in {"params", "target"} => ~listening /\ events = << >>
        BY DEF Inv, Phased
    <2>2. QED
        BY <2>1, EventKinds DEF Event
<1>7. QED
    BY <1>3, <1>4, <1>5, <1>6

LEMMA AddNodeInv == ASSUME Inv, NEW n \in Nodes, AddNode(n) PROVE Inv'
<1> DEFINE e == [type |-> "NodeAdded", node |-> n]
<1>1. /\ n \notin DOMAIN status
      /\ status' = [k \in DOMAIN status \union {n} |-> IF k = n THEN OK ELSE status[k]]
      /\ Emit(n, e, {n})
      /\ quorum' = quorum
    BY DEF AddNode
<1>2. e \in NodeEvent /\ e \in Event /\ e \notin ParamsEvent /\ n # Params
    BY EventKinds, ContractAssumption DEF Event, NodeEvent
<1>3. /\ DOMAIN status' = DOMAIN status \union {n} /\ status'[n] = OK
      /\ \A k \in DOMAIN status : status'[k] = status[k]
    BY <1>1
<1>4. /\ events' \in Seq(Event)
      /\ heard' \subseteq Nodes \union {Params}
      /\ UNCHANGED <<env, phase, todo, listed, listening, maps, valPerBlock>>
      /\ ~listening => \A k \in Nodes : About(events', k) = {}
      /\ phase \in {"params", "target"} => events' = << >>
    <2>1. {n} \in SUBSET Nodes
        OBVIOUS
    <2> HIDE DEF e
    <2>2. QED
        BY <1>1, <1>2, <2>1, EmitTyped
<1>5. Typed'
    <2>1. /\ status' = [k \in DOMAIN status' |-> status'[k]]
          /\ DOMAIN status' \subseteq Nodes
          /\ \A k \in DOMAIN status' : status'[k] \in Statuses
          /\ todo \subseteq DOMAIN status'
        BY <1>1, <1>3 DEF Inv, Typed, Statuses, OK
    <2>2. QED
        BY <2>1, <1>4 DEF Inv, Typed
<1>6. Phased'
    BY <1>4 DEF Inv, Phased
<1>7. \/ listening /\ events' = Append(events, e) /\ heard' = heard \union {n}
      \/ ~listening /\ events' = events /\ heard' = heard \ {n}
    <2>1. CASE listening
        BY <1>1, <1>2, <2>1 DEF Emit
    <2>2. CASE ~listening
        BY <1>1, <1>2, <2>2 DEF Emit
    <2>3. QED
        BY <2>1, <2>2
<1>8. events \in Seq(Event)
    BY DEF Inv, Typed
<1> HIDE DEF e
<1>9. ASSUME Params \in heard'
      PROVE  ParamsFollow(quorum', events', valPerBlock')
    <2>1. Params \in heard /\ ParamsFollow(quorum, events, valPerBlock)
        BY <1>2, <1>7, <1>9 DEF Inv
    <2>2. ParamsFollow(quorum, Append(events, e), valPerBlock)
        BY <2>1, <1>2, <1>8, ParamsFollowEmit
    <2>3. QED
        BY <2>1, <2>2, <1>1, <1>4, <1>7
<1>10. ASSUME ~env.test, NEW k \in Nodes
       PROVE  /\ Known(k, status', events', maps[NodeType[k]])
              /\ k \in heard' => Follows(k, status', events', maps[NodeType[k]])
    <2> DEFINE m == maps[NodeType[k]]
    <2>1. Known(k, status, events, m)
          /\ (k \in heard => Follows(k, status, events, m))
        BY <1>10 DEF Inv
    <2> HIDE DEF m
    <2>2. Known(k, status', events, m)
        BY <2>1, <1>3 DEF Known
    <2>3. CASE k # n
        <3>1. k \in heard' => Follows(k, status', events, m)
            BY <2>1, <2>3, <1>3, <1>7, FollowsSame
        <3>2. e.node # k
            BY <2>3 DEF e
        <3>3. QED
            BY <2>2, <3>1, <3>2, <1>2, <1>7, <1>8, FollowsEmitOther DEF m
    <2>4. CASE k = n
        <3>1. About(events, n) = {}
            BY <2>1, <2>4, <1>1 DEF Known
        <3>2. e.node = n /\ Outcome(e) = status'[n] /\ e.type = "NodeAdded"
            BY <1>3 DEF e, Outcome
        <3>3. Follows(n, status', Append(events, e), m)
            BY <3>1, <3>2, <1>2, <1>8, FollowsEmit
        <3>4. Known(n, status', events', m)
            BY <1>3 DEF Known
        <3>5. QED
            BY <2>4, <3>3, <3>4, <1>7 DEF m
    <2>5. QED
        BY <2>3, <2>4
<1>11. QED
    BY <1>4, <1>5, <1>6, <1>9, <1>10 DEF Inv

LEMMA ChangeStatusInv ==
    ASSUME Inv, NEW n \in Nodes, NEW s \in Statuses, ChangeStatus(n, s) PROVE Inv'
<1> DEFINE e == [type |-> "NodeStatusChanged", node |-> n, status |-> s]
<1>1. /\ n \in DOMAIN status
      /\ status' = [status EXCEPT ![n] = s]
      /\ Emit(n, e, {})
      /\ quorum' = quorum
    BY DEF ChangeStatus
<1>2. e \in NodeEvent /\ e \in Event /\ e \notin ParamsEvent /\ n # Params
    BY EventKinds, ContractAssumption DEF Event, NodeEvent
<1>3. /\ status = [k \in DOMAIN status |-> status[k]]
      /\ DOMAIN status' = DOMAIN status /\ status'[n] = s
      /\ \A k \in DOMAIN status \ {n} : status'[k] = status[k]
      /\ status' = [k \in DOMAIN status' |-> status'[k]]
    BY <1>1 DEF Inv, Typed
<1>4. /\ events' \in Seq(Event)
      /\ heard' \subseteq Nodes \union {Params}
      /\ UNCHANGED <<env, phase, todo, listed, listening, maps, valPerBlock>>
      /\ ~listening => \A k \in Nodes : About(events', k) = {}
      /\ phase \in {"params", "target"} => events' = << >>
    <2>1. {} \in SUBSET Nodes
        OBVIOUS
    <2> HIDE DEF e
    <2>2. QED
        BY <1>1, <1>2, <2>1, EmitTyped
<1>5. Typed'
    <2>1. \A k \in DOMAIN status' : status'[k] \in Statuses
        BY <1>3 DEF Inv, Typed
    <2>2. QED
        BY <2>1, <1>3, <1>4 DEF Inv, Typed
<1>6. Phased'
    BY <1>4 DEF Inv, Phased
<1>7. \/ listening /\ events' = Append(events, e) /\ heard' = heard
      \/ ~listening /\ events' = events /\ heard' = heard \ {n}
    <2>1. CASE listening
        BY <1>1, <1>2, <2>1 DEF Emit
    <2>2. CASE ~listening
        BY <1>1, <1>2, <2>2 DEF Emit
    <2>3. QED
        BY <2>1, <2>2
<1>8. events \in Seq(Event)
    BY DEF Inv, Typed
<1> HIDE DEF e
<1>9. ASSUME Params \in heard'
      PROVE  ParamsFollow(quorum', events', valPerBlock')
    <2>1. Params \in heard /\ ParamsFollow(quorum, events, valPerBlock)
        BY <1>2, <1>7, <1>9 DEF Inv
    <2>2. ParamsFollow(quorum, Append(events, e), valPerBlock)
        BY <2>1, <1>2, <1>8, ParamsFollowEmit
    <2>3. QED
        BY <2>1, <2>2, <1>1, <1>4, <1>7
<1>10. ASSUME ~env.test, NEW k \in Nodes
       PROVE  /\ Known(k, status', events', maps[NodeType[k]])
              /\ k \in heard' => Follows(k, status', events', maps[NodeType[k]])
    <2> DEFINE m == maps[NodeType[k]]
    <2>1. Known(k, status, events, m)
          /\ (k \in heard => Follows(k, status, events, m))
        BY <1>10 DEF Inv
    <2> HIDE DEF m
    <2>2. Known(k, status', events, m)
        BY <2>1, <1>3 DEF Known
    <2>3. CASE k # n
        <3>1. k \in heard' => Follows(k, status', events, m)
            BY <2>1, <2>3, <1>3, <1>7, FollowsSame
        <3>2. e.node # k
            BY <2>3 DEF e
        <3>3. QED
            BY <2>2, <3>1, <3>2, <1>2, <1>7, <1>8, FollowsEmitOther DEF m
    <2>4. CASE k = n
        <3>1. e.node = n /\ Outcome(e) = status'[n] /\ e.type = "NodeStatusChanged"
            BY <1>3 DEF e, Outcome
        <3>2. n \in heard /\ listening => Follows(n, status', Append(events, e), m)
            BY <2>1, <2>4, <3>1, <1>1, <1>2, <1>8, FollowsEmit
        <3>3. Known(n, status', events', m)
            BY <1>1, <1>3 DEF Known
        <3>4. QED
            BY <2>4, <3>2, <3>3, <1>7 DEF m
    <2>5. QED
        BY <2>3, <2>4
<1>11. QED
    BY <1>4, <1>5, <1>6, <1>9, <1>10 DEF Inv

LEMMA UpdateBlockParamsInv ==
    ASSUME Inv, NEW q \in Quorums, UpdateBlockParams(q) PROVE Inv'
<1> DEFINE e == [type |-> "BlockParamsUpdated", valPerBlock |-> q]
<1>1. /\ quorum' = q
      /\ Emit(Params, e, {})
      /\ status' = status
    BY DEF UpdateBlockParams
<1>2. e \in ParamsEvent /\ e \in Event /\ e \notin NodeEvent
    BY EventKinds DEF Event, ParamsEvent
<1>3. /\ events' \in Seq(Event)
      /\ heard' \subseteq Nodes \union {Params}
      /\ UNCHANGED <<env, phase, todo, listed, listening, maps, valPerBlock>>
      /\ ~listening => \A k \in Nodes : About(events', k) = {}
      /\ phase \in {"params", "target"} => events' = << >>
    <2>1. {} \in SUBSET Nodes
        OBVIOUS
    <2> HIDE DEF e
    <2>2. QED
        BY <1>1, <1>2, <2>1, EmitTyped
<1>4. Typed'
    BY <1>1, <1>3 DEF Inv, Typed
<1>5. Phased'
    BY <1>3 DEF Inv, Phased
<1>6. \/ events' = Append(events, e) /\ heard' = heard
      \/ events' = events /\ heard' = heard \ {Params}
    BY <1>1 DEF Emit
<1>7. events \in Seq(Event)
    BY DEF Inv, Typed
<1>8. e.valPerBlock = q
    OBVIOUS
<1> HIDE DEF e
<1>9. ASSUME Params \in heard'
      PROVE  ParamsFollow(quorum', events', valPerBlock')
    <2>1. Params \in heard /\ ParamsFollow(quorum, events, valPerBlock)
        BY <1>6, <1>9 DEF Inv
    <2>2. ParamsFollow(q, Append(events, e), valPerBlock)
        BY <2>1, <1>2, <1>7, <1>8, ParamsFollowEmit
    <2>3. QED
        BY <2>1, <2>2, <1>1, <1>3, <1>6, <1>9
<1>10. ASSUME ~env.test, NEW k \in Nodes
       PROVE  /\ Known(k, status, events', maps[NodeType[k]])
              /\ k \in heard' => Follows(k, status, events', maps[NodeType[k]])
    <2>1. Known(k, status, events, maps[NodeType[k]])
          /\ (k \in heard => Follows(k, status, events, maps[NodeType[k]]))
        BY <1>10 DEF Inv
    <2>2. QED
        BY <2>1, <1>2, <1>6, <1>7, FollowsEmitOther
<1>11. QED
    BY <1>1, <1>3, <1>4, <1>5, <1>9, <1>10 DEF Inv
-----------------------------------------------------------------------------
(* Loading *)

LEMMA ReadParamsInv == ASSUME Inv, ReadParams PROVE Inv'
<1> USE DEF ReadParams, contract
<1>1. events = << >> /\ ~listening /\ todo = {}
    BY ContractAssumption DEF Inv, Typed, Phased, Types
<1>2. Typed'
    BY <1>1 DEF Inv, Typed
<1>3. Phased'
    BY DEF Inv, Phased, Types
<1>4. ParamsFollow(quorum', events', valPerBlock')
    BY <1>1, NoEvents, ParamsQuiet
<1>5. ~env.test => \A n \in Nodes :
        /\ Known(n, status', events', maps'[NodeType[n]])
        /\ n \in heard' => Follows(n, status', events', maps'[NodeType[n]])
    BY ContractAssumption DEF Inv
<1>6. QED
    BY <1>2, <1>3, <1>4, <1>5 DEF Inv

LEMMA SubscribeParamsInv == ASSUME Inv, SubscribeParams PROVE Inv'
<1> USE DEF SubscribeParams, contract
<1>1. events = << >> /\ ~listening /\ todo = {}
    BY ContractAssumption DEF Inv, Typed, Phased, Types
<1>2. CASE env.test
    <2> DEFINE m == [n \in TestNodes |-> EnvInfo(n)]
    <2>1. maps' = [maps EXCEPT !["VNode"] = m] /\ phase' = "ready"
        BY <1>2
    <2>2. Map(env.test, "VNode", m)
        BY <1>2, ContractAssumption DEF Map
    <2> HIDE DEF m
    <2>3. maps' = [type \in Types |-> maps'[type]]
          /\ \A type \in Types : Map(env.test, type, maps'[type])
        BY <2>1, <2>2 DEF Inv, Typed
    <2>4. Typed'
        BY <2>1, <2>3, <1>1 DEF Inv, Typed
    <2>5. Phased'
        BY <1>1, <1>2, <2>1, NoEvents DEF Inv, Phased, Types
    <2>6. QED
        BY <1>2, <2>4, <2>5 DEF Inv
<1>3. CASE ~env.test
    <2>1. phase' = "VNode" /\ maps' = maps
        BY <1>3
    <2>2. Typed'
        BY <2>1, <1>1 DEF Inv, Typed, Types
    <2>3. Phased'
        BY <1>1, <1>3, <2>1, NoEvents DEF Inv, Phased, Types
    <2>4. QED
        BY <2>1, <2>2, <2>3 DEF Inv
<1>4. QED
    BY <1>2, <1>3

\* A node or a type is read: no listener is installed, so there is no event about
\* a node, and what was read is what the contract says.
LEMMA ContinueInv ==
    ASSUME Inv, phase \in Types, NEW rest \in SUBSET DOMAIN status, Continue(rest),
           \A n \in rest : NodeType[n] = phase,
           heard' \subseteq Nodes \union {Params}, Params \in heard' => Params \in heard,
           maps' = [type \in Types |-> maps'[type]],
           \A type \in Types : Map(env.test, type, maps'[type]),
           \A n \in Nodes : n \in DOMAIN maps'[NodeType[n]] => n \in DOMAIN status,
           \A n \in heard' \ {Params} :
            Follows(n, status, events, maps'[NodeType[n]])
    PROVE  Inv'
<1> USE DEF Continue, contract
<1>1. ~env.test /\ ~listening /\ phase \notin {"params", "target", "ready"}
    BY DEF Inv, Phased, Types
<1>2. \A n \in Nodes : About(events, n) = {}
    BY <1>1 DEF Inv, Phased
<1>3. phase' \in Types \union {"ready"} /\ (rest # {} => phase' = phase)
    BY DEF Types
<1>4. Typed'
    BY <1>3 DEF Inv, Typed
<1>5. Phased'
    <2>1. listening' <=> phase' = "ready"
        OBVIOUS
    <2>2. events' = events /\ env' = env
        OBVIOUS
    <2>3. phase' \notin {"params", "target"}
        BY <1>3 DEF Types
    <2>4. QED
        BY <1>1, <1>2, <2>1, <2>2, <2>3 DEF Phased
<1>6. Params \in heard' => ParamsFollow(quorum', events', valPerBlock')
    BY DEF Inv
<1>7. ASSUME NEW n \in Nodes
      PROVE  /\ Known(n, status', events', maps'[NodeType[n]])
             /\ n \in heard' => Follows(n, status', events', maps'[NodeType[n]])
    BY <1>2, ContractAssumption DEF Known
<1>8. QED
    BY <1>4, <1>5, <1>6, <1>7 DEF Inv

LEMMA ListNodesInv == ASSUME Inv, ListNodes PROVE Inv'
<1> DEFINE rest == {n \in DOMAIN status : NodeType[n] = phase}
           absent == {n \in Nodes \ DOMAIN status : NodeType[n] = phase}
<1>1. phase \in Types /\ Continue(rest) /\ maps' = maps /\ heard' = heard \union absent
    BY DEF ListNodes
<1>2. ~env.test /\ \A n \in Nodes : About(events, n) = {}
    BY <1>1 DEF Inv, Phased, Types
<1>3. \A n \in absent : Follows(n, status, events, maps[NodeType[n]])
    <2>1. \A n \in absent : n \in Nodes /\ n \notin DOMAIN maps[NodeType[n]]
        BY <1>2 DEF Inv, Known
    <2>2. QED
        BY <2>1, <1>2, FollowsQuiet
<1>4. \A n \in heard \ {Params} : Follows(n, status, events, maps[NodeType[n]])
    BY <1>2 DEF Inv, Typed
<1>5. rest \in SUBSET DOMAIN status /\ \A n \in rest : NodeType[n] = phase
    OBVIOUS
<1>6. absent \subseteq Nodes /\ Params \notin absent
    BY ContractAssumption
<1> HIDE DEF rest, absent
<1>7. heard' \subseteq Nodes \union {Params} /\ (Params \in heard' => Params \in heard)
    BY <1>1, <1>6 DEF Inv, Typed
<1>8. \A n \in Nodes : n \in DOMAIN maps'[NodeType[n]] => n \in DOMAIN status
    BY <1>1, <1>2 DEF Inv, Known
<1>9. maps' = [type \in Types |-> maps'[type]] /\ \A type \in Types : Map(env.test, type, maps'[type])
    BY <1>1 DEF Inv, Typed
<1>10. QED
    BY <1>1, <1>3, <1>4, <1>5, <1>7, <1>8, <1>9, ContinueInv

LEMMA ReadNodeInv == ASSUME Inv, NEW n \in Nodes, ReadNode(n) PROVE Inv'
<1> DEFINE m == maps[phase]
           m1 == With(m, n, Info(n, status[n]))
<1>1. n \in todo /\ Continue(todo \ {n}) /\ heard' = heard \union {n}
      /\ maps' = [maps EXCEPT ![phase] = m1]
    BY DEF ReadNode
<1>2. n \in DOMAIN status /\ status[n] \in Statuses /\ NodeType[n] = phase /\ phase \in Types
    BY <1>1, ContractAssumption DEF Inv, Typed
<1>3. ~env.test /\ \A k \in Nodes : About(events, k) = {}
    BY <1>2 DEF Inv, Phased, Types
<1>4. Map(env.test, phase, m)
    BY <1>2 DEF Inv, Typed
<1> HIDE DEF m
<1>5. /\ Map(env.test, phase, m1)
      /\ DOMAIN m1 = DOMAIN m \union {n}
      /\ m1[n] = Info(n, status[n])
      /\ \A k \in DOMAIN m \ {n} : m1[k] = m[k]
    BY <1>2, <1>4, WithMap
<1> HIDE DEF m1
<1>6. /\ maps' = [type \in Types |-> maps'[type]]
      /\ maps'[phase] = m1
      /\ \A type \in Types \ {phase} : maps'[type] = maps[type]
      /\ \A type \in Types : Map(env.test, type, maps'[type])
    BY <1>1, <1>2, <1>5 DEF Inv, Typed
<1>7. ASSUME NEW k \in Nodes
      PROVE  /\ k \in DOMAIN maps'[NodeType[k]] => k \in DOMAIN status
             /\ k \in heard' => Follows(k, status, events, maps'[NodeType[k]])
    <2>1. /\ Known(k, status, events, maps[NodeType[k]])
          /\ k \in heard => Follows(k, status, events, maps[NodeType[k]])
        BY <1>3 DEF Inv
    <2>2. NodeType[k] \in Types
        BY ContractAssumption
    <2>3. CASE k = n
        <3>1. Follows(n, status, events, m1)
            BY <1>2, <1>3, <1>5, FollowsQuiet
        <3>2. QED
            BY <2>3, <3>1, <1>2, <1>6
    <2>4. CASE k # n
        <3>1. /\ k \in DOMAIN maps'[NodeType[k]] <=> k \in DOMAIN maps[NodeType[k]]
              /\ k \in DOMAIN maps[NodeType[k]] =>
                    maps'[NodeType[k]][k] = maps[NodeType[k]][k]
            BY <2>2, <2>4, <1>5, <1>6 DEF m
        <3>2. k \in DOMAIN maps'[NodeType[k]] => k \in DOMAIN status
            BY <2>1, <3>1 DEF Known
        <3>3. k \in heard => Follows(k, status, events, maps'[NodeType[k]])
            BY <2>1, <3>1, FollowsSame
        <3>4. QED
            BY <2>4, <3>2, <3>3, <1>1
    <2>5. QED
        BY <2>3, <2>4
<1>8. /\ todo \ {n} \in SUBSET DOMAIN status
      /\ \A k \in todo \ {n} : NodeType[k] = phase
      /\ heard' \subseteq Nodes \union {Params}
      /\ Params \in heard' => Params \in heard
    BY <1>1, ContractAssumption DEF Inv, Typed
<1>9. \A k \in heard' \ {Params} : Follows(k, status, events, maps'[NodeType[k]])
    BY <1>7, <1>8
<1>10. QED
    BY <1>1, <1>2, <1>6, <1>7, <1>8, <1>9, ContinueInv

LEMMA RestartInv == ASSUME Inv, Restart PROVE Inv'
<1> USE DEF Restart, contract
<1>1. NoNodes = [type \in Types |-> NoNodes[type]]
      /\ \A type \in Types : DOMAIN NoNodes[type] = {} /\ Map(env.test, type, NoNodes[type])
    BY DEF NoNodes, Map
<1>2. Typed'
    BY <1>1, NoEvents DEF Inv, Typed
<1>3. Phased'
    BY NoEvents DEF Phased, Types
<1>4. \A n \in Nodes : DOMAIN maps'[NodeType[n]] = {}
    BY <1>1, ContractAssumption
<1>5. QED
    BY <1>2, <1>3, <1>4, NoEvents DEF Inv, Known
-----------------------------------------------------------------------------
(* An event is handled. *)

LEMMA HandleNodeEvent ==
    ASSUME Inv, events # << >>, events' = Tail(events),
           UNCHANGED <<status, quorum, env, phase, todo, listed, listening, heard, valPerBlock>>,
           NEW n \in Nodes, events[1] \in NodeEvent, events[1].node = n,
           NEW m1, Map(env.test, NodeType[n], m1),
           maps' = [maps EXCEPT ![NodeType[n]] = m1],
           DOMAIN m1 \subseteq DOMAIN maps[NodeType[n]] \union {n},
           \A k \in DOMAIN maps[NodeType[n]] \ {n} :
                k \in DOMAIN m1 /\ m1[k] = maps[NodeType[n]][k],
           n \in heard => n \in DOMAIN m1 /\ m1[n] = Info(n, Outcome(events[1]))
    PROVE  Inv'
<1>1. events \in Seq(Event) /\ 1 \in About(events, n) /\ events[1] \notin ParamsEvent
    BY TailAbout, EventKinds DEF Inv, Typed, About
<1>2. listening /\ phase = "ready" /\ ~env.test
    BY <1>1 DEF Inv, Phased
<1>3. /\ maps' = [type \in Types |-> maps'[type]]
      /\ maps'[NodeType[n]] = m1
      /\ \A type \in Types \ {NodeType[n]} : maps'[type] = maps[type]
      /\ \A type \in Types : Map(env.test, type, maps'[type])
    BY ContractAssumption DEF Inv, Typed
<1>4. Typed'
    BY <1>1, <1>3, TailAbout DEF Inv, Typed
<1>5. Phased'
    BY <1>2 DEF Phased, Types
<1>6. Params \in heard' => ParamsFollow(quorum', events', valPerBlock')
    BY <1>1, ParamsFollowHandle DEF Inv
<1>7. ASSUME NEW k \in Nodes
      PROVE  /\ Known(k, status, Tail(events), maps'[NodeType[k]])
             /\ k \in heard => Follows(k, status, Tail(events), maps'[NodeType[k]])
    <2>1. /\ Known(k, status, events, maps[NodeType[k]])
          /\ k \in heard => Follows(k, status, events, maps[NodeType[k]])
        BY <1>2 DEF Inv
    <2>2. NodeType[k] \in Types
        BY ContractAssumption
    <2>3. About(Tail(events), k) # {} => About(events, k) # {}
        BY <1>1, TailAbout DEF About
    <2>4. CASE k = n
        <3>1. Known(k, status, Tail(events), maps'[NodeType[k]])
            BY <2>1, <2>4, <1>1 DEF Known
        <3>2. k \in heard => Follows(n, status, Tail(events), m1)
            BY <2>1, <2>4, <1>1, FollowsHandle
        <3>3. QED
            BY <2>4, <3>1, <3>2, <1>3
    <2>5. CASE k # n
        <3>1. /\ k \in DOMAIN maps'[NodeType[k]] <=> k \in DOMAIN maps[NodeType[k]]
              /\ k \in DOMAIN maps[NodeType[k]] =>
                    maps'[NodeType[k]][k] = maps[NodeType[k]][k]
            BY <2>2, <2>5, <1>3
        <3>2. 1 \notin About(events, k)
            BY <2>5 DEF About
        <3>3. Known(k, status, Tail(events), maps'[NodeType[k]])
            BY <2>1, <2>3, <3>1 DEF Known
        <3>4. k \in heard => Follows(k, status, Tail(events), maps'[NodeType[k]])
            BY <2>1, <3>1, <3>2, <1>1, FollowsHandleOther
        <3>5. QED
            BY <3>3, <3>4
    <2>6. QED
        BY <2>4, <2>5
<1>8. QED
    BY <1>4, <1>5, <1>6, <1>7 DEF Inv

LEMMA HandleEventInv == ASSUME Inv, HandleEvent PROVE Inv'
<1> DEFINE e == events[1]
<1>1. events # << >> /\ events' = Tail(events) /\ Head(events) = e
      /\ UNCHANGED <<status, quorum, env, phase, todo, listed, listening, heard>>
    BY DEF HandleEvent, contract
<1>2. events \in Seq(Event) /\ e \in Event
    BY <1>1 DEF Inv, Typed
<1>3. \/ /\ e.type = "NodeAdded"
         /\ maps' = [maps EXCEPT ![NodeType[e.node]] = With(@, e.node, Info(e.node, OK))]
         /\ valPerBlock' = valPerBlock
      \/ /\ e.type = "NodeStatusChanged"
         /\ maps' = [type \in Types |->
                IF type \in Holder(e.node)
                THEN [maps[type] EXCEPT ![e.node].nodeStatus = e.status] ELSE maps[type]]
         /\ valPerBlock' = valPerBlock
      \/ /\ e.type = "BlockParamsUpdated"
         /\ valPerBlock' = e.valPerBlock
         /\ maps' = maps
    BY <1>1 DEF HandleEvent, GetNodeMapByType
<1> HIDE DEF e
<1>4. CASE e.type = "NodeAdded"
    <2>1. e \in NodeEvent
        BY <1>2, <1>4, EventKinds DEF Event
    <2>2. PICK n \in Nodes : n = e.node
        BY <2>1, EventKinds
    <2> DEFINE m == maps[NodeType[n]]
               m1 == With(m, n, Info(n, OK))
    <2>3. maps' = [maps EXCEPT ![NodeType[n]] = m1] /\ valPerBlock' = valPerBlock
        <3>1. NodeType[n] \in Types
            BY ContractAssumption
        <3>2. QED
            BY <1>3, <1>4, <2>2, <3>1 DEF Inv, Typed
    <2>4. Map(env.test, NodeType[n], m) /\ OK \in Statuses
        BY ContractAssumption DEF Inv, Typed, Statuses, OK
    <2> HIDE DEF m
    <2>5. /\ Map(env.test, NodeType[n], m1)
          /\ DOMAIN m1 = DOMAIN m \union {n}
          /\ m1[n] = Info(n, OK)
          /\ \A k \in DOMAIN m \ {n} : m1[k] = m[k]
        BY <2>4, WithMap
    <2>6. Outcome(e) = OK
        BY <1>4 DEF Outcome
    <2> HIDE DEF m1
    <2>7. QED
        BY <1>1, <2>1, <2>2, <2>3, <2>5, <2>6, HandleNodeEvent DEF e, m
<1>5. CASE e.type = "NodeStatusChanged"
    <2> DEFINE n == e.node
               m == maps[NodeType[n]]
               m1 == IF n \in DOMAIN m THEN [m EXCEPT ![n].nodeStatus = e.status] ELSE m
    <2>1. /\ e \in NodeEvent /\ n \in Nodes /\ NodeType[n] \in Types
          /\ Map(env.test, NodeType[n], m) /\ e.status \in Statuses
        BY <1>2, <1>5, EventKinds, ContractAssumption DEF Inv, Typed, Event
    <2>2. Holder(n) = IF n \in DOMAIN m THEN {NodeType[n]} ELSE {}
        <3>1. \A type \in Types : n \in DOMAIN maps[type] => type = NodeType[n]
            BY DEF Inv, Typed, Map
        <3>2. QED
            BY <2>1, <3>1 DEF Holder, Types
    <2>3. maps' = [maps EXCEPT ![NodeType[n]] = m1] /\ valPerBlock' = valPerBlock
        <3>1. maps' = [type \in Types |->
                IF type \in Holder(n)
                THEN [maps[type] EXCEPT ![n].nodeStatus = e.status] ELSE maps[type]]
            BY <1>3, <1>5
        <3>2. maps = [type \in Types |-> maps[type]]
            BY DEF Inv, Typed
        <3>3. valPerBlock' = valPerBlock
            BY <1>3, <1>5
        <3>4. CASE n \in DOMAIN m
            BY <3>1, <3>2, <3>3, <3>4, <2>1, <2>2
        <3>5. CASE n \notin DOMAIN m
            BY <3>1, <3>2, <3>3, <3>5, <2>1, <2>2
        <3>6. QED
            BY <3>4, <3>5
    <2>4. /\ Map(env.test, NodeType[n], m1)
          /\ DOMAIN m1 = DOMAIN m
          /\ n \in DOMAIN m => m1[n] = Info(n, e.status)
          /\ \A k \in DOMAIN m \ {n} : m1[k] = m[k]
        <3>1. 1 \in About(events, n)
            BY <1>1, <1>2, <2>1, TailAbout DEF About, e
        <3>2. ~env.test
            BY <3>1, <2>1 DEF Inv, Phased
        <3> HIDE DEF m, n
        <3>3. QED
            BY <3>2, <2>1, StatusMap
    <2>5. Outcome(e) = e.status
        BY <1>5 DEF Outcome
    <2>6. n \in heard => n \in DOMAIN m
        <3>1. SUFFICES ASSUME n \in heard, n \notin DOMAIN m PROVE FALSE
            OBVIOUS
        <3>2. 1 \in About(events, n)
            BY <1>1, <1>2, <2>1, TailAbout DEF About, e
        <3>3. ~env.test
            BY <3>2, <2>1 DEF Inv, Phased
        <3>4. Follows(n, status, events, m)
            BY <3>1, <3>3, <2>1 DEF Inv
        <3>5. \E j \in About(events, n) : j < 1
            BY <3>1, <3>2, <3>4, <1>5 DEF Follows, e
        <3>6. About(events, n) \subseteq Nat \ {0}
            BY <1>2 DEF About
        <3>7. QED
            BY <3>5, <3>6
    <2> HIDE DEF m1, m, n
    <2>7. QED
        BY <1>1, <2>1, <2>3, <2>4, <2>5, <2>6, HandleNodeEvent DEF e, n, m
<1>6. CASE e.type = "BlockParamsUpdated"
    <2>1. e \in ParamsEvent /\ maps' = maps /\ valPerBlock' = e.valPerBlock
        BY <1>2, <1>3, <1>6, EventKinds
    <2>2. \A n \in Nodes : 1 \notin About(events, n)
        BY <2>1, EventKinds DEF About, e
    <2>3. Typed'
        BY <1>1, <1>2, <2>1, TailAbout DEF Inv, Typed
    <2>4. \A n \in Nodes : About(Tail(events), n) # {} => About(events, n) # {}
        BY <1>1, <1>2, TailAbout DEF About
    <2>5. Phased'
        BY <1>1, <2>1, <2>4 DEF Inv, Phased
    <2>6. Params \in heard' => ParamsFollow(quorum', events', valPerBlock')
        BY <1>1, <1>2, <2>1, ParamsFollowHandle DEF Inv, e
    <2>7. ASSUME ~env.test, NEW n \in Nodes
          PROVE  /\ Known(n, status, Tail(events), maps[NodeType[n]])
                 /\ n \in heard => Follows(n, status, Tail(events), maps[NodeType[n]])
        <3>1. /\ Known(n, status, events, maps[NodeType[n]])
              /\ n \in heard => Follows(n, status, events, maps[NodeType[n]])
            BY <2>7 DEF Inv
        <3>2. Known(n, status, Tail(events), maps[NodeType[n]])
            BY <3>1, <2>4 DEF Known
        <3>3. QED
            BY <3>1, <3>2, <1>1, <1>2, <2>2, FollowsHandleOther
    <2>8. QED
        BY <1>1, <2>1, <2>3, <2>5, <2>6, <2>7 DEF Inv
<1>7. QED
    BY <1>3, <1>4, <1>5, <1>6
-----------------------------------------------------------------------------
LEMMA NextInv == Inv /\ [NextContractState]_contractVars => Inv'
<1> SUFFICES ASSUME Inv, [NextContractState]_contractVars PROVE Inv'
    OBVIOUS
<1>1. ASSUME NEW n \in Nodes, AddNode(n) PROVE Inv'
    BY <1>1, AddNodeInv
<1>2. ASSUME NEW n \in Nodes, NEW s \in NewStatuses, ChangeStatus(n, s) PROVE Inv'
    BY <1>2, ChangeStatusInv, ContractAssumption
<1>3. ASSUME NEW q \in Quorums, UpdateBlockParams(q) PROVE Inv'
    BY <1>3, UpdateBlockParamsInv
<1>4. CASE ReadParams
    BY <1>4, ReadParamsInv
<1>5. CASE SubscribeParams
    BY <1>5, SubscribeParamsInv
<1>6. CASE ListNodes
    BY <1>6, ListNodesInv
<1>7. ASSUME NEW n \in Nodes, ReadNode(n) PROVE Inv'
    BY <1>7, ReadNodeInv
<1>8. CASE HandleEvent
    BY <1>8, HandleEventInv
<1>9. CASE Restart
    BY <1>9, RestartInv
<1>10. CASE UNCHANGED contractVars
    BY <1>10 DEF contractVars, contract, client, Inv, Typed, Phased
<1>11. QED
    BY <1>1, <1>2, <1>3, <1>4, <1>5, <1>6, <1>7, <1>8, <1>9, <1>10
    DEF NextContractState, ChangeContract, Connect

LEMMA InvImplies == Inv => MapsFollowContract
<1> SUFFICES ASSUME Inv, phase = "ready", events = << >>
             PROVE  /\ Params \in heard => valPerBlock = quorum
                    /\ ~env.test => \A n \in heard \ {Params} :
                        /\ n \in DOMAIN maps[NodeType[n]] <=> n \in DOMAIN status
                        /\ n \in DOMAIN status => maps[NodeType[n]][n] = Info(n, status[n])
    BY DEF MapsFollowContract
<1>1. Params \in heard => valPerBlock = quorum
    BY NoEvents DEF Inv, ParamsFollow
<1>2. ASSUME ~env.test, NEW n \in heard \ {Params}
      PROVE  /\ n \in DOMAIN maps[NodeType[n]] <=> n \in DOMAIN status
             /\ n \in DOMAIN status => maps[NodeType[n]][n] = Info(n, status[n])
    <2>1. n \in Nodes
        BY DEF Inv, Typed
    <2>2. /\ Known(n, status, events, maps[NodeType[n]])
          /\ Follows(n, status, events, maps[NodeType[n]])
        BY <1>2, <2>1 DEF Inv
    <2>3. QED
        BY <2>2, NoEvents DEF Known, Follows
<1>3. QED
    BY <1>1, <1>2

\* Once the events under way are handled, the copy of what was not changed
\* between its read and the installation of its listener is what the contract
\* says, whatever the order of requests, changes, events and restarts
\* (validator-contract-state.service.ts 256-402).
THEOREM CopyFollowsContract == ContractSpec => []MapsFollowContract
<1>1. QED
    BY InitInv, NextInv, InvImplies, PTL DEF ContractSpec
-----------------------------------------------------------------------------
(* Types *)

\* What Inv leaves open: the bounds, and what a process of the tests holds.
Bounded ==
    /\ quorum \in Quorums
    /\ changes \in 0..MaxChanges
    /\ Len(events) <= changes
    /\ env \in Environments
    /\ listed \in BOOLEAN
    /\ env.test => \A type \in Types : \A n \in DOMAIN maps[type] : maps[type][n] = EnvInfo(n)
    /\ valPerBlock \in Quorums \union {0}
    /\ phase # "params" => valPerBlock \in Quorums

LEMMA InitBounded == InitContractState => Bounded
<1> SUFFICES ASSUME InitContractState PROVE Bounded
    OBVIOUS
<1>1. \A type \in Types : DOMAIN maps[type] = {}
    BY DEF InitContractState, NoNodes
<1>2. changes \in 0..MaxChanges /\ Len(events) <= changes
    BY ContractAssumption DEF InitContractState
<1> QED
    BY <1>1, <1>2 DEF InitContractState, Bounded

LEMMA EmitBounded ==
    ASSUME Typed, Bounded, NEW what, NEW event, NEW heardOf, Emit(what, event, heardOf),
           quorum' \in Quorums
    PROVE  Bounded'
<1>1. /\ events' = Append(events, event) \/ events' = events
      /\ changes < MaxChanges /\ changes' = changes + 1
      /\ UNCHANGED <<env, phase, todo, listed, listening, maps, valPerBlock>>
    BY DEF Emit, client
<1>2. Len(events') <= changes'
    <2>1. Len(events) \in Nat /\ Len(Append(events, event)) = Len(events) + 1
        BY DEF Typed
    <2> QED
        BY <1>1, <2>1, ContractAssumption DEF Bounded
<1>3. changes' \in 0..MaxChanges
    BY <1>1, ContractAssumption DEF Bounded
<1> QED
    BY <1>1, <1>2, <1>3 DEF Bounded

LEMMA HandleEventBounded ==
    ASSUME Inv, Bounded, HandleEvent
    PROVE  Bounded'
<1>1. /\ events # << >> /\ events' = Tail(events)
      /\ UNCHANGED <<contract, env, phase, todo, listed, listening, heard>>
      /\ events \in Seq(Event)
    BY DEF HandleEvent, Inv, Typed
<1>2. /\ Len(Tail(events)) = Len(events) - 1 /\ Len(events) \in Nat
      /\ Head(events) = events[1] /\ events[1] \in Event /\ 1 \in DOMAIN events
    BY <1>1
<1>3. Len(events') <= changes'
    BY <1>1, <1>2, ContractAssumption DEF Bounded, contract
<1>4. CASE events[1] \in ParamsEvent
    <2>1. events[1].valPerBlock \in Quorums /\ events[1].type = "BlockParamsUpdated"
        BY <1>4 DEF ParamsEvent
    <2>2. UNCHANGED maps /\ valPerBlock' \in Quorums
        BY <1>2, <2>1 DEF HandleEvent
    <2> QED
        BY <1>1, <1>3, <2>2 DEF Bounded, contract
<1>5. CASE events[1] \in NodeEvent
    <2>1. events[1].node \in Nodes /\ events[1].type \in {"NodeAdded", "NodeStatusChanged"}
        BY <1>5, EventKinds
    <2>2. ~env.test
        BY <1>2, <1>5, <2>1 DEF Inv, Phased, About
    <2>3. UNCHANGED valPerBlock
        BY <1>2, <2>1 DEF HandleEvent
    <2> QED
        BY <1>1, <1>3, <2>2, <2>3 DEF Bounded, contract
<1> QED
    BY <1>2, <1>4, <1>5 DEF Event

LEMMA NextBounded == Inv /\ Bounded /\ [NextContractState]_contractVars => Bounded'
<1> SUFFICES ASSUME Inv, Bounded, [NextContractState]_contractVars PROVE Bounded'
    OBVIOUS
<1> USE DEF contract
<1>1. ASSUME NEW n \in Nodes, AddNode(n) PROVE Bounded'
    BY <1>1, EmitBounded DEF AddNode, Inv, Bounded
<1>2. ASSUME NEW n \in Nodes, NEW s \in NewStatuses, ChangeStatus(n, s) PROVE Bounded'
    BY <1>2, EmitBounded DEF ChangeStatus, Inv, Bounded
<1>3. ASSUME NEW q \in Quorums, UpdateBlockParams(q) PROVE Bounded'
    BY <1>3, EmitBounded DEF UpdateBlockParams, Inv
<1>4. CASE ReadParams
    BY <1>4 DEF ReadParams, Bounded
<1>5. CASE SubscribeParams
    <2>1. /\ phase = "target" /\ UNCHANGED <<quorum, changes, events, env, listed, valPerBlock>>
        BY <1>5 DEF SubscribeParams
    <2>2. CASE env.test
        <3>1. /\ maps' = [maps EXCEPT !["VNode"] = [n \in TestNodes |-> EnvInfo(n)]]
              /\ maps = [type \in Types |-> maps[type]]
            BY <1>5, <2>2 DEF SubscribeParams, Inv, Typed
        <3>2. \A type \in Types : \A n \in DOMAIN maps'[type] : maps'[type][n] = EnvInfo(n)
            BY <2>2, <3>1 DEF Bounded
        <3> QED
            BY <2>1, <3>2 DEF Bounded
    <2>3. CASE ~env.test
        BY <2>1, <2>3 DEF Bounded
    <2> QED
        BY <2>2, <2>3
<1>6. ASSUME NEW rest, Continue(rest) PROVE
        /\ UNCHANGED <<quorum, changes, events, env, valPerBlock>>
        /\ listed' \in BOOLEAN
    BY <1>6 DEF Continue
<1>7. CASE ListNodes
    <2>1. phase \in Types /\ UNCHANGED maps
        BY <1>7 DEF ListNodes
    <2>2. UNCHANGED <<quorum, changes, events, env, valPerBlock>> /\ listed' \in BOOLEAN
        BY <1>6, <1>7 DEF ListNodes
    <2>3. phase # "params"
        BY <2>1 DEF Types
    <2> QED
        BY <2>1, <2>2, <2>3 DEF Bounded
<1>8. ASSUME NEW n \in Nodes, ReadNode(n) PROVE Bounded'
    <2>1. n \in todo
        BY <1>8 DEF ReadNode
    <2>2. phase \in Types
        BY <2>1, ContractAssumption DEF Inv, Typed
    <2>3. UNCHANGED <<quorum, changes, events, env, valPerBlock>> /\ listed' \in BOOLEAN
        BY <1>6, <1>8 DEF ReadNode
    <2>4. ~env.test /\ phase # "params"
        BY <2>2 DEF Inv, Phased, Types
    <2> QED
        BY <2>3, <2>4 DEF Bounded
<1>9. CASE HandleEvent
    BY <1>9, HandleEventBounded
<1>10. CASE Restart
    <2>1. \A type \in Types : DOMAIN maps'[type] = {}
        BY <1>10 DEF Restart, NoNodes
    <2>2. /\ UNCHANGED <<quorum, changes, env>> /\ Len(events') = 0 /\ phase' = "params"
          /\ listed' = FALSE /\ valPerBlock' = 0
        BY <1>10 DEF Restart
    <2>3. Len(events') <= changes' /\ listed' \in BOOLEAN
        <3>1. changes' >= 0
            BY <2>2, ContractAssumption DEF Bounded
        <3> QED
            BY <2>2, <3>1
    <2>4. /\ env'.test => \A type \in Types : \A n \in DOMAIN maps'[type] :
                maps'[type][n] = EnvInfo(n)
          /\ valPerBlock' \in Quorums \union {0}
          /\ phase' # "params" => valPerBlock' \in Quorums
          /\ env' \in Environments /\ quorum' \in Quorums /\ changes' \in 0..MaxChanges
        BY <2>1, <2>2 DEF Bounded
    <2> QED
        BY <2>3, <2>4 DEF Bounded
<1>11. CASE UNCHANGED contractVars
    BY <1>11 DEF contractVars, client, Bounded
<1> QED
    BY <1>1, <1>2, <1>3, <1>4, <1>5, <1>7, <1>8, <1>9, <1>10, <1>11
    DEF NextContractState, ChangeContract, Connect

LEMMA ContractTyped == Inv /\ Bounded => ContractTypeOK
<1> SUFFICES ASSUME Inv, Bounded PROVE ContractTypeOK
    OBVIOUS
<1>1. Len(events) <= MaxChanges
    BY ContractAssumption DEF Inv, Typed, Bounded
<1>2. ASSUME NEW type \in Types, NEW n \in DOMAIN maps[type]
      PROVE  /\ maps[type][n] \in IF env.test THEN {EnvInfo(n)} ELSE {Info(n, s) : s \in Statuses}
             /\ NodeType[n] = type
    BY DEF Inv, Typed, Map, Bounded
<1> QED
    BY <1>1, <1>2 DEF Inv, Typed, Bounded, ContractTypeOK

\* Every node is in the map of its type with what is known of it, whatever the
\* environment, the order of requests and events, and the restarts
\* (validator-contract-state.service.ts 246-402).
THEOREM ContractTypeCorrect == ContractSpec => []ContractTypeOK
<1>1. QED
    BY InitInv, NextInv, InitBounded, NextBounded, ContractTyped, PTL DEF ContractSpec
=============================================================================
