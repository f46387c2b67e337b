CONSTANTS
    v1 = v1
    v2 = v2
    v3 = v3
    s1 = s1
    a1 = a1
    VT1 = VT1
    AT1 = AT1
    key1 = key1
    evm1 = evm1
    salt1 = salt1
    data1 = data1
    data2 = data2
    NoBytes = NoBytes
    NoText = NoText
    Null = Null
    NoUrl = NoUrl
    Stranger = Stranger
    Nodes = {v1, v2, v3, a1}
    NodeType <- MCNodeType
    ApiUrl <- MCApiUrl
    Registered = {v1, v2}
    Quorums = {1, 3}
    Environments <- MCEnvironments
    TestNodes = {v1}
    NewStatuses = {3}
    MaxChanges = 2
    ValidatorTokens = {VT1}
    AttestTokens = {AT1}
    Short = {}
    AddressOf <- MCAddressOf
    EvmOfPush <- MCEvmOfPush
    MaxTxSize = 9
    MaxTotalSize = 18
    MaxTxs = 3
    Blocks <- MCBlocks
    Ballots <- MCBallots
    Recoded <- MCRecoded

SPECIFICATION Spec
INVARIANTS
    TypeOK
    MapsFollowContract
PROPERTIES
    AssembledIsAccepted
    AcceptedIsAsSigned
