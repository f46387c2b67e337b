\* Three calls in flight, every failure, blocks with common transactions.
SPECIFICATION Spec
CONSTANTS
    b1 = b1  b2 = b2  b3 = b3
    t1 = t1  t2 = t2  t3 = t3  t4 = t4
    n1 = n1  n2 = n2
    NoBlock = NoBlock
    Calls = {c1, c2, c3}
    Blocks = {b1, b2, b3}
    Txs = {t1, t2, t3}
    Nodes = {n1, n2}
    TxobjList <- SharedTxs
    Signers <- SomeSigners
    ValPerBlocks = {1, 2}
    Failures = TRUE
SYMMETRY CallSymmetry
INVARIANTS
    TypeOK
    RowsReferToStoredBlocks
    AllOrNothing
    EventsMatchTables
    AnnouncedOnce
    AcksAreDurable
    InductiveInv
PROPERTIES
    InsertedUnderKnownSigners
    ImplementsArchiveLog
