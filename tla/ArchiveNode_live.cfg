\* No failures: every call returns, and what is valid is stored and announced.
SPECIFICATION FairSpec
CONSTANTS
    b1 = b1  b2 = b2  b3 = b3
    t1 = t1  t2 = t2  t3 = t3  t4 = t4
    n1 = n1  n2 = n2
    NoBlock = NoBlock
    Calls = {c1, c2}
    Blocks = {b1, b2, b3}
    Txs = {t1, t2, t3, t4}
    Nodes = {n1, n2}
    TxobjList <- OneDisjoint
    Signers <- SomeSigners
    ValPerBlocks = {1, 2}
    Failures = FALSE
INVARIANT DisjointBlocksAreComplete
PROPERTIES
    EveryCallReturns
    ValidatedIsStored
    DisjointBlocksAreAnnounced
