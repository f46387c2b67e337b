\* One request while another caller stores blocks and the database may fail.
SPECIFICATION ServiceSpec
CONSTANTS
    b1 = b1  b2 = b2  b3 = b3
    t1 = t1  t2 = t2  t3 = t3  t4 = t4
    n1 = n1  alice = alice  bob = bob  chat = chat  push1 = push1  junk = junk
    NoBlock = NoBlock
    None = None
    Calls = {c1, p}
    PushCall = p
    Blocks = {b1, b2, b3}
    Txs = {t1, t2, t3, t4}
    Nodes = {n1}
    TxobjList <- BlockTxs
    Signers <- BlockSigners
    ValPerBlocks = {1}
    Failures = TRUE
    Ts <- BlockTs
    CategoryOf <- TxCategory
    SenderOf <- TxSender
    RecipientsOf <- TxRecipients
    Requests <- SomeRequests
    Malformed = junk
    CursorSize = 1
INVARIANTS
    ServiceTypeOK
    AnswersAreWhole
    PagesCoverStoredBlocks
    CursorCoversStoredTxs
    PushedIsStored
