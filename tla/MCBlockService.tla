--------------------------- MODULE MCBlockService --------------------------
(* An instance of BlockService for TLC: three blocks, two of one time. *)
EXTENDS BlockService, TLC

CONSTANTS b1, b2, b3, t1, t2, t3, t4, n1, alice, bob, chat, push1, junk

BlockTxs == b1 :> <<t1, t2>> @@ b2 :> <<t3>> @@ b3 :> <<t2, t4>>
BlockSigners == b1 :> <<n1>> @@ b2 :> <<n1>> @@ b3 :> <<n1>>
BlockTs == b1 :> 1 @@ b2 :> 2 @@ b3 :> 2
TxCategory == t1 :> chat @@ t2 :> chat @@ t3 :> push1 @@ t4 :> chat
TxSender == t1 :> alice @@ t2 :> bob @@ t3 :> alice @@ t4 :> alice
TxRecipients == t1 :> {bob} @@ t2 :> {alice} @@ t3 :> {bob} @@ t4 :> {}

\* Boundaries: the default DESC from time 0, page 0, a page size below the
\* number of rows, and filters one at a time.
SomeRequests ==
    LET R(method, params) == params @@ (("method" :> method) @@ Defaults) IN
    {R("getBlocks", [startTime |-> 2, showDetails |-> TRUE, pageSize |-> 1]),
     R("getBlocks", [page |-> 0]),
     R("getBlockByHash", [hash |-> b1, showDetails |-> TRUE]),
     R("getTxs", [startTime |-> 1, direction |-> "ASC", category |-> chat]),
     R("getTxs", [startTime |-> 1, direction |-> "ASC", user |-> alice]),
     R("getTxs", [startTime |-> 2, sender |-> alice, recipient |-> bob]),
     R("getTxByHash", [hash |-> t2]),
     R("searchByAddress", [startTime |-> 2, hash |-> alice, recipient |-> alice]),
     R("getBlockHashesInternal", [startTime |-> 1, direction |-> "ASC", page |-> 0,
                                  pageSize |-> 1]),
     R("push_getTransactions", [startTime |-> 3, category |-> chat, user |-> alice]),
     R("push_putBlockHash", [hashes |-> <<b1, junk, b3>>])}
=============================================================================
