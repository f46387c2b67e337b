------------------------- MODULE MCBlockAcceptance --------------------------
EXTENDS BlockAcceptance

CONSTANTS v1, v2, v3, s1, a1, VT1, AT1, key1, evm1, salt1, data1, data2

MCNodeType == [n \in Nodes |->
    CASE n \in {v1, v2, v3} -> "VNode" [] n = s1 -> "SNode" [] n = a1 -> "ANode"]
Url(scheme, local) == [parsable |-> TRUE, long |-> FALSE, scheme |-> scheme, local |-> local]
MCApiUrl == [n \in Nodes |->
    CASE n = v1 -> Url("http", FALSE) [] n = v2 -> Url("http", TRUE)
      [] n = s1 -> [Url("https", FALSE) EXCEPT !.long = TRUE]
      [] OTHER -> Url("https", FALSE)]
MCEnvironments == {[archival |-> TRUE, test |-> FALSE], [archival |-> FALSE, test |-> TRUE]}

push1 == "push1abcd"
MCAddressOf == key1 :> evm1
MCEvmOfPush == push1 :> evm1

Sender == <<"eip155", "1", "0xAbcdef">>
PushSender == <<"push", "devnet", push1>>
PlainTx == SignTx(
    [type |-> 0, category |-> "CUSTOM:A", sender |-> Sender, recipients |-> <<Sender>>,
     data |-> data1, salt |-> salt1, apitoken |-> VT1, signature |-> NoBytes, fee |-> NoText],
    "0xAbcdef")
Did == InitDidBytes(
    [masterpubkey |-> key1, derivedkeyindex |-> 0, derivedpubkey |-> "derived",
     wallettoencderivedkey |-> Sender :>
        [encderivedprivkey |-> Null,
         signature |-> SignBytes("0xAbcdef", Hash("connect", key1))]])
DidTx == SignTx([PlainTx EXCEPT !.category = "INIT_DID", !.sender = PushSender, !.data = Did,
                                !.signature = NoBytes], evm1)
UnsaltedTx == SignTx([PlainTx EXCEPT !.salt = NoBytes, !.signature = NoBytes], "0xAbcdef")

Unsigned0(txs, ts) ==
    [ts |-> ts, attesttoken |-> AT1, signers |-> << >>,
     txobj |-> Each(txs, LAMBDA tx : [tx |-> tx, validatordata |-> Null, attestordata |-> << >>])]
MCBlocks == {Unsigned0(<<PlainTx, DidTx>>, 1), Unsigned0(<<UnsaltedTx>>, 2)}
MCBallots == {<<Accepted, Accepted>>, <<Accepted, Rejected>>}

\* The bytes of a nested message, changed by Change.
At(bytes, i, Change(_)) == [bytes EXCEPT ![i][2] = Change(@)]
FirstOf(bytes, no) == SelectInSeq(bytes, LAMBDA f : f[1] = no)
LastOf(bytes, no) == SelectLastInSeq(bytes, LAMBDA f : f[1] = no)

\* Another order of the fields with an unknown one and one that is written
\* twice; the loss of a signature, a transaction or an attestation, an additional
\* attestation, other data of a transaction, signatures in another order.
MCRecoded(b) ==
    LET tx == FirstOf(b, 2)
        DropLast(m) == SubSeq(m, 1, Len(m) - 1)
        AddVote(m) == Append(m, <<3, TxAttestorDataBytes([vote |-> Rejected])>>)
        OtherData(m) == At(m, 1, LAMBDA t : At(t, SelectInSeq(t, LAMBDA f : f[1] = 5),
                                               LAMBDA d : data2))
    IN  {<<<<1, 3>>>> \o Tail(b) \o <<b[1], <<9, data2>>>>,
         DropLast(b), RemoveAt(b, LastOf(b, 2)),
         At(b, tx, DropLast), At(b, tx, AddVote), At(b, tx, OtherData),
         DropLast(DropLast(b)) \o <<b[Len(b)], b[Len(b) - 1]>>}
=============================================================================
