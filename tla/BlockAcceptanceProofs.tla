----------------------- MODULE BlockAcceptanceProofs ------------------------
(***************************************************************************)
(* Theorems about BlockAcceptance, for any nodes, blocks, votes and forms  *)
(* of bytes.  They rest on the round trip of PushMessagesProofs, by which  *)
(* a signature over bytes is one over a block, and on the invariant of     *)
(* ValidatorContractStateProofs.                                           *)
(***************************************************************************)
EXTENDS BlockAcceptance, PushMessagesProofs, ValidatorContractStateProofs

(* What is signed *)

\* What a producer signs: a block without signers and attestations.
Bare(b) ==
    [ts |-> b.ts, attesttoken |-> b.attesttoken,
     txobj |-> [i \in DOMAIN b.txobj |->
        [tx |-> b.txobj[i].tx, validatordata |-> b.txobj[i].validatordata,
         attestordata |-> << >>]],
     signers |-> << >>]

\* What an attestor signs: the producer's signature and its own votes.
WithVotes(b, votes) ==
    [ts |-> b.ts, attesttoken |-> b.attesttoken,
     txobj |-> [i \in DOMAIN b.txobj |->
        [tx |-> b.txobj[i].tx, validatordata |-> b.txobj[i].validatordata,
         attestordata |-> <<votes[i]>>]],
     signers |-> <<b.signers[1]>>]

\* What a proper block consists of.
LEMMA BlockForm ==
    ASSUME NEW b, IsBlock(b)
    PROVE  /\ b = [ts |-> b.ts, attesttoken |-> b.attesttoken, txobj |-> b.txobj,
                   signers |-> b.signers]
           /\ IsList(b.txobj) /\ IsList(b.signers)
           /\ Len(b.txobj) \in Nat /\ DOMAIN b.txobj = 1..Len(b.txobj)
           /\ b.txobj = [i \in 1..Len(b.txobj) |-> b.txobj[i]]
           /\ Len(b.signers) \in Nat /\ DOMAIN b.signers = 1..Len(b.signers)
           /\ b.signers = [i \in 1..Len(b.signers) |-> b.signers[i]]
           /\ \A i \in DOMAIN b.signers : b.signers[i] = [sig |-> b.signers[i].sig]
           /\ \A i \in DOMAIN b.txobj :
                /\ IsTransactionObj(b.txobj[i])
                /\ b.txobj[i] = [tx |-> b.txobj[i].tx,
                                 validatordata |-> b.txobj[i].validatordata,
                                 attestordata |-> b.txobj[i].attestordata]
                /\ IsList(b.txobj[i].attestordata)
                /\ Len(b.txobj[i].attestordata) \in Nat
                /\ DOMAIN b.txobj[i].attestordata = 1..Len(b.txobj[i].attestordata)
<1>1. \A i \in DOMAIN b.txobj :
        /\ IsTransactionObj(b.txobj[i])
        /\ b.txobj[i] = [tx |-> b.txobj[i].tx, validatordata |-> b.txobj[i].validatordata,
                         attestordata |-> b.txobj[i].attestordata]
        /\ IsList(b.txobj[i].attestordata)
    BY DEF IsBlock, IsTransactionObj
<1>2. \A i \in DOMAIN b.signers : b.signers[i] = [sig |-> b.signers[i].sig]
    BY DEF IsBlock, IsSigner
<1> QED
    BY <1>1, <1>2, ListForm DEF IsBlock

\* The lists of no and of one element.
LEMMA Singletons ==
    /\ \A x : IsList(<<x>>) /\ Len(<<x>>) = 1 /\ \A k \in DOMAIN <<x>> : k = 1 /\ <<x>>[k] = x
    /\ IsList(<< >>) /\ DOMAIN << >> = {} /\ Len(<< >>) = 0
BY ShortLists

\* A list that is not empty has a first element.
LEMMA SomeSigner ==
    ASSUME NEW s, IsList(s), s # << >>
    PROVE  1 \in DOMAIN s /\ Len(s) >= 1
<1>1. Len(s) # 0
    BY ListForm, Singletons, SameList
<1> QED
    BY <1>1, ListForm

\* A transaction with another list of attestations.
LEMMA Reattested ==
    ASSUME NEW t, IsTransactionObj(t), NEW atts, IsList(atts),
           \A i \in DOMAIN atts : IsTxAttestorData(atts[i])
    PROVE  /\ [t EXCEPT !.attestordata = atts] =
                [tx |-> t.tx, validatordata |-> t.validatordata, attestordata |-> atts]
           /\ IsTransactionObj([tx |-> t.tx, validatordata |-> t.validatordata,
                                attestordata |-> atts])
<1>1. t = [tx |-> t.tx, validatordata |-> t.validatordata, attestordata |-> t.attestordata]
    BY DEF IsTransactionObj
<1>2. [t EXCEPT !.attestordata = atts] =
        [tx |-> t.tx, validatordata |-> t.validatordata, attestordata |-> atts]
    BY <1>1
<1> QED
    BY <1>2 DEF IsTransactionObj

\* A block from its parts.
LEMMA BlockOfParts ==
    ASSUME NEW ts, NEW token, NEW n \in Nat, NEW txs, NEW signers,
           txs = [i \in 1..n |-> txs[i]], \A i \in 1..n : IsTransactionObj(txs[i]),
           IsList(signers), \A i \in DOMAIN signers : IsSigner(signers[i]),
           NEW b, b = [ts |-> ts, attesttoken |-> token, txobj |-> txs, signers |-> signers]
    PROVE  IsBlock(b)
<1>1. IsList(txs)
    BY ListForm
<1>2. DOMAIN txs = 1..n
    OBVIOUS
<1> QED
    BY <1>1, <1>2 DEF IsBlock

\* What a producer signs is a block.
LEMMA BareIsBlock ==
    ASSUME NEW b, IsBlock(b)
    PROVE  IsBlock(Bare(b))
<1> DEFINE txs == Bare(b).txobj
           n == Len(b.txobj)
<1>1. txs = [i \in 1..n |-> [tx |-> b.txobj[i].tx, validatordata |-> b.txobj[i].validatordata,
                             attestordata |-> << >>]]
    BY BlockForm DEF Bare
<1>2. ASSUME NEW i \in 1..n PROVE IsTransactionObj(txs[i])
    <2>1. IsList(<< >>) /\ \A k \in DOMAIN << >> : IsTxAttestorData(<< >>[k])
        BY Singletons
    <2>2. IsTransactionObj(b.txobj[i])
        BY BlockForm
    <2>3. IsTransactionObj([tx |-> b.txobj[i].tx, validatordata |-> b.txobj[i].validatordata,
                            attestordata |-> << >>])
        BY <2>1, <2>2, Reattested
    <2> QED
        BY <1>1, <2>3
<1>3. Bare(b) = [ts |-> b.ts, attesttoken |-> b.attesttoken, txobj |-> txs, signers |-> << >>]
    BY DEF Bare
<1>4. txs = [i \in 1..n |-> txs[i]]
    BY <1>1
<1>5. n \in Nat /\ IsList(<< >>) /\ \A k \in DOMAIN << >> : IsSigner(<< >>[k])
    BY BlockForm, Singletons
<1> HIDE DEF txs, n
<1> QED
    BY <1>2, <1>3, <1>4, <1>5, BlockOfParts

\* What an attestor signs is a block.
LEMMA WithVotesIsBlock ==
    ASSUME NEW b, IsBlock(b), b.signers # << >>, NEW votes,
           \A i \in DOMAIN b.txobj : IsTxAttestorData(votes[i])
    PROVE  IsBlock(WithVotes(b, votes))
<1> DEFINE txs == WithVotes(b, votes).txobj
           n == Len(b.txobj)
<1>1. txs = [i \in 1..n |-> [tx |-> b.txobj[i].tx, validatordata |-> b.txobj[i].validatordata,
                             attestordata |-> <<votes[i]>>]]
    BY BlockForm DEF WithVotes
<1>2. ASSUME NEW i \in 1..n PROVE IsTransactionObj(txs[i])
    <2>1. IsList(<<votes[i]>>) /\ \A k \in DOMAIN <<votes[i]>> : IsTxAttestorData(<<votes[i]>>[k])
        BY BlockForm, Singletons
    <2>2. IsTransactionObj(b.txobj[i])
        BY BlockForm
    <2> DEFINE atts == <<votes[i]>>
    <2>3. txs[i] = [tx |-> b.txobj[i].tx, validatordata |-> b.txobj[i].validatordata,
                    attestordata |-> atts]
        BY <1>1
    <2> HIDE DEF atts, txs
    <2>4. IsTransactionObj([tx |-> b.txobj[i].tx, validatordata |-> b.txobj[i].validatordata,
                            attestordata |-> atts])
        BY <2>1, <2>2, Reattested DEF atts
    <2> QED
        BY <2>3, <2>4
<1>3. WithVotes(b, votes) = [ts |-> b.ts, attesttoken |-> b.attesttoken, txobj |-> txs,
                             signers |-> <<b.signers[1]>>]
    BY DEF WithVotes
<1>4. txs = [i \in 1..n |-> txs[i]]
    BY <1>1
<1>5. IsSigner(b.signers[1])
    <2>1. 1 \in DOMAIN b.signers
        BY BlockForm, SomeSigner
    <2> QED
        BY <2>1 DEF IsBlock
<1>6. IsList(<<b.signers[1]>>) /\ \A i \in DOMAIN <<b.signers[1]>> : IsSigner(<<b.signers[1]>>[i])
    BY <1>5, Singletons
<1>7. n \in Nat
    BY BlockForm
<1> HIDE DEF txs, n
<1> QED
    BY <1>2, <1>3, <1>4, <1>6, <1>7, BlockOfParts
-----------------------------------------------------------------------------
(* The functions of blockUtil.ts on proper blocks *)

\* A block with other signers, other transactions, or both.
LEMMA SignersExcept ==
    ASSUME NEW b, IsBlock(b), NEW signers
    PROVE  [b EXCEPT !.signers = signers] =
            [ts |-> b.ts, attesttoken |-> b.attesttoken, txobj |-> b.txobj, signers |-> signers]
<1>1. b = [ts |-> b.ts, attesttoken |-> b.attesttoken, txobj |-> b.txobj, signers |-> b.signers]
    BY DEF IsBlock
<1> QED
    BY <1>1

\* See SignersExcept.
LEMMA TxobjExcept ==
    ASSUME NEW b, IsBlock(b), NEW txs
    PROVE  [b EXCEPT !.txobj = txs] =
            [ts |-> b.ts, attesttoken |-> b.attesttoken, txobj |-> txs, signers |-> b.signers]
<1>1. b = [ts |-> b.ts, attesttoken |-> b.attesttoken, txobj |-> b.txobj, signers |-> b.signers]
    BY DEF IsBlock
<1> QED
    BY <1>1

\* See SignersExcept.
LEMMA BothExcept ==
    ASSUME NEW b, IsBlock(b), NEW signers, NEW txs
    PROVE  [b EXCEPT !.signers = signers, !.txobj = txs] =
            [ts |-> b.ts, attesttoken |-> b.attesttoken, txobj |-> txs, signers |-> signers]
<1> DEFINE c == [b EXCEPT !.signers = signers]
<1>1. [b EXCEPT !.signers = signers, !.txobj = txs] = [c EXCEPT !.txobj = txs]
    OBVIOUS
<1>2. c = [ts |-> b.ts, attesttoken |-> b.attesttoken, txobj |-> b.txobj,
           signers |-> signers]
    BY SignersExcept
<1> HIDE DEF c
<1>3. [c EXCEPT !.txobj = txs] =
        [ts |-> b.ts, attesttoken |-> b.attesttoken, txobj |-> txs, signers |-> signers]
    BY <1>2
<1> QED
    BY <1>1, <1>3

\* A transaction of a block with other attestations.
LEMMA TxExcept ==
    ASSUME NEW b, IsBlock(b), NEW i \in DOMAIN b.txobj, NEW atts
    PROVE  [b.txobj[i] EXCEPT !.attestordata = atts] =
            [tx |-> b.txobj[i].tx, validatordata |-> b.txobj[i].validatordata,
             attestordata |-> atts]
<1> DEFINE t == b.txobj[i]
<1>1. t = [tx |-> t.tx, validatordata |-> t.validatordata, attestordata |-> t.attestordata]
    BY BlockForm
<1> HIDE DEF t
<1>2. [t EXCEPT !.attestordata = atts] =
        [tx |-> t.tx, validatordata |-> t.validatordata, attestordata |-> atts]
    BY <1>1
<1> QED
    BY <1>2 DEF t

\* WithAttestation gives what an attestor signs.
LEMMA AttestedForm ==
    ASSUME NEW b, IsBlock(b), NEW votes
    PROVE  WithAttestation([b EXCEPT !.signers = <<b.signers[1]>>], votes) = WithVotes(b, votes)
<1> DEFINE c == [b EXCEPT !.signers = <<b.signers[1]>>]
           n == Len(b.txobj)
<1>1. c = [ts |-> b.ts, attesttoken |-> b.attesttoken, txobj |-> b.txobj,
           signers |-> <<b.signers[1]>>]
    BY SignersExcept
<1> HIDE DEF c
<1> DEFINE txs == [i \in DOMAIN c.txobj |-> [c.txobj[i] EXCEPT !.attestordata = <<votes[i]>>]]
<1>2. WithAttestation(c, votes) = [c EXCEPT !.txobj = txs]
    BY DEF WithAttestation
<1>3. txs = [i \in DOMAIN b.txobj |->
                [tx |-> b.txobj[i].tx, validatordata |-> b.txobj[i].validatordata,
                 attestordata |-> <<votes[i]>>]]
    <2>1. c.txobj = b.txobj
        BY <1>1
    <2>2. \A i \in DOMAIN b.txobj : [b.txobj[i] EXCEPT !.attestordata = <<votes[i]>>] =
            [tx |-> b.txobj[i].tx, validatordata |-> b.txobj[i].validatordata,
             attestordata |-> <<votes[i]>>]
        BY TxExcept
    <2> QED
        BY <2>1, <2>2
<1> HIDE DEF txs
<1>4. [c EXCEPT !.txobj = txs] = [ts |-> b.ts, attesttoken |-> b.attesttoken, txobj |-> txs,
                                 signers |-> <<b.signers[1]>>]
    BY <1>1
<1>5. WithAttestation(c, votes) = WithVotes(b, votes)
    BY <1>2, <1>3, <1>4 DEF WithVotes
<1> QED
    BY <1>5 DEF c

\* What recoverSignerAddress clears gives what a producer signs.
LEMMA ClearedForm ==
    ASSUME NEW b, IsBlock(b)
    PROVE  [b EXCEPT !.signers = << >>,
                     !.txobj = [i \in DOMAIN b.txobj |->
                        [b.txobj[i] EXCEPT !.attestordata = << >>]]] = Bare(b)
<1> DEFINE txs == [i \in DOMAIN b.txobj |-> [b.txobj[i] EXCEPT !.attestordata = << >>]]
           cleared == [b EXCEPT !.signers = << >>, !.txobj = txs]
<1>1. txs = [i \in DOMAIN b.txobj |->
        [tx |-> b.txobj[i].tx, validatordata |-> b.txobj[i].validatordata,
         attestordata |-> << >>]]
    BY TxExcept
<1> HIDE DEF txs
<1>2. [b EXCEPT !.signers = << >>, !.txobj = txs] =
        [ts |-> b.ts, attesttoken |-> b.attesttoken, txobj |-> txs, signers |-> << >>]
    BY BothExcept
<1>3. cleared = Bare(b)
    BY <1>1, <1>2 DEF Bare
<1> QED
    BY <1>3 DEF txs

\* The first signature is compared with what a producer signs.
LEMMA RecoverFirst ==
    ASSUME NEW b, IsBlock(b)
    PROVE  RecoverSigner(b, 1) = Recover(BlockBytes(Bare(b)), b.signers[1].sig)
<1> DEFINE txs == [i \in DOMAIN b.txobj |-> [b.txobj[i] EXCEPT !.attestordata = << >>]]
           cleared == [b EXCEPT !.signers = << >>, !.txobj = txs]
<1>1. RecoverSigner(b, 1) = Recover(BlockBytes(cleared), b.signers[1].sig)
    BY BlocksSurviveTheWire DEF RecoverSigner, Each
<1>2. cleared = Bare(b)
    BY ClearedForm
<1> QED
    BY <1>1, <1>2

\* Each further signature is compared with what an attestor signs, with the
\* votes at its own index.
LEMMA RecoverOther ==
    ASSUME NEW b, IsBlock(b), NEW i, i # 1
    PROVE  RecoverSigner(b, i) =
            IF \E k \in DOMAIN b.txobj : Len(b.txobj[k].attestordata) < i - 1 THEN Stranger
            ELSE Recover(BlockBytes(WithVotes(b,
                            [k \in DOMAIN b.txobj |-> b.txobj[k].attestordata[i - 1]])),
                         b.signers[i].sig)
BY BlocksSurviveTheWire, AttestedForm DEF RecoverSigner

\* A transaction that the producer has voted for.
VotedTx(t) == [tx |-> t.tx, validatordata |-> [vote |-> Accepted, didmapping |-> Null],
               attestordata |-> << >>]

\* What signBlockAsValidator makes of a transaction.
LEMMA VotedTxForm ==
    ASSUME NEW t, IsTransactionObj(t)
    PROVE  /\ [t EXCEPT !.validatordata = [vote |-> Accepted, didmapping |-> Null],
                        !.attestordata = << >>] = VotedTx(t)
           /\ IsTransactionObj(VotedTx(t))
<1> DEFINE vote == [vote |-> Accepted, didmapping |-> Null]
           c == [t EXCEPT !.validatordata = vote]
<1>1. t = [tx |-> t.tx, validatordata |-> t.validatordata, attestordata |-> t.attestordata]
    BY DEF IsTransactionObj
<1>2. IsTxValidatorData(vote)
    BY DEF IsTxValidatorData
<1>3. vote = [vote |-> Accepted, didmapping |-> Null]
    OBVIOUS
<1> HIDE DEF vote
<1>4. c = [tx |-> t.tx, validatordata |-> vote, attestordata |-> t.attestordata]
    BY <1>1
<1>5. [t EXCEPT !.validatordata = vote, !.attestordata = << >>] = [c EXCEPT !.attestordata = << >>]
    OBVIOUS
<1> HIDE DEF c
<1>6. [c EXCEPT !.attestordata = << >>] =
        [tx |-> t.tx, validatordata |-> vote, attestordata |-> << >>]
    BY <1>4
<1>7. [tx |-> t.tx, validatordata |-> vote, attestordata |-> << >>] = VotedTx(t)
    BY <1>3 DEF VotedTx
<1>8. IsTransactionObj([tx |-> t.tx, validatordata |-> vote, attestordata |-> << >>])
    <2>1. t.tx # Null => IsTransaction(t.tx)
        BY DEF IsTransactionObj
    <2> QED
        BY <1>2, <2>1, Singletons DEF IsTransactionObj
<1> QED
    BY <1>3, <1>5, <1>6, <1>7, <1>8

\* What signBlockAsValidator makes of a block.
LEMMA SignedForm ==
    ASSUME NEW v, NEW b, IsBlock(b), b.signers = << >>, NEW d, d = SignBlockAsValidator(v, b)
    PROVE  /\ IsBlock(d)
           /\ d.signers = <<[sig |-> SignBytes(v, BlockBytes(Bare(d)))]>>
           /\ DOMAIN d.txobj = DOMAIN b.txobj /\ Len(d.txobj) = Len(b.txobj)
           /\ \A i \in DOMAIN d.txobj : d.txobj[i].attestordata = << >>
<1> DEFINE n == Len(b.txobj)
           vote == [vote |-> Accepted, didmapping |-> Null]
           txs == [i \in 1..n |-> VotedTx(b.txobj[i])]
           voted == [b EXCEPT !.txobj = txs]
           signers == <<[sig |-> SignBytes(v, BlockBytes(voted))]>>
<1>1. /\ n \in Nat /\ DOMAIN b.txobj = 1..n
      /\ \A i \in 1..n : IsTransactionObj(b.txobj[i])
    BY BlockForm
<1>2. [i \in DOMAIN b.txobj |->
            [b.txobj[i] EXCEPT !.validatordata = vote, !.attestordata = << >>]] = txs
    BY <1>1, VotedTxForm
<1>3. d = [voted EXCEPT !.signers = signers]
    BY <1>2 DEF SignBlockAsValidator, Each
<1>4. /\ DOMAIN txs = 1..n
      /\ \A i \in 1..n : txs[i] = VotedTx(b.txobj[i])
      /\ txs = [i \in 1..n |-> txs[i]]
    OBVIOUS
<1> HIDE DEF txs
<1>5. voted = [ts |-> b.ts, attesttoken |-> b.attesttoken, txobj |-> txs, signers |-> << >>]
    BY TxobjExcept
<1>6. \A i \in 1..n : IsTransactionObj(txs[i])
    BY <1>1, <1>4, VotedTxForm
<1>7. IsList(signers) /\ \A i \in DOMAIN signers : IsSigner(signers[i])
    <2> DEFINE signer == [sig |-> SignBytes(v, BlockBytes(voted))]
    <2>1. signers = <<signer>> /\ IsSigner(signer)
        BY DEF IsSigner
    <2> HIDE DEF signer, signers
    <2> QED
        BY <2>1, Singletons
<1>8. signers = <<[sig |-> SignBytes(v, BlockBytes(voted))]>>
    OBVIOUS
<1> HIDE DEF voted, signers
<1>9. d = [ts |-> b.ts, attesttoken |-> b.attesttoken, txobj |-> txs, signers |-> signers]
    BY <1>3, <1>5
<1>10. IsBlock(d)
    <2>1. n \in Nat /\ txs = [i \in 1..n |-> txs[i]]
        BY <1>1, <1>4
    <2> HIDE DEF n
    <2> QED
        BY <2>1, <1>6, <1>7, <1>9, BlockOfParts
<1>11. \A i \in 1..n : /\ txs[i].attestordata = << >>
                       /\ [tx |-> txs[i].tx, validatordata |-> txs[i].validatordata,
                           attestordata |-> << >>] = txs[i]
    <2>1. SUFFICES ASSUME NEW i \in 1..n
                   PROVE  /\ txs[i].attestordata = << >>
                          /\ [tx |-> txs[i].tx, validatordata |-> txs[i].validatordata,
                              attestordata |-> << >>] = txs[i]
        OBVIOUS
    <2>2. txs[i] = VotedTx(b.txobj[i])
        BY <1>4
    <2>3. PICK t : t = txs[i]
        OBVIOUS
    <2>4. t = [tx |-> b.txobj[i].tx, validatordata |-> vote, attestordata |-> << >>]
        BY <2>2, <2>3 DEF VotedTx
    <2> HIDE DEF vote
    <2>5. t.attestordata = << >> /\ t = [tx |-> t.tx, validatordata |-> t.validatordata,
                                        attestordata |-> << >>]
        BY <2>4
    <2> QED
        BY <2>3, <2>5
<1>12. Bare(d) = voted
    <2>1. Bare(d) = [ts |-> b.ts, attesttoken |-> b.attesttoken,
                     txobj |-> [i \in 1..n |->
                        [tx |-> txs[i].tx, validatordata |-> txs[i].validatordata,
                         attestordata |-> << >>]],
                     signers |-> << >>]
        BY <1>4, <1>9 DEF Bare
    <2>2. [i \in 1..n |-> [tx |-> txs[i].tx, validatordata |-> txs[i].validatordata,
                           attestordata |-> << >>]] = txs
        BY <1>4, <1>11
    <2> QED
        BY <1>5, <2>1, <2>2
<1>13. d.txobj = txs /\ d.signers = signers
    BY <1>9
<1>14. Len(d.txobj) = n
    BY <1>1, <1>4, <1>13, ListForm
<1> QED
    BY <1>1, <1>4, <1>8, <1>10, <1>11, <1>12, <1>13, <1>14

VotesOf(d, votes) == [i \in DOMAIN d.txobj |-> [vote |-> votes[i]]]

\* What signBlockAsAttestor makes and recoverPatchAddress compares.
LEMMA PatchForm ==
    ASSUME NEW d, IsBlock(d), NEW s, d.signers = <<s>>
    PROVE  /\ \A a, votes : SignBlockAsAttestor(a, d, votes) =
                [attestordata |-> VotesOf(d, votes),
                 signer |-> [sig |->
                    SignBytes(a, BlockBytes(WithVotes(d, VotesOf(d, votes))))]]
           /\ \A ar : RecoverPatchAddress(d, ar) =
                Recover(BlockBytes(WithVotes(d, ar.attestordata)), ar.signer.sig)
<1>1. [d EXCEPT !.signers = <<d.signers[1]>>] = d
    <2>1. <<d.signers[1]>> = d.signers
        BY Singletons
    <2>2. [d EXCEPT !.signers = d.signers] =
            [ts |-> d.ts, attesttoken |-> d.attesttoken, txobj |-> d.txobj,
             signers |-> d.signers]
        BY SignersExcept
    <2> QED
        BY <2>1, <2>2 DEF IsBlock
<1>2. \A atts : WithAttestation(d, atts) = WithVotes(d, atts)
    BY <1>1, AttestedForm
<1>3. BlockOf(BlockBytes(d)) = d
    BY BlocksSurviveTheWire
<1>4. \A a, votes : SignBlockAsAttestor(a, d, votes) =
        [attestordata |-> VotesOf(d, votes),
         signer |-> [sig |-> SignBytes(a, BlockBytes(WithVotes(d, VotesOf(d, votes))))]]
    BY <1>2, <1>3 DEF SignBlockAsAttestor, VotesOf
<1>5. \A ar : RecoverPatchAddress(d, ar) =
        Recover(BlockBytes(WithVotes(d, ar.attestordata)), ar.signer.sig)
    BY <1>2, <1>3 DEF RecoverPatchAddress
<1> QED
    BY <1>4, <1>5

\* The votes of an attestation are votes.
LEMMA VotesForm ==
    ASSUME NEW d, NEW votes, NEW i \in DOMAIN d.txobj
    PROVE  IsTxAttestorData(VotesOf(d, votes)[i])
BY DEF VotesOf, IsTxAttestorData

\* What appendPatchAsValidator makes of a block and its attestations.
LEMMA AppendedForm ==
    ASSUME NEW d, IsBlock(d), NEW s, d.signers = <<s>>,
           \A i \in DOMAIN d.txobj : d.txobj[i].attestordata = << >>,
           NEW ps, IsList(ps),
           \A k \in DOMAIN ps : /\ IsSigner(ps[k].signer)
                               /\ \A i \in DOMAIN d.txobj :
                                    IsTxAttestorData(ps[k].attestordata[i]),
           NEW b, b = AppendPatches(d, ps)
    PROVE  /\ IsBlock(b) /\ b.ts = d.ts /\ b.attesttoken = d.attesttoken
           /\ DOMAIN b.txobj = DOMAIN d.txobj
           /\ \A i \in DOMAIN d.txobj :
                /\ b.txobj[i].tx = d.txobj[i].tx
                /\ b.txobj[i].validatordata = d.txobj[i].validatordata
                /\ Len(b.txobj[i].attestordata) = Len(ps)
                /\ \A k \in DOMAIN ps :
                    b.txobj[i].attestordata[k] = ps[k].attestordata[i]
           /\ Len(b.signers) = Len(ps) + 1 /\ b.signers[1] = s
           /\ \A k \in DOMAIN ps : b.signers[k + 1] = ps[k].signer
<1> DEFINE n == Len(d.txobj)
           m == Len(ps)
           atts(i) == [k \in 1..m |-> ps[k].attestordata[i]]
           txs == [i \in 1..n |-> [tx |-> d.txobj[i].tx,
                                   validatordata |-> d.txobj[i].validatordata,
                                   attestordata |-> atts(i)]]
           more == [k \in 1..m |-> ps[k].signer]
           signers == d.signers \o more
<1>1. /\ n \in Nat /\ DOMAIN d.txobj = 1..n /\ m \in Nat /\ DOMAIN ps = 1..m
      /\ \A i \in 1..n : IsTransactionObj(d.txobj[i])
    BY BlockForm, ListForm
<1>2. ASSUME NEW i \in 1..n
      PROVE  /\ IsList(atts(i)) /\ Len(atts(i)) = m /\ DOMAIN atts(i) = 1..m
             /\ \A k \in 1..m : atts(i)[k] = ps[k].attestordata[i]
             /\ \A k \in 1..m : IsTxAttestorData(atts(i)[k])
             /\ << >> \o atts(i) = atts(i)
    <2> DEFINE as == atts(i)
    <2>1. as = [k \in 1..m |-> as[k]] /\ \A k \in 1..m : as[k] = ps[k].attestordata[i]
        OBVIOUS
    <2> HIDE DEF as
    <2>2. IsList(as) /\ Len(as) = m /\ DOMAIN as = 1..m
        BY <1>1, <2>1, ListForm
    <2>3. << >> \o as = as
        <3>1. as \in Seq(Elements(as))
            BY <2>2 DEF IsList
        <3> QED
            BY <3>1
    <2>4. \A k \in 1..m : IsTxAttestorData(as[k])
        BY <1>1, <2>1
    <2> QED
        BY <2>1, <2>2, <2>3, <2>4 DEF as
<1>3. /\ IsList(more) /\ Len(more) = m /\ DOMAIN more = 1..m
      /\ \A k \in 1..m : more[k] = ps[k].signer
    <2>1. more = [k \in 1..m |-> more[k]] /\ \A k \in 1..m : more[k] = ps[k].signer
        OBVIOUS
    <2> HIDE DEF more
    <2> QED
        BY <1>1, <2>1, ListForm
<1>4. IsList(d.signers) /\ Len(d.signers) = 1 /\ d.signers[1] = s
    BY Singletons
<1>5. [k \in DOMAIN ps |-> ps[k].signer] = more
    BY <1>1
<1> HIDE DEF more
<1>6. /\ IsList(signers) /\ Len(signers) = m + 1 /\ signers[1] = s
      /\ \A k \in 1..m : signers[k + 1] = ps[k].signer
    <2>1. /\ IsList(signers) /\ Len(signers) = 1 + Len(more)
          /\ \A i \in 1..1 : signers[i] = d.signers[i]
          /\ \A k \in 1..Len(more) : signers[1 + k] = more[k]
        BY <1>3, <1>4, Concatenation
    <2>2. signers[1] = s
        BY <1>4, <2>1
    <2>3. \A k \in 1..m : k + 1 = 1 + k
        BY <1>1
    <2> QED
        BY <1>1, <1>3, <2>1, <2>2, <2>3
<1>7. [i \in DOMAIN d.txobj |-> [d.txobj[i] EXCEPT !.attestordata =
            d.txobj[i].attestordata \o [k \in DOMAIN ps |-> ps[k].attestordata[i]]]] = txs
    <2>1. ASSUME NEW i \in 1..n
          PROVE  [d.txobj[i] EXCEPT !.attestordata =
                    d.txobj[i].attestordata
                        \o [k \in DOMAIN ps |-> ps[k].attestordata[i]]] = txs[i]
        <3> DEFINE as == [k \in DOMAIN ps |-> ps[k].attestordata[i]]
                   t == d.txobj[i]
        <3>1. as = atts(i)
            BY <1>1
        <3>2. t.attestordata \o as = atts(i)
            BY <1>1, <1>2, <3>1
        <3>3. \A x : [t EXCEPT !.attestordata = x] =
                [tx |-> t.tx, validatordata |-> t.validatordata, attestordata |-> x]
            BY <1>1, TxExcept
        <3>4. [t EXCEPT !.attestordata = t.attestordata \o as] = txs[i]
            BY <3>2, <3>3
        <3> QED
            BY <3>4
    <2> QED
        BY <1>1, <2>1
<1> DEFINE c == [d EXCEPT !.signers = signers]
<1>8. b = [c EXCEPT !.txobj = [i \in DOMAIN c.txobj |-> [c.txobj[i] EXCEPT !.attestordata =
            d.txobj[i].attestordata \o [k \in DOMAIN ps |-> ps[k].attestordata[i]]]]]
    BY <1>5 DEF AppendPatches
<1>9. /\ txs = [i \in 1..n |-> txs[i]] /\ DOMAIN txs = 1..n
      /\ \A i \in 1..n : txs[i] = [tx |-> d.txobj[i].tx,
                                   validatordata |-> d.txobj[i].validatordata,
                                   attestordata |-> atts(i)]
    OBVIOUS
<1> HIDE DEF txs, signers
<1>10. b = [ts |-> d.ts, attesttoken |-> d.attesttoken, txobj |-> txs, signers |-> signers]
    <2>1. c = [ts |-> d.ts, attesttoken |-> d.attesttoken, txobj |-> d.txobj,
               signers |-> signers]
        BY SignersExcept
    <2> HIDE DEF c
    <2>2. c.txobj = d.txobj
        BY <2>1
    <2>3. b = [c EXCEPT !.txobj = txs]
        BY <1>7, <1>8, <2>2
    <2> QED
        BY <2>1, <2>3
<1>11. ASSUME NEW i \in 1..n PROVE IsTransactionObj(txs[i])
    <2> DEFINE as == atts(i)
    <2>1. IsList(as) /\ \A k \in DOMAIN as : IsTxAttestorData(as[k])
        BY <1>2
    <2>2. txs[i] = [tx |-> d.txobj[i].tx, validatordata |-> d.txobj[i].validatordata,
                    attestordata |-> as]
        BY <1>9
    <2> HIDE DEF as
    <2> QED
        BY <1>1, <2>1, <2>2, Reattested
<1>12. ASSUME NEW i \in DOMAIN signers PROVE IsSigner(signers[i])
    <2>1. i \in 1..(m + 1)
        BY <1>6, ListForm
    <2>2. CASE i = 1
        <3>1. s = d.signers[1] /\ 1 \in DOMAIN d.signers
            BY <1>4, ListForm
        <3> QED
            BY <1>6, <2>2, <3>1 DEF IsBlock
    <2>3. CASE i # 1
        <3>1. PICK k \in 1..m : i = k + 1
            <4>1. i - 1 \in 1..m /\ i = (i - 1) + 1
                BY <1>1, <2>1, <2>3
            <4> QED
                BY <4>1
        <3>2. signers[i] = ps[k].signer
            BY <1>6, <3>1
        <3> QED
            BY <1>1, <3>2
    <2> QED
        BY <2>2, <2>3
<1>13. IsBlock(b)
    <2>1. n \in Nat /\ txs = [i \in 1..n |-> txs[i]]
        BY <1>1, <1>9
    <2>2. \A i \in 1..n : IsTransactionObj(txs[i])
        BY <1>11
    <2>3. IsList(signers) /\ \A i \in DOMAIN signers : IsSigner(signers[i])
        BY <1>6, <1>12
    <2> HIDE DEF n, m, atts, c
    <2>4. IsList(txs) /\ DOMAIN txs = 1..n
        BY <2>1, ListForm
    <2>5. /\ b.txobj = txs /\ b.signers = signers
          /\ b = [ts |-> b.ts, attesttoken |-> b.attesttoken, txobj |-> b.txobj,
                  signers |-> b.signers]
        BY <1>10
    <2> QED
        BY <2>2, <2>3, <2>4, <2>5 DEF IsBlock
<1>14. /\ b.ts = d.ts /\ b.attesttoken = d.attesttoken
       /\ b.txobj = txs /\ b.signers = signers
    BY <1>10
<1>15. ASSUME NEW i \in DOMAIN d.txobj
       PROVE  /\ b.txobj[i].tx = d.txobj[i].tx
              /\ b.txobj[i].validatordata = d.txobj[i].validatordata
              /\ Len(b.txobj[i].attestordata) = Len(ps)
              /\ \A k \in DOMAIN ps : b.txobj[i].attestordata[k] = ps[k].attestordata[i]
    <2> DEFINE as == atts(i)
    <2>1. i \in 1..n /\ b.txobj[i] = txs[i]
        BY <1>1, <1>14
    <2>2. Len(as) = m /\ \A k \in 1..m : as[k] = ps[k].attestordata[i]
        BY <1>2, <2>1
    <2>3. PICK t : t = txs[i]
        OBVIOUS
    <2>4. t = [tx |-> d.txobj[i].tx, validatordata |-> d.txobj[i].validatordata,
               attestordata |-> as]
        BY <1>9, <2>1, <2>3
    <2> HIDE DEF as, n, m
    <2>5. /\ t.tx = d.txobj[i].tx /\ t.validatordata = d.txobj[i].validatordata
          /\ t.attestordata = as
        BY <2>4
    <2> QED
        BY <1>1, <2>1, <2>2, <2>3, <2>5 DEF m
<1>16. DOMAIN b.txobj = DOMAIN d.txobj
    BY <1>1, <1>9, <1>14
<1>17. Len(b.signers) = Len(ps) + 1 /\ b.signers[1] = s
    BY <1>6, <1>14
<1>18. \A k \in DOMAIN ps : b.signers[k + 1] = ps[k].signer
    BY <1>1, <1>6, <1>14
<1> QED
    BY <1>13, <1>14, <1>15, <1>16, <1>17, <1>18

\* The attestations of a block do not change what has been signed.
LEMMA AppendedBytes ==
    ASSUME NEW d, IsBlock(d), NEW s, d.signers = <<s>>,
           \A i \in DOMAIN d.txobj : d.txobj[i].attestordata = << >>,
           NEW ps, IsList(ps),
           \A k \in DOMAIN ps : /\ IsSigner(ps[k].signer)
                               /\ \A i \in DOMAIN d.txobj :
                                    IsTxAttestorData(ps[k].attestordata[i]),
           NEW b, b = AppendPatches(d, ps)
    PROVE  /\ Bare(b) = Bare(d)
           /\ \A votes : WithVotes(b, votes) = WithVotes(d, votes)
<1>1. /\ b.ts = d.ts /\ b.attesttoken = d.attesttoken
      /\ DOMAIN b.txobj = DOMAIN d.txobj
      /\ \A i \in DOMAIN d.txobj : /\ b.txobj[i].tx = d.txobj[i].tx
                                   /\ b.txobj[i].validatordata = d.txobj[i].validatordata
      /\ b.signers[1] = s
    BY AppendedForm
<1>2. d.signers[1] = s
    BY Singletons
<1>3. Bare(b) = Bare(d)
    BY <1>1 DEF Bare
<1>4. \A votes : WithVotes(b, votes) = WithVotes(d, votes)
    BY <1>1, <1>2 DEF WithVotes
<1> QED
    BY <1>3, <1>4
-----------------------------------------------------------------------------
(* The contract's part *)

\* The block does not touch the contract, nor the node's copy of it.
THEOREM AcceptanceFollowsContract == Spec => ContractSpec
<1>1. Init => InitContractState
    BY DEF Init
<1>2. [Next]_vars => [NextContractState]_contractVars
    <2>1. CASE UNCHANGED vars
        BY <2>1 DEF vars
    <2>2. CASE Next
        BY <2>2 DEF Next, Produce, Attest, Send, Recode, ValidateBlock
    <2> QED
        BY <2>1, <2>2
<1> QED
    BY <1>1, <1>2, PTL DEF Spec, ContractSpec

\* The copy of the contract is right here as it is alone.
THEOREM CopyFollowsWithBlocks == Spec => []MapsFollowContract
BY AcceptanceFollowsContract, CopyFollowsContract, PTL

\* The contract's invariants hold here.
LEMMA ContractPart == Spec => [](Inv /\ Bounded /\ ContractTypeOK)
<1>1. ContractSpec => [](Inv /\ Bounded)
    BY InitInv, NextInv, InitBounded, NextBounded, PTL DEF ContractSpec
<1> QED
    BY <1>1, AcceptanceFollowsContract, ContractTypeCorrect, PTL

\* No validator leaves the contract.
LEMMA ValidatorsStay ==
    ASSUME Inv, [NextContractState]_contractVars
    PROVE  Validators \subseteq Validators'
<1>1. DOMAIN status \subseteq DOMAIN status'
    <2>1. ASSUME NEW n \in Nodes, AddNode(n) PROVE DOMAIN status \subseteq DOMAIN status'
        BY <2>1 DEF AddNode
    <2>2. ASSUME NEW n \in Nodes, NEW s \in NewStatuses, ChangeStatus(n, s)
          PROVE  DOMAIN status \subseteq DOMAIN status'
        BY <2>2 DEF ChangeStatus
    <2>3. ASSUME NEW k \in Quorums, UpdateBlockParams(k) PROVE UNCHANGED status
        BY <2>3 DEF UpdateBlockParams
    <2>4. CASE Connect
        BY <2>4 DEF Connect, ReadParams, SubscribeParams, ListNodes, ReadNode, Continue, contract
    <2>5. CASE HandleEvent \/ Restart \/ UNCHANGED contractVars
        BY <2>5 DEF HandleEvent, Restart, contractVars, contract
    <2> QED
        BY <2>1, <2>2, <2>3, <2>4, <2>5 DEF NextContractState, ChangeContract
<1> QED
    BY <1>1 DEF Validators, TypeIs

\* Validators are nodes.
LEMMA ValidatorsAreNodes == Inv => Validators \subseteq Nodes /\ Stranger \notin Validators
BY AcceptanceAssumption DEF Inv, Typed, Validators, TypeIs
-----------------------------------------------------------------------------
(* The invariant: who has signed what *)

\* A signature of one of the nodes over the bytes of block b.
SignedBy(nodes, sig, b) ==
    sig # NoBytes /\ sig.by \in nodes /\ sig.over = BlockBytes(b)

\* A block as a producer has signed it.
Produced(nodes, d) ==
    /\ IsBlock(d)
    /\ d.signers = <<d.signers[1]>>
    /\ SignedBy(nodes, d.signers[1].sig, Bare(d))
    /\ \A i \in DOMAIN d.txobj : d.txobj[i].attestordata = << >>

\* An attestation of it by another node.
IsPatch(nodes, d, p) ==
    /\ IsSigner(p.signer)
    /\ \A i \in DOMAIN d.txobj : IsTxAttestorData(p.attestordata[i])
    /\ SignedBy(nodes, p.signer.sig, WithVotes(d, p.attestordata))
    /\ p.signer.sig.by # d.signers[1].sig.by

Gathered(nodes, d, ps) ==
    /\ Produced(nodes, d)
    /\ IsList(ps)
    /\ \A k \in DOMAIN ps : IsPatch(nodes, d, ps[k])
    /\ \A j, k \in DOMAIN ps : ps[j].signer.sig.by = ps[k].signer.sig.by => j = k

Idle == draft = NoDraft /\ patches = << >> /\ wire = Nothing
InMaking == draft # NoDraft /\ wire = Nothing /\ Gathered(Validators, draft, patches)

\* The draft is complete, and no signature of a node has been added on the way.
UnderWay ==
    /\ draft # NoDraft /\ wire # Nothing
    /\ \E d : Gathered(Validators, d, patches) /\ draft = AppendPatches(d, patches)
    /\ IsBlock(BlockOf(wire)) /\ IsUnforged(BlockOf(wire))

AccInv == (Idle \/ InMaking \/ UnderWay) /\ verdict \in BOOLEAN

\* A signature recovers to its maker over what it is over, and to nobody else.
LEMMA Recovered ==
    /\ \A nodes, sig, b : SignedBy(nodes, sig, b) => Recover(BlockBytes(b), sig) = sig.by
    /\ \A nodes, sig, b :
        Recover(BlockBytes(b), sig) \in nodes /\ Stranger \notin nodes
            => SignedBy(nodes, sig, b) /\ Recover(BlockBytes(b), sig) = sig.by
    /\ \A n, b : SignBytes(n, BlockBytes(b)).by = n /\ SignBytes(n, BlockBytes(b)).over = BlockBytes(b)
BY DEF SignedBy, Recover, SignBytes

\* The addresses that the producer and the attestors recover.
LEMMA ProducerRecovered ==
    ASSUME NEW nodes, NEW d, Produced(nodes, d)
    PROVE  /\ RecoverSigner(d, 1) = d.signers[1].sig.by
           /\ \A p : IsPatch(nodes, d, p) => RecoverPatchAddress(d, p) = p.signer.sig.by
<1>1. RecoverSigner(d, 1) = d.signers[1].sig.by
    BY RecoverFirst, Recovered DEF Produced
<1>2. ASSUME NEW p, IsPatch(nodes, d, p) PROVE RecoverPatchAddress(d, p) = p.signer.sig.by
    <2>1. RecoverPatchAddress(d, p) = Recover(BlockBytes(WithVotes(d, p.attestordata)), p.signer.sig)
        BY PatchForm DEF Produced
    <2> QED
        BY <1>2, <2>1, Recovered DEF IsPatch
<1> QED
    BY <1>1, <1>2

\* signBlockAsValidator makes a produced block.
LEMMA Produces ==
    ASSUME NEW nodes, NEW v \in nodes \intersect Nodes, NEW b \in Blocks
    PROVE  Produced(nodes, SignBlockAsValidator(v, b))
<1>1. PICK d : d = SignBlockAsValidator(v, b)
    OBVIOUS
<1>2. IsBlock(b) /\ b.signers = << >> /\ d.signers[1].sig # NoBytes
    BY <1>1, AcceptanceAssumption
<1>3. PICK sig : sig = SignBytes(v, BlockBytes(Bare(d)))
    OBVIOUS
<1>4. /\ IsBlock(d) /\ d.signers = <<[sig |-> sig]>>
      /\ \A i \in DOMAIN d.txobj : d.txobj[i].attestordata = << >>
    BY <1>1, <1>2, <1>3, SignedForm
<1>5. d.signers[1] = [sig |-> sig]
    BY <1>4, Singletons
<1>6. d.signers = <<d.signers[1]>> /\ d.signers[1].sig = sig
    BY <1>4, <1>5
<1>7. SignedBy(nodes, sig, Bare(d))
    BY <1>2, <1>3, <1>6, Recovered DEF SignedBy
<1> QED
    BY <1>1, <1>4, <1>6, <1>7 DEF Produced

\* The producer takes no attestation twice, and none of its own.
LEMMA Attests ==
    ASSUME NEW nodes, Stranger \notin nodes, NEW d, NEW ps, Gathered(nodes, d, ps),
           NEW a \in nodes, a # RecoverSigner(d, 1), NEW votes,
           RecoverPatchAddress(d, SignBlockAsAttestor(a, d, votes)) \in nodes,
           \A i \in DOMAIN ps : RecoverPatchAddress(d, ps[i]) # a
    PROVE  Gathered(nodes, d, Append(ps, SignBlockAsAttestor(a, d, votes)))
<1>1. PICK p : p = SignBlockAsAttestor(a, d, votes)
    OBVIOUS
<1>2. Produced(nodes, d) /\ IsList(ps) /\ IsBlock(d) /\ d.signers = <<d.signers[1]>>
    BY DEF Gathered, Produced
<1>3. PICK sig : sig = SignBytes(a, BlockBytes(WithVotes(d, VotesOf(d, votes))))
    OBVIOUS
<1>4. p = [attestordata |-> VotesOf(d, votes), signer |-> [sig |-> sig]]
    BY <1>1, <1>2, <1>3, PatchForm
<1>5. p.attestordata = VotesOf(d, votes) /\ p.signer = [sig |-> sig] /\ p.signer.sig = sig
    BY <1>4
<1>6. sig.by = a /\ IsSigner(p.signer)
    BY <1>3, <1>5, Recovered DEF IsSigner
<1>7. SignedBy(nodes, p.signer.sig, WithVotes(d, p.attestordata))
    <2>1. RecoverPatchAddress(d, p) = Recover(BlockBytes(WithVotes(d, p.attestordata)), p.signer.sig)
        BY <1>2, PatchForm
    <2> QED
        BY <1>1, <2>1, Recovered
<1>8. \A i \in DOMAIN d.txobj : IsTxAttestorData(p.attestordata[i])
    BY <1>5, VotesForm
<1>9. IsPatch(nodes, d, p)
    BY <1>2, <1>5, <1>6, <1>7, <1>8, ProducerRecovered DEF IsPatch
<1>10. \A i \in DOMAIN ps : ps[i].signer.sig.by # p.signer.sig.by
    BY <1>2, <1>5, <1>6, ProducerRecovered DEF Gathered
<1> DEFINE all == Append(ps, p)
<1>11. /\ IsList(all) /\ DOMAIN all = DOMAIN ps \union {Len(ps) + 1}
       /\ all[Len(ps) + 1] = p /\ \A i \in DOMAIN ps : all[i] = ps[i]
    <2> DEFINE S == Elements(ps) \union {p}
    <2>1. ps \in Seq(S)
        <3>1. ps \in Seq(Elements(ps)) /\ Elements(ps) \subseteq S
            BY <1>2 DEF IsList
        <3> HIDE DEF S
        <3> QED
            BY <3>1
    <2>2. p \in S
        OBVIOUS
    <2> HIDE DEF S
    <2>3. all \in Seq(S)
        BY <2>1, <2>2
    <2>4. DOMAIN all = DOMAIN ps \union {Len(ps) + 1}
        BY <2>1, <2>2
    <2>5. all[Len(ps) + 1] = p /\ \A i \in DOMAIN ps : all[i] = ps[i]
        BY <2>1, <2>2
    <2> QED
        BY <2>3, <2>4, <2>5, SequenceIsList
<1> HIDE DEF all
<1>12. \A k \in DOMAIN all : IsPatch(nodes, d, all[k])
    BY <1>9, <1>11 DEF Gathered
<1>13. \A j, k \in DOMAIN all : all[j].signer.sig.by = all[k].signer.sig.by => j = k
    BY <1>10, <1>11 DEF Gathered
<1>14. Gathered(nodes, d, all)
    BY <1>2, <1>11, <1>12, <1>13 DEF Gathered
<1> QED
    BY <1>1, <1>14 DEF all

\* What has been gathered, when it has been put together.
LEMMA Assembled ==
    ASSUME NEW nodes, NEW d, NEW ps, Gathered(nodes, d, ps),
           NEW b, b = AppendPatches(d, ps)
    PROVE  /\ IsBlock(b) /\ Bare(b) = Bare(d)
           /\ \A votes : WithVotes(b, votes) = WithVotes(d, votes)
           /\ DOMAIN b.txobj = DOMAIN d.txobj
           /\ \A i \in DOMAIN d.txobj :
                /\ Len(b.txobj[i].attestordata) = Len(ps)
                /\ \A k \in DOMAIN ps :
                    b.txobj[i].attestordata[k] = ps[k].attestordata[i]
           /\ Len(ps) \in Nat /\ DOMAIN ps = 1..Len(ps)
           /\ Len(b.signers) = Len(ps) + 1 /\ b.signers[1] = d.signers[1]
           /\ \A k \in DOMAIN ps : b.signers[k + 1] = ps[k].signer
<1>1. PICK s : s = d.signers[1]
    OBVIOUS
<1>2. /\ IsBlock(d) /\ d.signers = <<s>>
      /\ \A i \in DOMAIN d.txobj : d.txobj[i].attestordata = << >>
      /\ IsList(ps)
      /\ \A k \in DOMAIN ps : /\ IsSigner(ps[k].signer)
                              /\ \A i \in DOMAIN d.txobj : IsTxAttestorData(ps[k].attestordata[i])
    BY <1>1 DEF Gathered, Produced, IsPatch
<1>3. Bare(b) = Bare(d) /\ \A votes : WithVotes(b, votes) = WithVotes(d, votes)
    BY <1>2, AppendedBytes
<1>4. /\ IsBlock(b) /\ DOMAIN b.txobj = DOMAIN d.txobj
      /\ \A i \in DOMAIN d.txobj :
            /\ Len(b.txobj[i].attestordata) = Len(ps)
            /\ \A k \in DOMAIN ps :
                b.txobj[i].attestordata[k] = ps[k].attestordata[i]
      /\ Len(b.signers) = Len(ps) + 1 /\ b.signers[1] = s
      /\ \A k \in DOMAIN ps : b.signers[k + 1] = ps[k].signer
    BY <1>2, AppendedForm
<1>5. Len(ps) \in Nat /\ DOMAIN ps = 1..Len(ps)
    BY <1>2, ListForm
<1> QED
    BY <1>1, <1>3, <1>4, <1>5

\* A block with a signature is not a new object, and its bytes are not empty.
LEMMA Written ==
    ASSUME NEW b, IsBlock(b), Len(b.signers) # 0
    PROVE  /\ b # NoDraft /\ BlockBytes(b) # Nothing
           /\ BlockOf(BlockBytes(b)) = b
<1>1. NoDraft.signers = << >> /\ Len(<< >>) = 0
    <2>1. NoDraft = [ts |-> 0, attesttoken |-> NoBytes, txobj |-> << >>, signers |-> << >>]
        BY NothingIsUnsigned DEF NoDraft
    <2> QED
        BY <2>1, Singletons
<1>2. BlockOf(BlockBytes(b)) = b
    BY BlocksSurviveTheWire
<1> QED
    BY <1>1, <1>2 DEF NoDraft, Nothing
-----------------------------------------------------------------------------
(* The steps *)

\* Nothing is in the making at first.
LEMMA InitAcc == Init => AccInv
BY DEF Init, AccInv, Idle

\* What has been gathered stays so when nodes are added.
LEMMA MoreNodes ==
    ASSUME NEW nodes, NEW more, nodes \subseteq more, NEW d, NEW ps, Gathered(nodes, d, ps)
    PROVE  Gathered(more, d, ps)
BY DEF Gathered, Produced, IsPatch, SignedBy

\* A step of the contract, or none.
LEMMA ContractAcc ==
    ASSUME Inv, AccInv, [NextContractState]_contractVars, UNCHANGED <<draft, patches, wire, verdict>>
    PROVE  AccInv'
<1>1. Validators \subseteq Validators'
    BY ValidatorsStay
<1>2. CASE Idle
    BY <1>2 DEF Idle, AccInv
<1>3. CASE InMaking
    BY <1>1, <1>3, MoreNodes DEF InMaking, AccInv
<1>4. CASE UnderWay
    <2>1. PICK d : Gathered(Validators, d, patches) /\ draft = AppendPatches(d, patches)
        BY <1>4 DEF UnderWay
    <2>2. Gathered(Validators', d, patches')
        BY <1>1, <2>1, MoreNodes
    <2>3. draft' = AppendPatches(d, patches')
        BY <2>1
    <2>4. IsUnforged(BlockOf(wire))'
        BY <1>4 DEF UnderWay, IsUnforged
    <2>5. UnderWay'
        BY <1>4, <2>2, <2>3, <2>4 DEF UnderWay
    <2> QED
        BY <2>5 DEF AccInv
<1> QED
    BY <1>2, <1>3, <1>4 DEF AccInv

\* A producer begins.
LEMMA ProduceAcc ==
    ASSUME Inv, AccInv, NEW v \in Nodes, NEW b \in Blocks, Produce(v, b)
    PROVE  AccInv'
<1>1. /\ draft = NoDraft /\ v \in Validators /\ draft' = SignBlockAsValidator(v, b)
      /\ UNCHANGED <<contractVars, patches, wire, verdict>>
    BY DEF Produce
<1>2. Validators' = Validators
    BY <1>1 DEF contractVars, contract, Validators, TypeIs
<1>3. Produced(Validators, draft')
    BY <1>1, Produces
<1>4. patches = << >> /\ wire = Nothing
    BY <1>1 DEF AccInv, Idle, InMaking, UnderWay
<1>5. Gathered(Validators, draft', << >>)
    BY <1>3, Singletons DEF Gathered
<1>6. draft' # NoDraft
    <2>1. IsBlock(draft') /\ Len(draft'.signers) # 0
        <3>1. draft'.signers = <<draft'.signers[1]>>
            BY <1>3 DEF Produced
        <3>2. Len(<<draft'.signers[1]>>) = 1
            BY Singletons
        <3> QED
            BY <1>3, <3>1, <3>2 DEF Produced
    <2>2. PICK d : d = draft'
        OBVIOUS
    <2>3. d # NoDraft
        BY <2>1, <2>2, Written
    <2> QED
        BY <2>2, <2>3 DEF NoDraft
<1>7. InMaking'
    BY <1>1, <1>2, <1>4, <1>5, <1>6 DEF InMaking, NoDraft, Nothing
<1> QED
    BY <1>1, <1>7 DEF AccInv

\* An attestation arrives.
LEMMA AttestAcc ==
    ASSUME Inv, AccInv, NEW a \in Nodes, NEW votes \in Ballots, Attest(a, votes)
    PROVE  AccInv'
<1> DEFINE ar == SignBlockAsAttestor(a, draft, votes)
<1>1. /\ draft # NoDraft /\ wire = Nothing /\ a \in Validators
      /\ a # RecoverSigner(draft, 1)
      /\ RecoverPatchAddress(draft, ar) \in Validators
      /\ \A i \in DOMAIN patches : RecoverPatchAddress(draft, patches[i]) # a
      /\ patches' = Append(patches, ar)
      /\ UNCHANGED <<contractVars, draft, wire, verdict>>
    BY DEF Attest
<1>2. Validators' = Validators
    BY <1>1 DEF contractVars, contract, Validators, TypeIs
<1>3. Gathered(Validators, draft, patches)
    BY <1>1 DEF AccInv, Idle, InMaking, UnderWay
<1>4. Gathered(Validators, draft, Append(patches, ar))
    BY <1>1, <1>3, Attests, ValidatorsAreNodes
<1>5. InMaking'
    BY <1>1, <1>2, <1>4 DEF InMaking
<1> QED
    BY <1>1, <1>5 DEF AccInv

\* The attestations are put together, and the block is sent.
LEMMA SendAcc ==
    ASSUME Inv, AccInv, Send
    PROVE  AccInv'
<1>1. /\ draft # NoDraft /\ wire = Nothing
      /\ draft' = AppendPatches(draft, patches) /\ wire' = BlockBytes(draft')
      /\ UNCHANGED <<contractVars, patches, verdict>>
    BY DEF Send
<1>2. Validators' = Validators
    BY <1>1 DEF contractVars, contract, Validators, TypeIs
<1>3. Gathered(Validators, draft, patches)
    BY <1>1 DEF AccInv, Idle, InMaking, UnderWay
<1>4. PICK b : b = draft'
    OBVIOUS
<1>5. IsBlock(b) /\ Len(b.signers) = Len(patches) + 1 /\ Len(patches) \in Nat
    BY <1>1, <1>3, <1>4, Assembled
<1>6. b # NoDraft /\ BlockBytes(b) # Nothing /\ BlockOf(BlockBytes(b)) = b
    BY <1>5, Written
<1>7. /\ IsBlock(BlockOf(wire)') /\ draft' # NoDraft' /\ wire' # Nothing'
      /\ BlockOf(wire)' = draft'
    BY <1>1, <1>4, <1>5, <1>6 DEF NoDraft, Nothing
<1>8. IsUnforged(BlockOf(wire))'
    BY <1>7 DEF IsUnforged
<1>9. \E d : Gathered(Validators', d, patches') /\ draft' = AppendPatches(d, patches')
    BY <1>1, <1>2, <1>3
<1>10. UnderWay'
    BY <1>7, <1>8, <1>9 DEF UnderWay
<1> QED
    BY <1>1, <1>10 DEF AccInv

\* The bytes change on the way.
LEMMA RecodeAcc ==
    ASSUME Inv, AccInv, Recode
    PROVE  AccInv'
<1>1. PICK bytes \in Recoded(wire) \ {Nothing} :
        IsBlock(BlockOf(bytes)) /\ IsUnforged(BlockOf(bytes)) /\ wire' = bytes
    BY DEF Recode
<1>2. wire # Nothing /\ UNCHANGED <<contractVars, draft, patches, verdict>>
    BY DEF Recode
<1>3. Validators' = Validators
    BY <1>2 DEF contractVars, contract, Validators, TypeIs
<1>4. UnderWay
    BY <1>2 DEF AccInv, Idle, InMaking
<1>5. IsUnforged(BlockOf(wire))'
    BY <1>1, <1>2 DEF IsUnforged
<1>6. IsBlock(BlockOf(wire))' /\ wire' # Nothing' /\ draft' # NoDraft'
    BY <1>1, <1>2, <1>4 DEF UnderWay, NoDraft, Nothing
<1>7. \E d : Gathered(Validators', d, patches') /\ draft' = AppendPatches(d, patches')
    BY <1>2, <1>3, <1>4 DEF UnderWay
<1>8. UnderWay'
    BY <1>5, <1>6, <1>7 DEF UnderWay
<1> QED
    BY <1>2, <1>8 DEF AccInv

\* The archival node has checked the block.
LEMMA ValidateAcc ==
    ASSUME Inv, AccInv, ValidateBlock
    PROVE  AccInv'
<1>1. Idle'
    BY DEF ValidateBlock, Idle, NoDraft, Nothing
<1>2. verdict' \in BOOLEAN
    BY DEF ValidateBlock, CheckBlockAsSNode
<1> QED
    BY <1>1, <1>2 DEF AccInv

\* The invariant is inductive under that of the contract.
LEMMA NextAcc == Inv /\ AccInv /\ [Next]_vars => AccInv'
<1> SUFFICES ASSUME Inv, AccInv, [Next]_vars PROVE AccInv'
    OBVIOUS
<1>1. CASE NextContractState /\ UNCHANGED <<draft, patches, wire, verdict>>
    BY <1>1, ContractAcc
<1>2. ASSUME NEW v \in Nodes, NEW b \in Blocks, Produce(v, b) PROVE AccInv'
    BY <1>2, ProduceAcc
<1>3. ASSUME NEW a \in Nodes, NEW votes \in Ballots, Attest(a, votes) PROVE AccInv'
    BY <1>3, AttestAcc
<1>4. CASE Send
    BY <1>4, SendAcc
<1>5. CASE Recode
    BY <1>5, RecodeAcc
<1>6. CASE ValidateBlock
    BY <1>6, ValidateAcc
<1>7. CASE UNCHANGED vars
    BY <1>7, ContractAcc DEF vars
<1> QED
    BY <1>1, <1>2, <1>3, <1>4, <1>5, <1>6, <1>7 DEF Next

\* All invariants together.
LEMMA AccInvariant == Spec => [](Inv /\ Bounded /\ ContractTypeOK /\ AccInv)
<1>1. Spec => []Inv
    BY ContractPart, PTL
<1>2. Spec => []AccInv
    BY <1>1, InitAcc, NextAcc, PTL DEF Spec
<1> QED
    BY <1>2, ContractPart, PTL
-----------------------------------------------------------------------------
(* Types *)

\* A producer has gathered from other nodes, once from each.
LEMMA FewPatches ==
    ASSUME Inv, NEW d, NEW ps, Gathered(Validators, d, ps)
    PROVE  Len(ps) < Cardinality(Nodes)
<1>1. PICK v : v = d.signers[1].sig.by
    OBVIOUS
<1>2. v \in Nodes
    BY <1>1, ValidatorsAreNodes DEF Gathered, Produced, SignedBy
<1> DEFINE others == Nodes \ {v}
           f == [k \in 1..Len(ps) |-> ps[k].signer.sig.by]
<1>3. IsFiniteSet(others) /\ Cardinality(others) = Cardinality(Nodes) - 1
      /\ Cardinality(Nodes) \in Nat
    BY <1>2, AcceptanceAssumption, FS_RemoveElement, FS_CardinalityType
<1>4. Len(ps) \in Nat /\ DOMAIN ps = 1..Len(ps)
    BY ListForm DEF Gathered
<1>5. \A k \in 1..Len(ps) : ps[k].signer.sig.by \in others
    BY <1>1, <1>4, ValidatorsAreNodes DEF Gathered, IsPatch, SignedBy
<1>6. \A j, k \in 1..Len(ps) : ps[j].signer.sig.by = ps[k].signer.sig.by => j = k
    BY <1>4 DEF Gathered
<1>7. f \in Injection(1..Len(ps), others)
    BY <1>5, <1>6 DEF Injection, IsInjective
<1>8. Cardinality(1..Len(ps)) = Len(ps)
    BY <1>4, IntervalSize, FS_Interval
<1> HIDE DEF others, f
<1>9. Cardinality(1..Len(ps)) <= Cardinality(others)
    BY <1>3, <1>7, FS_Injection
<1> QED
    BY <1>3, <1>4, <1>8, <1>9

\* The invariants give the types.
LEMMA AccTyped == Inv /\ ContractTypeOK /\ AccInv => TypeOK
<1> SUFFICES ASSUME Inv, ContractTypeOK, AccInv PROVE TypeOK
    OBVIOUS
<1>1. CASE Idle
    <2>1. Len(patches) = 0
        BY <1>1, Singletons DEF Idle
    <2>2. Cardinality(Nodes) \in Nat /\ Cardinality(Nodes) # 0
        BY AcceptanceAssumption, FS_CardinalityType, FS_EmptySet
    <2>3. Len(patches) < Cardinality(Nodes)
        BY <2>1, <2>2
    <2> QED
        BY <1>1, <2>3 DEF Idle, TypeOK, AccInv
<1>2. CASE InMaking
    <2>1. draft.signers = <<draft.signers[1]>> /\ Len(<<draft.signers[1]>>) = 1
        BY <1>2, Singletons DEF InMaking, Gathered, Produced
    <2>2. Len(patches) < Cardinality(Nodes)
        BY <1>2, FewPatches DEF InMaking
    <2>3. Len(draft.signers) = 1
        BY <2>1
    <2> QED
        BY <1>2, <2>2, <2>3 DEF InMaking, TypeOK, AccInv
<1>3. CASE UnderWay
    <2>1. PICK d : Gathered(Validators, d, patches) /\ draft = AppendPatches(d, patches)
        BY <1>3 DEF UnderWay
    <2>2. Len(draft.signers) = Len(patches) + 1
        BY <2>1, Assembled
    <2>3. Len(patches) < Cardinality(Nodes)
        BY <2>1, FewPatches
    <2> QED
        BY <1>3, <2>2, <2>3 DEF UnderWay, TypeOK, AccInv
<1> QED
    BY <1>1, <1>2, <1>3 DEF AccInv

\* The types: among others, a block has no more attestations than there are
\* other nodes, as its producer refuses its own and second ones.
THEOREM AcceptanceTypeCorrect == Spec => []TypeOK
BY AccInvariant, AccTyped, PTL
-----------------------------------------------------------------------------
(* What validateBlock accepts *)

\* What the node knows as validators are nodes.
LEMMA KnownNodes ==
    ASSUME Inv
    PROVE  DOMAIN maps["VNode"] \subseteq Nodes /\ Stranger \notin DOMAIN maps["VNode"]
<1>1. Map(env.test, "VNode", maps["VNode"])
    BY DEF Inv, Typed, Types
<1> QED
    BY <1>1, AcceptanceAssumption DEF Map

\* What a proper block that arrives is to the node when it accepts it: signed by
\* known validators, each over the content and its own votes.
LEMMA AcceptedForm ==
    ASSUME NEW b, IsBlock(b), NEW known, Stranger \notin known,
           NEW k \in Nat \ {0}, CheckBlockAsSNode(b, known, k)
    PROVE  /\ 1 \in DOMAIN b.signers /\ b.signers # << >>
           /\ SignedBy(known, b.signers[1].sig, Bare(b))
           /\ \A i \in 2..Len(b.signers) :
                /\ i \in DOMAIN b.signers
                /\ \A t \in DOMAIN b.txobj : i - 1 \in DOMAIN b.txobj[t].attestordata
                /\ SignedBy(known, b.signers[i].sig,
                        WithVotes(b, [t \in DOMAIN b.txobj |-> b.txobj[t].attestordata[i - 1]]))
<1>1. /\ Len(b.signers) = k /\ DOMAIN b.signers = 1..Len(b.signers)
      /\ \A i \in DOMAIN b.signers : RecoverSigner(b, i) \in known
    BY BlockForm DEF CheckBlockAsSNode
<1>2. 1 \in DOMAIN b.signers /\ b.signers # << >>
    BY <1>1, Singletons
<1>3. SignedBy(known, b.signers[1].sig, Bare(b))
    <2>1. Recover(BlockBytes(Bare(b)), b.signers[1].sig) \in known
        BY <1>1, <1>2, RecoverFirst
    <2> QED
        BY <2>1, Recovered
<1>4. ASSUME NEW i \in 2..Len(b.signers)
      PROVE  /\ i \in DOMAIN b.signers
             /\ \A t \in DOMAIN b.txobj : i - 1 \in DOMAIN b.txobj[t].attestordata
             /\ SignedBy(known, b.signers[i].sig,
                    WithVotes(b, [t \in DOMAIN b.txobj |-> b.txobj[t].attestordata[i - 1]]))
    <2> DEFINE votes == [t \in DOMAIN b.txobj |-> b.txobj[t].attestordata[i - 1]]
    <2>1. i \in DOMAIN b.signers /\ i # 1 /\ i - 1 \in Nat \ {0}
        BY <1>1
    <2>2. RecoverSigner(b, i) \in known
        BY <1>1, <2>1
    <2>3. RecoverSigner(b, i) =
            IF \E t \in DOMAIN b.txobj : Len(b.txobj[t].attestordata) < i - 1 THEN Stranger
            ELSE Recover(BlockBytes(WithVotes(b, votes)), b.signers[i].sig)
        BY <2>1, RecoverOther
    <2> HIDE DEF votes
    <2>4. \A t \in DOMAIN b.txobj : ~(Len(b.txobj[t].attestordata) < i - 1)
        BY <2>2, <2>3
    <2>5. Recover(BlockBytes(WithVotes(b, votes)), b.signers[i].sig) \in known
        BY <2>2, <2>3, <2>4
    <2>6. SignedBy(known, b.signers[i].sig, WithVotes(b, votes))
        BY <2>5, Recovered
    <2>7. \A t \in DOMAIN b.txobj : i - 1 \in DOMAIN b.txobj[t].attestordata
        BY <2>1, <2>4, BlockForm
    <2> QED
        BY <2>1, <2>6, <2>7 DEF votes
<1> QED
    BY <1>2, <1>3, <1>4

\* The signatures of an assembled block, and what they are over.
LEMMA AssembledSigners ==
    ASSUME NEW nodes, NEW d, NEW ps, Gathered(nodes, d, ps),
           NEW b, b = AppendPatches(d, ps), NEW s \in Elements(b.signers)
    PROVE  \/ s = d.signers[1] /\ s.sig.over = BlockBytes(Bare(d))
           \/ \E k \in DOMAIN ps :
                s = ps[k].signer /\ s.sig.over = BlockBytes(WithVotes(d, ps[k].attestordata))
<1>1. /\ IsBlock(b) /\ Len(ps) \in Nat /\ DOMAIN ps = 1..Len(ps)
      /\ Len(b.signers) = Len(ps) + 1 /\ b.signers[1] = d.signers[1]
      /\ \A k \in DOMAIN ps : b.signers[k + 1] = ps[k].signer
    BY Assembled
<1>2. PICK i \in DOMAIN b.signers : s = b.signers[i]
    BY DEF Elements
<1>3. i \in 1..(Len(ps) + 1)
    BY <1>1, BlockForm
<1>4. CASE i = 1
    BY <1>1, <1>2, <1>4 DEF Gathered, Produced, SignedBy
<1>5. CASE i # 1
    <2>1. PICK k \in 1..Len(ps) : i = k + 1
        <3>1. i - 1 \in 1..Len(ps) /\ i = (i - 1) + 1
            BY <1>1, <1>3, <1>5
        <3> QED
            BY <3>1
    <2>2. s = ps[k].signer
        BY <1>1, <1>2, <2>1
    <2>3. IsPatch(nodes, d, ps[k])
        BY <1>1, <2>1 DEF Gathered
    <2> QED
        BY <1>1, <2>1, <2>2, <2>3 DEF IsPatch, SignedBy
<1> QED
    BY <1>4, <1>5

\* One who signs a block without signers signs no votes.
LEMMA ProducerOrAttestor ==
    ASSUME NEW b, IsBlock(b), NEW d, IsBlock(d), d.signers # << >>, NEW votes,
           \A i \in DOMAIN d.txobj : IsTxAttestorData(votes[i])
    PROVE  BlockBytes(Bare(b)) # BlockBytes(WithVotes(d, votes))
<1>1. IsBlock(Bare(b)) /\ IsBlock(WithVotes(d, votes))
    BY BareIsBlock, WithVotesIsBlock
<1>2. Bare(b).signers = << >> /\ WithVotes(d, votes).signers = <<d.signers[1]>>
    BY DEF Bare, WithVotes
<1>3. Len(<<d.signers[1]>>) = 1 /\ Len(<< >>) = 0
    BY Singletons
<1>4. PICK x, y : x = Bare(b) /\ y = WithVotes(d, votes)
    OBVIOUS
<1>5. x.signers = << >> /\ y.signers = <<d.signers[1]>>
    BY <1>2, <1>4
<1>6. x # y
    BY <1>3, <1>5
<1>7. IsBlock(x) /\ IsBlock(y)
    BY <1>1, <1>4
<1>8. BlockBytes(x) # BlockBytes(y)
    BY <1>6, <1>7, BytesTellBlocksApart
<1> QED
    BY <1>4, <1>8

\* The content of a block is what its producer signs.
LEMMA ContentIsBare ==
    ASSUME NEW b, IsBlock(b)
    PROVE  Content(b) = Bare(b)
<1> DEFINE txs == [i \in DOMAIN b.txobj |-> [b.txobj[i] EXCEPT !.attestordata = << >>]]
           cleared == [b EXCEPT !.signers = << >>, !.txobj = txs]
<1>1. Content(b) = cleared
    BY DEF Content, Each
<1>2. cleared = Bare(b)
    BY ClearedForm
<1> QED
    BY <1>1, <1>2

\* A signature of a node in what arrives has been made for the block.
LEMMA FromTheMaking ==
    ASSUME UnderWay, Inv, NEW i \in DOMAIN BlockOf(wire).signers, NEW b,
           SignedBy(DOMAIN maps["VNode"], BlockOf(wire).signers[i].sig, b)
    PROVE  BlockOf(wire).signers[i] \in Elements(draft.signers)
<1>1. PICK s : s = BlockOf(wire).signers[i]
    OBVIOUS
<1>2. s \in Elements(BlockOf(wire).signers)
    BY <1>1 DEF Elements
<1>3. s.sig # NoBytes /\ s.sig.by \in Nodes
    BY <1>1, KnownNodes DEF SignedBy
<1> QED
    BY <1>1, <1>2, <1>3 DEF UnderWay, IsUnforged

\* A check that accepts.
LEMMA AcceptedStep ==
    ASSUME Inv, Bounded, AccInv, ValidateBlock, verdict'
    PROVE  LET b == BlockOf(wire) IN
           /\ Content(b) = Content(draft)
           /\ b.signers[1] = draft.signers[1]
           /\ \A i \in 2..Len(b.signers) : \E k \in DOMAIN patches :
                /\ b.signers[i] = patches[k].signer
                /\ \A t \in DOMAIN b.txobj :
                    b.txobj[t].attestordata[i - 1] = patches[k].attestordata[t]
<1>1. PICK b : b = BlockOf(wire)
    OBVIOUS
<1>2. PICK known : known = DOMAIN maps["VNode"]
    OBVIOUS
<1>3. UnderWay
    BY DEF ValidateBlock, AccInv, Idle, InMaking
<1>4. IsBlock(b)
    BY <1>1, <1>3 DEF UnderWay
<1>5. valPerBlock \in Nat \ {0}
    BY AcceptanceAssumption DEF Bounded, ValidateBlock
<1>6. CheckBlockAsSNode(b, known, valPerBlock)
    BY <1>1, <1>2 DEF ValidateBlock
<1>7. Stranger \notin known
    BY <1>2, KnownNodes
<1>8. PICK d : Gathered(Validators, d, patches) /\ draft = AppendPatches(d, patches)
    BY <1>3 DEF UnderWay
<1>9. IsBlock(d) /\ d.signers = <<d.signers[1]>> /\ d.signers # << >>
    BY <1>8, Singletons DEF Gathered, Produced
<1>10. /\ 1 \in DOMAIN b.signers /\ b.signers # << >>
       /\ SignedBy(known, b.signers[1].sig, Bare(b))
    BY <1>4, <1>5, <1>6, <1>7, AcceptedForm
<1>11. IsBlock(draft) /\ Bare(draft) = Bare(d) /\ draft.signers[1] = d.signers[1]
    BY <1>8, Assembled
<1>12. \A k \in DOMAIN patches : \A i \in DOMAIN d.txobj :
            IsTxAttestorData(patches[k].attestordata[i])
    BY <1>8 DEF Gathered, IsPatch
<1>13. Bare(b) = Bare(d) /\ b.signers[1] = d.signers[1]
    <2>1. PICK s : s = b.signers[1]
        OBVIOUS
    <2>2. s \in Elements(draft.signers)
        BY <1>1, <1>2, <1>3, <1>10, <2>1, FromTheMaking
    <2>3. s.sig.over = BlockBytes(Bare(b))
        BY <1>10, <2>1 DEF SignedBy
    <2>4. \A k \in DOMAIN patches :
            BlockBytes(Bare(b)) # BlockBytes(WithVotes(d, patches[k].attestordata))
        BY <1>4, <1>9, <1>12, ProducerOrAttestor
    <2>5. s = d.signers[1] /\ s.sig.over = BlockBytes(Bare(d))
        BY <1>8, <2>2, <2>3, <2>4, AssembledSigners
    <2> QED
        BY <1>4, <1>9, <2>1, <2>3, <2>5, BareIsBlock, BytesTellBlocksApart
<1>14. Content(b) = Content(draft)
    BY <1>4, <1>11, <1>13, ContentIsBare
<1>15. ASSUME NEW i \in 2..Len(b.signers)
       PROVE  \E k \in DOMAIN patches :
                /\ b.signers[i] = patches[k].signer
                /\ \A t \in DOMAIN b.txobj :
                    b.txobj[t].attestordata[i - 1] = patches[k].attestordata[t]
    <2>1. PICK votes : votes = [t \in DOMAIN b.txobj |-> b.txobj[t].attestordata[i - 1]]
        OBVIOUS
    <2>2. /\ i \in DOMAIN b.signers
          /\ \A t \in DOMAIN b.txobj : i - 1 \in DOMAIN b.txobj[t].attestordata
          /\ SignedBy(known, b.signers[i].sig, WithVotes(b, votes))
        BY <1>4, <1>5, <1>6, <1>7, <2>1, AcceptedForm
    <2>3. \A t \in DOMAIN b.txobj :
            votes[t] = b.txobj[t].attestordata[i - 1] /\ IsTxAttestorData(votes[t])
        BY <1>4, <2>1, <2>2 DEF IsBlock, IsTransactionObj
    <2>4. PICK s : s = b.signers[i]
        OBVIOUS
    <2>5. s \in Elements(draft.signers)
        BY <1>1, <1>2, <1>3, <2>2, <2>4, FromTheMaking
    <2>6. s.sig.over = BlockBytes(WithVotes(b, votes))
        BY <2>2, <2>4 DEF SignedBy
    <2>7. BlockBytes(Bare(d)) # BlockBytes(WithVotes(b, votes))
        BY <1>4, <1>9, <1>10, <2>3, ProducerOrAttestor
    <2>8. PICK k \in DOMAIN patches :
            s = patches[k].signer /\ s.sig.over = BlockBytes(WithVotes(d, patches[k].attestordata))
        BY <1>8, <2>5, <2>6, <2>7, AssembledSigners
    <2>9. PICK theirs : theirs = patches[k].attestordata
        OBVIOUS
    <2>10. IsBlock(WithVotes(b, votes)) /\ IsBlock(WithVotes(d, theirs))
        BY <1>4, <1>9, <1>10, <1>12, <2>3, <2>9, WithVotesIsBlock
    <2>11. WithVotes(b, votes) = WithVotes(d, theirs)
        BY <2>6, <2>8, <2>9, <2>10, BytesTellBlocksApart
    <2>12. \A t \in DOMAIN b.txobj : votes[t] = theirs[t]
        <3>1. SUFFICES ASSUME NEW t \in DOMAIN b.txobj PROVE votes[t] = theirs[t]
            OBVIOUS
        <3>2. DOMAIN WithVotes(b, votes).txobj = DOMAIN b.txobj
              /\ DOMAIN WithVotes(d, theirs).txobj = DOMAIN d.txobj
            BY DEF WithVotes
        <3>3. t \in DOMAIN d.txobj
            BY <2>11, <3>1, <3>2
        <3>4. WithVotes(b, votes).txobj[t].attestordata = <<votes[t]>>
              /\ WithVotes(d, theirs).txobj[t].attestordata = <<theirs[t]>>
            BY <3>1, <3>3 DEF WithVotes
        <3>5. <<votes[t]>> = <<theirs[t]>>
            BY <2>11, <3>4
        <3> QED
            BY <3>5
    <2> QED
        BY <2>3, <2>4, <2>8, <2>9, <2>12
<1> QED
    BY <1>1, <1>11, <1>13, <1>14, <1>15

\* What validateBlock (archive-node.service.ts 137-151) accepts says what the
\* producer signed; each further signature is a validator's over that content
\* and the votes at its own index.  Nothing on the way has removed, added or
\* changed a transaction or a vote that a signature covers.
THEOREM AcceptedBlocksAreAsSigned == Spec => AcceptedIsAsSigned
<1>1. ASSUME Inv, Bounded, AccInv, [Next]_vars
      PROVE  [ValidateBlock /\ verdict' =>
                LET b == BlockOf(wire) IN
                /\ Content(b) = Content(draft)
                /\ b.signers[1] = draft.signers[1]
                /\ \A i \in 2..Len(b.signers) : \E k \in DOMAIN patches :
                    /\ b.signers[i] = patches[k].signer
                    /\ \A t \in DOMAIN b.txobj :
                        b.txobj[t].attestordata[i - 1] = patches[k].attestordata[t]]_vars
    BY <1>1, AcceptedStep
<1> QED
    BY <1>1, AccInvariant, PTL DEF Spec, AcceptedIsAsSigned
-----------------------------------------------------------------------------
(* What validateBlock must accept *)

\* The validators that a node knows when it has caught up.
LEMMA KnownValidators ==
    ASSUME Inv, phase = "ready", CaughtUp, ~env.test
    PROVE  Validators \subseteq DOMAIN maps["VNode"] /\ valPerBlock = quorum
<1>1. MapsFollowContract /\ events = << >>
    BY InvImplies DEF CaughtUp
<1>2. ASSUME NEW v \in Validators PROVE v \in DOMAIN maps["VNode"]
    <2>1. v \in heard \ {Params} /\ v \in DOMAIN status /\ NodeType[v] = "VNode"
        BY ValidatorsAreNodes, ContractAssumption DEF CaughtUp, Validators, TypeIs
    <2> QED
        BY <1>1, <2>1 DEF MapsFollowContract
<1> QED
    BY <1>1, <1>2 DEF MapsFollowContract, CaughtUp

\* A check of what has been assembled.
LEMMA AssembledStep ==
    ASSUME Inv, AccInv, ValidateBlock, CaughtUp, ~env.test, Len(draft.signers) = quorum,
           BlockOf(wire) = draft
    PROVE  verdict'
<1>1. UnderWay
    BY DEF ValidateBlock, AccInv, Idle, InMaking
<1>2. PICK d : Gathered(Validators, d, patches) /\ draft = AppendPatches(d, patches)
    BY <1>1 DEF UnderWay
<1>3. PICK b : b = draft
    OBVIOUS
<1>4. PICK known : known = DOMAIN maps["VNode"]
    OBVIOUS
<1>5. Validators \subseteq known /\ valPerBlock = quorum
    BY <1>4, KnownValidators DEF ValidateBlock
<1>6. /\ IsBlock(b) /\ Bare(b) = Bare(d)
      /\ \A votes : WithVotes(b, votes) = WithVotes(d, votes)
      /\ DOMAIN b.txobj = DOMAIN d.txobj
      /\ \A i \in DOMAIN d.txobj :
            /\ Len(b.txobj[i].attestordata) = Len(patches)
            /\ \A k \in DOMAIN patches :
                b.txobj[i].attestordata[k] = patches[k].attestordata[i]
      /\ Len(patches) \in Nat /\ DOMAIN patches = 1..Len(patches)
      /\ Len(b.signers) = Len(patches) + 1 /\ b.signers[1] = d.signers[1]
      /\ \A k \in DOMAIN patches : b.signers[k + 1] = patches[k].signer
    BY <1>2, <1>3, Assembled
<1>7. RecoverSigner(b, 1) \in known
    <2>1. RecoverSigner(b, 1) = Recover(BlockBytes(Bare(d)), d.signers[1].sig)
        BY <1>6, RecoverFirst
    <2>2. SignedBy(Validators, d.signers[1].sig, Bare(d))
        BY <1>2 DEF Gathered, Produced
    <2>3. RecoverSigner(b, 1) = d.signers[1].sig.by
        BY <2>1, <2>2, Recovered
    <2> QED
        BY <1>5, <2>2, <2>3 DEF SignedBy
<1>8. ASSUME NEW k \in DOMAIN patches PROVE RecoverSigner(b, k + 1) \in known
    <2>1. k \in Nat /\ k >= 1 /\ k <= Len(patches) /\ (k + 1) - 1 = k /\ k + 1 # 1
        BY <1>6
    <2>2. PICK i : i = k + 1
        OBVIOUS
    <2>3. i # 1 /\ i - 1 = k
        BY <2>1, <2>2
    <2> DEFINE votes == [t \in DOMAIN b.txobj |-> b.txobj[t].attestordata[i - 1]]
    <2>4. RecoverSigner(b, i) =
            IF \E t \in DOMAIN b.txobj : Len(b.txobj[t].attestordata) < i - 1 THEN Stranger
            ELSE Recover(BlockBytes(WithVotes(b, votes)), b.signers[i].sig)
        BY <1>6, <2>3, RecoverOther
    <2>5. \A t \in DOMAIN d.txobj : votes[t] = patches[k].attestordata[t]
        BY <1>6, <2>3
    <2> HIDE DEF votes
    <2>6. ~ \E t \in DOMAIN b.txobj : Len(b.txobj[t].attestordata) < i - 1
        BY <1>6, <2>1, <2>3
    <2>7. RecoverSigner(b, i) = Recover(BlockBytes(WithVotes(d, votes)), patches[k].signer.sig)
        BY <1>6, <2>2, <2>4, <2>6
    <2>8. WithVotes(d, votes) = WithVotes(d, patches[k].attestordata)
        BY <2>5 DEF WithVotes
    <2>9. SignedBy(Validators, patches[k].signer.sig, WithVotes(d, patches[k].attestordata))
        BY <1>2 DEF Gathered, IsPatch
    <2>10. RecoverSigner(b, i) = patches[k].signer.sig.by
        BY <2>7, <2>8, <2>9, Recovered
    <2> QED
        BY <1>5, <2>2, <2>9, <2>10 DEF SignedBy
<1>9. ASSUME NEW i \in DOMAIN b.signers PROVE RecoverSigner(b, i) \in known
    <2>1. i \in 1..(Len(patches) + 1)
        BY <1>6, BlockForm
    <2>2. CASE i = 1
        BY <1>7, <2>2
    <2>3. CASE i # 1
        <3>1. i - 1 \in DOMAIN patches /\ (i - 1) + 1 = i
            BY <1>6, <2>1, <2>3
        <3>2. PICK k \in DOMAIN patches : k + 1 = i
            BY <3>1
        <3> QED
            BY <1>8, <3>2
    <2> QED
        BY <2>2, <2>3
<1>10. CheckBlockAsSNode(b, known, valPerBlock)
    BY <1>3, <1>5, <1>9 DEF CheckBlockAsSNode
<1> QED
    BY <1>3, <1>4, <1>10 DEF ValidateBlock

\* A block that registered validators have made by the functions of blockUtil.ts
\* passes validateBlock on every node that has caught up with the contract,
\* whatever the order of the attestations and the form of its bytes.
THEOREM AssembledBlocksPass == Spec => AssembledIsAccepted
<1>1. ASSUME Inv, AccInv, [Next]_vars
      PROVE  [ValidateBlock /\ CaughtUp /\ ~env.test /\ Len(draft.signers) = quorum
                /\ BlockOf(wire) = draft
              => verdict']_vars
    BY <1>1, AssembledStep
<1> QED
    BY <1>1, AccInvariant, PTL DEF Spec, AssembledIsAccepted
=============================================================================
