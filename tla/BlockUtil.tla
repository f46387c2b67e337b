----------------------------- MODULE BlockUtil ------------------------------
(***************************************************************************)
(* Signing and checking blocks and transactions (blockUtil.ts, with        *)
(* pushSdkUtil.ts and ChainUtil.parseCaipAddress).                         *)
(*                                                                         *)
(* Cryptography is ideal: a signature is who made it and over which bytes, *)
(* and over other bytes it recovers to an address nobody has.  A check     *)
(* that throws rejects, as its callers catch the error.  Signatures are    *)
(* numbered from 1 here, from 0 in the code.                               *)
(***************************************************************************)
EXTENDS PushMessages

CONSTANTS
    ValidatorTokens, \* byte strings that begin with VT1
    AttestTokens,    \* byte strings that begin with AT1
    Short,           \* byte strings of less than four bytes
    AddressOf,       \* [public keys -> EVM addresses], computeAddress
    EvmOfPush,       \* [Push addresses -> EVM addresses], pushAddrToEvmAddr
    Stranger,        \* the address that a wrong signature recovers to
    MaxTxSize,       \* MAX_TRANSACTION_SIZE_BYTES, in fields
    MaxTotalSize,    \* MAX_TOTAL_TRANSACTION_SIZE_BYTES, in fields
    MaxTxs           \* MAX_TRANSACTIONS_PER_BLOCK

HasMinSize(bytes) == bytes # NoBytes /\ bytes \notin Short
Hash(kind, bytes) == [kind |-> kind, of |-> bytes]

\* EthUtil.signBytes, EthUtil.recoverAddressFromMsg, ethers' verifyMessage
SignBytes(signer, bytes) == [by |-> signer, over |-> bytes]
Recover(bytes, sig) ==
    IF sig # NoBytes /\ sig.over = bytes THEN sig.by ELSE Stranger
-----------------------------------------------------------------------------
(* Addresses: a text is the sequence of its components between colons. *)

HasSize(text, min, max) == Len(text) \in min..max
NoPrefix(addr) ==
    IF Len(addr) >= 2 /\ SubSeq(addr, 1, 2) = "0x" THEN SubSeq(addr, 3, Len(addr)) ELSE addr

Namespace(caip) == caip[1]
Addr(caip) == caip[Len(caip)]

\* parseCaipAddress gives no error: the chain id may be missing.
IsCaipAddress(caip) ==
    /\ caip # NoText
    /\ Len(caip) \in {2, 3}
    /\ HasSize(Namespace(caip), 1, 8)
    /\ Len(caip) = 3 => HasSize(caip[2], 1, 32)
    /\ HasSize(NoPrefix(Addr(caip)), 4, 65)

IsFullCAIPAddress(caip) == IsCaipAddress(caip) /\ Len(caip) = 3
-----------------------------------------------------------------------------
(* Transactions *)

\* checkPushNetworkSignature
CheckPushNetworkSignature(caip, bytes, sig) ==
    CASE Namespace(caip) = "push" ->
            Addr(caip) \in DOMAIN EvmOfPush /\ Recover(bytes, sig) = EvmOfPush[Addr(caip)]
      [] Namespace(caip) = "eip155" -> Recover(bytes, sig) = Addr(caip)
      [] Namespace(caip) = "solana" -> Recover(bytes, sig) = Addr(caip)
      [] OTHER -> FALSE

\* The three validations of an INIT_DID: its key signed it, its key is that of
\* the sender, and each wallet has signed for the key.
CheckInitDid(tx, bytes) ==
    LET did == InitDidOf(tx.data)
        wallets == did.wallettoencderivedkey
    IN  /\ did.masterpubkey \in DOMAIN AddressOf
        /\ Recover(Hash("message", bytes), tx.signature) = AddressOf[did.masterpubkey]
        /\ Addr(tx.sender) \in DOMAIN EvmOfPush
        /\ EvmOfPush[Addr(tx.sender)] = AddressOf[did.masterpubkey]
        /\ \A wallet \in DOMAIN wallets :
            /\ IsCaipAddress(wallet)
            /\ CheckPushNetworkSignature(wallet, Hash("connect", did.masterpubkey),
                                         wallets[wallet].signature)

\* What a transaction's signature is over: its bytes without it.
Unsigned(tx) == TransactionBytes([TransactionOf(TransactionBytes(tx))
                                    EXCEPT !.signature = NoBytes])

CheckTxSignature(tx) ==
    /\ IsCaipAddress(tx.sender)
    /\ HasMinSize(tx.signature)
    /\ IF tx.category = "INIT_DID"
       THEN CheckInitDid(tx, Unsigned(tx))
       ELSE CheckPushNetworkSignature(tx.sender, Hash("message", Unsigned(tx)), tx.signature)

\* checkTxPayload always succeeds: its failures are made but not returned.
CheckTx(tx) ==
    /\ tx.apitoken \in ValidatorTokens
    /\ tx.type = 0
    /\ IsFullCAIPAddress(tx.sender)
    /\ \A recipient \in Elements(tx.recipients) : IsFullCAIPAddress(recipient)
    /\ HasMinSize(tx.salt)
    /\ CheckTxSignature(tx)

\* signTxEVM, signTxSolana, signTxStarkNet, signInitDid; the signature must be
\* empty before, and an INIT_DID must have the signer's key.
SignTx(tx, signer) ==
    [tx EXCEPT !.signature = SignBytes(signer, Hash("message", TransactionBytes(tx)))]
-----------------------------------------------------------------------------
(* Making a block *)

Accepted == 1
Rejected == 2

\* signBlockAsValidator, for a block without signers
SignBlockAsValidator(wallet, b) ==
    LET Voted(txobj) == [txobj EXCEPT !.validatordata = [vote |-> Accepted, didmapping |-> Null],
                                      !.attestordata = << >>]
        voted == [b EXCEPT !.txobj = Each(@, Voted)]
    IN  [voted EXCEPT !.signers = <<[sig |-> SignBytes(wallet, BlockBytes(voted))]>>]

WithAttestation(b, attestations) ==
    [b EXCEPT !.txobj = [i \in DOMAIN @ |-> [@[i] EXCEPT !.attestordata = <<attestations[i]>>]]]

\* signBlockAsAttestor, for a block with the validator's signature only.  The
\* tests vote ACCEPTED; a vote per transaction is allowed here.
SignBlockAsAttestor(wallet, b, votes) ==
    LET attestations == [i \in DOMAIN b.txobj |-> [vote |-> votes[i]]]
        attested == WithAttestation(BlockOf(BlockBytes(b)), attestations)
    IN  [attestordata |-> attestations,
         signer |-> [sig |-> SignBytes(wallet, BlockBytes(attested))]]

\* recoverPatchAddress
RecoverPatchAddress(b, ar) ==
    Recover(BlockBytes(WithAttestation(BlockOf(BlockBytes(b)), ar.attestordata)), ar.signer.sig)

\* appendPatchAsValidator, for one patch after the other
AppendPatches(b, patches) ==
    [b EXCEPT !.signers = @ \o [k \in DOMAIN patches |-> patches[k].signer],
              !.txobj = [i \in DOMAIN @ |-> [@[i] EXCEPT !.attestordata =
                  b.txobj[i].attestordata
                      \o [k \in DOMAIN patches |-> patches[k].attestordata[i]]]]]
-----------------------------------------------------------------------------
(* Checking a block *)

\* Mutant of RecoverSigner: the attestations stay in the validator's bytes.
RecoverSignerWithVotes(b, i) ==
    LET copy == BlockOf(BlockBytes(b)) IN
    IF i = 1 THEN Recover(BlockBytes([copy EXCEPT !.signers = << >>]), b.signers[1].sig)
    ELSE IF \E k \in DOMAIN b.txobj : Len(b.txobj[k].attestordata) < i - 1 THEN Stranger
    ELSE Recover(BlockBytes(
            WithAttestation([copy EXCEPT !.signers = <<b.signers[1]>>],
                [k \in DOMAIN b.txobj |-> b.txobj[k].attestordata[i - 1]])), b.signers[i].sig)

\* recoverSignerAddress: the validator signed the block without signers and
\* attestations, the others the block with its signature and their attestation;
\* a missing attestation cannot be written.
RecoverSigner(b, i) ==
    LET copy == BlockOf(BlockBytes(b))
        Cleared(txobj) == [txobj EXCEPT !.attestordata = << >>]
    IN  IF i = 1
        THEN Recover(BlockBytes([copy EXCEPT !.signers = << >>, !.txobj = Each(@, Cleared)]),
                     b.signers[1].sig)
        ELSE IF \E k \in DOMAIN b.txobj : Len(b.txobj[k].attestordata) < i - 1
        THEN Stranger
        ELSE Recover(BlockBytes(
                WithAttestation([copy EXCEPT !.signers = <<b.signers[1]>>],
                    [k \in DOMAIN b.txobj |-> b.txobj[k].attestordata[i - 1]])),
                b.signers[i].sig)

TxSize(tx) == Len(TransactionBytes(tx))
TotalSize(b) == FoldSeq(LAMBDA txobj, n : n + TxSize(txobj.tx), 0, b.txobj)

\* checkBlockAsAttestor; MAX_BLOCK_AGE_SECONDS is 0, no limit, by default.
CheckBlockAsAttestor(b, validators) ==
    /\ b.attesttoken \in AttestTokens
    /\ Len(b.txobj) < MaxTxs
    /\ HasMinSize(b.attesttoken)
    /\ \A txobj \in Elements(b.txobj) :
        /\ txobj.tx # Null
        /\ TxSize(txobj.tx) <= MaxTxSize
        /\ txobj.validatordata # Null /\ txobj.validatordata.vote = Accepted
        /\ CheckTx(txobj.tx)
    /\ TotalSize(b) <= MaxTotalSize
    /\ b.signers # << >>
    /\ \A txobj \in Elements(b.txobj) : Len(txobj.attestordata) = Len(b.signers) - 1
    /\ RecoverSigner(b, 1) \in validators

\* Mutant of CheckBlockAsSNode: the first signature is passed over.
CheckBlockButFirst(b, validators, valPerBlock) ==
    /\ Len(b.signers) = valPerBlock
    /\ \A i \in 2..Len(b.signers) : RecoverSigner(b, i) \in validators

\* checkBlockAsSNode.  Without a signature the copy with only the validator's
\* cannot be made, but the contract's valPerBlock is positive.
CheckBlockAsSNode(b, validators, valPerBlock) ==
    /\ Len(b.signers) = valPerBlock
    /\ \A i \in DOMAIN b.signers : RecoverSigner(b, i) \in validators
=============================================================================
