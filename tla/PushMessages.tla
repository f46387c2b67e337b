---------------------------- MODULE PushMessages ----------------------------
(***************************************************************************)
(* The protobuf messages of blocks and transactions (generated/push/       *)
(* block_pb.js), as their bytes and as objects.                            *)
(*                                                                         *)
(* The bytes of a message are the sequence of its fields <<number, value>> *)
(* as they stand on the wire; the value of a nested message is its bytes,  *)
(* that of a map entry the pair of its key and value.  An object is a      *)
(* record with what the accessors give, the default where a field is not   *)
(* set.  Byte strings and texts are single values.                         *)
(***************************************************************************)
EXTENDS Naturals, Sequences, FiniteSets, SequencesExt

CONSTANTS
    NoBytes, \* the empty byte string
    NoText,  \* the empty string
    Null     \* a nested message that is not set

\* The places of a field, and the one of them that comes k-th.
Places(bytes, no) == {i \in DOMAIN bytes : bytes[i][1] = no}
Nth(places, k) == CHOOSE i \in places : Cardinality(places \intersect 1..i) = k

\* The values of a field in the order of the wire; other numbers are skipped.
All(bytes, no) ==
    LET places == Places(bytes, no) IN
    [k \in 1..Cardinality(places) |-> bytes[Nth(places, k)][2]]

\* A later occurrence of a singular field replaces an earlier one.
Get(bytes, no, default) ==
    LET values == All(bytes, no) IN
    IF values = << >> THEN default ELSE values[Len(values)]

\* A nested message, parsed by Of.
Nested(bytes, no, Of(_)) ==
    LET values == All(bytes, no) IN
    IF values = << >> THEN Null ELSE Of(values[Len(values)])

Each(values, Of(_)) == [i \in DOMAIN values |-> Of(values[i])]

\* A map: the last entry of each key.
MapOf(bytes, no, Of(_)) ==
    LET entries == All(bytes, no)
        At(k) == SelectLastInSeq(entries, LAMBDA e : e[1] = k)
    IN  [k \in {entries[i][1] : i \in DOMAIN entries} |-> Of(entries[At(k)][2])]

\* Defaults, absent messages and empty lists are not written; map entries are
\* in the order of their keys, one order for each set of keys.
Put(no, value, default) == IF value = default THEN << >> ELSE <<<<no, value>>>>
PutNested(no, message, Bytes(_)) ==
    IF message = Null THEN << >> ELSE <<<<no, Bytes(message)>>>>
PutAll(no, values) == [i \in DOMAIN values |-> <<no, values[i]>>]
PutMap(no, map, Bytes(_)) ==
    LET keys == SetToSeq(DOMAIN map) IN
    [i \in DOMAIN keys |-> <<no, <<keys[i], Bytes(map[keys[i]])>>>>]

Same(value) == value

\* Objects of the messages that a block is made of: what the accessors give.
Elements(s) == {s[i] : i \in DOMAIN s}
IsList(s) == s \in Seq(Elements(s))
IsMap(m) == m = [k \in DOMAIN m |-> m[k]] /\ IsFiniteSet(DOMAIN m)
-----------------------------------------------------------------------------
(* The sections that validators and attestors add to a transaction *)

DidMappingOf(b) == [didmapping |-> MapOf(b, 1, Same)]
DidMappingBytes(m) == PutMap(1, m.didmapping, Same)

TxValidatorDataOf(b) ==
    [vote |-> Get(b, 1, 0), didmapping |-> Nested(b, 2, DidMappingOf)]
TxValidatorDataBytes(m) ==
    Put(1, m.vote, 0) \o PutNested(2, m.didmapping, DidMappingBytes)

TxAttestorDataOf(b) == [vote |-> Get(b, 1, 0)]
TxAttestorDataBytes(m) == Put(1, m.vote, 0)

IsDidMapping(m) == m = [didmapping |-> m.didmapping] /\ IsMap(m.didmapping)
IsTxValidatorData(m) ==
    /\ m = [vote |-> m.vote, didmapping |-> m.didmapping]
    /\ m.didmapping # Null => IsDidMapping(m.didmapping)
IsTxAttestorData(m) == m = [vote |-> m.vote]
-----------------------------------------------------------------------------
(* Transactions *)

TransactionOf(b) ==
    [type |-> Get(b, 1, 0), category |-> Get(b, 2, NoText),
     sender |-> Get(b, 3, NoText), recipients |-> All(b, 4),
     data |-> Get(b, 5, NoBytes), salt |-> Get(b, 6, NoBytes),
     apitoken |-> Get(b, 7, NoBytes), signature |-> Get(b, 8, NoBytes),
     fee |-> Get(b, 9, NoText)]
TransactionBytes(m) ==
    Put(1, m.type, 0) \o Put(2, m.category, NoText) \o Put(3, m.sender, NoText)
    \o PutAll(4, m.recipients) \o Put(5, m.data, NoBytes) \o Put(6, m.salt, NoBytes)
    \o Put(7, m.apitoken, NoBytes) \o Put(8, m.signature, NoBytes)
    \o Put(9, m.fee, NoText)

TransactionObjOf(b) ==
    [tx |-> Nested(b, 1, TransactionOf),
     validatordata |-> Nested(b, 2, TxValidatorDataOf),
     attestordata |-> Each(All(b, 3), TxAttestorDataOf)]
TransactionObjBytes(m) ==
    PutNested(1, m.tx, TransactionBytes)
    \o PutNested(2, m.validatordata, TxValidatorDataBytes)
    \o PutAll(3, Each(m.attestordata, TxAttestorDataBytes))

IsTransaction(m) ==
    /\ m = [type |-> m.type, category |-> m.category, sender |-> m.sender,
            recipients |-> m.recipients, data |-> m.data, salt |-> m.salt,
            apitoken |-> m.apitoken, signature |-> m.signature, fee |-> m.fee]
    /\ IsList(m.recipients)
IsTransactionObj(m) ==
    /\ m = [tx |-> m.tx, validatordata |-> m.validatordata, attestordata |-> m.attestordata]
    /\ m.tx # Null => IsTransaction(m.tx)
    /\ m.validatordata # Null => IsTxValidatorData(m.validatordata)
    /\ IsList(m.attestordata)
    /\ \A i \in DOMAIN m.attestordata : IsTxAttestorData(m.attestordata[i])
-----------------------------------------------------------------------------
(* Blocks; attestToken, field 4, is written before the lists. *)

SignerOf(b) == [sig |-> Get(b, 1, NoBytes)]
SignerBytes(m) == Put(1, m.sig, NoBytes)

BlockOf(b) ==
    [ts |-> Get(b, 1, 0), attesttoken |-> Get(b, 4, NoBytes),
     txobj |-> Each(All(b, 2), TransactionObjOf),
     signers |-> Each(All(b, 3), SignerOf)]
BlockBytes(m) ==
    Put(1, m.ts, 0) \o Put(4, m.attesttoken, NoBytes)
    \o PutAll(2, Each(m.txobj, TransactionObjBytes))
    \o PutAll(3, Each(m.signers, SignerBytes))

IsSigner(m) == m = [sig |-> m.sig]
IsBlock(m) ==
    /\ m = [ts |-> m.ts, attesttoken |-> m.attesttoken, txobj |-> m.txobj,
            signers |-> m.signers]
    /\ IsList(m.txobj) /\ \A i \in DOMAIN m.txobj : IsTransactionObj(m.txobj[i])
    /\ IsList(m.signers) /\ \A i \in DOMAIN m.signers : IsSigner(m.signers[i])

AttestBlockResultOf(b) ==
    [attestordata |-> Each(All(b, 1), TxAttestorDataOf),
     signer |-> Nested(b, 2, SignerOf)]
AttestBlockResultBytes(m) ==
    PutAll(1, Each(m.attestordata, TxAttestorDataBytes))
    \o PutNested(2, m.signer, SignerBytes)
-----------------------------------------------------------------------------
(* The data of INIT_DID transactions *)

EncryptedTextOf(b) ==
    [ciphertext |-> Get(b, 1, NoText), salt |-> Get(b, 2, NoText),
     nonce |-> Get(b, 3, NoText), version |-> Get(b, 4, NoText),
     prekey |-> Get(b, 5, NoText)]
EncryptedTextBytes(m) ==
    Put(1, m.ciphertext, NoText) \o Put(2, m.salt, NoText) \o Put(3, m.nonce, NoText)
    \o Put(4, m.version, NoText) \o Put(5, m.prekey, NoText)

WalletToEncDerivedKeyOf(b) ==
    [encderivedprivkey |-> Nested(b, 1, EncryptedTextOf),
     signature |-> Get(b, 2, NoBytes)]
WalletToEncDerivedKeyBytes(m) ==
    PutNested(1, m.encderivedprivkey, EncryptedTextBytes) \o Put(2, m.signature, NoBytes)

InitDidOf(b) ==
    [masterpubkey |-> Get(b, 1, NoText), derivedkeyindex |-> Get(b, 2, 0),
     derivedpubkey |-> Get(b, 3, NoText),
     wallettoencderivedkey |-> MapOf(b, 4, WalletToEncDerivedKeyOf)]
InitDidBytes(m) ==
    Put(1, m.masterpubkey, NoText) \o Put(2, m.derivedkeyindex, 0)
    \o Put(3, m.derivedpubkey, NoText)
    \o PutMap(4, m.wallettoencderivedkey, WalletToEncDerivedKeyBytes)
=============================================================================
