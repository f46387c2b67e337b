-------------------------- MODULE BlockAcceptance ---------------------------
(***************************************************************************)
(* A block from its producer to the archival node: signed and attested by  *)
(* the validators of the contract, carried as bytes, and checked by        *)
(* validateBlock (archive-node.service.ts) under the node's own copy of    *)
(* the contract.                                                           *)
(*                                                                         *)
(* The validator nodes are another program; they are modelled by the       *)
(* functions of blockUtil.ts that are written for them.                    *)
(***************************************************************************)
EXTENDS ValidatorContractState, BlockUtil

CONSTANTS
    Blocks,    \* blocks without signatures, as objects
    Ballots,   \* votes of an attestor, one for each transaction
    Recoded(_) \* the forms in which bytes may arrive instead

\* valPerBlock is positive, and a signature is never the empty byte string.
ASSUME AcceptanceAssumption ==
    /\ IsFiniteSet(Nodes) /\ Nodes # {}
    /\ Stranger \notin Nodes
    /\ Quorums \subseteq Nat \ {0}
    /\ \A b \in Blocks : IsBlock(b) /\ b.signers = << >>
    /\ \A v \in Nodes, b \in Blocks : SignBlockAsValidator(v, b).signers[1].sig # NoBytes

\* A new block object, and bytes without a field: nothing has been made or sent.
NoDraft == BlockOf(<< >>)
Nothing == << >>

VARIABLES
    draft,   \* the block as its producer holds it
    patches, \* the attestations of it, in the order of their arrival
    wire,    \* the block under way, as bytes
    verdict  \* what validateBlock returned last

vars == <<contractVars, draft, patches, wire, verdict>>

TypeIs(type) == {n \in DOMAIN status : NodeType[n] = type}
Validators == TypeIs("VNode")

Init ==
    /\ InitContractState
    /\ draft = NoDraft /\ patches = << >> /\ wire = Nothing /\ verdict = TRUE

Produce(v, b) ==
    /\ draft = NoDraft
    /\ v \in Validators
    /\ draft' = SignBlockAsValidator(v, b)
    /\ UNCHANGED <<contractVars, patches, wire, verdict>>

\* An attestor checks the block and signs; the producer recovers who it was.
Attest(a, votes) ==
    /\ draft # NoDraft /\ Len(draft.signers) = 1 /\ wire = Nothing
    /\ a \in Validators
    /\ Len(votes) = Len(draft.txobj)
    /\ a # RecoverSigner(draft, 1) /\ CheckBlockAsAttestor(draft, Validators)
    /\ LET ar == SignBlockAsAttestor(a, draft, votes) IN
        /\ RecoverPatchAddress(draft, ar) \in Validators
        /\ \A i \in DOMAIN patches : RecoverPatchAddress(draft, patches[i]) # a
        /\ patches' = Append(patches, ar)
    /\ UNCHANGED <<contractVars, draft, wire, verdict>>

\* With as many attestations as the contract asks for the block is complete.
Send ==
    /\ draft # NoDraft /\ wire = Nothing
    /\ Len(patches) = quorum - 1
    /\ draft' = AppendPatches(draft, patches)
    /\ wire' = BlockBytes(draft')
    /\ UNCHANGED <<contractVars, patches, verdict>>

\* A block that no signature of a node has been made up for: nobody under way can.
IsUnforged(b) ==
    \A signer \in Elements(b.signers) :
        \/ signer.sig = NoBytes \/ signer.sig.by \notin Nodes
        \/ signer \in Elements(draft.signers)

\* Something on the way writes the bytes in another form, or loses a part; what
\* can no longer be parsed ends there.
Recode ==
    /\ wire # Nothing /\ wire = BlockBytes(draft)
    /\ \E bytes \in Recoded(wire) \ {Nothing} :
        /\ IsBlock(BlockOf(bytes)) /\ IsUnforged(BlockOf(bytes))
        /\ wire' = bytes
    /\ UNCHANGED <<contractVars, draft, patches, verdict>>

\* validateBlock
ValidateBlock ==
    /\ phase = "ready" /\ wire # Nothing
    /\ draft' = NoDraft /\ patches' = << >> /\ wire' = Nothing
    /\ verdict' = CheckBlockAsSNode(BlockOf(wire), DOMAIN maps["VNode"], valPerBlock)
    /\ UNCHANGED contractVars

Next ==
    \/ NextContractState /\ UNCHANGED <<draft, patches, wire, verdict>>
    \/ \E v \in Nodes, b \in Blocks : Produce(v, b)
    \/ \E a \in Nodes, votes \in Ballots : Attest(a, votes)
    \/ Send
    \/ Recode
    \/ ValidateBlock

Spec == Init /\ [][Next]_vars
-----------------------------------------------------------------------------
TypeOK ==
    /\ ContractTypeOK
    /\ draft # NoDraft => Len(draft.signers) \in {1, Len(patches) + 1}
    /\ Len(patches) < Cardinality(Nodes)
    /\ wire # Nothing => draft # NoDraft /\ Len(draft.signers) = Len(patches) + 1
    /\ verdict \in BOOLEAN

\* The copy of the contract is up to date as far as validators go.
CaughtUp ==
    events = << >> /\ Params \in heard /\ \A v \in Validators : v \in heard

\* A block that registered validators have made by the functions of blockUtil.ts,
\* under block parameters that still hold, passes validateBlock (AN 137-151) on
\* every node that has caught up, whatever the order of the attestations and
\* whether or not its bytes keep their form.
AssembledIsAccepted ==
    [][ValidateBlock /\ CaughtUp /\ ~env.test /\ Len(draft.signers) = quorum
            /\ BlockOf(wire) = draft
        => verdict']_vars

\* What a block says: its time, token and transactions with the producer's votes.
Content(b) == [b EXCEPT !.signers = << >>,
                        !.txobj = Each(@, LAMBDA t : [t EXCEPT !.attestordata = << >>])]

\* What validateBlock accepts says what the producer signed, and each further
\* signature is by a validator the node knows, over that content and the votes
\* at its own index.
AcceptedIsAsSigned ==
    [][ValidateBlock /\ verdict' =>
        LET b == BlockOf(wire) IN
        /\ Content(b) = Content(draft)
        /\ b.signers[1] = draft.signers[1]
        /\ \A i \in 2..Len(b.signers) : \E k \in DOMAIN patches :
            /\ b.signers[i] = patches[k].signer
            /\ \A t \in DOMAIN b.txobj :
                b.txobj[t].attestordata[i - 1] = patches[k].attestordata[t]]_vars
=============================================================================
