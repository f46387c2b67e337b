---------------------------- MODULE MCArchiveNode ---------------------------
(* Instances of ArchiveNode for TLC: what the blocks contain and who signed. *)
EXTENDS ArchiveNode, TLC

CONSTANTS b1, b2, b3, t1, t2, t3, t4, n1, n2

CallSymmetry == Permutations(Calls)

\* Two blocks share t2, and b3 repeats t3.
SharedTxs == b1 :> <<t1, t2>> @@ b2 :> <<t2, t3>> @@ b3 :> <<t3, t3>>

\* Blocks with common transactions; none repeats one itself.
OverlappingTxs == b1 :> <<t1, t2>> @@ b2 :> <<t2, t3>> @@ b3 :> <<t1>>

\* Two blocks share t2, and b3 is disjoint from both.
OneDisjoint == b1 :> <<t1, t2>> @@ b2 :> <<t2>> @@ b3 :> <<t3, t4>>

\* Blocks of one and of two signatures.
SomeSigners == b1 :> <<n1>> @@ b2 :> <<n1, n2>> @@ b3 :> <<n2>>
=============================================================================
