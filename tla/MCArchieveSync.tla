--------------------------- MODULE MCArchieveSync ---------------------------
(* Instances of ArchieveSync for TLC: the pages of two peers. *)
EXTENDS ArchieveSync, TLC

CONSTANTS b1, b2, b3, n1, n2, n3

\* All peers share b1; only n2 has b3.
SharedPages == n1 :> <<{b1}, {b2}>> @@ n2 :> <<{b1}, {b3}>> @@ n3 :> <<{b1, b2}>>

\* Pages of different numbers and sizes.
UnevenPages == n1 :> <<{b1, b2}>> @@ n2 :> <<{b1}, {b3}>>

\* One peer has a second page.
OnePeer == n1 :> <<{b1}, {b2}>>

NoRecords == [n \in Peers |-> NoRecord]
Started == [n \in Peers |-> [offset |-> 1, state |-> 0]]
\* Every page has been answered.
ReadToEnd == [n \in Peers |-> [offset |-> Len(Pages[n]) + 1, state |-> 1]]
\* n1 was begun before, n2 is new.
OneStarted == n1 :> [offset |-> 1, state |-> 0] @@ n2 :> NoRecord
=============================================================================
