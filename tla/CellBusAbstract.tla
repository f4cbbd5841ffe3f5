--------------------------- MODULE CellBusAbstract ---------------------------
(***************************************************************************)
(* What the intra-cell message bus promises to the components above it.    *)
(* Every node numbers the messages it publishes 1, 2, 3, ...; every other  *)
(* node consumes that stream through a cursor that only moves forward.  A  *)
(* delivery may skip messages (they were lost, expired or overtaken), but  *)
(* a skipped message is never delivered later, and none is delivered       *)
(* twice or before it was published.                                       *)
(***************************************************************************)
EXTENDS Naturals

CONSTANTS
    Node,       \* the members of the cell
    MaxSeq      \* bound on the messages one node publishes

VARIABLES
    published,  \* published[n]: number of messages node n has published
    cursor      \* cursor[m][n]: last message of n that m has consumed

vars == <<published, cursor>>

Init ==
    /\ published = [n \in Node |-> 0]
    /\ cursor = [m \in Node |-> [n \in Node |-> 0]]

Publish(n) ==
    /\ published[n] < MaxSeq
    /\ published' = [published EXCEPT ![n] = @ + 1]
    /\ UNCHANGED cursor

Deliver(m, n) ==
    \E s \in (cursor[m][n] + 1)..published[n] :
        /\ cursor' = [cursor EXCEPT ![m][n] = s]
        /\ UNCHANGED published

Next ==
    \/ \E n \in Node : Publish(n)
    \/ \E m, n \in Node : Deliver(m, n)

Spec == Init /\ [][Next]_vars

=============================================================================
