-------------------------- MODULE RoutingReplicas --------------------------
(***************************************************************************)
(* Copies of the routing table on several nodes.  Each replica applies     *)
(* assignments and removals with the timestamps its callers give, sends    *)
(* snapshots of its table, and merges the snapshots of others, which may   *)
(* be old, repeated or never merged at all.                                *)
(*                                                                         *)
(* known[r] records every assignment whose effect has reached replica r,   *)
(* by its own call or inside a merged table.  It is the yardstick for      *)
(* "last write wins" and is not part of the code.                          *)
(***************************************************************************)
EXTENDS RoutingTable, FiniteSets

CONSTANTS
    Replica,
    MaxWrites,      \* bound: assignments and removals
    MaxRemovals,    \* bound: removals
    MaxStamp        \* bound: timestamps

ReplicasAssumption ==
    /\ Absent \notin Entry
    /\ MaxWrites \in Nat
    /\ MaxRemovals \in Nat
    /\ MaxStamp \in Nat

VARIABLES
    table,          \* table[r]: the routing table of replica r
    sent,           \* sent[r]: the last snapshot r sent
    known,          \* known[r]: writes that have reached r
    sent_known,     \* sent_known[r]: the writes that had reached sent[r]
    writes,         \* number of assignments and removals
    removals

vars == <<table, sent, known, sent_known, writes, removals>>

Write == [register : Register, entry : Entry \cup {Absent}, at : Nat]

TypeOK ==
    /\ table \in [Replica -> Table]
    /\ sent \in [Replica -> Table]
    /\ known \in [Replica -> SUBSET Write]
    /\ sent_known \in [Replica -> SUBSET Write]
    /\ writes \in Nat
    /\ removals \in Nat
    /\ \A r \in Replica, g \in Register :
          table[r][g] # Absent => table[r][g].value \in Value(g)

Init ==
    /\ table = [r \in Replica |-> EmptyTable]
    /\ sent = [r \in Replica |-> EmptyTable]
    /\ known = [r \in Replica |-> {}]
    /\ sent_known = [r \in Replica |-> {}]
    /\ writes = 0
    /\ removals = 0

AssignEntry(r, g, v, ts) ==
    /\ writes < MaxWrites
    /\ writes' = writes + 1
    /\ table' = [table EXCEPT ![r] = Assign(@, g, v, ts)]
    /\ known' = [known EXCEPT ![r] = @ \cup
          {[register |-> g, entry |-> [value |-> v, timestamp |-> ts],
            at |-> ts]}]
    /\ UNCHANGED <<sent, sent_known, removals>>

RemoveEntry(r, g, ts) ==
    /\ removals < MaxRemovals
    /\ removals' = removals + 1
    /\ writes < MaxWrites
    /\ writes' = writes + 1
    /\ table' = [table EXCEPT ![r] = Remove(@, g, ts)]
    /\ known' = [known EXCEPT ![r] = @ \cup
          {[register |-> g, entry |-> Absent, at |-> ts]}]
    /\ UNCHANGED <<sent, sent_known>>

(* A replica serialises its table for the others. *)
SendTable(r) ==
    /\ sent' = [sent EXCEPT ![r] = table[r]]
    /\ sent_known' = [sent_known EXCEPT ![r] = known[r]]
    /\ UNCHANGED <<table, known, writes, removals>>

MergeTable(r, q) ==
    /\ table' = [table EXCEPT ![r] = Merge(@, sent[q])]
    /\ known' = [known EXCEPT ![r] = @ \cup sent_known[q]]
    /\ UNCHANGED <<sent, sent_known, writes, removals>>

Next ==
    \/ \E r \in Replica, g \in Register, ts \in 1..MaxStamp :
          \/ \E v \in Value(g) : AssignEntry(r, g, v, ts)
          \/ RemoveEntry(r, g, ts)
    \/ \E r \in Replica : SendTable(r)
    \/ \E r, q \in Replica : r # q /\ MergeTable(r, q)

Spec == Init /\ [][Next]_vars

-----------------------------------------------------------------------------
(* The entry t has for g is that of the latest write of W to g. *)
IsLatest(t, W, g) ==
    LET ops == {w \in W : w.register = g} IN
    IF ops = {} THEN t[g] = Absent
    ELSE \E w \in ops : t[g] = w.entry /\ \A o \in ops : o.at <= w.at

(* Last write wins: at every replica every register that no removal is known
   of holds what the latest write that has reached the replica gave it,
   whatever the order of calls and merges and however old the snapshots.
   (A removal leaves no trace, so an older write arriving later undoes it.) *)
LatestWriteWins ==
    \A r \in Replica, g \in Register :
        (~\E w \in known[r] : w.register = g /\ w.entry = Absent)
            => IsLatest(table[r], known[r], g)

(* Every table and snapshot is well formed, with a value of the register's own
   kind in each register, and the last write wins. *)
ReplicasAgree == TypeOK /\ LatestWriteWins

(* A register never goes back: no assignment or merge gives it an older entry,
   and only a removal that is no older than the entry empties it. *)
EntriesAdvance ==
    \A r \in Replica, g \in Register : table[r][g] # Absent =>
        IF table'[r][g] # Absent
        THEN table'[r][g].timestamp >= table[r][g].timestamp
        ELSE \E w \in known'[r] :
                /\ w.register = g /\ w.entry = Absent
                /\ w.at >= table[r][g].timestamp
                /\ removals' # removals
=============================================================================
