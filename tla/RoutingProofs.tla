--------------------------- MODULE RoutingProofs ----------------------------
(***************************************************************************)
(* The routing table (hierarchy/routing_table.rs): last write wins among   *)
(* its replicas, for any replicas, registers, writes and timestamps, and   *)
(* what the passes of hierarchy/maintenance.rs make of it, for any cells,  *)
(* sizes, cohorts and moves.                                               *)
(*                                                                         *)
(* Replicas: the tables and the snapshots carry the same invariant, since  *)
(* a snapshot of any age may be merged; and a write is known by the        *)
(* timestamp its entry has, by which assign and merge compare it.          *)
(*                                                                         *)
(* Passes: a pass sizes its new cells by the store it read and moves the   *)
(* nodes the table routes, so the invariant relates the two: what is       *)
(* routed to a stored cell since before the pass was a member when read.   *)
(***************************************************************************)
EXTENDS RoutingReplicas, Rebalancing, FiniteSetTheorems, WellFoundedInduction, TLAPS

(* Every known write is a well-formed one and carries its own time. *)
Timed(W) ==
    /\ W \subseteq Write
    /\ \A w \in W : w.entry # Absent => w.entry.timestamp = w.at

(* Registers without a known removal hold the latest write. *)
Settled(t, W) ==
    /\ t \in Table
    /\ Timed(W)
    /\ \A g \in Register :
          (~\E w \in W : w.register = g /\ w.entry = Absent) => IsLatest(t, W, g)

SettledInv ==
    /\ table \in [Replica -> Table] /\ known \in [Replica -> SUBSET Write]
    /\ sent \in [Replica -> Table] /\ sent_known \in [Replica -> SUBSET Write]
    /\ \A r \in Replica : Settled(table[r], known[r]) /\ Settled(sent[r], sent_known[r])

-----------------------------------------------------------------------------
(* A table nothing was written to is settled. *)
LEMMA EmptyIsSettled ==
    Settled(EmptyTable, {})
  BY Zenon DEF Settled, Timed, EmptyTable, Table, IsLatest

(* RoutingTable::assign_node and its kin keep a table settled: an entry that
   is at least as recent stays, and then it is still the latest. *)
LEMMA AssignKeepsSettled ==
    ASSUME ReplicasAssumption,
           NEW t, NEW W, Settled(t, W),
           NEW g \in Register, NEW v \in Value(g), NEW ts \in Nat
    PROVE  Settled(Assign(t, g, v, ts),
                   W \cup {[register |-> g, entry |-> [value |-> v, timestamp |-> ts],
                            at |-> ts]})
<1> DEFINE e == [value |-> v, timestamp |-> ts]
           new == [register |-> g, entry |-> e, at |-> ts]
           u == Assign(t, g, v, ts)
           V == W \cup {new}
<1>1. v \in Cell \cup Zone \cup Node
  BY Zenon DEF Value, Register
<1>2. e \in Entry /\ e # Absent /\ e.timestamp = ts
  BY <1>1 DEF Entry, ReplicasAssumption
<1>3. new \in Write /\ new.register = g /\ new.entry = e /\ new.at = ts
  BY <1>2, Zenon DEF Write
<1>4. Timed(V)
  BY <1>2, <1>3, Zenon DEF Timed, Settled
<1>5. u \in Table
  BY <1>2, Zenon DEF Settled, Table, Assign, AssignAll
<1>6. ASSUME NEW h \in Register,
             ~\E w \in V : w.register = h /\ w.entry = Absent
      PROVE  IsLatest(u, V, h)
  <2>1. IsLatest(t, W, h)
    BY <1>6, Zenon DEF Settled
  <2>2. CASE h # g
    <3>1. u[h] = t[h]
      BY <2>2, Zenon DEF Assign, AssignAll
    <3>2. {w \in V : w.register = h} = {w \in W : w.register = h}
      BY <1>3, <2>2, Zenon
    <3>3. QED
      BY <2>1, <3>1, <3>2, Zenon DEF IsLatest
  <2>3. CASE h = g
    <3>1. CASE \A w \in W : w.register # g
      <4>1. t[g] = Absent
        BY <2>1, <2>3, <3>1, Zenon DEF IsLatest
      <4>2. u[g] = e
        BY <4>1, Zenon DEF Assign, AssignAll, Newer
      <4>3. \A o \in V : o.register = g => o = new
        BY <3>1, <1>3, Zenon
      <4>4. QED
        BY <2>3, <1>3, <4>2, <4>3 DEF IsLatest
    <3>2. CASE \E w \in W : w.register = g
      <4>1. PICK w \in W : /\ w.register = g /\ t[g] = w.entry
                           /\ \A o \in W : o.register = g => o.at <= w.at
        BY <2>1, <2>3, <3>2, Zenon DEF IsLatest
      <4>2. w.entry # Absent /\ w.entry.timestamp = w.at /\ w.at \in Nat
        BY <1>6, <2>3, <4>1, <1>4, Zenon DEF Timed, Write
      <4>3. \A o \in W : o.at \in Nat
        BY Zenon DEF Settled, Timed, Write
      <4>4. CASE w.at < ts
        <5>1. u[g] = e
          BY <4>1, <4>2, <4>4, Zenon DEF Assign, AssignAll, Newer
        <5>2. \A o \in V : o.register = g => o.at <= new.at
          BY <4>1, <4>2, <4>3, <4>4, <1>3
        <5>3. QED
          BY <2>3, <5>1, <5>2, <1>3, Zenon DEF IsLatest
      <4>5. CASE ~(w.at < ts)
        <5>1. u[g] = w.entry
          BY <4>1, <4>2, <4>5, Zenon DEF Assign, AssignAll, Newer
        <5>2. \A o \in V : o.register = g => o.at <= w.at
          BY <4>1, <4>2, <4>3, <4>5, <1>3
        <5>3. QED
          BY <2>3, <4>1, <5>1, <5>2, Zenon DEF IsLatest
      <4>6. QED
        BY <4>4, <4>5, Zenon
    <3>3. QED
      BY <3>1, <3>2, Zenon
  <2>4. QED
    BY <2>2, <2>3, Zenon
<1>7. QED
  BY <1>4, <1>5, <1>6, Zenon DEF Settled

(* remove_node and its kin: the register of the removal is exempt from now
   on, the others are as before. *)
LEMMA RemoveKeepsSettled ==
    ASSUME NEW t, NEW W, Settled(t, W),
           NEW g \in Register, NEW ts \in Nat
    PROVE  Settled(Remove(t, g, ts),
                   W \cup {[register |-> g, entry |-> Absent, at |-> ts]})
<1> DEFINE new == [register |-> g, entry |-> Absent, at |-> ts]
           u == Remove(t, g, ts)
           V == W \cup {new}
<1>1. new \in Write /\ new.register = g /\ new.entry = Absent
  BY Zenon DEF Write
<1>2. Timed(V)
  BY <1>1, Zenon DEF Timed, Settled
<1>3. u \in Table
  BY Zenon DEF Settled, Table, Remove, RemoveAll
<1>4. ASSUME NEW h \in Register,
             ~\E w \in V : w.register = h /\ w.entry = Absent
      PROVE  IsLatest(u, V, h)
  <2>1. h # g
    BY <1>1, <1>4, Zenon
  <2>2. IsLatest(t, W, h)
    BY <1>4, Zenon DEF Settled
  <2>3. u[h] = t[h]
    BY <2>1, Zenon DEF Remove, RemoveAll
  <2>4. {w \in V : w.register = h} = {w \in W : w.register = h}
    BY <1>1, <2>1, Zenon
  <2>5. QED
    BY <2>2, <2>3, <2>4, Zenon DEF IsLatest
<1>5. QED
  BY <1>2, <1>3, <1>4, Zenon DEF Settled

(* RoutingTable::merge of two settled tables is settled: the entry with the
   greater timestamp is the latest of all the writes behind both. *)
LEMMA MergeKeepsSettled ==
    ASSUME NEW t, NEW W, Settled(t, W),
           NEW s, NEW X, Settled(s, X)
    PROVE  Settled(Merge(t, s), W \cup X)
<1> DEFINE u == Merge(t, s)
           V == W \cup X
<1>1. Timed(V)
  BY Zenon DEF Timed, Settled
<1>2. u \in Table
  BY Zenon DEF Settled, Table, Merge
<1>3. ASSUME NEW h \in Register,
             ~\E w \in V : w.register = h /\ w.entry = Absent
      PROVE  IsLatest(u, V, h)
  <2>1. IsLatest(t, W, h) /\ IsLatest(s, X, h)
    BY <1>3, Zenon DEF Settled
  <2>2. \A o \in V : o.at \in Nat
    BY <1>1, Zenon DEF Timed, Write
  <2>3. u[h] = IF s[h] # Absent /\ Newer(t[h], s[h].timestamp) THEN s[h] ELSE t[h]
    BY Zenon DEF Merge
  <2>4. CASE \A w \in X : w.register # h
    <3>1. s[h] = Absent
      BY <2>1, <2>4, Zenon DEF IsLatest
    <3>2. {w \in V : w.register = h} = {w \in W : w.register = h}
      BY <2>4, Zenon
    <3>3. QED
      BY <2>1, <2>3, <3>1, <3>2, Zenon DEF IsLatest
  <2>5. CASE (\E w \in X : w.register = h) /\ (\A w \in W : w.register # h)
    <3>1. t[h] = Absent
      BY <2>1, <2>5, Zenon DEF IsLatest
    <3>2. PICK x \in X : x.register = h /\ s[h] = x.entry
      BY <2>1, <2>5, Zenon DEF IsLatest
    <3>3. u[h] = s[h]
      BY <1>3, <2>3, <3>1, <3>2, Zenon DEF Newer
    <3>4. {w \in V : w.register = h} = {w \in X : w.register = h}
      BY <2>5, Zenon
    <3>5. QED
      BY <2>1, <3>3, <3>4, Zenon DEF IsLatest
  <2>6. CASE (\E w \in X : w.register = h) /\ (\E w \in W : w.register = h)
    <3>1. PICK w \in W : /\ w.register = h /\ t[h] = w.entry
                         /\ \A o \in W : o.register = h => o.at <= w.at
      BY <2>1, <2>6, Zenon DEF IsLatest
    <3>2. PICK x \in X : /\ x.register = h /\ s[h] = x.entry
                         /\ \A o \in X : o.register = h => o.at <= x.at
      BY <2>1, <2>6, Zenon DEF IsLatest
    <3>3. /\ t[h] # Absent /\ t[h].timestamp = w.at
          /\ s[h] # Absent /\ s[h].timestamp = x.at
      BY <1>1, <1>3, <3>1, <3>2, Zenon DEF Timed
    <3>4. CASE w.at < x.at
      <4>1. u[h] = x.entry
        BY <2>3, <3>2, <3>3, <3>4, Zenon DEF Newer
      <4>2. \A o \in V : o.register = h => o.at <= x.at
        BY <2>2, <3>1, <3>2, <3>4
      <4>3. QED
        BY <3>2, <4>1, <4>2, Zenon DEF IsLatest
    <3>5. CASE ~(w.at < x.at)
      <4>1. u[h] = w.entry
        BY <2>3, <3>1, <3>3, <3>5, Zenon DEF Newer
      <4>2. \A o \in V : o.register = h => o.at <= w.at
        BY <2>2, <3>1, <3>2, <3>5
      <4>3. QED
        BY <3>1, <4>1, <4>2, Zenon DEF IsLatest
    <3>6. QED
      BY <3>4, <3>5, Zenon
  <2>7. QED
    BY <2>4, <2>5, <2>6, Zenon
<1>4. QED
  BY <1>1, <1>2, <1>3, Zenon DEF Settled

-----------------------------------------------------------------------------
(* Nobody has written yet. *)
LEMMA InitSettled ==
    Init => SettledInv
<1> SUFFICES ASSUME Init PROVE SettledInv
  OBVIOUS
<1>1. Settled(EmptyTable, {})
  BY EmptyIsSettled, Zenon
<1>2. EmptyTable \in Table
  BY <1>1, Zenon DEF Settled
<1>3. QED
  BY <1>1, <1>2, Zenon DEF Init, SettledInv

(* Every call, snapshot and merge keeps tables and snapshots settled. *)
LEMMA NextSettled ==
    ASSUME ReplicasAssumption
    PROVE  SettledInv /\ [Next]_vars => SettledInv'
<1> SUFFICES ASSUME SettledInv, [Next]_vars PROVE SettledInv'
  OBVIOUS
<1> USE DEF SettledInv
<1>0. \A t, W : Settled(t, W) => t \in Table /\ W \in SUBSET Write
  BY Zenon DEF Settled, Timed
<1>1. ASSUME NEW r \in Replica, NEW g \in Register, NEW ts \in 1..MaxStamp,
             NEW v \in Value(g), AssignEntry(r, g, v, ts)
      PROVE  SettledInv'
  <2> DEFINE u == Assign(table[r], g, v, ts)
             V == known[r] \cup {[register |-> g,
                                  entry |-> [value |-> v, timestamp |-> ts],
                                  at |-> ts]}
  <2>1. ts \in Nat
    BY DEF ReplicasAssumption
  <2>2. Settled(u, V)
    BY <2>1, AssignKeepsSettled, Zenon
  <2>3. /\ table' = [table EXCEPT ![r] = u] /\ known' = [known EXCEPT ![r] = V]
        /\ sent' = sent /\ sent_known' = sent_known
    BY <1>1, Zenon DEF AssignEntry
  <2> HIDE DEF u, V
  <2>4. QED
    BY <1>0, <2>2, <2>3, Zenon
<1>2. ASSUME NEW r \in Replica, NEW g \in Register, NEW ts \in 1..MaxStamp,
             RemoveEntry(r, g, ts)
      PROVE  SettledInv'
  <2> DEFINE u == Remove(table[r], g, ts)
             V == known[r] \cup {[register |-> g, entry |-> Absent, at |-> ts]}
  <2>1. ts \in Nat
    BY DEF ReplicasAssumption
  <2>2. Settled(u, V)
    BY <2>1, RemoveKeepsSettled, Zenon
  <2>3. /\ table' = [table EXCEPT ![r] = u] /\ known' = [known EXCEPT ![r] = V]
        /\ sent' = sent /\ sent_known' = sent_known
    BY <1>2, Zenon DEF RemoveEntry
  <2> HIDE DEF u, V
  <2>4. QED
    BY <1>0, <2>2, <2>3, Zenon
<1>3. ASSUME NEW r \in Replica, SendTable(r)
      PROVE  SettledInv'
  BY <1>3, Zenon DEF SendTable
<1>4. ASSUME NEW r \in Replica, NEW q \in Replica, MergeTable(r, q)
      PROVE  SettledInv'
  <2> DEFINE u == Merge(table[r], sent[q])
             V == known[r] \cup sent_known[q]
  <2>1. Settled(u, V)
    BY MergeKeepsSettled, Zenon
  <2>2. /\ table' = [table EXCEPT ![r] = u] /\ known' = [known EXCEPT ![r] = V]
        /\ sent' = sent /\ sent_known' = sent_known
    BY <1>4, Zenon DEF MergeTable
  <2> HIDE DEF u, V
  <2>3. QED
    BY <1>0, <2>1, <2>2, Zenon
<1>5. CASE UNCHANGED vars
  BY <1>5, Zenon DEF vars
<1>6. QED
  BY <1>1, <1>2, <1>3, <1>4, <1>5, Zenon DEF Next

(* Last write wins at every replica, whatever the order of calls and merges
   and however old the snapshots merged (hierarchy/routing_table.rs, merge). *)
THEOREM LatestWriteWinsHolds ==
    ASSUME ReplicasAssumption
    PROVE  Spec => []LatestWriteWins
<1>1. Init => SettledInv
  BY InitSettled, Zenon
<1>2. SettledInv /\ [Next]_vars => SettledInv'
  BY NextSettled, Zenon
<1>3. SettledInv => LatestWriteWins
  BY Zenon DEF SettledInv, Settled, LatestWriteWins
<1>4. QED
  BY <1>1, <1>2, <1>3, PTL DEF Spec

-----------------------------------------------------------------------------
(* A register of a replica never goes back to an older entry, and only a
   removal no older than its entry empties it: the timestamp comparisons of
   the assign, remove and merge methods. *)
THEOREM EntriesAdvanceHolds ==
    ASSUME ReplicasAssumption
    PROVE  Spec => [][EntriesAdvance]_vars
<1>1. SettledInv /\ [Next]_vars => [EntriesAdvance]_vars
  <2> SUFFICES ASSUME SettledInv, Next PROVE EntriesAdvance
    BY Zenon DEF EntriesAdvance
  <2> SUFFICES ASSUME NEW p \in Replica, NEW h \in Register, table[p][h] # Absent
               PROVE  IF table'[p][h] # Absent
                      THEN table'[p][h].timestamp >= table[p][h].timestamp
                      ELSE \E w \in known'[p] :
                              /\ w.register = h /\ w.entry = Absent
                              /\ w.at >= table[p][h].timestamp
                              /\ removals' # removals
    BY Zenon DEF EntriesAdvance
  <2>0. table[p] \in Table /\ table[p][h] \in Entry /\ table[p][h].timestamp \in Nat
    BY DEF SettledInv, Table, Entry
  <2>1. ASSUME NEW r \in Replica, NEW g \in Register, NEW ts \in 1..MaxStamp,
               NEW v \in Value(g), AssignEntry(r, g, v, ts)
        PROVE  table'[p][h] # Absent /\ table'[p][h].timestamp >= table[p][h].timestamp
    <3>1. v \in Cell \cup Zone \cup Node /\ ts \in Nat
      BY DEF Value, Register, ReplicasAssumption
    <3>2. [value |-> v, timestamp |-> ts] # Absent
      BY <3>1 DEF ReplicasAssumption, Entry
    <3>3. \/ table'[p][h] = table[p][h]
          \/ /\ Newer(table[p][h], ts)
             /\ table'[p][h] = [value |-> v, timestamp |-> ts]
      BY <2>1, Zenon DEF AssignEntry, SettledInv, Assign, AssignAll
    <3>4. QED
      BY <2>0, <3>1, <3>2, <3>3 DEF Newer
  <2>2. ASSUME NEW r \in Replica, NEW g \in Register, NEW ts \in 1..MaxStamp,
               RemoveEntry(r, g, ts)
        PROVE  \/ table'[p][h] = table[p][h]
               \/ /\ table'[p][h] = Absent
                  /\ \E w \in known'[p] :
                        /\ w.register = h /\ w.entry = Absent
                        /\ w.at >= table[p][h].timestamp
                        /\ removals' # removals
    <3>1. CASE table'[p][h] # table[p][h]
      <4>1. p = r /\ h = g /\ table'[p][h] = Absent /\ table[p][h].timestamp <= ts
        BY <2>2, <3>1, Zenon DEF RemoveEntry, SettledInv, Remove, RemoveAll
      <4>2. [register |-> h, entry |-> Absent, at |-> ts] \in known'[p]
        BY <2>2, <4>1, Zenon DEF RemoveEntry, SettledInv
      <4>3. QED
        BY <2>0, <2>2, <4>1, <4>2 DEF RemoveEntry, ReplicasAssumption
    <3>2. QED
      BY <3>1, Zenon
  <2>3. ASSUME NEW r \in Replica, SendTable(r)
        PROVE  table'[p][h] = table[p][h]
    BY <2>3, Zenon DEF SendTable
  <2>4. ASSUME NEW r \in Replica, NEW q \in Replica, MergeTable(r, q)
        PROVE  table'[p][h] # Absent /\ table'[p][h].timestamp >= table[p][h].timestamp
    <3>1. sent[q][h] # Absent => sent[q][h].timestamp \in Nat
      BY Zenon DEF SettledInv, Table, Entry
    <3>2. \/ table'[p][h] = table[p][h]
          \/ /\ sent[q][h] # Absent /\ Newer(table[p][h], sent[q][h].timestamp)
             /\ table'[p][h] = sent[q][h]
      BY <2>4, Zenon DEF MergeTable, SettledInv, Merge
    <3>3. QED
      BY <2>0, <3>1, <3>2 DEF Newer
  <2>5. QED
    BY <2>0, <2>1, <2>2, <2>3, <2>4 DEF Next
<1>2. Init => SettledInv
  BY InitSettled, Zenon
<1>3. SettledInv /\ [Next]_vars => SettledInv'
  BY NextSettled, Zenon
<1>4. QED
  BY <1>1, <1>2, <1>3, PTL DEF Spec
-----------------------------------------------------------------------------
(* A register holds values of its own kind only: a node's cell, a cell's zone,
   a cell's or a zone's leader. *)
Valued(t) == \A g \in Register : t[g] # Absent => t[g].value \in Value(g)

ValuesInv ==
    /\ writes \in Nat /\ removals \in Nat
    /\ \A r \in Replica : Valued(table[r]) /\ Valued(sent[r])

(* Every step puts values of the register's own kind only. *)
LEMMA NextValued ==
    ASSUME ReplicasAssumption, SettledInv, ValuesInv, [Next]_vars
    PROVE  ValuesInv'
<1>1. ASSUME NEW r \in Replica, NEW g \in Register, NEW ts \in 1..MaxStamp,
             NEW v \in Value(g), AssignEntry(r, g, v, ts)
      PROVE  ValuesInv'
  <2>1. \A h \in Register :
           \/ Assign(table[r], g, v, ts)[h] = table[r][h]
           \/ h = g /\ Assign(table[r], g, v, ts)[h].value = v
    BY Zenon DEF Assign, AssignAll
  <2>2. Valued(Assign(table[r], g, v, ts))
    BY <2>1, Zenon DEF Valued, ValuesInv
  <2>3. /\ table' = [table EXCEPT ![r] = Assign(table[r], g, v, ts)]
        /\ sent' = sent /\ writes' = writes + 1 /\ removals' = removals
    BY <1>1, Zenon DEF AssignEntry
  <2>4. QED
    BY <2>2, <2>3 DEF ValuesInv, SettledInv
<1>2. ASSUME NEW r \in Replica, NEW g \in Register, NEW ts \in 1..MaxStamp,
             RemoveEntry(r, g, ts)
      PROVE  ValuesInv'
  <2>1. \A h \in Register : Remove(table[r], g, ts)[h] \in {table[r][h], Absent}
    BY Zenon DEF Remove, RemoveAll
  <2>2. Valued(Remove(table[r], g, ts))
    BY <2>1, Zenon DEF Valued, ValuesInv
  <2>3. /\ table' = [table EXCEPT ![r] = Remove(table[r], g, ts)]
        /\ sent' = sent /\ writes' = writes + 1 /\ removals' = removals + 1
    BY <1>2, Zenon DEF RemoveEntry
  <2>4. QED
    BY <2>2, <2>3 DEF ValuesInv, SettledInv
<1>3. ASSUME NEW r \in Replica, SendTable(r)
      PROVE  ValuesInv'
  BY <1>3, Zenon DEF SendTable, ValuesInv, SettledInv
<1>4. ASSUME NEW r \in Replica, NEW q \in Replica, MergeTable(r, q)
      PROVE  ValuesInv'
  <2>1. \A h \in Register : Merge(table[r], sent[q])[h] \in {table[r][h], sent[q][h]}
    BY Zenon DEF Merge
  <2>2. Valued(Merge(table[r], sent[q]))
    BY <2>1, Zenon DEF Valued, ValuesInv
  <2>3. /\ table' = [table EXCEPT ![r] = Merge(table[r], sent[q])]
        /\ sent' = sent /\ writes' = writes /\ removals' = removals
    BY <1>4, Zenon DEF MergeTable
  <2>4. QED
    BY <2>2, <2>3, Zenon DEF ValuesInv, SettledInv
<1>5. CASE UNCHANGED vars
  BY <1>5, Zenon DEF vars, ValuesInv
<1>6. QED
  BY <1>1, <1>2, <1>3, <1>4, <1>5, Zenon DEF Next

(* The copies of the routing table: at every replica every register holds a
   value of its kind, and unless a removal of it is known the one the latest
   write that reached the replica gave it (RoutingTable::merge). *)
THEOREM RoutesAgreeHolds ==
    ASSUME ReplicasAssumption
    PROVE  Spec => []ReplicasAgree
<1>1. Init => SettledInv /\ ValuesInv
  <2>1. Init => ValuesInv
    BY DEF Init, ValuesInv, Valued, EmptyTable
  <2>2. QED
    BY <2>1, InitSettled, Zenon
<1>2. SettledInv /\ ValuesInv /\ [Next]_vars => (SettledInv /\ ValuesInv)'
  BY NextSettled, NextValued, Zenon
<1>3. SettledInv /\ ValuesInv => ReplicasAgree
  BY Zenon DEF SettledInv, Settled, ValuesInv, Valued, ReplicasAgree, TypeOK, LatestWriteWins
<1>4. QED
  BY <1>1, <1>2, <1>3, PTL DEF Spec

-----------------------------------------------------------------------------
(* The registers of the three maps are different ones. *)
LEMMA Registers ==
    /\ \A n \in Node : CellOf(n) \in Register
    /\ \A c \in Cell : ZoneOf(c) \in Register
    /\ \A n, m : CellOf(n) = CellOf(m) => n = m
    /\ \A c, d : ZoneOf(c) = ZoneOf(d) => c = d
    /\ \A n, c, d : CellOf(n) # ZoneOf(c) /\ CellOf(n) # LeaderOf(c) /\ ZoneOf(d) # LeaderOf(c)
  BY Zenon DEF CellOf, ZoneOf, LeaderOf, Register

(* u is t after assign_node(n, c, ts) for the nodes n of S, *)
NodesAssigned(t, u, S, c, ts) ==
    /\ u \in Table
    /\ \A n \in Node : u[CellOf(n)] =
          IF n \in S /\ Newer(t[CellOf(n)], ts)
          THEN [value |-> c, timestamp |-> ts] ELSE t[CellOf(n)]
    /\ \A d \in Cell : u[ZoneOf(d)] = t[ZoneOf(d)]

(* after assign_cell(c, z, ts) for the cells c of C, *)
ZonesAssigned(t, u, C, z, ts) ==
    /\ u \in Table
    /\ \A n \in Node : u[CellOf(n)] = t[CellOf(n)]
    /\ \A d \in Cell : u[ZoneOf(d)] =
          IF d \in C /\ z # Absent /\ Newer(t[ZoneOf(d)], ts)
          THEN [value |-> z, timestamp |-> ts] ELSE t[ZoneOf(d)]

(* and after remove_cell(c, ts) and remove_cell_leader(c, ts) for them. *)
CellsDissolved(t, u, C, ts) ==
    /\ u \in Table
    /\ \A n \in Node : u[CellOf(n)] = t[CellOf(n)]
    /\ \A d \in Cell : u[ZoneOf(d)] =
          IF d \in C /\ (t[ZoneOf(d)] # Absent => t[ZoneOf(d)].timestamp <= ts)
          THEN Absent ELSE t[ZoneOf(d)]

(* assign_node moves the nodes it is called for and no zone. *)
LEMMA AssignNodes ==
    ASSUME NEW t \in Table, NEW S, NEW c \in Cell, NEW ts \in Nat
    PROVE  NodesAssigned(t, AssignAll(t, {CellOf(n) : n \in S}, c, ts), S, c, ts)
<1> DEFINE u == AssignAll(t, {CellOf(n) : n \in S}, c, ts)
<1>1. [value |-> c, timestamp |-> ts] \in Entry
  BY Zenon DEF Entry
<1>2. u \in Table
  BY <1>1, Zenon DEF AssignAll, Table
<1>3. \A g \in Register : u[g] =
          IF g \in {CellOf(n) : n \in S} /\ Newer(t[g], ts)
          THEN [value |-> c, timestamp |-> ts] ELSE t[g]
  BY Zenon DEF AssignAll
<1>4. \A n \in Node : CellOf(n) \in {CellOf(k) : k \in S} <=> n \in S
  BY Registers, Zenon
<1>5. \A d \in Cell : ZoneOf(d) \notin {CellOf(k) : k \in S}
  BY Registers, Zenon
<1> HIDE DEF u
<1>6. NodesAssigned(t, u, S, c, ts)
  BY <1>2, <1>3, <1>4, <1>5, Registers, Zenon DEF NodesAssigned
<1>7. QED
  BY <1>6, Zenon DEF u

(* assign_cell changes the zones of the cells it is called for, and moves no
   node. *)
LEMMA AssignZones ==
    ASSUME NEW t \in Table, NEW C, NEW z \in Zone \cup {Absent}, NEW ts \in Nat
    PROVE  ZonesAssigned(t, AssignZone(t, C, z, ts), C, z, ts)
<1> DEFINE u == AssignZone(t, C, z, ts)
<1>1. CASE z = Absent
  BY <1>1, Zenon DEF AssignZone, ZonesAssigned
<1>2. CASE z # Absent
  <2>1. u = AssignAll(t, {ZoneOf(c) : c \in C}, z, ts)
    BY <1>2, Zenon DEF AssignZone
  <2>2. [value |-> z, timestamp |-> ts] \in Entry
    BY <1>2, Zenon DEF Entry
  <2>3. u \in Table
    BY <2>1, <2>2, Zenon DEF AssignAll, Table
  <2>4. \A g \in Register : u[g] =
          IF g \in {ZoneOf(c) : c \in C} /\ Newer(t[g], ts)
          THEN [value |-> z, timestamp |-> ts] ELSE t[g]
    BY <2>1, Zenon DEF AssignAll
  <2>5. \A n \in Node : CellOf(n) \notin {ZoneOf(c) : c \in C}
    BY Registers, Zenon
  <2>6. \A c \in Cell : ZoneOf(c) \in {ZoneOf(d) : d \in C} <=> c \in C
    BY Registers, Zenon
  <2> HIDE DEF u
  <2>7. ZonesAssigned(t, u, C, z, ts)
    BY <1>2, <2>3, <2>4, <2>5, <2>6, Registers, Zenon DEF ZonesAssigned
  <2>8. QED
    BY <2>7, Zenon DEF u
<1>3. QED
  BY <1>1, <1>2, Zenon

(* remove_cell and remove_cell_leader move no node, and leave an entry that is
   newer than the removal. *)
LEMMA DissolveCells ==
    ASSUME NEW t \in Table, NEW C, NEW ts \in Nat
    PROVE  CellsDissolved(t, Dissolve(t, C, ts), C, ts)
<1> DEFINE u == Dissolve(t, C, ts)
           gone == {ZoneOf(c) : c \in C} \cup {LeaderOf(c) : c \in C}
<1>1. u = [g \in Register |-> IF g \in gone /\ (t[g] # Absent => t[g].timestamp <= ts)
                             THEN Absent ELSE t[g]]
  BY Zenon DEF Dissolve, RemoveAll
<1>2. \A n \in Node : CellOf(n) \notin gone
  BY Registers, Zenon
<1>3. \A c \in Cell : ZoneOf(c) \in gone <=> c \in C
  BY Registers, Zenon
<1> HIDE DEF gone
<1> HIDE DEF u
<1>4. u \in Table
  BY <1>1, Zenon DEF Table
<1>5. CellsDissolved(t, u, C, ts)
  BY <1>1, <1>2, <1>3, <1>4, Registers, Zenon DEF CellsDissolved
<1>6. QED
  BY <1>5, Zenon DEF u

(* What merge_cells makes of a table. *)
CellsMerged(t, u, s, q, m, z, ts) ==
    /\ u \in Table
    /\ \A n \in Node : u[CellOf(n)] =
          IF (Holds(t, CellOf(n), s) \/ Holds(t, CellOf(n), q)) /\ Newer(t[CellOf(n)], ts)
          THEN [value |-> m, timestamp |-> ts] ELSE t[CellOf(n)]
    /\ \A c \in Cell : u[ZoneOf(c)] =
          IF c \in {s, q} /\ (t[ZoneOf(c)] # Absent => t[ZoneOf(c)].timestamp <= ts)
          THEN Absent
          ELSE IF c = m /\ z # Absent /\ Newer(t[ZoneOf(c)], ts)
          THEN [value |-> z, timestamp |-> ts] ELSE t[ZoneOf(c)]

(* merge_cells does what CellsMerged says. *)
LEMMA MergeCellsEffect ==
    ASSUME NEW t \in Table, NEW s \in Cell, NEW q \in Cell, NEW m \in Cell \ {s, q},
           NEW z \in Zone \cup {Absent}, NEW ts \in Nat
    PROVE  CellsMerged(t, MergeCells(t, s, q, m, z, ts), s, q, m, z, ts)
<1> DEFINE u == MergeCells(t, s, q, m, z, ts)
           nodes == GetCellNodes(t, s) \cup GetCellNodes(t, q)
           moved == AssignAll(t, {CellOf(n) : n \in nodes}, m, ts)
           zoned == AssignZone(moved, {m}, z, ts)
<1>1. u = Dissolve(zoned, {s, q}, ts)
  BY Zenon DEF MergeCells
<1>2. \A n \in Node : n \in nodes <=> Holds(t, CellOf(n), s) \/ Holds(t, CellOf(n), q)
  BY Zenon DEF GetCellNodes
<1> HIDE DEF nodes
<1>3. NodesAssigned(t, moved, nodes, m, ts)
  BY AssignNodes, Zenon
<1> HIDE DEF moved
<1>4. ZonesAssigned(moved, zoned, {m}, z, ts)
  BY <1>3, AssignZones, Zenon DEF NodesAssigned
<1> HIDE DEF zoned
<1>5. CellsDissolved(zoned, u, {s, q}, ts)
  BY <1>1, <1>4, DissolveCells, Zenon DEF ZonesAssigned
<1> HIDE DEF u
<1>6. CellsMerged(t, u, s, q, m, z, ts)
  BY <1>2, <1>3, <1>4, <1>5, Zenon DEF NodesAssigned, ZonesAssigned, CellsDissolved, CellsMerged
<1>7. QED
  BY <1>6, Zenon DEF u

(* What split_cell makes of it: members of neither list stay where they are
   routed. *)
CellIsSplit(t, u, s, a, b, A, B, z, ts) ==
    /\ u \in Table
    /\ \A n \in Node : u[CellOf(n)] =
          IF n \in A /\ Newer(t[CellOf(n)], ts) THEN [value |-> a, timestamp |-> ts]
          ELSE IF n \in B /\ Newer(t[CellOf(n)], ts) THEN [value |-> b, timestamp |-> ts]
          ELSE t[CellOf(n)]
    /\ \A c \in Cell : u[ZoneOf(c)] =
          IF c = s /\ (t[ZoneOf(c)] # Absent => t[ZoneOf(c)].timestamp <= ts)
          THEN Absent
          ELSE IF c \in {a, b} /\ z # Absent /\ Newer(t[ZoneOf(c)], ts)
          THEN [value |-> z, timestamp |-> ts] ELSE t[ZoneOf(c)]

(* split_cell does what CellIsSplit says: after the first list is assigned, the
   second cannot take a node of it, since the entry has the same time. *)
LEMMA SplitCellEffect ==
    ASSUME NEW t \in Table, NEW s \in Cell, NEW a \in Cell \ {s}, NEW b \in Cell \ {s},
           NEW A, NEW B, NEW z \in Zone \cup {Absent}, NEW ts \in Nat, Absent \notin Entry
    PROVE  CellIsSplit(t, SplitCell(t, s, a, b, A, B, z, ts), s, a, b, A, B, z, ts)
<1> DEFINE u == SplitCell(t, s, a, b, A, B, z, ts)
           first == AssignAll(t, {CellOf(n) : n \in A}, a, ts)
           both == AssignAll(first, {CellOf(n) : n \in B}, b, ts)
           zoned == AssignZone(both, {a, b}, z, ts)
<1>1. u = Dissolve(zoned, {s}, ts)
  BY Zenon DEF SplitCell
<1>2. NodesAssigned(t, first, A, a, ts)
  BY AssignNodes, Zenon
<1> HIDE DEF first
<1>3. NodesAssigned(first, both, B, b, ts)
  <2>1. first \in Table
    BY <1>2, Zenon DEF NodesAssigned
  <2>2. QED
    BY <2>1, AssignNodes, Zenon
<1> HIDE DEF both
<1>4. ZonesAssigned(both, zoned, {a, b}, z, ts)
  BY <1>3, AssignZones, Zenon DEF NodesAssigned
<1> HIDE DEF zoned
<1>5. CellsDissolved(zoned, u, {s}, ts)
  BY <1>1, <1>4, DissolveCells, Zenon DEF ZonesAssigned
<1>6. ~Newer([value |-> a, timestamp |-> ts], ts)
  BY DEF Newer, Entry
<1> HIDE DEF u
<1>7. CellIsSplit(t, u, s, a, b, A, B, z, ts)
  BY <1>2, <1>3, <1>4, <1>5, <1>6 DEF NodesAssigned, ZonesAssigned, CellsDissolved, CellIsSplit
<1>8. QED
  BY <1>7, Zenon DEF u

-----------------------------------------------------------------------------
(* A cell has a finite number of members. *)
LEMMA SizeIsNat ==
    ASSUME RebalancingAssumption, NEW cells \in CellStates, NEW c \in Stored
    PROVE  cells[c].members \subseteq Node /\ IsFiniteSet(cells[c].members)
           /\ Size(cells, c) \in Nat
<1>1. cells[c].members \subseteq Node
  BY Zenon DEF CellStates
<1>2. IsFiniteSet(cells[c].members)
  BY <1>1, FS_Subset, Zenon DEF RebalancingAssumption
<1>3. QED
  BY <1>1, <1>2, FS_CardinalityType, Zenon DEF Size

(* A non-empty set of numbers has a least one. *)
LEMMA LeastNat ==
    ASSUME NEW T, T \subseteq Nat, T # {}
    PROVE  \E x \in T : \A y \in T : x <= y
<1>1. PICK x \in T : \A y \in T : ~(<<y, x>> \in OpToRel(<, Nat))
  BY WFMin, NatLessThanWellFounded, Zenon
<1>2. \A y \in T : <<y, x>> \in Nat \X Nat
  OBVIOUS
<1>3. \A y \in T : ~(y < x)
  BY <1>1, <1>2, Zenon DEF OpToRel
<1>4. QED
  BY <1>3

(* find_merge_candidate returns a stored cell with capacity, and one whenever
   the order holds any: the first of the lowest score. *)
LEMMA MergeCandidate ==
    ASSUME RebalancingAssumption, NEW cells \in CellStates,
           NEW order \in Seq(Stored), NEW c \in Stored
    PROVE  /\ \A t \in FindMergeCandidate(cells, order, c) :
                 t \in Stored /\ HasCapacity(cells, c, t)
           /\ (\E i \in DOMAIN order : HasCapacity(cells, c, order[i])) =>
                 FindMergeCandidate(cells, order, c) # {}
<1> DEFINE eligible == {i \in 1..Len(order) : HasCapacity(cells, c, order[i])}
           S(i) == Score(cells, c, order[i])
           scores == {S(i) : i \in eligible}
<1>1. DOMAIN order = 1..Len(order) /\ \A i \in 1..Len(order) : i \in Nat /\ order[i] \in Stored
  OBVIOUS
<1>2. \A t \in FindMergeCandidate(cells, order, c) : t \in Stored /\ HasCapacity(cells, c, t)
  BY <1>1, Zenon DEF FindMergeCandidate
<1>3. ASSUME NEW h \in DOMAIN order, HasCapacity(cells, c, order[h])
      PROVE  FindMergeCandidate(cells, order, c) # {}
  <2>1. \A i \in eligible : S(i) \in Nat
    <3>1. SUFFICES ASSUME NEW i \in eligible PROVE S(i) \in Nat
      OBVIOUS
    <3>2. Size(cells, order[i]) \in Nat
      BY <1>1, SizeIsNat, Zenon
    <3>3. QED
      BY <3>2 DEF Score
  <2>2. h \in eligible /\ scores # {} /\ scores \subseteq Nat
    BY <1>1, <1>3, <2>1, Zenon
  <2> HIDE DEF S
  <2>3. PICK low \in scores : \A x \in scores : low <= x
    BY <2>2, LeastNat, Zenon
  <2> DEFINE best == {i \in eligible : S(i) = low}
  <2>4. best \subseteq Nat /\ best # {}
    BY <1>1, <2>3, Zenon
  <2> HIDE DEF best
  <2>5. PICK j \in best : \A k \in best : j <= k
    BY <2>4, LeastNat, Zenon
  <2>6. j \in eligible /\ \A k \in eligible : S(j) < S(k) \/ (S(j) = S(k) /\ j <= k)
    <3>1. j \in eligible /\ S(j) = low
      BY <2>5, Zenon DEF best
    <3>2. SUFFICES ASSUME NEW k \in eligible PROVE S(j) < S(k) \/ (S(j) = S(k) /\ j <= k)
      BY <3>1, Zenon
    <3>3. S(k) \in scores
      OBVIOUS
    <3>4. low <= S(k) /\ S(k) \in Nat /\ low \in Nat
      BY <3>3, <2>1, <2>2, <2>3, Zenon
    <3>5. S(k) = low => j <= k
      BY <2>5, Zenon DEF best
    <3>6. QED
      BY <3>1, <3>4, <3>5
  <2>7. order[j] \in FindMergeCandidate(cells, order, c)
    BY <2>6, Zenon DEF FindMergeCandidate, S
  <2>8. QED
    BY <2>7, Zenon
<1>4. QED
  BY <1>2, <1>3, Zenon

-----------------------------------------------------------------------------
(* Nodes are routed to cells in use, an unused cell has no zone, and the zone
   of a stored cell was assigned before any pass. *)
RoutesInUse ==
    /\ \A n \in Node : routing[CellOf(n)] # Absent => routing[CellOf(n)].value \in used
    /\ \A c \in Cell \ used : routing[ZoneOf(c)] = Absent
    /\ \A c \in Stored : routing[ZoneOf(c)] # Absent => routing[ZoneOf(c)].timestamp <= 1
    /\ now >= 1
    /\ pass.active => pass.timestamp >= 1

(* As long as the table refused no move, a node routed to a stored cell is a
   member of it, and was one when the pass read the store if it was registered
   before. *)
RoutesMatchStore ==
    ~refused => \A c \in Stored, n \in Node : Holds(routing, CellOf(n), c) =>
        /\ n \in store[c].members
        /\ pass.active /\ Older(n) => n \in pass.snapshot[c].members

(* An undersized cell beside one with capacity is out of the table. *)
Gone(i, j) ==
    LET c == pass.order[i] IN
    (/\ Size(pass.snapshot, c) < min_cell_size
     /\ HasCapacity(pass.snapshot, c, pass.order[j])) =>
        /\ routing[ZoneOf(c)] = Absent
        /\ \A n \in GetCellNodes(routing, c) : ~Older(n)

MergedSoFar ==
    pass.active => \A i, j \in DOMAIN pass.order : i < pass.next => Gone(i, j)

PassInv == PassTypeOK /\ RoutesInUse /\ RoutesMatchStore /\ NewCellsFit /\ MergedSoFar

(* What checking a cell does to the table, whichever way it goes: nodes move
   to new cells only, with the time of the pass, zones of old cells only go,
   and a new cell is not too large. *)
Rebuilt ==
    /\ routing' \in Table
    /\ used \subseteq used' /\ used' \subseteq Cell
    /\ \A n \in Node :
          \/ routing'[CellOf(n)] = routing[CellOf(n)]
          \/ \E c \in used' \ used :
                routing'[CellOf(n)] = [value |-> c, timestamp |-> pass.timestamp]
    /\ \A c \in Cell :
          \/ routing'[ZoneOf(c)] \in {routing[ZoneOf(c)], Absent}
          \/ c \in used' \ used
    /\ ~refused => \A c \in used' \ used : Cardinality(GetCellNodes(routing', c)) <= max_cell_size

(* A node that had a zone keeps one. *)
ZonesKept ==
    \A n \in Node : NodeHasZone(routing, n) /\ Older(n) => NodeHasZone(routing', n)

(* A merge rebuilds the table, takes the undersized cell out of it if there is
   a candidate, and keeps zones if the cell has a cohort.  The new cell fits,
   since what is moved into it was a member of the two cells when read. *)
LEMMA MergeRebuilds ==
    ASSUME RebalancingAssumption, PassInv, pass.active,
           NEW c \in Stored, MergeStep(c)
    PROVE  /\ Rebuilt
           /\ (\E j \in DOMAIN pass.order : HasCapacity(pass.snapshot, c, pass.order[j])) =>
                 /\ routing'[ZoneOf(c)] = Absent
                 /\ \A n \in Node : Holds(routing', CellOf(n), c) =>
                       ~(routing'[CellOf(n)].timestamp < pass.timestamp)
           /\ pass.snapshot[c].cohort_id # Absent => ZonesKept
<1> DEFINE targets == FindMergeCandidate(pass.snapshot, pass.order, c)
           merged == CHOOSE u \in Unused : TRUE
           z == pass.snapshot[c].cohort_id
           ts == pass.timestamp
<1>1. /\ pass.snapshot \in CellStates /\ pass.order \in Seq(Stored)
      /\ z \in Zone \cup {Absent} /\ ts \in Nat /\ ts >= 1
      /\ routing \in Table /\ c \in Cell /\ c \in used /\ Stored \subseteq Cell
      /\ used \subseteq Cell /\ Stored \subseteq used
  BY DEF PassInv, PassTypeOK, RoutesInUse, CellStates, RebalancingAssumption
<1>2. /\ \A t \in targets : t \in Stored /\ HasCapacity(pass.snapshot, c, t)
      /\ (\E j \in DOMAIN pass.order : HasCapacity(pass.snapshot, c, pass.order[j])) =>
            targets # {}
  BY <1>1, MergeCandidate, Zenon
<1> HIDE DEF targets
<1>3. CASE targets = {} /\ UNCHANGED <<routing, used>>
  BY <1>1, <1>2, <1>3, Zenon DEF Rebuilt, ZonesKept, NodeHasZone
<1>4. CASE Unused # {} /\ used' = used \cup {merged}
           /\ \E t \in targets : routing' = MergeCells(routing, c, t, merged, z, ts)
  <2>1. merged \in Cell \ used
    BY <1>4, Zenon DEF Unused
  <2> HIDE DEF merged
  <2>2. PICK t \in targets : routing' = MergeCells(routing, c, t, merged, z, ts)
    BY <1>4, Zenon
  <2>3. /\ t \in Stored /\ t \in Cell /\ t \in used /\ HasCapacity(pass.snapshot, c, t)
        /\ merged \in Cell \ {c, t}
    BY <1>1, <1>2, <2>1, Zenon
  <2>4. PICK u : u = routing'
    OBVIOUS
  <2>5. CellsMerged(routing, u, c, t, merged, z, ts)
    <3>1. CellsMerged(routing, MergeCells(routing, c, t, merged, z, ts), c, t, merged, z, ts)
      BY <1>1, <2>3, MergeCellsEffect, Zenon
    <3>2. QED
      BY <2>2, <2>4, <3>1, Zenon
  <2>6. \A n \in Node : routing[CellOf(n)] \in Entry \cup {Absent}
                        /\ (routing[CellOf(n)] # Absent => routing[CellOf(n)].timestamp \in Nat)
    BY <1>1, Registers, Zenon DEF Table, Entry
  <2>7. ~refused => Cardinality(GetCellNodes(u, merged)) <= max_cell_size
    <3>1. SUFFICES ASSUME ~refused PROVE Cardinality(GetCellNodes(u, merged)) <= max_cell_size
      OBVIOUS
    <3> DEFINE mine == pass.snapshot[c].members
               theirs == pass.snapshot[t].members
    <3>2. GetCellNodes(u, merged) \subseteq mine \cup theirs
      <4>1. SUFFICES ASSUME NEW n \in Node, Holds(u, CellOf(n), merged)
                     PROVE  n \in mine \cup theirs
        BY Zenon DEF GetCellNodes
      <4>2. ~Holds(routing, CellOf(n), merged)
        BY <2>1, Zenon DEF Holds, PassInv, RoutesInUse
      <4>3. (Holds(routing, CellOf(n), c) \/ Holds(routing, CellOf(n), t))
              /\ Newer(routing[CellOf(n)], ts)
        BY <2>5, <4>1, <4>2, Zenon DEF Holds, CellsMerged
      <4>4. Older(n)
        BY <4>3, Zenon DEF Older, Newer, Holds
      <4>5. QED
        BY <2>3, <3>1, <4>3, <4>4, Zenon DEF PassInv, RoutesMatchStore
    <3>3. /\ IsFiniteSet(mine) /\ Cardinality(mine) = Size(pass.snapshot, c)
          /\ IsFiniteSet(theirs) /\ Cardinality(theirs) = Size(pass.snapshot, t)
          /\ Size(pass.snapshot, c) \in Nat /\ Size(pass.snapshot, t) \in Nat
      BY <1>1, <2>3, SizeIsNat, Zenon DEF Size
    <3> HIDE DEF mine, theirs
    <3>4. /\ IsFiniteSet(mine \cup theirs)
          /\ Cardinality(mine \cup theirs) \in Nat
          /\ Cardinality(mine \cup theirs) <= Cardinality(mine) + Cardinality(theirs)
      <4>1. Cardinality(mine \cap theirs) \in Nat
        BY <3>3, FS_Intersection, FS_CardinalityType, Zenon
      <4>2. /\ IsFiniteSet(mine \cup theirs)
            /\ Cardinality(mine \cup theirs) =
                  Cardinality(mine) + Cardinality(theirs) - Cardinality(mine \cap theirs)
        BY <3>3, FS_Union, Zenon
      <4>3. Cardinality(mine \cup theirs) \in Nat
        BY <4>2, FS_CardinalityType, Zenon
      <4>4. QED
        BY <3>3, <4>1, <4>2, <4>3
    <3>5. /\ Cardinality(GetCellNodes(u, merged)) \in Nat
          /\ Cardinality(GetCellNodes(u, merged)) <= Cardinality(mine \cup theirs)
      BY <3>2, <3>4, FS_Subset, FS_CardinalityType, Zenon
    <3>6. QED
      BY <2>3, <3>3, <3>4, <3>5 DEF HasCapacity, RebalancingAssumption
  <2>8. Rebuilt
    <3>1. used' \ used = {merged} /\ used \subseteq used' /\ used' \subseteq Cell
      BY <1>1, <1>4, <2>1, Zenon DEF merged
    <3>2. QED
      BY <2>4, <2>5, <2>7, <3>1, Zenon DEF Rebuilt, CellsMerged
  <2>9. /\ u[ZoneOf(c)] = Absent
        /\ \A n \in Node : Holds(u, CellOf(n), c) => ~(u[CellOf(n)].timestamp < ts)
    <3>1. routing[ZoneOf(c)] # Absent => routing[ZoneOf(c)].timestamp <= ts
      <4>1. routing[ZoneOf(c)] # Absent => routing[ZoneOf(c)].timestamp \in Nat
        BY <1>1, Registers, Zenon DEF Table, Entry
      <4>2. QED
        BY <1>1, <4>1 DEF PassInv, RoutesInUse
    <3>2. u[ZoneOf(c)] = Absent
      BY <1>1, <2>5, <3>1, Zenon DEF CellsMerged
    <3>3. ASSUME NEW n \in Node, Holds(u, CellOf(n), c) PROVE ~(u[CellOf(n)].timestamp < ts)
      BY <2>3, <2>5, <2>6, <3>3 DEF Holds, Newer, CellsMerged
    <3>4. QED
      BY <3>2, <3>3, Zenon
  <2>10. z # Absent => ZonesKept
    <3>1. SUFFICES ASSUME z # Absent, NEW n \in Node, NodeHasZone(routing, n), Older(n)
                   PROVE  NodeHasZone(u, n)
      BY <2>4, Zenon DEF ZonesKept
    <3> DEFINE d == routing[CellOf(n)].value
    <3>2. routing[CellOf(n)] # Absent /\ routing[ZoneOf(d)] # Absent /\ d \in used /\ d \in Cell
          /\ Newer(routing[CellOf(n)], ts)
      BY <1>1, <3>1, Zenon DEF NodeHasZone, PassInv, RoutesInUse, Newer, Older
    <3>3. routing[ZoneOf(merged)] = Absent
      BY <2>1, Zenon DEF PassInv, RoutesInUse
    <3>4. u[ZoneOf(merged)] = [value |-> z, timestamp |-> ts] /\ u[ZoneOf(merged)] # Absent
      <4>1. u[ZoneOf(merged)] = [value |-> z, timestamp |-> ts]
        BY <2>3, <2>5, <3>1, <3>3, Zenon DEF Newer, CellsMerged
      <4>2. [value |-> z, timestamp |-> ts] \in Entry
        BY <1>1, <3>1, Zenon DEF Entry
      <4>3. QED
        BY <4>1, <4>2, Zenon DEF RebalancingAssumption
    <3>5. CASE d \in {c, t}
      <4>1. u[CellOf(n)] = [value |-> merged, timestamp |-> ts]
        BY <2>5, <3>2, <3>5, Zenon DEF Holds, CellsMerged
      <4>2. u[CellOf(n)] \in Entry
        BY <2>1, <1>1, <4>1 DEF Entry
      <4>3. QED
        BY <3>4, <4>1, <4>2 DEF NodeHasZone, RebalancingAssumption
    <3>6. CASE d \notin {c, t}
      <4>1. u[CellOf(n)] = routing[CellOf(n)]
        BY <2>5, <3>2, <3>6, Zenon DEF Holds, CellsMerged
      <4>2. d # merged
        BY <2>1, <3>2, Zenon
      <4>3. u[ZoneOf(d)] = routing[ZoneOf(d)]
        BY <2>5, <3>2, <3>6, <4>2, Zenon DEF CellsMerged
      <4>4. QED
        BY <3>2, <4>1, <4>3, Zenon DEF NodeHasZone
    <3>7. QED
      BY <3>5, <3>6, Zenon
  <2>11. QED
    BY <2>4, <2>8, <2>9, <2>10, Zenon
<1>5. QED
  BY <1>3, <1>4, Zenon DEF MergeStep, targets

(* The two lists of a split cover the members of a cell of at most twice
   max_cell_size. *)
LEMMA HalvesCover ==
    ASSUME RebalancingAssumption, NEW members, IsFiniteSet(members),
           Cardinality(members) <= 2 * max_cell_size,
           NEW half \in SUBSET members, NEW rest \in SUBSET (members \ half),
           Cardinality(half) = AtMostMax(SplitPoint(Cardinality(members))),
           Cardinality(rest) =
              AtMostMax(Cardinality(members) - SplitPoint(Cardinality(members)))
    PROVE  half \cup rest = members
<1>1. Cardinality(members) \in Nat
  BY FS_CardinalityType, Zenon
<1>2. ASSUME NEW k \in Nat, k <= 2 * max_cell_size
      PROVE  AtMostMax(SplitPoint(k)) + AtMostMax(k - SplitPoint(k)) = k
  <2>1. k \div 2 <= max_cell_size /\ k - (k \div 2) <= max_cell_size /\ k \div 2 \in Nat
    BY <1>2 DEF RebalancingAssumption
  <2>2. AtMostMax(k \div 2) = k \div 2 /\ AtMostMax(k - (k \div 2)) = k - (k \div 2)
    BY <1>2, <2>1 DEF AtMostMax, RebalancingAssumption
  <2>3. QED
    BY <1>2, <2>1, <2>2 DEF SplitPoint
<1>3. IsFiniteSet(half) /\ IsFiniteSet(rest) /\ half \cap rest = {}
  BY FS_Subset, Zenon
<1>4. Cardinality(half) \in Nat /\ Cardinality(rest) \in Nat
  BY <1>3, FS_CardinalityType, Zenon
<1>5. Cardinality(half \cup rest) = Cardinality(half) + Cardinality(rest)
  <2>1. Cardinality(half \cup rest) =
           Cardinality(half) + Cardinality(rest) - Cardinality(half \cap rest)
    BY <1>3, FS_Union, Zenon
  <2>2. Cardinality(half \cap rest) = 0
    BY <1>3, FS_EmptySet, Zenon
  <2>3. QED
    BY <1>4, <2>1, <2>2
<1>6. Cardinality(half \cup rest) = Cardinality(members)
  BY <1>1, <1>2, <1>5, Zenon
<1>7. half \cup rest \subseteq members
  OBVIOUS
<1>8. QED
  BY <1>6, <1>7, FS_Subset, Zenon

(* So does a split, the new cells being capped by add_member. *)
LEMMA SplitRebuilds ==
    ASSUME RebalancingAssumption, PassInv, pass.active,
           NEW c \in Stored, SplitStep(c)
    PROVE  /\ Rebuilt
           /\ (/\ pass.snapshot[c].cohort_id # Absent
               /\ Size(pass.snapshot, c) <= 2 * max_cell_size
               /\ ~refused) => ZonesKept
<1> DEFINE members == pass.snapshot[c].members
           a == CHOOSE u \in Unused : TRUE
           b == CHOOSE u \in Unused \ {a} : TRUE
           z == pass.snapshot[c].cohort_id
           ts == pass.timestamp
<1>1. /\ pass.snapshot \in CellStates /\ z \in Zone \cup {Absent} /\ ts \in Nat
      /\ routing \in Table /\ c \in Cell /\ c \in used
      /\ used \subseteq Cell /\ Stored \subseteq used
  BY DEF PassInv, PassTypeOK, RoutesInUse, CellStates, RebalancingAssumption
<1>2. Unused # {} /\ Unused \ {a} # {} /\ used' = used \cup {a, b}
  BY Zenon DEF SplitStep
<1>3. a \in Cell \ used /\ b \in Cell \ used /\ a # b
  <2>1. a \in Unused
    BY <1>2, Zenon
  <2>2. b \in Unused \ {a}
    BY <1>2, Zenon
  <2>3. QED
    BY <2>1, <2>2, Zenon DEF Unused
<1>4. PICK half \in SUBSET members : \E rest \in SUBSET (members \ half) :
         /\ Cardinality(half) = AtMostMax(SplitPoint(Cardinality(members)))
         /\ Cardinality(rest) =
               AtMostMax(Cardinality(members) - SplitPoint(Cardinality(members)))
         /\ routing' = SplitCell(routing, c, a, b, half, rest, z, ts)
  BY Zenon DEF SplitStep
<1>5. PICK rest \in SUBSET (members \ half) :
         /\ Cardinality(half) = AtMostMax(SplitPoint(Cardinality(members)))
         /\ Cardinality(rest) =
               AtMostMax(Cardinality(members) - SplitPoint(Cardinality(members)))
         /\ routing' = SplitCell(routing, c, a, b, half, rest, z, ts)
  BY <1>4, Zenon
<1> HIDE DEF a, b
<1>6. PICK u : u = routing'
  OBVIOUS
<1>7. CellIsSplit(routing, u, c, a, b, half, rest, z, ts)
  <2>1. a \in Cell \ {c} /\ b \in Cell \ {c} /\ Absent \notin Entry
    BY <1>1, <1>3, Zenon DEF RebalancingAssumption
  <2>2. CellIsSplit(routing, SplitCell(routing, c, a, b, half, rest, z, ts),
                    c, a, b, half, rest, z, ts)
    BY <1>1, <2>1, SplitCellEffect, Zenon
  <2>3. QED
    BY <1>5, <1>6, <2>2, Zenon
<1>8. members \subseteq Node /\ IsFiniteSet(members)
      /\ Cardinality(members) = Size(pass.snapshot, c) /\ Size(pass.snapshot, c) \in Nat
  BY <1>1, SizeIsNat, Zenon DEF Size
<1> HIDE DEF members
<1>9. /\ \A n \in Node : Holds(u, CellOf(n), a) => n \in half
      /\ \A n \in Node : Holds(u, CellOf(n), b) => n \in rest
  <2>1. \A n \in Node : ~Holds(routing, CellOf(n), a) /\ ~Holds(routing, CellOf(n), b)
    BY <1>3, Zenon DEF Holds, PassInv, RoutesInUse
  <2>2. QED
    BY <1>3, <1>7, <2>1 DEF CellIsSplit, Holds
<1>10. /\ Cardinality(GetCellNodes(u, a)) <= max_cell_size
       /\ Cardinality(GetCellNodes(u, b)) <= max_cell_size
  <2>1. IsFiniteSet(half) /\ IsFiniteSet(rest)
    BY <1>8, FS_Subset, Zenon
  <2>2. Cardinality(half) <= max_cell_size /\ Cardinality(rest) <= max_cell_size
        /\ Cardinality(half) \in Nat /\ Cardinality(rest) \in Nat
    <3>1. \A k \in Int : AtMostMax(k) <= max_cell_size
      BY DEF AtMostMax, RebalancingAssumption
    <3>2. SplitPoint(Cardinality(members)) \in Int
          /\ Cardinality(members) - SplitPoint(Cardinality(members)) \in Int
      BY <1>8 DEF SplitPoint
    <3>3. QED
      BY <1>5, <2>1, <3>1, <3>2, FS_CardinalityType, Zenon
  <2>3. GetCellNodes(u, a) \subseteq half /\ GetCellNodes(u, b) \subseteq rest
    BY <1>9, Zenon DEF GetCellNodes
  <2>4. /\ Cardinality(GetCellNodes(u, a)) <= Cardinality(half)
        /\ Cardinality(GetCellNodes(u, b)) <= Cardinality(rest)
        /\ Cardinality(GetCellNodes(u, a)) \in Nat /\ Cardinality(GetCellNodes(u, b)) \in Nat
    BY <2>1, <2>3, FS_Subset, FS_CardinalityType, Zenon
  <2>5. QED
    BY <2>2, <2>4 DEF RebalancingAssumption
<1>11. Rebuilt
  <2>1. used' \ used = {a, b} /\ used \subseteq used' /\ used' \subseteq Cell
    BY <1>1, <1>2, <1>3, Zenon DEF a, b
  <2>2. QED
    BY <1>6, <1>7, <1>10, <2>1, Zenon DEF Rebuilt, CellIsSplit
<1>12. ASSUME z # Absent, Size(pass.snapshot, c) <= 2 * max_cell_size, ~refused
       PROVE  ZonesKept
  <2>1. SUFFICES ASSUME NEW n \in Node, NodeHasZone(routing, n), Older(n)
                 PROVE  NodeHasZone(u, n)
    BY <1>6, Zenon DEF ZonesKept
  <2> DEFINE d == routing[CellOf(n)].value
  <2>2. routing[CellOf(n)] # Absent /\ routing[ZoneOf(d)] # Absent /\ d \in used /\ d \in Cell
        /\ Newer(routing[CellOf(n)], ts)
    BY <1>1, <2>1, Zenon DEF NodeHasZone, PassInv, RoutesInUse, Newer, Older
  <2>3. \A x \in {a, b} : u[ZoneOf(x)] # Absent
    <3>1. SUFFICES ASSUME NEW x \in {a, b} PROVE u[ZoneOf(x)] # Absent
      OBVIOUS
    <3>2. routing[ZoneOf(x)] = Absent /\ x \in Cell /\ x # c
      BY <1>1, <1>3, Zenon DEF PassInv, RoutesInUse
    <3>3. u[ZoneOf(x)] = [value |-> z, timestamp |-> ts]
      BY <1>7, <1>12, <3>2, Zenon DEF CellIsSplit, Newer
    <3>4. [value |-> z, timestamp |-> ts] \in Entry
      BY <1>1, <1>12, Zenon DEF Entry
    <3>5. QED
      BY <3>3, <3>4, Zenon DEF RebalancingAssumption
  <2>4. CASE n \in half \cup rest
    <3>1. PICK x \in {a, b} : u[CellOf(n)] = [value |-> x, timestamp |-> ts]
      BY <1>7, <2>2, <2>4, Zenon DEF CellIsSplit
    <3>2. u[CellOf(n)] \in Entry
      BY <1>1, <1>3, <3>1 DEF Entry
    <3>3. QED
      BY <2>3, <3>1, <3>2 DEF NodeHasZone, RebalancingAssumption
  <2>5. CASE n \notin half \cup rest
    <3>1. half \cup rest = members
      BY <1>5, <1>8, <1>12, HalvesCover
    <3>2. d # c
      BY <1>12, <2>1, <2>2, <2>5, <3>1, Zenon DEF PassInv, RoutesMatchStore, Holds, members
    <3>3. u[CellOf(n)] = routing[CellOf(n)]
      BY <1>7, <2>5, Zenon DEF CellIsSplit
    <3>4. u[ZoneOf(d)] = routing[ZoneOf(d)]
      BY <1>3, <1>7, <2>2, <3>2, Zenon DEF CellIsSplit
    <3>5. QED
      BY <2>2, <3>3, <3>4, Zenon DEF NodeHasZone
  <2>6. QED
    BY <2>4, <2>5, Zenon
<1>13. QED
  BY <1>11, <1>12, Zenon

-----------------------------------------------------------------------------
(* The cell a pass is at, and what checking it does. *)
LEMMA CheckCellRebuilds ==
    ASSUME RebalancingAssumption, PassInv, CheckCell
    PROVE  LET c == pass.order[pass.next] IN
           /\ c \in Stored /\ pass.next \in DOMAIN pass.order
           /\ Rebuilt
           /\ (/\ Size(pass.snapshot, c) < min_cell_size
               /\ \E j \in DOMAIN pass.order : HasCapacity(pass.snapshot, c, pass.order[j])) =>
                 /\ routing'[ZoneOf(c)] = Absent
                 /\ \A n \in Node : Holds(routing', CellOf(n), c) =>
                       ~(routing'[CellOf(n)].timestamp < pass.timestamp)
           /\ (/\ pass.snapshot[c].cohort_id # Absent
               /\ Size(pass.snapshot, c) <= 2 * max_cell_size
               /\ ~refused) => ZonesKept
<1> DEFINE c == pass.order[pass.next]
<1>1. pass.active /\ pass.snapshot \in CellStates /\ routing \in Table /\ used \subseteq Cell
  BY Zenon DEF CheckCell, PassInv, PassTypeOK
<1>2. pass.next \in DOMAIN pass.order /\ c \in Stored
  BY DEF CheckCell, PassInv, PassTypeOK
<1> HIDE DEF c
<1>3. Size(pass.snapshot, c) \in Nat
  BY <1>1, <1>2, SizeIsNat, Zenon
<1>4. MergeStep(c) \/ SplitStep(c) \/ BalancedStep(c)
  BY Zenon DEF CheckCell, c
<1>5. CASE MergeStep(c)
  BY <1>1, <1>2, <1>5, MergeRebuilds, Zenon DEF c
<1>6. CASE SplitStep(c)
  <2>1. ~(Size(pass.snapshot, c) < min_cell_size)
    BY <1>6, Zenon DEF SplitStep, NeedsRebalance
  <2>2. QED
    BY <1>1, <1>2, <1>6, <2>1, SplitRebuilds, Zenon DEF c
<1>7. CASE BalancedStep(c)
  <2>1. ~(Size(pass.snapshot, c) < min_cell_size)
    BY <1>7, Zenon DEF BalancedStep, NeedsRebalance
  <2>2. Rebuilt /\ ZonesKept
    BY <1>1, <1>7, Zenon DEF BalancedStep, Rebuilt, ZonesKept, NodeHasZone
  <2>3. QED
    BY <1>2, <2>1, <2>2, Zenon DEF c
<1>8. QED
  BY <1>4, <1>5, <1>6, <1>7, Zenon

(* The step of a pass keeps the invariant. *)
LEMMA CheckCellKeepsInv ==
    ASSUME RebalancingAssumption, PassInv, CheckCell
    PROVE  PassInv'
<1> DEFINE c == pass.order[pass.next]
<1>1. /\ c \in Stored /\ pass.next \in DOMAIN pass.order
      /\ Rebuilt
      /\ (/\ Size(pass.snapshot, c) < min_cell_size
          /\ \E j \in DOMAIN pass.order : HasCapacity(pass.snapshot, c, pass.order[j])) =>
            /\ routing'[ZoneOf(c)] = Absent
            /\ \A n \in Node : Holds(routing', CellOf(n), c) =>
                  ~(routing'[CellOf(n)].timestamp < pass.timestamp)
  BY CheckCellRebuilds, Zenon
<1>2. /\ pass \in [active : BOOLEAN, order : Seq(Stored), next : Nat, timestamp : 0..now,
                   snapshot : CellStates \cup {Idle.snapshot}]
      /\ pass.active /\ pass.next <= Len(pass.order)
      /\ pass' = [pass EXCEPT !.next = pass.next + 1]
      /\ store' = store /\ now' = now /\ moves' = moves /\ refused' = refused
  BY Zenon DEF CheckCell, PassInv, PassTypeOK
<1>3. /\ pass'.active = pass.active /\ pass'.order = pass.order /\ pass'.snapshot = pass.snapshot
      /\ pass'.timestamp = pass.timestamp /\ pass'.next = pass.next + 1
  BY <1>2, Zenon
<1>4. /\ Stored \subseteq used /\ used \subseteq Cell /\ Stored \subseteq Cell
      /\ routing \in Table
      /\ now \in Nat /\ pass.timestamp \in Nat /\ pass.next \in Nat
      /\ \A i \in DOMAIN pass.order : i \in Nat /\ pass.order[i] \in Stored
  BY DEF PassInv, PassTypeOK, RebalancingAssumption
<1>5. \A x \in used' \ used : [value |-> x, timestamp |-> pass.timestamp] \in Entry
                              /\ [value |-> x, timestamp |-> pass.timestamp] # Absent
  BY <1>1, <1>4 DEF Rebuilt, Entry, RebalancingAssumption
<1>6. PassTypeOK'
  <2>1. pass' \in [active : BOOLEAN, order : Seq(Stored), next : Nat, timestamp : 0..now,
                   snapshot : CellStates \cup {Idle.snapshot}]
    BY <1>2
  <2>2. pass'.next \in 1..(Len(pass'.order) + 1)
    BY <1>2, <1>3, <1>4
  <2>3. QED
    BY <1>1, <1>2, <1>3, <2>1, <2>2, Zenon DEF PassInv, PassTypeOK, Rebuilt, CellStates, Idle
<1>7. ASSUME NEW n \in Node
       PROVE  \/ routing'[CellOf(n)] = routing[CellOf(n)]
              \/ routing'[CellOf(n)].value \in used' \ used
  <2>1. CASE routing'[CellOf(n)] = routing[CellOf(n)]
    BY <2>1, Zenon
  <2>2. CASE \E x \in used' \ used :
               routing'[CellOf(n)] = [value |-> x, timestamp |-> pass.timestamp]
    <3>1. PICK x \in used' \ used :
               routing'[CellOf(n)] = [value |-> x, timestamp |-> pass.timestamp]
      BY <2>2, Zenon
    <3>2. QED
      BY <3>1
  <2>3. QED
    BY <1>1, <2>1, <2>2, Zenon DEF Rebuilt
<1>8. \A n \in Node, x \in Cell : x \notin used' \ used /\ Holds(routing', CellOf(n), x) =>
         routing'[CellOf(n)] = routing[CellOf(n)] /\ Holds(routing, CellOf(n), x)
  BY <1>7, Zenon DEF Holds
<1>9. RoutesInUse'
  <2>1. \A n \in Node : routing'[CellOf(n)] # Absent => routing'[CellOf(n)].value \in used'
    BY <1>1, <1>7, Zenon DEF PassInv, RoutesInUse, Rebuilt
  <2>2. \A x \in Cell \ used' : routing'[ZoneOf(x)] = Absent
    BY <1>1, Zenon DEF PassInv, RoutesInUse, Rebuilt
  <2>3. \A x \in Stored : routing'[ZoneOf(x)] # Absent => routing'[ZoneOf(x)].timestamp <= 1
    BY <1>1, <1>4, Zenon DEF PassInv, RoutesInUse, Rebuilt
  <2>4. QED
    BY <1>2, <1>3, <2>1, <2>2, <2>3, Zenon DEF PassInv, RoutesInUse
<1>10. RoutesMatchStore'
  <2>1. \A x \in Stored : x \in Cell /\ x \notin used' \ used
    BY <1>4, Zenon
  <2>2. QED
    BY <1>2, <1>3, <1>8, <2>1, Zenon DEF PassInv, RoutesMatchStore, Older
<1>11. NewCellsFit'
  <2>1. SUFFICES ASSUME ~refused, NEW x \in used' \ Stored
                 PROVE  Cardinality(GetCellNodes(routing', x)) <= max_cell_size
    BY <1>2, Zenon DEF NewCellsFit, New
  <2>2. CASE x \in used' \ used
    BY <1>1, <2>1, <2>2, Zenon DEF Rebuilt
  <2>3. CASE x \in used
    <3>1. GetCellNodes(routing', x) \subseteq GetCellNodes(routing, x)
      BY <1>4, <1>8, <2>3, Zenon DEF GetCellNodes
    <3>2. IsFiniteSet(GetCellNodes(routing, x))
      BY FS_Subset, Zenon DEF GetCellNodes, RebalancingAssumption
    <3>3. /\ Cardinality(GetCellNodes(routing', x)) <= Cardinality(GetCellNodes(routing, x))
          /\ Cardinality(GetCellNodes(routing', x)) \in Nat
          /\ Cardinality(GetCellNodes(routing, x)) \in Nat
      BY <3>1, <3>2, FS_Subset, FS_CardinalityType, Zenon
    <3>4. Cardinality(GetCellNodes(routing, x)) <= max_cell_size
      BY <2>1, <2>3, Zenon DEF PassInv, NewCellsFit, New
    <3>5. QED
      BY <3>3, <3>4 DEF RebalancingAssumption
  <2>4. QED
    BY <2>1, <2>2, <2>3, Zenon
<1>12. MergedSoFar'
  <2>1. SUFFICES ASSUME NEW i \in DOMAIN pass.order, NEW j \in DOMAIN pass.order,
                        i < pass.next + 1,
                        Size(pass.snapshot, pass.order[i]) < min_cell_size,
                        HasCapacity(pass.snapshot, pass.order[i], pass.order[j])
                 PROVE  /\ routing'[ZoneOf(pass.order[i])] = Absent
                        /\ \A n \in Node : Holds(routing', CellOf(n), pass.order[i]) =>
                              ~(routing'[CellOf(n)].timestamp < pass.timestamp)
    BY <1>3, Zenon DEF MergedSoFar, Gone, GetCellNodes, Older
  <2>2. CASE i = pass.next
    BY <1>1, <2>1, <2>2, Zenon
  <2>3. CASE i < pass.next
    <3> DEFINE x == pass.order[i]
    <3>1. /\ routing[ZoneOf(x)] = Absent
          /\ \A n \in Node : Holds(routing, CellOf(n), x) =>
                ~(routing[CellOf(n)].timestamp < pass.timestamp)
      BY <1>2, <2>1, <2>3, Zenon DEF PassInv, MergedSoFar, Gone, GetCellNodes, Older
    <3>2. x \in Cell /\ x \notin used' \ used
      BY <1>4, Zenon
    <3>3. QED
      BY <1>1, <1>8, <3>1, <3>2, Zenon DEF Rebuilt
  <2>4. QED
    BY <1>4, <2>1, <2>2, <2>3
<1>13. QED
  BY <1>6, <1>9, <1>10, <1>11, <1>12, Zenon DEF PassInv

(* So does a move during the pass: a node registered in its second or later is
   not one the pass answers for. *)
LEMMA MoveNodeKeepsInv ==
    ASSUME RebalancingAssumption, PassInv, NEW n \in Node, NEW c \in Stored, MoveNode(n, c)
    PROVE  PassInv'
<1>1. /\ moves < MaxMoves /\ moves' = moves + 1
      /\ store' = [d \in Stored |->
            [store[d] EXCEPT !.members = IF d = c THEN @ \cup {n} ELSE @ \ {n}]]
      /\ refused' = (refused \/ ~Newer(routing[CellOf(n)], now))
      /\ used' = used /\ pass' = pass /\ now' = now
  BY Zenon DEF MoveNode
<1>2. /\ store \in CellStates /\ routing \in Table /\ now \in Nat /\ c \in Cell /\ c \in used
      /\ used \subseteq Cell /\ Stored \subseteq used
      /\ pass.timestamp \in Nat /\ pass.timestamp <= now /\ moves \in 0..MaxMoves
      /\ refused \in BOOLEAN
  BY DEF PassInv, PassTypeOK, RebalancingAssumption
<1>3. NodesAssigned(routing, routing', {n}, c, now)
  <2>1. {CellOf(k) : k \in {n}} = {CellOf(n)}
    OBVIOUS
  <2>2. routing' = AssignAll(routing, {CellOf(k) : k \in {n}}, c, now)
    BY <2>1, Zenon DEF MoveNode, Assign
  <2>3. NodesAssigned(routing, AssignAll(routing, {CellOf(k) : k \in {n}}, c, now), {n}, c, now)
    BY <1>2, AssignNodes, Zenon
  <2>4. QED
    BY <2>2, <2>3, Zenon
<1>4. /\ routing' \in Table
      /\ \A d \in Cell : routing'[ZoneOf(d)] = routing[ZoneOf(d)]
      /\ \A k \in Node : k # n => routing'[CellOf(k)] = routing[CellOf(k)]
      /\ ~Newer(routing[CellOf(n)], now) => routing'[CellOf(n)] = routing[CellOf(n)]
      /\ Newer(routing[CellOf(n)], now) => routing'[CellOf(n)] = [value |-> c, timestamp |-> now]
  BY <1>3, Zenon DEF NodesAssigned
<1>5. Newer(routing[CellOf(n)], now) =>
         routing'[CellOf(n)].value = c /\ routing'[CellOf(n)].timestamp = now
  BY <1>4
<1>6. \A d \in Stored : /\ store'[d].members = IF d = c THEN store[d].members \cup {n}
                                                       ELSE store[d].members \ {n}
                        /\ store'[d].cohort_id = store[d].cohort_id
                        /\ store'[d] \in [members : SUBSET Node, cohort_id : Zone \cup {Absent}]
  BY <1>1, <1>2, Zenon DEF CellStates
<1>7. PassTypeOK'
  <2>1. store' \in CellStates
    BY <1>1, <1>6, Zenon DEF CellStates
  <2>2. moves' \in 0..MaxMoves
    BY <1>1, <1>2 DEF RebalancingAssumption
  <2>3. refused' \in BOOLEAN
    BY <1>1, <1>2, Zenon
  <2>4. QED
    BY <1>1, <1>4, <2>1, <2>2, <2>3, Zenon DEF PassInv, PassTypeOK
<1>8. RoutesInUse'
  BY <1>1, <1>2, <1>4, <1>5, Zenon DEF PassInv, RoutesInUse
<1>9. RoutesMatchStore'
  <2>1. SUFFICES ASSUME ~refused', NEW x \in Stored, NEW k \in Node, Holds(routing', CellOf(k), x)
                 PROVE  /\ k \in store'[x].members
                        /\ pass.active /\ routing'[CellOf(k)].timestamp < pass.timestamp =>
                              k \in pass.snapshot[x].members
    BY <1>1, Zenon DEF RoutesMatchStore, Older
  <2>2. ~refused /\ Newer(routing[CellOf(n)], now)
    BY <1>1, <2>1, Zenon
  <2>3. CASE k = n
    <3>1. x = c /\ routing'[CellOf(k)].timestamp = now
      BY <1>5, <2>1, <2>2, <2>3, Zenon DEF Holds
    <3>2. n \in store'[c].members
      BY <1>6, Zenon
    <3>3. ~(now < pass.timestamp)
      BY <1>2
    <3>4. QED
      BY <2>3, <3>1, <3>2, <3>3, Zenon
  <2>4. CASE k # n
    <3>1. Holds(routing, CellOf(k), x) /\ routing'[CellOf(k)] = routing[CellOf(k)]
      BY <1>4, <2>1, <2>4, Zenon DEF Holds
    <3>2. k \in store[x].members
          /\ (pass.active /\ Older(k) => k \in pass.snapshot[x].members)
      BY <2>2, <3>1, Zenon DEF PassInv, RoutesMatchStore
    <3>3. QED
      BY <1>6, <2>4, <3>1, <3>2, Zenon DEF Older
  <2>5. QED
    BY <2>3, <2>4, Zenon
<1>10. NewCellsFit'
  <2>1. SUFFICES ASSUME ~refused', NEW x \in used \ Stored
                 PROVE  Cardinality(GetCellNodes(routing', x)) <= max_cell_size
    BY <1>1, Zenon DEF NewCellsFit, New
  <2>2. ~refused
    BY <1>1, <2>1, Zenon
  <2>3. GetCellNodes(routing', x) \subseteq GetCellNodes(routing, x)
    BY <1>4, <1>5, <2>1, Zenon DEF GetCellNodes, Holds
  <2>4. IsFiniteSet(GetCellNodes(routing, x))
    BY FS_Subset, Zenon DEF GetCellNodes, RebalancingAssumption
  <2>5. /\ Cardinality(GetCellNodes(routing', x)) <= Cardinality(GetCellNodes(routing, x))
        /\ Cardinality(GetCellNodes(routing', x)) \in Nat
        /\ Cardinality(GetCellNodes(routing, x)) \in Nat
    BY <2>3, <2>4, FS_Subset, FS_CardinalityType, Zenon
  <2>6. Cardinality(GetCellNodes(routing, x)) <= max_cell_size
    BY <2>1, <2>2, Zenon DEF PassInv, NewCellsFit, New
  <2>7. QED
    BY <2>5, <2>6 DEF RebalancingAssumption
<1>11. MergedSoFar'
  <2>1. SUFFICES ASSUME pass.active, NEW i \in DOMAIN pass.order, NEW j \in DOMAIN pass.order,
                        i < pass.next,
                        Size(pass.snapshot, pass.order[i]) < min_cell_size,
                        HasCapacity(pass.snapshot, pass.order[i], pass.order[j])
                 PROVE  /\ routing'[ZoneOf(pass.order[i])] = Absent
                        /\ \A k \in Node : Holds(routing', CellOf(k), pass.order[i]) =>
                              ~(routing'[CellOf(k)].timestamp < pass.timestamp)
    BY <1>1, Zenon DEF MergedSoFar, Gone, GetCellNodes, Older
  <2> DEFINE x == pass.order[i]
  <2>2. /\ routing[ZoneOf(x)] = Absent
        /\ \A k \in Node : Holds(routing, CellOf(k), x) =>
              ~(routing[CellOf(k)].timestamp < pass.timestamp)
    BY <2>1, Zenon DEF PassInv, MergedSoFar, Gone, GetCellNodes, Older
  <2>3. x \in Cell
    BY <1>2 DEF PassInv, PassTypeOK
  <2>4. QED
    BY <1>2, <1>4, <1>5, <2>2, <2>3 DEF Holds
<1>12. QED
  BY <1>7, <1>8, <1>9, <1>10, <1>11, Zenon DEF PassInv

(* The initial store and table agree. *)
LEMMA PassInitInv ==
    ASSUME RebalancingAssumption, PassInit
    PROVE  PassInv
<1>1. PICK home \in [Node -> Stored], zone \in Cohorts :
        /\ store = [c \in Stored |->
              [members |-> {n \in Node : home[n] = c}, cohort_id |-> zone[c]]]
        /\ routing = [g \in Register |->
              IF g[1] = "node_to_cell"
                 THEN [value |-> home[g[2]], timestamp |-> 1]
              ELSE IF g[1] = "cell_to_zone" /\ g[2] \in Stored /\ zone[g[2]] # Absent
                 THEN [value |-> zone[g[2]], timestamp |-> 1]
              ELSE Absent]
  BY Zenon DEF PassInit
<1>2. /\ used = Stored /\ pass = Idle /\ now = 1 /\ moves = 0 /\ refused = FALSE
      /\ zone \in [Stored -> Zone \cup {Absent}] /\ Stored \subseteq Cell
  BY Zenon DEF PassInit, RebalancingAssumption
<1>3. pass.active = FALSE /\ pass.order = <<>> /\ pass.next = 1 /\ pass.timestamp = 0
      /\ pass.snapshot = Idle.snapshot
  BY <1>2, Zenon DEF Idle
<1>4. store \in CellStates
  BY <1>1, <1>2, Zenon DEF CellStates
<1>5. routing \in Table
  BY <1>1, <1>2, Zenon DEF Table, Register, Entry
<1>6. /\ \A n \in Node : routing[CellOf(n)] = [value |-> home[n], timestamp |-> 1]
      /\ \A c \in Cell : routing[ZoneOf(c)] =
            IF c \in Stored /\ zone[c] # Absent
            THEN [value |-> zone[c], timestamp |-> 1] ELSE Absent
  BY <1>1, Zenon DEF Register, CellOf, ZoneOf
<1>7. \A n \in Node : routing[CellOf(n)].value = home[n]
  <2>1. SUFFICES ASSUME NEW n \in Node PROVE routing[CellOf(n)].value = home[n]
    OBVIOUS
  <2>2. routing[CellOf(n)] = [value |-> home[n], timestamp |-> 1]
    BY <1>6, Zenon
  <2>3. QED
    BY <2>2
<1>8. PassTypeOK
  <2>1. pass \in [active : BOOLEAN, order : Seq(Stored), next : Nat, timestamp : 0..now,
                  snapshot : CellStates \cup {Idle.snapshot}]
    BY <1>2 DEF Idle
  <2>2. pass.next \in 1..(Len(pass.order) + 1)
    BY <1>3
  <2>3. moves \in 0..MaxMoves
    BY <1>2 DEF RebalancingAssumption
  <2>4. QED
    BY <1>2, <1>3, <1>4, <1>5, <2>1, <2>2, <2>3, Zenon DEF PassTypeOK
<1>9. RoutesInUse
  <2>1. \A n \in Node : routing[CellOf(n)].value \in used
    BY <1>2, <1>7, Zenon
  <2>2. \A c \in Cell \ used : routing[ZoneOf(c)] = Absent
    BY <1>2, <1>6, Zenon
  <2>3. \A c \in Stored : routing[ZoneOf(c)] # Absent => routing[ZoneOf(c)].timestamp <= 1
    <3>1. SUFFICES ASSUME NEW c \in Stored, routing[ZoneOf(c)] # Absent
                   PROVE  routing[ZoneOf(c)].timestamp = 1
      OBVIOUS
    <3>2. routing[ZoneOf(c)] = [value |-> zone[c], timestamp |-> 1]
      BY <1>2, <1>6, <3>1, Zenon
    <3>3. QED
      BY <3>2
  <2>4. QED
    BY <1>2, <1>3, <2>1, <2>2, <2>3 DEF RoutesInUse
<1>10. RoutesMatchStore
  <2>1. \A c \in Stored : store[c].members = {n \in Node : home[n] = c}
    BY <1>1, Zenon
  <2>2. QED
    BY <1>3, <1>7, <2>1, Zenon DEF RoutesMatchStore, Holds
<1>11. NewCellsFit /\ MergedSoFar
  BY <1>2, <1>3, Zenon DEF NewCellsFit, New, MergedSoFar
<1>12. QED
  BY <1>8, <1>9, <1>10, <1>11, Zenon DEF PassInv

(* Every step keeps the invariant. *)
LEMMA PassNextInv ==
    ASSUME RebalancingAssumption, PassInv, [PassNext]_passVars
    PROVE  PassInv'
<1>1. CASE Tick
  <2>1. 0..now \subseteq 0..(now + 1)
    BY DEF PassInv, PassTypeOK
  <2>2. PassTypeOK' /\ RoutesInUse'
    BY <1>1, <2>1 DEF Tick, PassInv, PassTypeOK, RoutesInUse, CellStates, Idle
  <2>3. RoutesMatchStore' /\ NewCellsFit' /\ MergedSoFar'
    BY <1>1, Zenon DEF Tick, PassInv, RoutesMatchStore, NewCellsFit, New, MergedSoFar, Gone, Older
  <2>4. QED
    BY <2>2, <2>3, Zenon DEF PassInv
<1>2. CASE \E n \in Node, c \in Stored : MoveNode(n, c)
  BY <1>2, MoveNodeKeepsInv, Zenon
<1>3. CASE StartPass
  <2> DEFINE valid == {c \in Stored : Size(store, c) >= config_min_size}
  <2>1. PICK order \in [1..Cardinality(valid) -> valid] :
           pass' = [active |-> TRUE, order |-> order, snapshot |-> store,
                    next |-> 1, timestamp |-> now]
    BY <1>3, Zenon DEF StartPass
  <2>2. UNCHANGED <<store, routing, used, now, moves, refused>>
    BY <1>3, Zenon DEF StartPass
  <2>3. order \in Seq(Stored)
    <3>1. Cardinality(valid) \in Nat
      BY FS_Subset, FS_CardinalityType, Zenon DEF RebalancingAssumption
    <3>2. valid \subseteq Stored
      OBVIOUS
    <3> HIDE DEF valid
    <3>3. QED
      BY <2>1, <3>1, <3>2
  <2>4. /\ pass'.active = TRUE /\ pass'.order = order /\ pass'.snapshot = store
        /\ pass'.next = 1 /\ pass'.timestamp = now
    BY <2>1, Zenon
  <2>5. PassTypeOK'
    <3>1. store \in CellStates /\ now \in Nat /\ now \in 0..now
      BY DEF PassInv, PassTypeOK
    <3>2. pass' \in [active : BOOLEAN, order : Seq(Stored), next : Nat, timestamp : 0..now,
                     snapshot : CellStates \cup {Idle.snapshot}]
      BY <2>1, <2>3, <3>1, Zenon
    <3>3. 1 \in 1..(Len(order) + 1)
      BY <2>3
    <3>4. QED
      BY <2>2, <2>4, <3>1, <3>2, <3>3, Zenon DEF PassInv, PassTypeOK, CellStates, Idle
  <2>6. RoutesInUse'
    BY <2>2, <2>4, Zenon DEF PassInv, RoutesInUse
  <2>7. RoutesMatchStore'
    BY <2>2, <2>4, Zenon DEF PassInv, RoutesMatchStore
  <2>8. NewCellsFit'
    BY <2>2, Zenon DEF PassInv, NewCellsFit, New
  <2>9. MergedSoFar'
    <3>1. \A i \in DOMAIN order : ~(i < 1)
      BY <2>3
    <3>2. QED
      BY <2>4, <3>1, Zenon DEF MergedSoFar
  <2>10. QED
    BY <2>5, <2>6, <2>7, <2>8, <2>9, Zenon DEF PassInv
<1>4. CASE CheckCell
  BY <1>4, CheckCellKeepsInv, Zenon
<1>5. CASE EndPass
  <2>1. pass' = Idle /\ UNCHANGED <<store, routing, used, now, moves, refused>>
    BY <1>5, Zenon DEF EndPass
  <2>2. pass'.active = FALSE /\ pass'.order = <<>> /\ pass'.next = 1 /\ pass'.timestamp = 0
    BY <2>1, Zenon DEF Idle
  <2>3. PassTypeOK'
    <3>1. now \in Nat
      BY Zenon DEF PassInv, PassTypeOK
    <3>2. pass' \in [active : BOOLEAN, order : Seq(Stored), next : Nat, timestamp : 0..now,
                     snapshot : CellStates \cup {Idle.snapshot}]
      BY <2>1, <3>1 DEF Idle
    <3>3. pass'.next \in 1..(Len(pass'.order) + 1)
      BY <2>2
    <3>4. QED
      BY <2>1, <2>2, <3>2, <3>3, Zenon DEF PassInv, PassTypeOK, CellStates, Idle
  <2>4. RoutesInUse' /\ RoutesMatchStore' /\ NewCellsFit' /\ MergedSoFar'
    BY <2>1, <2>2, Zenon DEF PassInv, RoutesInUse, RoutesMatchStore, NewCellsFit, New, MergedSoFar
  <2>5. QED
    BY <2>3, <2>4, Zenon DEF PassInv
<1>6. CASE UNCHANGED passVars
  BY <1>6, Zenon DEF passVars, PassInv, PassTypeOK, RoutesInUse, RoutesMatchStore,
                     NewCellsFit, New, MergedSoFar, Gone, Older, CellStates, Idle
<1>7. QED
  BY <1>1, <1>2, <1>3, <1>4, <1>5, <1>6, Zenon DEF PassNext

-----------------------------------------------------------------------------
(* The invariant of passes holds throughout. *)
LEMMA PassInvHolds ==
    ASSUME RebalancingAssumption
    PROVE  PassSpec => []PassInv
<1>1. PassInit => PassInv
  BY PassInitInv, Zenon
<1>2. PassInv /\ [PassNext]_passVars => PassInv'
  BY PassNextInv, Zenon
<1>3. QED
  BY <1>1, <1>2, PTL DEF PassSpec

(* A pass of check_and_rebalance leaves fitting cells: whatever the nodes, the
   cells, their sizes and cohorts, the order of the query and the moves during
   the pass, no cell it builds exceeds max_cell_size while the table refused no
   move, and every undersized cell it read beside one with capacity is merged
   away. *)
THEOREM PassLeavesFittingCellsHolds ==
    ASSUME RebalancingAssumption
    PROVE  PassSpec => []PassLeavesFittingCells
<1>1. PassInv => PassLeavesFittingCells
  <2>1. SUFFICES ASSUME PassInv PROVE UndersizedIsMerged
    BY Zenon DEF PassInv, PassLeavesFittingCells
  <2>2. SUFFICES ASSUME pass.active, pass.next > Len(pass.order),
                        NEW i \in DOMAIN pass.order, NEW j \in DOMAIN pass.order
                 PROVE  Gone(i, j)
    BY Zenon DEF UndersizedIsMerged, Gone
  <2>3. i < pass.next
    BY <2>1, <2>2 DEF PassInv, PassTypeOK
  <2>4. QED
    BY <2>1, <2>2, <2>3, Zenon DEF PassInv, MergedSoFar
<1>2. QED
  BY <1>1, PassInvHolds, PTL

(* No step of a pass over a cell with a cohort and at most twice max_cell_size
   members takes its zone from a node registered before the pass, while the
   table refused no move (merge_cells, split_cell). *)
THEOREM KeepsZonesHolds ==
    ASSUME RebalancingAssumption
    PROVE  PassSpec => [][KeepsZones]_passVars
<1>1. ASSUME PassInv, [PassNext]_passVars, pass.active, pass' # pass,
             pass.next <= Len(pass.order), ~refused,
             pass.snapshot[pass.order[pass.next]].cohort_id # Absent,
             Size(pass.snapshot, pass.order[pass.next]) <= 2 * max_cell_size
      PROVE  ZonesKept
  <2>1. CASE CheckCell
    BY <1>1, <2>1, CheckCellRebuilds, Zenon
  <2>2. CASE EndPass
    <3>1. pass.next \in Nat /\ Len(pass.order) \in Nat
      BY <1>1 DEF PassInv, PassTypeOK
    <3>2. QED
      BY <1>1, <2>2, <3>1 DEF EndPass
  <2>3. QED
    BY <1>1, <2>1, <2>2, Zenon DEF PassNext, Tick, MoveNode, StartPass, passVars
<1>2. PassInv /\ [PassNext]_passVars => [KeepsZones]_passVars
  BY <1>1, Zenon DEF KeepsZones, ZonesKept
<1>3. QED
  BY <1>2, PassInvHolds, PTL DEF PassSpec
=============================================================================
