--------------------------- MODULE FlowRoutingProofs ---------------------------
(***************************************************************************)
(* Proofs about FlowRouting: for any number of callers, any limits and any *)
(* updates of the table, permits follow the hierarchy and the rate of a    *)
(* level is kept.                                                          *)
(*                                                                         *)
(* The rate is a matter of accounting: what a level has in its buckets,    *)
(* what it has granted and what its callers hold between their message and *)
(* their byte tokens never exceeds a full bucket and the refill since the  *)
(* start.  The sum over the callers is a function on the sets of callers   *)
(* that the invariant claims to exist, so that no induction is needed.     *)
(***************************************************************************)
EXTENDS FlowRouting, TLAPS

Progress == {"check", "level", "try_msgs", "try_bytes", "wait_msgs", "wait_bytes",
             "granted", "rejected"}
Locked == {"try_msgs", "try_bytes", "wait_msgs", "wait_bytes"}

CallRecord == [pc : Progress, level : Level \cup {Absent}, from : Node,
               to : Node \cup Zone, priority : DOMAIN Multiplier, size : Nat]

TypeOK ==
    /\ table \in ProperTable
    /\ readers \subseteq Caller
    /\ writer \in Updates \cup {Absent}
    /\ call \in [Caller -> CallRecord \cup {Idle, [pc |-> "dropped"]}]
    /\ \A c \in Caller : call[c].pc \in Locked => call[c].level \in Level
    /\ tokens \in [Level -> [Resource -> Nat]]
    /\ sent \in [Level -> [Resource -> Nat]]
    /\ now \in Nat

(* The table's lock: who holds it, and what the check has shown by then. *)
LockOK ==
    /\ \A c \in readers : call[c].pc \in Locked
    /\ \A c \in Caller :
          call[c].pc = "level" /\ c \notin moved =>
              IsRouteValid(table, call[c].from, call[c].to)

(* The message tokens that a caller has taken and no permit is granted for. *)
HeldAt(l) == [c \in Caller |->
    IF call[c].pc \in {"try_bytes", "wait_bytes"} /\ call[c].level = l
    THEN Cost(c, "msgs") ELSE 0]

Tally(f, T) ==
    \A S \in SUBSET Caller : \A c \in Caller :
        c \notin S => T[S \cup {c}] = T[S] + f[c]

SumsTo(f, n) == \E T \in [SUBSET Caller -> Nat] : Tally(f, T) /\ T[Caller] = n

Allowed(l, r) == Capacity(l, r) + now * PerTick(l, r)

MessageBudget(l) ==
    \E n \in Nat :
        /\ SumsTo(HeldAt(l), n)
        /\ tokens[l]["msgs"] + sent[l]["msgs"] + n <= Allowed(l, "msgs")

ByteBudget(l) == tokens[l]["bytes"] + sent[l]["bytes"] <= Allowed(l, "bytes")

BudgetOK == now < MaxTime => \A l \in Level : MessageBudget(l) /\ ByteBudget(l)

FlowInv == TypeOK /\ LockOK /\ Entitled /\ BudgetOK

-----------------------------------------------------------------------------
(* Changing one summand changes the sum by the difference. *)
LEMMA SumMoves ==
    ASSUME NEW f \in [Caller -> Nat], NEW g \in [Caller -> Nat], NEW c \in Caller,
           \A d \in Caller \ {c} : g[d] = f[d], NEW n \in Nat, SumsTo(f, n)
    PROVE  f[c] <= n /\ SumsTo(g, n - f[c] + g[c])
<1>0. PICK T \in [SUBSET Caller -> Nat] : Tally(f, T) /\ T[Caller] = n
  BY Zenon DEF SumsTo
<1> DEFINE U == [S \in SUBSET Caller |-> IF c \in S THEN T[S \ {c}] + g[c] ELSE T[S]]
<1>1. U \in [SUBSET Caller -> Nat]
  OBVIOUS
<1>2. ASSUME NEW S \in SUBSET Caller, NEW d \in Caller, d \notin S
      PROVE  U[S \cup {d}] = U[S] + g[d]
  <2>1. S \cup {d} \in SUBSET Caller /\ S \ {c} \in SUBSET Caller
    OBVIOUS
  <2>2. CASE d = c
    <3>1. (S \cup {d}) \ {c} = S
      BY <1>2, <2>2, Zenon
    <3>2. QED
      BY <1>2, <2>1, <2>2, <3>1, Zenon
  <2>3. CASE d # c /\ c \in S
    <3>1. (S \cup {d}) \ {c} = (S \ {c}) \cup {d}
      BY <2>3, Zenon
    <3>2. T[(S \ {c}) \cup {d}] = T[S \ {c}] + f[d]
      BY <1>0, <1>2, <2>1, Zenon DEF Tally
    <3>3. g[d] = f[d] /\ T[S \ {c}] \in Nat
      BY <2>1, <2>3, Zenon
    <3>4. U[S \cup {d}] = T[S \ {c}] + f[d] + g[c] /\ U[S] = T[S \ {c}] + g[c]
      BY <2>1, <2>3, <3>1, <3>2, Zenon
    <3>5. QED
      BY <3>3, <3>4
  <2>4. CASE d # c /\ c \notin S
    <3>1. T[S \cup {d}] = T[S] + f[d] /\ g[d] = f[d]
      BY <1>0, <1>2, <2>4, Zenon DEF Tally
    <3>2. QED
      BY <2>1, <2>4, <3>1, Zenon
  <2>5. QED
    BY <2>2, <2>3, <2>4, Zenon
<1>3. f[c] <= n /\ U[Caller] = n - f[c] + g[c]
  <2>1. Caller \ {c} \in SUBSET Caller /\ Caller \in SUBSET Caller
        /\ (Caller \ {c}) \cup {c} = Caller
    OBVIOUS
  <2>2. n = T[Caller \ {c}] + f[c]
    BY <1>0, <2>1, Zenon DEF Tally
  <2>3. U[Caller] = T[Caller \ {c}] + g[c] /\ T[Caller \ {c}] \in Nat
    BY <2>1, Zenon
  <2> HIDE DEF U
  <2>4. QED
    BY <2>2, <2>3
<1> HIDE DEF U
<1>4. QED
  BY <1>1, <1>2, <1>3, Zenon DEF Tally, SumsTo

(* The minimum of two numbers. *)
LEMMA MinOfTwo ==
    ASSUME NEW a \in Nat, NEW b \in Nat
    PROVE  Min({a, b}) \in Nat /\ Min({a, b}) <= a /\ Min({a, b}) <= b
           /\ (Min({a, b}) = a \/ Min({a, b}) = b)
<1>1. \E x \in {a, b} : \A y \in {a, b} : x =< y
  BY DEF Min
<1>2. QED
  BY <1>1, Zenon DEF Min

(* A permit costs a number of tokens. *)
LEMMA Costs ==
    ASSUME FlowAssumption, NEW c \in Caller, call[c] \in CallRecord, NEW r \in Resource
    PROVE  Cost(c, r) \in Nat
<1>1. \A p \in DOMAIN Multiplier : Multiplier[p] \in Nat
  BY DEF Multiplier
<1>2. QED
  BY <1>1 DEF CallRecord, Cost

(* Buckets have a capacity and a refill per tick. *)
LEMMA Capacities ==
    ASSUME FlowAssumption, NEW l \in Level, NEW r \in Resource
    PROVE  Capacity(l, r) \in Nat /\ PerTick(l, r) \in Nat
<1>1. Capacity(l, r) \in Nat
  BY DEF FlowAssumption, Capacity
<1>2. \A a \in Nat, b \in Nat \ {0} : a \div b \in Nat
  OBVIOUS
<1>3. QED
  BY <1>1, <1>2, Zenon DEF FlowAssumption, PerTick

(* What a level may send by now is a number. *)
LEMMA AllowedTyped ==
    ASSUME FlowAssumption, now \in Nat, NEW l \in Level, NEW r \in Resource
    PROVE  Allowed(l, r) \in Nat
<1>1. Capacity(l, r) \in Nat /\ PerTick(l, r) \in Nat
  BY Capacities, Zenon
<1>2. \A a, b \in Nat : a * b \in Nat
  OBVIOUS
<1>3. QED
  BY <1>1, <1>2 DEF Allowed

(* The budget depends on the calls, the buckets, the permits and the time. *)
LEMMA BudgetUntouched ==
    ASSUME BudgetOK, UNCHANGED <<call, tokens, sent, now>>
    PROVE  BudgetOK'
<1>1. \A l \in Level : HeldAt(l)' = HeldAt(l)
  BY Zenon DEF HeldAt, Cost
<1>2. \A l \in Level, r \in Resource : Allowed(l, r)' = Allowed(l, r)
  BY Zenon DEF Allowed, Capacity, PerTick
<1>3. \A l \in Level : MessageBudget(l) => MessageBudget(l)'
  BY <1>1, <1>2, Zenon DEF MessageBudget, SumsTo, Tally, Resource
<1>4. \A l \in Level : ByteBudget(l) => ByteBudget(l)'
  BY <1>2, Zenon DEF ByteBudget, Resource
<1>5. QED
  BY <1>3, <1>4, Zenon DEF BudgetOK

(* Merging a proper table into a proper one gives a proper one. *)
LEMMA MergeProper ==
    ASSUME NEW t \in ProperTable, NEW u \in ProperTable
    PROVE  Merge(t, u) \in ProperTable
<1>1. Merge(t, u) \in Table
  BY Zenon DEF ProperTable, Merge, Table
<1>2. \A n \in Node : CellOf(n) \in Register
  BY Zenon DEF CellOf, Register
<1>3. \A c \in Cell : ZoneOf(c) \in Register
  BY Zenon DEF ZoneOf, Register
<1>4. \A g \in Register : Merge(t, u)[g] \in {t[g], u[g]}
  BY Zenon DEF Merge
<1>5. QED
  BY <1>1, <1>2, <1>3, <1>4, Zenon DEF ProperTable

(* Whatever HierarchicalRouter::valid_targets offers is_route_valid accepts. *)
LEMMA TargetsValid ==
    ASSUME FlowAssumption, table \in ProperTable
    PROVE  TargetsAreValid
<1> SUFFICES ASSUME NEW n \in Node, NEW to \in ValidTargets(table, n)
             PROVE  IsRouteValid(table, n, to)
  BY Zenon DEF TargetsAreValid
<1>1. table[CellOf(n)] # Absent /\ table[CellOf(n)].value \in Cell
  BY Zenon DEF ValidTargets, ProperTable
<1>2. CASE to \in GetCellNodes(table, table[CellOf(n)].value)
  BY <1>1, <1>2, Zenon DEF GetCellNodes, Holds, IsRouteValid, SameCell
<1>3. CASE /\ IsLeader(table, n) /\ NodeHasZone(table, n)
           /\ to = table[ZoneOf(table[CellOf(n)].value)].value
  <2>1. to \in Zone
    BY <1>1, <1>3, Zenon DEF NodeHasZone, ProperTable
  <2>2. QED
    BY <1>1, <1>3, <2>1, Zenon DEF FlowAssumption, IsRouteValid, IsUpwardRouteValid
<1>4. QED
  BY <1>1, <1>2, <1>3, Zenon DEF ValidTargets

-----------------------------------------------------------------------------
(* A call that holds or waits for tokens is a full record. *)
LEMMA InProgress ==
    ASSUME TypeOK, NEW c \in Caller, call[c].pc \in Progress
    PROVE  call[c] \in CallRecord
  BY DEF TypeOK, Idle, Progress

(* A step of a call changes its progress, and for the second read lock its level. *)
LEMMA Goes ==
    ASSUME TypeOK, NEW c \in Caller, call[c].pc \in Progress, NEW pc \in Progress,
           Goto(c, pc)
    PROVE  /\ call' \in [Caller -> CallRecord \cup {Idle, [pc |-> "dropped"]}]
           /\ call'[c] \in CallRecord /\ call'[c].pc = pc
           /\ call'[c].level = call[c].level /\ call'[c].from = call[c].from
           /\ call'[c].to = call[c].to /\ call'[c].priority = call[c].priority
           /\ call'[c].size = call[c].size
           /\ \A d \in Caller \ {c} : call'[d] = call[d]
<1>1. call[c] \in CallRecord
  BY InProgress, Zenon
<1>2. call \in [Caller -> CallRecord \cup {Idle, [pc |-> "dropped"]}]
  BY Zenon DEF TypeOK
<1>3. call' = [call EXCEPT ![c] = [call[c] EXCEPT !.pc = pc]]
  BY <1>2, Zenon DEF Goto
<1>4. [call[c] EXCEPT !.pc = pc] \in CallRecord
  BY <1>1, Zenon DEF CallRecord
<1>5. QED
  BY <1>1, <1>2, <1>3, <1>4, Zenon DEF CallRecord

(* acquire_permit sets the level of its call and changes no other. *)
LEMMA Levels ==
    ASSUME TypeOK, NEW c \in Caller, TakeLevel(c)
    PROVE  /\ call' \in [Caller -> CallRecord \cup {Idle, [pc |-> "dropped"]}]
           /\ call'[c] \in CallRecord /\ call'[c].pc = "try_msgs"
           /\ call'[c].level = IF SameCell(table, call[c].from, call[c].to)
                               THEN "Cell" ELSE "Zone"
           /\ call'[c].from = call[c].from /\ call'[c].to = call[c].to
           /\ \A d \in Caller \ {c} : call'[d] = call[d]
<1> DEFINE l == IF SameCell(table, call[c].from, call[c].to) THEN "Cell" ELSE "Zone"
<1>1. call[c] \in CallRecord
  BY InProgress, Zenon DEF TakeLevel, Progress
<1>2. call \in [Caller -> CallRecord \cup {Idle, [pc |-> "dropped"]}]
  BY Zenon DEF TypeOK
<1>3. l \in Level
  BY Zenon DEF Level
<1>4. call' = [call EXCEPT ![c] = [call[c] EXCEPT !.pc = "try_msgs", !.level = l]]
  BY <1>2, Zenon DEF TakeLevel
<1> HIDE DEF l
<1>5. [call[c] EXCEPT !.pc = "try_msgs", !.level = l] \in CallRecord
  BY <1>1, <1>3, Zenon DEF CallRecord, Progress
<1>6. QED
  BY <1>1, <1>2, <1>4, <1>5, Zenon DEF CallRecord, l

(* A new call starts at the routing check and changes no other. *)
LEMMA Starts ==
    ASSUME FlowAssumption, TypeOK, NEW c \in Caller, RouteMessage(c)
    PROVE  /\ call' \in [Caller -> CallRecord \cup {Idle, [pc |-> "dropped"]}]
           /\ call'[c].pc = "check" /\ call[c].pc = "idle"
           /\ \A d \in Caller \ {c} : call'[d] = call[d]
<1>1. call \in [Caller -> CallRecord \cup {Idle, [pc |-> "dropped"]}]
  BY Zenon DEF TypeOK
<1>2. PICK a \in Request : call' = [call EXCEPT ![c] =
                     [pc |-> "check", level |-> Absent, from |-> a.from, to |-> a.to,
                      priority |-> a.priority, size |-> a.size]]
  BY Zenon DEF RouteMessage
<1>3. [pc |-> "check", level |-> Absent, from |-> a.from, to |-> a.to,
       priority |-> a.priority, size |-> a.size] \in CallRecord
  BY Zenon DEF FlowAssumption, CallRecord, Progress
<1>4. QED
  BY <1>1, <1>2, <1>3 DEF RouteMessage, Idle

(* try_consume takes the cost from one bucket. *)
LEMMA Consumes ==
    ASSUME FlowAssumption, TypeOK, NEW c \in Caller, call[c].pc \in Locked,
           NEW r \in Resource, Enough(c, r), Consume(c, r)
    PROVE  /\ tokens' \in [Level -> [Resource -> Nat]]
           /\ tokens'[call[c].level][r] + Cost(c, r) = tokens[call[c].level][r]
           /\ \A l \in Level, q \in Resource :
                 <<l, q>> # <<call[c].level, r>> => tokens'[l][q] = tokens[l][q]
<1> DEFINE l == call[c].level
           k == Cost(c, r)
<1>1. l \in Level /\ k \in Nat /\ tokens \in [Level -> [Resource -> Nat]]
  BY InProgress, Costs, Zenon DEF TypeOK, Locked, Progress
<1>2. tokens[l][r] >= k /\ tokens' = [tokens EXCEPT ![l][r] = @ - k]
  BY Zenon DEF Enough, Consume
<1> HIDE DEF l, k
<1>3. /\ tokens' \in [Level -> [Resource -> Nat]]
      /\ tokens'[l][r] + k = tokens[l][r]
      /\ \A m \in Level, q \in Resource : <<m, q>> # <<l, r>> => tokens'[m][q] = tokens[m][q]
  BY <1>1, <1>2
<1>4. QED
  BY <1>3, Zenon DEF l, k

(* A granted permit is added to what its level has sent. *)
LEMMA Grants ==
    ASSUME FlowAssumption, TypeOK, NEW c \in Caller, call[c].pc \in Locked, Grant(c)
    PROVE  /\ sent' \in [Level -> [Resource -> Nat]]
           /\ \A r \in Resource :
                 sent'[call[c].level][r] = sent[call[c].level][r] + Cost(c, r)
           /\ \A l \in Level \ {call[c].level} : sent'[l] = sent[l]
<1> DEFINE l == call[c].level
           k == [r \in Resource |-> Cost(c, r)]
<1>1. l \in Level /\ k \in [Resource -> Nat] /\ sent \in [Level -> [Resource -> Nat]]
  BY InProgress, Costs, Zenon DEF TypeOK, Locked, Progress
<1>2. sent' = [sent EXCEPT ![l] = [r \in Resource |-> sent[l][r] + k[r]]]
  BY <1>1, Zenon DEF Grant
<1>3. \A r \in Resource : k[r] = Cost(c, r)
  OBVIOUS
<1> HIDE DEF l, k
<1>4. /\ sent' \in [Level -> [Resource -> Nat]]
      /\ \A r \in Resource : sent'[l][r] = sent[l][r] + k[r]
      /\ \A m \in Level \ {l} : sent'[m] = sent[m]
  BY <1>1, <1>2
<1>5. QED
  BY <1>3, <1>4, Zenon DEF l

(* A refill adds at most the rate of one tick. *)
LEMMA Refills ==
    ASSUME FlowAssumption, TypeOK, Tick
    PROVE  /\ tokens' \in [Level -> [Resource -> Nat]] /\ now' \in Nat
           /\ \A l \in Level, r \in Resource :
                 tokens'[l][r] <= tokens[l][r] + PerTick(l, r)
           /\ now' < MaxTime => now' = now + 1 /\ now < MaxTime
<1>1. \A l \in Level, r \in Resource :
         Refill(l, r) \in Nat /\ Refill(l, r) <= tokens[l][r] + PerTick(l, r)
  <2> SUFFICES ASSUME NEW l \in Level, NEW r \in Resource
               PROVE  Refill(l, r) \in Nat /\ Refill(l, r) <= tokens[l][r] + PerTick(l, r)
    OBVIOUS
  <2>1. Capacity(l, r) \in Nat /\ PerTick(l, r) \in Nat /\ tokens[l][r] \in Nat
    BY Capacities, Zenon DEF TypeOK
  <2>2. tokens[l][r] + PerTick(l, r) \in Nat
    BY <2>1
  <2>3. QED
    BY <2>1, <2>2, MinOfTwo, Zenon DEF Refill
<1>2. tokens' = [l \in Level |-> [r \in Resource |-> Refill(l, r)]]
  BY Zenon DEF Tick
<1>3. now' \in Nat /\ now' <= now + 1 /\ (now' = MaxTime \/ now' = now + 1)
  BY MinOfTwo DEF TypeOK, FlowAssumption, Tick
<1>4. now' < MaxTime => now' = now + 1 /\ now < MaxTime
  BY <1>3 DEF TypeOK, FlowAssumption
<1> HIDE DEF Refill
<1>5. QED
  BY <1>1, <1>2, <1>3, <1>4, Zenon

-----------------------------------------------------------------------------
(* Types *)

(* Every step keeps the types. *)
LEMMA TypesKept ==
    ASSUME FlowAssumption, TypeOK, Next
    PROVE  TypeOK'
<1>1. ASSUME NEW c \in Caller, RouteMessage(c) \/ DropMessage(c)
      PROVE  TypeOK'
  <2>1. /\ call' \in [Caller -> CallRecord \cup {Idle, [pc |-> "dropped"]}]
        /\ call'[c].pc \notin Locked
        /\ \A d \in Caller \ {c} : call'[d] = call[d]
    BY <1>1, Starts DEF DropMessage, TypeOK, Locked
  <2>2. UNCHANGED <<table, readers, writer, tokens, sent, now>>
    BY <1>1, Zenon DEF RouteMessage, DropMessage
  <2>3. QED
    BY <2>1, <2>2, Zenon DEF TypeOK
<1>2. ASSUME NEW c \in Caller, CheckRoute(c)
      PROVE  TypeOK'
  <2>1. \E pc \in {"level", "rejected"} : Goto(c, pc)
    BY <1>2, Zenon DEF CheckRoute
  <2>2. call[c].pc \in Progress /\ {"level", "rejected"} \subseteq Progress \ Locked
    BY <1>2, Zenon DEF CheckRoute, Progress, Locked
  <2>3. /\ call' \in [Caller -> CallRecord \cup {Idle, [pc |-> "dropped"]}]
        /\ call'[c].pc \notin Locked
        /\ \A d \in Caller \ {c} : call'[d] = call[d]
    BY <2>1, <2>2, Goes, Zenon
  <2>4. UNCHANGED <<table, readers, writer, tokens, sent, now>>
    BY <1>2, Zenon DEF CheckRoute
  <2>5. QED
    BY <2>3, <2>4, Zenon DEF TypeOK
<1>3. ASSUME NEW c \in Caller, TakeLevel(c)
      PROVE  TypeOK'
  <2>1. UNCHANGED <<table, writer, tokens, sent, now>> /\ readers' = readers \cup {c}
    BY <1>3, Zenon DEF TakeLevel
  <2>2. QED
    BY <1>3, <2>1, Levels, Zenon DEF TypeOK, Level
<1>4. ASSUME NEW c \in Caller,
             TryMessages(c) \/ TryBytes(c) \/ WaitMessages(c) \/ WaitBytes(c)
      PROVE  TypeOK'
  <2>1. call[c].pc \in Locked /\ call[c].pc \in Progress
    BY <1>4, Zenon DEF TryMessages, TryBytes, WaitMessages, WaitBytes, Locked, Progress
  <2>2. \E pc \in {"try_bytes", "wait_msgs", "wait_bytes", "granted"} : Goto(c, pc)
    BY <1>4, Zenon DEF TryMessages, TryBytes, WaitMessages, WaitBytes, Grant
  <2>3. {"try_bytes", "wait_msgs", "wait_bytes", "granted"} \subseteq Progress
    BY Zenon DEF Progress
  <2>4. /\ call' \in [Caller -> CallRecord \cup {Idle, [pc |-> "dropped"]}]
        /\ call'[c].level = call[c].level
        /\ \A d \in Caller \ {c} : call'[d] = call[d]
    BY <2>1, <2>2, <2>3, Goes, Zenon
  <2>5. tokens' \in [Level -> [Resource -> Nat]]
    <3>1. \/ UNCHANGED tokens
          \/ \E r \in Resource : Enough(c, r) /\ Consume(c, r)
      BY <1>4, Zenon DEF TryMessages, TryBytes, WaitMessages, WaitBytes, Resource
    <3>2. QED
      BY <2>1, <3>1, Consumes, Zenon DEF TypeOK
  <2>6. sent' \in [Level -> [Resource -> Nat]]
    <3>1. UNCHANGED sent \/ Grant(c)
      BY <1>4, Zenon DEF TryMessages, TryBytes, WaitMessages, WaitBytes
    <3>2. QED
      BY <2>1, <3>1, Grants, Zenon DEF TypeOK
  <2>7. UNCHANGED <<table, writer, now>> /\ readers' \subseteq readers
    BY <1>4, Zenon DEF TryMessages, TryBytes, WaitMessages, WaitBytes, Grant
  <2>8. QED
    BY <2>1, <2>4, <2>5, <2>6, <2>7, Zenon DEF TypeOK
<1>5. ASSUME Tick PROVE TypeOK'
  BY <1>5, Refills, Zenon DEF TypeOK, Tick
<1>6. ASSUME ReleaseBackpressure \/ UpdateRoutingTable PROVE TypeOK'
  BY <1>6, Zenon DEF TypeOK, ReleaseBackpressure, UpdateRoutingTable
<1>7. ASSUME MergeUpdate PROVE TypeOK'
  <2>1. writer \in ProperTable /\ table \in ProperTable
    BY <1>7, Zenon DEF MergeUpdate, TypeOK, FlowAssumption
  <2>2. table' \in ProperTable
    BY <1>7, <2>1, MergeProper, Zenon DEF MergeUpdate
  <2>3. QED
    BY <1>7, <2>2, Zenon DEF MergeUpdate, TypeOK
<1>8. QED
  BY <1>1, <1>2, <1>3, <1>4, <1>5, <1>6, <1>7, Zenon DEF Next, Route

-----------------------------------------------------------------------------
(* The read lock and what it protects *)

(* Every step keeps the buckets of a level with one caller, and permits entitled. *)
LEMMA LockKept ==
    ASSUME FlowAssumption, TypeOK, LockOK, Entitled, Next
    PROVE  LockOK' /\ Entitled'
<1>0. readers \subseteq Caller
  BY Zenon DEF TypeOK
<1>1. ASSUME NEW c \in Caller, RouteMessage(c) \/ DropMessage(c)
      PROVE  LockOK' /\ Entitled'
  <2>1. /\ call'[c].pc \in {"check", "dropped"} /\ call[c].pc = "idle"
        /\ \A d \in Caller \ {c} : call'[d] = call[d]
    BY <1>1, Starts DEF DropMessage, TypeOK, Idle
  <2>2. UNCHANGED <<table, readers, moved>>
    BY <1>1, Zenon DEF RouteMessage, DropMessage
  <2>3. c \notin readers
    BY <2>1, Zenon DEF LockOK, Locked
  <2>4. QED
    BY <1>0, <2>1, <2>2, <2>3, Zenon DEF LockOK, Entitled
<1>2. ASSUME NEW c \in Caller, CheckRoute(c)
      PROVE  LockOK' /\ Entitled'
  <2>1. \/ Goto(c, "level") /\ IsRouteValid(table, call[c].from, call[c].to)
        \/ Goto(c, "rejected")
    BY <1>2, Zenon DEF CheckRoute
  <2>2. call[c].pc = "check" /\ {"check", "level", "rejected"} \subseteq Progress
    BY <1>2, Zenon DEF CheckRoute, Progress
  <2>3. /\ call'[c].from = call[c].from /\ call'[c].to = call[c].to
        /\ call'[c].pc = "level" => IsRouteValid(table, call[c].from, call[c].to)
        /\ \A d \in Caller \ {c} : call'[d] = call[d]
    BY <2>1, <2>2, Goes, Zenon
  <2>4. UNCHANGED <<table, readers, moved>>
    BY <1>2, Zenon DEF CheckRoute
  <2>5. c \notin readers
    BY <2>2, Zenon DEF LockOK, Locked
  <2>6. QED
    BY <1>0, <2>3, <2>4, <2>5, Zenon DEF LockOK, Entitled
<1>3. ASSUME NEW c \in Caller, TakeLevel(c)
      PROVE  LockOK' /\ Entitled'
  <2>1. UNCHANGED <<table, moved>> /\ readers' = readers \cup {c} /\ call[c].pc = "level"
    BY <1>3, Zenon DEF TakeLevel
  <2>2. /\ call'[c].pc = "try_msgs"
        /\ call'[c].level = "Cell" <=> SameCell(table, call[c].from, call[c].to)
        /\ call'[c].from = call[c].from /\ call'[c].to = call[c].to
        /\ \A d \in Caller \ {c} : call'[d] = call[d]
    BY <1>3, Levels, Zenon
  <2>3. LockOK'
    BY <1>0, <2>1, <2>2, Zenon DEF LockOK, Locked
  <2>4. c \notin moved => IsRouteValid(table, call[c].from, call[c].to)
    BY <2>1, Zenon DEF LockOK
  <2>5. Entitled'
    BY <1>0, <2>1, <2>2, <2>4, Zenon DEF Entitled
  <2>6. QED
    BY <2>3, <2>5, Zenon
<1>4. ASSUME NEW c \in Caller,
             TryMessages(c) \/ TryBytes(c) \/ WaitMessages(c) \/ WaitBytes(c)
      PROVE  LockOK' /\ Entitled'
  <2>1. call[c].pc \in Progress
    BY <1>4, Zenon DEF TryMessages, TryBytes, WaitMessages, WaitBytes, Progress
  <2>2. \/ (\E pc \in {"try_bytes", "wait_msgs", "wait_bytes"} : Goto(c, pc))
              /\ UNCHANGED readers
        \/ Goto(c, "granted") /\ readers' = readers \ {c}
    BY <1>4, Zenon DEF TryMessages, TryBytes, WaitMessages, WaitBytes, Grant
  <2>3. /\ {"try_bytes", "wait_msgs", "wait_bytes", "granted"} \subseteq Progress
        /\ {"try_bytes", "wait_msgs", "wait_bytes"} \subseteq Locked
        /\ "level" \notin Locked
    BY Zenon DEF Progress, Locked
  <2>4. /\ call'[c].level = call[c].level /\ call'[c].from = call[c].from
        /\ call'[c].to = call[c].to /\ call'[c].pc # "level"
        /\ c \in readers' => call'[c].pc \in Locked
        /\ \A d \in Caller \ {c} : call'[d] = call[d]
    BY <2>1, <2>2, <2>3, Goes, Zenon
  <2>5. UNCHANGED <<table, moved>> /\ readers' \subseteq readers
    BY <1>4, Zenon DEF TryMessages, TryBytes, WaitMessages, WaitBytes, Grant
  <2>6. LockOK'
    BY <1>0, <2>4, <2>5, Zenon DEF LockOK
  <2>7. Entitled'
    BY <1>0, <2>4, <2>5, Zenon DEF Entitled
  <2>8. QED
    BY <2>6, <2>7, Zenon
<1>5. ASSUME Tick \/ ReleaseBackpressure \/ UpdateRoutingTable
      PROVE  LockOK' /\ Entitled'
  <2>1. UNCHANGED <<table, readers, call, moved>>
    BY <1>5, Zenon DEF Tick, ReleaseBackpressure, UpdateRoutingTable
  <2>2. QED
    BY <2>1, Zenon DEF LockOK, Entitled
<1>6. ASSUME MergeUpdate
      PROVE  LockOK' /\ Entitled'
  BY <1>6, Zenon DEF MergeUpdate, LockOK, Entitled
<1>7. QED
  BY <1>1, <1>2, <1>3, <1>4, <1>5, <1>6, Zenon DEF Next, Route

-----------------------------------------------------------------------------
(* The rate *)

(* What callers hold of a level are numbers. *)
LEMMA HeldTyped ==
    ASSUME FlowAssumption, TypeOK, NEW l \in Level
    PROVE  HeldAt(l) \in [Caller -> Nat]
<1>1. \A c \in Caller : call[c].pc \in {"try_bytes", "wait_bytes"} => Cost(c, "msgs") \in Nat
  BY InProgress, Costs, Zenon DEF Progress, Resource
<1>2. QED
  BY <1>1, Zenon DEF HeldAt

(* A level keeps its budget in a step of one caller in which what it loses from the
   bucket covers what it grants and what the caller holds. *)
LEMMA BudgetMoves ==
    ASSUME FlowAssumption, TypeOK, TypeOK', NEW l \in Level, NEW c \in Caller,
           UNCHANGED now, \A d \in Caller \ {c} : call'[d] = call[d],
           tokens'[l]["msgs"] + sent'[l]["msgs"] + HeldAt(l)'[c]
              <= tokens[l]["msgs"] + sent[l]["msgs"] + HeldAt(l)[c],
           MessageBudget(l)
    PROVE  MessageBudget(l)'
<1>1. PICK f \in [Caller -> Nat] : f = HeldAt(l)
  BY HeldTyped, Zenon
<1>2. PICK g \in [Caller -> Nat] : g = HeldAt(l)'
  <2>1. \A d \in Caller : call'[d].pc \in {"try_bytes", "wait_bytes"} =>
           Cost(d, "msgs")' \in Nat
    <3> SUFFICES ASSUME NEW d \in Caller, call'[d].pc \in {"try_bytes", "wait_bytes"}
                 PROVE  Cost(d, "msgs")' \in Nat
      OBVIOUS
    <3>1. call'[d] \in CallRecord
      BY DEF TypeOK, Idle
    <3>2. \A p \in DOMAIN Multiplier : Multiplier[p] \in Nat
      BY DEF Multiplier
    <3>3. QED
      BY <3>1, <3>2 DEF CallRecord, Cost
  <2>2. QED
    BY <2>1, Zenon DEF HeldAt
<1>3. \A d \in Caller \ {c} : g[d] = f[d]
  BY <1>1, <1>2, Zenon DEF HeldAt, Cost
<1>4. PICK n \in Nat :
         /\ SumsTo(f, n)
         /\ tokens[l]["msgs"] + sent[l]["msgs"] + n <= Allowed(l, "msgs")
  BY <1>1, Zenon DEF MessageBudget
<1>5. f[c] <= n /\ SumsTo(g, n - f[c] + g[c])
  BY <1>3, <1>4, SumMoves, Zenon
<1>6. /\ tokens[l]["msgs"] \in Nat /\ tokens'[l]["msgs"] \in Nat
      /\ sent[l]["msgs"] \in Nat /\ sent'[l]["msgs"] \in Nat
      /\ f[c] \in Nat /\ g[c] \in Nat
  BY Zenon DEF TypeOK, Resource
<1>7. Allowed(l, "msgs") \in Nat /\ Allowed(l, "msgs")' = Allowed(l, "msgs")
  BY AllowedTyped, Zenon DEF Allowed, TypeOK, Resource, Capacity, PerTick
<1>8. tokens'[l]["msgs"] + sent'[l]["msgs"] + g[c]
         <= tokens[l]["msgs"] + sent[l]["msgs"] + f[c]
  BY <1>1, <1>2, Zenon
<1>9. PICK m \in Nat : m = n - f[c] + g[c]
  BY <1>5, <1>6
<1>10. tokens'[l]["msgs"] + sent'[l]["msgs"] + m <= Allowed(l, "msgs")'
  BY <1>4, <1>6, <1>7, <1>8, <1>9
<1>11. SumsTo(HeldAt(l), m)'
  BY <1>2, <1>5, <1>9, Zenon DEF SumsTo, Tally
<1>12. QED
  BY <1>10, <1>11, Zenon DEF MessageBudget

(* Every step keeps what is sent, held and left within what was filled in. *)
LEMMA BudgetKept ==
    ASSUME FlowAssumption, TypeOK, TypeOK', BudgetOK, Next
    PROVE  BudgetOK'
<1> USE DEF Resource
<1>0. ASSUME NEW l \in Level
      PROVE  /\ tokens[l]["msgs"] \in Nat /\ tokens[l]["bytes"] \in Nat
             /\ sent[l]["msgs"] \in Nat /\ sent[l]["bytes"] \in Nat
             /\ Allowed(l, "msgs") \in Nat /\ Allowed(l, "bytes") \in Nat
             /\ \A c \in Caller : HeldAt(l)[c] \in Nat
  <2>1. HeldAt(l) \in [Caller -> Nat]
    BY HeldTyped, Zenon
  <2>2. Allowed(l, "msgs") \in Nat /\ Allowed(l, "bytes") \in Nat
    BY AllowedTyped, Zenon DEF TypeOK
  <2>3. QED
    BY <2>1, <2>2 DEF TypeOK
<1>1. ASSUME NEW c \in Caller,
             RouteMessage(c) \/ DropMessage(c) \/ CheckRoute(c) \/ TakeLevel(c)
      PROVE  BudgetOK'
  <2>1. UNCHANGED <<tokens, sent, now>>
    BY <1>1, Zenon DEF RouteMessage, DropMessage, CheckRoute, TakeLevel
  <2>2. /\ call'[c].pc \notin {"try_bytes", "wait_bytes"}
        /\ \A d \in Caller \ {c} : call'[d] = call[d]
    <3>1. CASE CheckRoute(c)
      <4>1. call[c].pc \in Progress /\ {"level", "rejected"} \subseteq Progress
        BY <3>1, Zenon DEF CheckRoute, Progress
      <4>2. \E pc \in {"level", "rejected"} : Goto(c, pc)
        BY <3>1, Zenon DEF CheckRoute
      <4>3. QED
        BY <4>1, <4>2, Goes, Zenon
    <3>2. QED
      BY <1>1, <3>1, Starts, Levels DEF DropMessage, TypeOK
  <2>3. \A l \in Level : HeldAt(l)'[c] = 0
    BY <2>2, Zenon DEF HeldAt
  <2>4. ASSUME NEW l \in Level, now < MaxTime
        PROVE  MessageBudget(l)' /\ ByteBudget(l)'
    <3>1. MessageBudget(l) /\ ByteBudget(l)
      BY <2>4, Zenon DEF BudgetOK
    <3>2. tokens'[l]["msgs"] + sent'[l]["msgs"] + HeldAt(l)'[c]
             <= tokens[l]["msgs"] + sent[l]["msgs"] + HeldAt(l)[c]
      BY <1>0, <2>1, <2>3
    <3>3. MessageBudget(l)'
      BY <2>1, <2>2, <3>1, <3>2, BudgetMoves, Zenon
    <3>4. ByteBudget(l)'
      BY <2>1, <3>1, Zenon DEF ByteBudget, Allowed, Capacity, PerTick
    <3>5. QED
      BY <3>3, <3>4, Zenon
  <2>5. QED
    BY <2>1, <2>4, Zenon DEF BudgetOK
<1>2. ASSUME NEW c \in Caller,
             TryMessages(c) \/ TryBytes(c) \/ WaitMessages(c) \/ WaitBytes(c)
      PROVE  BudgetOK'
  <2>1. /\ call[c].pc \in Locked /\ call[c].pc \in Progress /\ UNCHANGED now
        /\ {"try_bytes", "wait_msgs", "wait_bytes", "granted"} \subseteq Progress
    BY <1>2, Zenon DEF TryMessages, TryBytes, WaitMessages, WaitBytes, Locked, Progress
  <2>2. PICK L \in Level, km \in Nat, kb \in Nat :
           L = call[c].level /\ km = Cost(c, "msgs") /\ kb = Cost(c, "bytes")
    BY <2>1, InProgress, Costs, Zenon DEF TypeOK
  <2>3. ASSUME NEW pc \in Progress, Goto(c, pc)
        PROVE  /\ \A d \in Caller \ {c} : call'[d] = call[d]
               /\ \A l \in Level : HeldAt(l)'[c] =
                     IF pc \in {"try_bytes", "wait_bytes"} /\ l = L THEN km ELSE 0
    BY <2>1, <2>2, <2>3, Goes, Zenon DEF HeldAt, Cost
  <2>4. \A l \in Level : HeldAt(l)[c] =
           IF call[c].pc \in {"try_bytes", "wait_bytes"} /\ l = L THEN km ELSE 0
    BY <2>2, Zenon DEF HeldAt
  <2>5. /\ \A d \in Caller \ {c} : call'[d] = call[d]
        /\ \A l \in Level :
              /\ tokens'[l]["msgs"] + sent'[l]["msgs"] + HeldAt(l)'[c]
                    <= tokens[l]["msgs"] + sent[l]["msgs"] + HeldAt(l)[c]
              /\ tokens'[l]["bytes"] + sent'[l]["bytes"]
                    = tokens[l]["bytes"] + sent[l]["bytes"]
    <3>1. CASE /\ call[c].pc \in {"try_msgs", "wait_msgs"} /\ UNCHANGED sent
               /\ Enough(c, "msgs") /\ Consume(c, "msgs")
               /\ Goto(c, "try_bytes") \/ Goto(c, "wait_bytes")
      <4>1. /\ tokens'[L]["msgs"] + km = tokens[L]["msgs"]
            /\ tokens'[L]["bytes"] = tokens[L]["bytes"]
            /\ \A l \in Level \ {L} : /\ tokens'[l]["msgs"] = tokens[l]["msgs"]
                                      /\ tokens'[l]["bytes"] = tokens[l]["bytes"]
        BY <2>1, <2>2, <3>1, Consumes, Zenon
      <4>2. /\ \A d \in Caller \ {c} : call'[d] = call[d]
            /\ HeldAt(L)'[c] = km
            /\ \A l \in Level \ {L} : HeldAt(l)'[c] = 0
        <5>1. PICK pc \in Progress : Goto(c, pc) /\ pc \in {"try_bytes", "wait_bytes"}
          BY <2>1, <3>1, Zenon
        <5>2. QED
          BY <2>2, <2>3, <5>1, Zenon
      <4>3. \A l \in Level : HeldAt(l)[c] = 0
        BY <2>4, <3>1, Zenon
      <4>4. \A l \in Level : tokens'[l]["msgs"] \in Nat /\ tokens'[l]["bytes"] \in Nat
        BY Zenon DEF TypeOK
      <4>5. QED
        <5>1. UNCHANGED sent
          BY <3>1, Zenon
        <5>2. QED
          BY <1>0, <2>2, <4>1, <4>2, <4>3, <4>4, <5>1
    <3>2. CASE /\ call[c].pc \in {"try_bytes", "wait_bytes"} /\ Grant(c)
               /\ Enough(c, "bytes") /\ Consume(c, "bytes")
      <4>1. /\ tokens'[L]["bytes"] + kb = tokens[L]["bytes"]
            /\ tokens'[L]["msgs"] = tokens[L]["msgs"]
            /\ \A l \in Level \ {L} : /\ tokens'[l]["msgs"] = tokens[l]["msgs"]
                                      /\ tokens'[l]["bytes"] = tokens[l]["bytes"]
        BY <2>1, <2>2, <3>2, Consumes, Zenon
      <4>2. /\ sent'[L]["msgs"] = sent[L]["msgs"] + km
            /\ sent'[L]["bytes"] = sent[L]["bytes"] + kb
            /\ \A l \in Level \ {L} : sent'[l] = sent[l]
        BY <2>1, <2>2, <3>2, Grants, Zenon
      <4>3. /\ \A d \in Caller \ {c} : call'[d] = call[d]
            /\ \A l \in Level : HeldAt(l)'[c] = 0
        BY <2>1, <2>3, <3>2, Zenon DEF Grant
      <4>4. HeldAt(L)[c] = km /\ \A l \in Level \ {L} : HeldAt(l)[c] = 0
        BY <2>2, <2>4, <3>2, Zenon
      <4>5. \A l \in Level : tokens'[l]["msgs"] \in Nat /\ tokens'[l]["bytes"] \in Nat
        BY Zenon DEF TypeOK
      <4>6. QED
        BY <1>0, <2>2, <4>1, <4>2, <4>3, <4>4, <4>5
    <3>3. CASE UNCHANGED <<tokens, sent>> /\ Goto(c, "wait_msgs")
      <4>1. /\ \A d \in Caller \ {c} : call'[d] = call[d]
            /\ \A l \in Level : HeldAt(l)'[c] = 0
        BY <2>1, <2>3, <3>3, Zenon
      <4>2. QED
        BY <1>0, <3>3, <4>1
    <3>4. QED
      BY <1>2, <3>1, <3>2, <3>3, Zenon DEF TryMessages, TryBytes, WaitMessages, WaitBytes
  <2>6. ASSUME NEW l \in Level, now < MaxTime
        PROVE  MessageBudget(l)' /\ ByteBudget(l)'
    <3>1. MessageBudget(l) /\ ByteBudget(l)
      BY <2>6, Zenon DEF BudgetOK
    <3>2. MessageBudget(l)'
      BY <2>1, <2>5, <3>1, BudgetMoves, Zenon
    <3>3. ByteBudget(l)'
      BY <2>1, <2>5, <3>1, Zenon DEF ByteBudget, Allowed, Capacity, PerTick
    <3>4. QED
      BY <3>2, <3>3, Zenon
  <2>7. QED
    BY <2>1, <2>6, Zenon DEF BudgetOK
<1>3. ASSUME Tick
      PROVE  BudgetOK'
  <2> SUFFICES ASSUME now' < MaxTime, NEW l \in Level
               PROVE  MessageBudget(l)' /\ ByteBudget(l)'
    BY Zenon DEF BudgetOK
  <2>1. now' = now + 1 /\ now < MaxTime /\ now \in Nat /\ UNCHANGED <<sent, call>>
    BY <1>3, Refills, Zenon DEF Tick, TypeOK
  <2>2. ASSUME NEW r \in Resource
        PROVE  Allowed(l, r)' = Allowed(l, r) + PerTick(l, r)
    <3>1. Capacity(l, r) \in Nat /\ PerTick(l, r) \in Nat
      BY Capacities, Zenon
    <3>2. (now + 1) * PerTick(l, r) = now * PerTick(l, r) + PerTick(l, r)
          /\ now * PerTick(l, r) \in Nat
      BY <2>1, <3>1
    <3>3. Allowed(l, r)' = Capacity(l, r) + (now + 1) * PerTick(l, r)
      BY <2>1, Zenon DEF Allowed, Capacity, PerTick
    <3>4. QED
      BY <3>1, <3>2, <3>3 DEF Allowed
  <2>3. /\ tokens'[l]["msgs"] <= tokens[l]["msgs"] + PerTick(l, "msgs")
        /\ tokens'[l]["bytes"] <= tokens[l]["bytes"] + PerTick(l, "bytes")
        /\ tokens'[l]["msgs"] \in Nat /\ tokens'[l]["bytes"] \in Nat
        /\ PerTick(l, "msgs") \in Nat /\ PerTick(l, "bytes") \in Nat
    BY <1>3, Refills, Capacities, Zenon
  <2>4. MessageBudget(l) /\ ByteBudget(l)
    BY <2>1, Zenon DEF BudgetOK
  <2>5. PICK n \in Nat :
           /\ SumsTo(HeldAt(l), n)
           /\ tokens[l]["msgs"] + sent[l]["msgs"] + n <= Allowed(l, "msgs")
    BY <2>4, Zenon DEF MessageBudget
  <2>6. HeldAt(l)' = HeldAt(l)
    BY <2>1, Zenon DEF HeldAt, Cost
  <2>7. tokens'[l]["msgs"] + sent'[l]["msgs"] + n <= Allowed(l, "msgs")'
    BY <1>0, <2>1, <2>2, <2>3, <2>5
  <2>8. SumsTo(HeldAt(l), n)'
    BY <2>5, <2>6, Zenon DEF SumsTo, Tally
  <2>9. MessageBudget(l)'
    BY <2>7, <2>8, Zenon DEF MessageBudget
  <2>10. ByteBudget(l)'
    BY <1>0, <2>1, <2>2, <2>3, <2>4 DEF ByteBudget
  <2>11. QED
    BY <2>9, <2>10, Zenon
<1>4. ASSUME ReleaseBackpressure \/ UpdateRoutingTable \/ MergeUpdate
      PROVE  BudgetOK'
  <2>1. UNCHANGED <<call, tokens, sent, now>>
    BY <1>4, Zenon DEF ReleaseBackpressure, UpdateRoutingTable, MergeUpdate
  <2>2. QED
    BY <2>1, BudgetUntouched, Zenon
<1>5. QED
  BY <1>1, <1>2, <1>3, <1>4, Zenon DEF Next, Route

-----------------------------------------------------------------------------
(* Full buckets and idle callers satisfy the invariant. *)
LEMMA FlowInvInitially == ASSUME FlowAssumption, Init PROVE FlowInv
<1> USE DEF Init
<1>1. TypeOK
  BY Capacities, Zenon DEF TypeOK, FlowAssumption, Idle, Locked
<1>2. LockOK /\ Entitled
  BY Zenon DEF LockOK, Entitled, Idle
<1>3. ASSUME NEW l \in Level PROVE MessageBudget(l) /\ ByteBudget(l)
  <2>1. /\ Capacity(l, "msgs") \in Nat /\ PerTick(l, "msgs") \in Nat
        /\ Capacity(l, "bytes") \in Nat /\ PerTick(l, "bytes") \in Nat
    BY Capacities, Zenon DEF Resource
  <2>2. /\ tokens[l]["msgs"] = Capacity(l, "msgs") /\ sent[l]["msgs"] = 0
        /\ tokens[l]["bytes"] = Capacity(l, "bytes") /\ sent[l]["bytes"] = 0
    BY Zenon DEF Resource
  <2>3. Allowed(l, "msgs") = Capacity(l, "msgs") /\ Allowed(l, "bytes") = Capacity(l, "bytes")
    BY <2>1 DEF Allowed
  <2> DEFINE T == [S \in SUBSET Caller |-> 0]
  <2>4. T \in [SUBSET Caller -> Nat] /\ T[Caller] = 0 /\ Tally(HeldAt(l), T)
    <3>1. \A c \in Caller : HeldAt(l)[c] = 0
      BY Zenon DEF HeldAt, Idle
    <3>2. QED
      BY <3>1 DEF Tally
  <2> HIDE DEF T
  <2>5. MessageBudget(l)
    <3>1. SumsTo(HeldAt(l), 0)
      BY <2>4, Zenon DEF SumsTo
    <3>2. tokens[l]["msgs"] + sent[l]["msgs"] + 0 <= Allowed(l, "msgs")
      BY <2>1, <2>2, <2>3
    <3>3. QED
      BY <3>1, <3>2, Zenon DEF MessageBudget
  <2>6. QED
    BY <2>1, <2>2, <2>3, <2>5 DEF ByteBudget
<1>4. QED
  BY <1>1, <1>2, <1>3, Zenon DEF FlowInv, BudgetOK

(* Every step keeps the invariant of the flow. *)
LEMMA FlowInvKept ==
    ASSUME FlowAssumption, FlowInv, [Next]_flowVars
    PROVE  FlowInv'
<1>1. CASE Next
  BY <1>1, TypesKept, LockKept, BudgetKept, Zenon DEF FlowInv
<1>2. CASE UNCHANGED flowVars
  <2>1. TypeOK' /\ LockOK' /\ Entitled'
    BY <1>2, Zenon DEF flowVars, FlowInv, TypeOK, LockOK, Entitled
  <2>2. BudgetOK'
    BY <1>2, BudgetUntouched, Zenon DEF flowVars, FlowInv
  <2>3. QED
    BY <2>1, <2>2, Zenon DEF FlowInv
<1>3. QED
  BY <1>1, <1>2, Zenon

(* The invariant implies what the run checks. *)
LEMMA FlowInvSuffices == ASSUME FlowAssumption, FlowInv PROVE PermitFollowsHierarchy
<1>1. TargetsAreValid
  BY TargetsValid, Zenon DEF FlowInv, TypeOK
<1>2. ASSUME now < MaxTime, NEW l \in Level, NEW r \in Resource
      PROVE  sent[l][r] <= Capacity(l, r) + now * PerTick(l, r)
  <2>1. tokens[l][r] \in Nat /\ sent[l][r] \in Nat /\ Allowed(l, r) \in Nat
    BY AllowedTyped, Zenon DEF FlowInv, TypeOK
  <2>2. tokens[l][r] + sent[l][r] <= Allowed(l, r)
    <3>1. MessageBudget(l) /\ ByteBudget(l)
      BY <1>2, Zenon DEF FlowInv, BudgetOK
    <3>2. CASE r = "bytes"
      BY <3>1, <3>2, Zenon DEF ByteBudget
    <3>3. CASE r = "msgs"
      <4>1. PICK t \in Nat : tokens[l][r] + sent[l][r] + t <= Allowed(l, r)
        BY <3>1, <3>3, Zenon DEF MessageBudget
      <4>2. QED
        BY <2>1, <4>1
    <3>4. QED
      BY <3>2, <3>3, Zenon DEF Resource
  <2>3. sent[l][r] <= Allowed(l, r)
    BY <2>1, <2>2
  <2>4. QED
    BY <2>3, Zenon DEF Allowed
<1>3. RateLimited
  BY <1>2, Zenon DEF RateLimited
<1>4. QED
  BY <1>1, <1>3, Zenon DEF FlowInv, PermitFollowsHierarchy

(***************************************************************************)
(* HierarchicalRouter::route_message and its FlowController: however the   *)
(* callers, the refills and the updates of the shared table interleave,    *)
(* whoever waits for a permit is entitled to it in the table as it is,     *)
(* valid_targets offers only routes that route_message accepts, and the    *)
(* permits of a level cost at most a full bucket and the refill so far.    *)
(***************************************************************************)
THEOREM PermitFollowsHierarchyHolds ==
    ASSUME FlowAssumption
    PROVE  Spec => []PermitFollowsHierarchy
<1>1. Init => FlowInv
  BY FlowInvInitially, Zenon
<1>2. FlowInv /\ [Next]_flowVars => FlowInv'
  BY FlowInvKept, Zenon
<1>3. FlowInv => PermitFollowsHierarchy
  BY FlowInvSuffices, Zenon
<1>4. QED
  BY <1>1, <1>2, <1>3, PTL DEF Spec
=============================================================================
