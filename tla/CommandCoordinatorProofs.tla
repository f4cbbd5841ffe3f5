---------------------- MODULE CommandCoordinatorProofs ----------------------
(***************************************************************************)
(* The commands of a cell for any members, commands and number of calls at *)
(* once (command/coordinator.rs): whatever the interleaving of calls,      *)
(* documents and restarts, a command that any node sees is tracked by the  *)
(* leader, acknowledged only by nodes that executed it, and executed once  *)
(* per run of a node.                                                      *)
(***************************************************************************)
EXTENDS CommandCoordinator, TLAPS

Registered(c) == \A t \in TargetIds(c) : c \in Range(target_commands[t])

Awaited(c) ==
    c.acknowledge /\ GetRoutingTargets(Leader, c) # {} => c \in DOMAIN ack_timeouts

(* What is known of a call of node n between two of its steps: what the steps
   behind it have done. *)
IssueCallOK(n, k) ==
    LET c == calls[n][k].command
        step == calls[n][k].step
        behind(steps) == step \in steps \/ (step = "route" /\ c \in Own)
    IN calls[n][k] # None =>
        /\ step \in IssueSteps => n = Leader /\ c \in Own
        /\ step = "route" => n = Leader
        /\ behind({"activate", "status", "timeout"}) => Registered(c)
        /\ behind({"status", "timeout"}) => c \in active_commands
        /\ behind({"timeout"}) => command_status[Leader][c] # None
        /\ behind({}) => Awaited(c)

ReceiveCallOK(n, k) ==
    LET c == calls[n][k].command
        step == calls[n][k].step
    IN calls[n][k] # None =>
        /\ step \in ReceiveSteps =>
              /\ ResolveTarget(n, c) = Self
              /\ n = Leader => c \in Above
              /\ n # Leader => n \in TargetIds(c) /\ c \in docs[n]
        /\ step \in ReceiveSteps \ {"execute"} => executions[n][c] >= 1
        /\ step \in {"publish_ack", "cache_ack", "record_ack"} => c.acknowledge

CallsOK == \A n \in Node, k \in Slots : IssueCallOK(n, k) /\ ReceiveCallOK(n, k)

(* The leader waits for exactly the nodes a command goes to. *)
EntriesOK ==
    \A c \in DOMAIN ack_timeouts :
        /\ ack_timeouts[c].expected = GetRoutingTargets(Leader, c)
        /\ GetRoutingTargets(Leader, c) # {}

(* A document is there because the leader published it, and it tracks its own. *)
DocsOK ==
    \A n \in Node : \A c \in docs[n] :
        /\ ShouldRoute(ResolveTarget(Leader, c))
        /\ c \in Own => /\ Registered(c) /\ c \in active_commands
                        /\ command_status[Leader][c] # None
                        /\ Awaited(c)

AcksOK ==
    \A c \in Command, n \in Node : <<c, n>> \in ack_docs =>
        /\ executions[n][c] >= 1
        /\ ResolveTarget(n, c) = Self
        /\ n = Leader => c \in Above
        /\ n # Leader => n \in TargetIds(c) /\ c \in docs[n]
        /\ c.acknowledge

ToExecute(n, k, c) == At(n, k, "execute") /\ calls[n][k].command = c

(* Until a member's observer has passed a command on, and while the call it
   made has not begun to execute it, every execution is of an earlier run. *)
Once(n, c) ==
    /\ executions[n][c] <= 1 + restarts[n]
    /\ c \notin seen_commands[n] => executions[n][c] <= restarts[n]
    /\ \A k \in Slots : ToExecute(n, k, c) =>
          /\ c \in seen_commands[n]
          /\ executions[n][c] <= restarts[n]
          /\ \A j \in Slots : ToExecute(n, j, c) => j = k

OnceOK == \A n \in Node \ {Leader}, c \in Command : Once(n, c)

CountsOK == restarts \in [Node -> Nat]

CommandInv ==
    TypeOK /\ CountsOK /\ CallsOK /\ EntriesOK /\ DocsOK /\ AcksOK /\ OnceOK

-----------------------------------------------------------------------------
(* Only the leader has anyone to route to, and it never both routes a command
   and executes it. *)
LEMMA Targets ==
    ASSUME NEW n \in Node, NEW c \in Command
    PROVE  /\ ShouldRoute(ResolveTarget(n, c)) =>
                 n = Leader /\ GetRoutingTargets(Leader, c) # {}
           /\ ResolveTarget(n, c).kind = "Self" => ResolveTarget(n, c) = Self
           /\ ResolveTarget(n, c) = Self =>
                 /\ ~ShouldRoute(ResolveTarget(n, c))
                 /\ GetRoutingTargets(n, c) = {}
           /\ ShouldRoute(ResolveTarget(Leader, c)) /\ n # Leader /\ n \in TargetIds(c)
                 => n \in GetRoutingTargets(Leader, c)
           /\ GetRoutingTargets(n, c) \subseteq Node
  BY Zenon DEF ResolveTarget, ShouldRoute, GetRoutingTargets, Resolution, Self,
         NotApplicable, WholeCell, CellMembers, Individuals

(* The call in slot k of n becomes v and every other call stays. *)
Replaced(n, k, v) ==
    /\ calls' \in [Node -> [Slots -> Call \cup {None}]]
    /\ calls'[n][k] = v
    /\ \A m \in Node, j \in Slots : m # n \/ j # k => calls'[m][j] = calls[m][j]

Steps == IssueSteps \cup ReceiveSteps \cup {"route"}

(* A step that assigns one slot of calls replaces that call. *)
LEMMA OneCallChanges ==
    ASSUME TypeOK, NEW n \in Node, NEW k \in Slots, NEW v \in Call \cup {None},
           calls' = [calls EXCEPT ![n][k] = v]
    PROVE  Replaced(n, k, v)
<1> DEFINE C == Call \cup {None}
<1>1. calls \in [Node -> [Slots -> C]] /\ v \in C
  BY Zenon DEF TypeOK
<1> HIDE DEF C
<1>2. [calls[n] EXCEPT ![k] = v] \in [Slots -> C]
  BY <1>1, Zenon
<1>3. calls' = [calls EXCEPT ![n] = [calls[n] EXCEPT ![k] = v]]
  OBVIOUS
<1>4. calls' \in [Node -> [Slots -> C]]
  BY <1>1, <1>2, <1>3, Zenon
<1>5. QED
  BY <1>1, <1>3, <1>4 DEF Replaced, C

(* A call ends, moves on to another step, or starts in a free slot. *)
LEMMA CallEnds ==
    ASSUME TypeOK, NEW n \in Node, NEW k \in Slots, End(n, k)
    PROVE  Replaced(n, k, None)
  BY OneCallChanges, Zenon DEF End

(* Moving on replaces a call by itself at the next step. *)
LEMMA CallMoves ==
    ASSUME TypeOK, NEW n \in Node, NEW k \in Slots, NEW s \in Steps,
           calls[n][k] # None, Goto(n, k, s)
    PROVE  Replaced(n, k, [step |-> s, command |-> calls[n][k].command])
<1>1. calls[n][k] \in Call
  BY DEF TypeOK
<1>2. /\ [calls[n][k] EXCEPT !.step = s] = [step |-> s, command |-> calls[n][k].command]
      /\ [step |-> s, command |-> calls[n][k].command] \in Call
  BY <1>1 DEF Call, Steps
<1>3. calls' = [calls EXCEPT ![n][k] = [calls[n][k] EXCEPT !.step = s]]
  BY Zenon DEF Goto
<1>4. QED
  BY <1>2, <1>3, OneCallChanges, Zenon

(* Starting a call fills a free slot. *)
LEMMA CallStarts ==
    ASSUME TypeOK, NEW n \in Node, NEW c \in Command, NEW s \in Steps, Start(n, s, c)
    PROVE  \E k \in Slots : Replaced(n, k, [step |-> s, command |-> c])
<1>1. PICK k \in Slots : calls' = [calls EXCEPT ![n][k] = [step |-> s, command |-> c]]
  BY Zenon DEF Start
<1>2. [step |-> s, command |-> c] \in Call
  BY Zenon DEF Call, Steps
<1>3. QED
  BY <1>1, <1>2, OneCallChanges, Zenon

(* What a call in progress carries. *)
LEMMA CallCarries ==
    ASSUME TypeOK, NEW n \in Node, NEW k \in Slots, calls[n][k] # None
    PROVE  calls[n][k].command \in Command /\ calls[n][k].step \in Steps
  BY DEF TypeOK, Call, Steps

(* receive_command starts a call that executes the command or routes it, or
   does nothing. *)
LEMMA Receives ==
    ASSUME TypeOK, NEW n \in Node, NEW c \in Command, ReceiveCommand(n, c)
    PROVE  \/ /\ ResolveTarget(n, c) = Self
              /\ \E k \in Slots : Replaced(n, k, [step |-> "execute", command |-> c])
           \/ /\ ShouldRoute(ResolveTarget(n, c)) /\ n = Leader
              /\ \E k \in Slots : Replaced(n, k, [step |-> "route", command |-> c])
           \/ UNCHANGED calls
<1>1. CASE ResolveTarget(n, c).kind = "Self" /\ Start(n, "execute", c)
  <2>1. "execute" \in Steps
    BY Zenon DEF Steps, ReceiveSteps
  <2>2. QED
    BY <1>1, <2>1, Targets, CallStarts, Zenon
<1>2. CASE ShouldRoute(ResolveTarget(n, c)) /\ Start(n, "route", c)
  <2>1. "route" \in Steps
    BY Zenon DEF Steps
  <2>2. QED
    BY <1>2, <2>1, Targets, CallStarts, Zenon
<1>3. QED
  BY <1>1, <1>2, Zenon DEF ReceiveCommand

(* A replaced call leaves the calls well typed. *)
LEMMA CallsTyped ==
    ASSUME TypeOK
    PROVE  /\ \A n \in Node, k \in Slots : \A v : Replaced(n, k, v) =>
                 calls' \in [Node -> [Slots -> Call \cup {None}]]
           /\ UNCHANGED calls => calls' \in [Node -> [Slots -> Call \cup {None}]]
  BY Zenon DEF Replaced, TypeOK

-----------------------------------------------------------------------------
(* A step of a call of the issuing kind is one of the leader on its command. *)
LEMMA IssuesOwn ==
    ASSUME TypeOK, CallsOK, NEW n \in Node, NEW k \in Slots, NEW s \in IssueSteps,
           At(n, k, s)
    PROVE  n = Leader /\ calls[n][k].command \in Own
  BY Zenon DEF CallsOK, IssueCallOK, At

(* A status that is set, or a member's statuses that are all reset. *)
LEMMA StatusTyped ==
    ASSUME TypeOK, NEW n \in Node, NEW c \in Command,
           NEW v \in {None, "Pending", "Executing", "Completed"}
    PROVE  /\ [command_status EXCEPT ![n][c] = v] \in
                 [Node -> [Command -> {None, "Pending", "Executing", "Completed"}]]
           /\ [command_status EXCEPT ![n] = [d \in Command |-> None]] \in
                 [Node -> [Command -> {None, "Pending", "Executing", "Completed"}]]
           /\ \A m \in Node, d \in Command :
                 [command_status EXCEPT ![n][c] = v][m][d]
                   = IF m = n /\ d = c THEN v ELSE command_status[m][d]
<1> DEFINE V == {None, "Pending", "Executing", "Completed"}
<1>1. command_status \in [Node -> [Command -> V]] /\ v \in V /\ None \in V
  BY Zenon DEF TypeOK
<1> HIDE DEF V
<1>2. [command_status[n] EXCEPT ![c] = v] \in [Command -> V]
  BY <1>1, Zenon
<1>3. [command_status EXCEPT ![n][c] = v]
        = [command_status EXCEPT ![n] = [command_status[n] EXCEPT ![c] = v]]
  OBVIOUS
<1>4. [command_status EXCEPT ![n][c] = v] \in [Node -> [Command -> V]]
  BY <1>1, <1>2, <1>3, Zenon
<1>5. [command_status EXCEPT ![n] = [d \in Command |-> None]] \in [Node -> [Command -> V]]
  BY <1>1, Zenon
<1>6. QED
  BY <1>1, <1>3, <1>4, <1>5, Zenon DEF V

(* The count of executions goes up by one at one place. *)
LEMMA CountTyped ==
    ASSUME TypeOK, NEW n \in Node, NEW c \in Command
    PROVE  /\ [executions EXCEPT ![n][c] = @ + 1] \in [Node -> [Command -> Nat]]
           /\ \A m \in Node, d \in Command :
                 [executions EXCEPT ![n][c] = @ + 1][m][d]
                   = IF m = n /\ d = c THEN executions[m][d] + 1 ELSE executions[m][d]
<1>1. executions \in [Node -> [Command -> Nat]] /\ executions[n][c] + 1 \in Nat
  BY DEF TypeOK
<1>2. [executions[n] EXCEPT ![c] = @ + 1] \in [Command -> Nat]
  BY <1>1, Zenon
<1>3. [executions EXCEPT ![n][c] = @ + 1]
        = [executions EXCEPT ![n] = [executions[n] EXCEPT ![c] = @ + 1]]
  OBVIOUS
<1>4. QED
  BY <1>1, <1>2, <1>3, Zenon

(* Registering a command appends it to the lists of its targets. *)
LEMMA IndexTyped ==
    ASSUME TypeOK, NEW c \in Own
    PROVE  /\ RegisterCommand(target_commands, c) \in [Target -> Seq(Own)]
           /\ \A t \in Target : \A d :
                 d \in Range(target_commands[t]) =>
                   d \in Range(RegisterCommand(target_commands, c)[t])
           /\ \A t \in TargetIds(c) :
                 c \in Range(RegisterCommand(target_commands, c)[t])
<1> DEFINE new == RegisterCommand(target_commands, c)
<1>1. /\ target_commands \in [Target -> Seq(Own)]
      /\ TargetIds(c) \subseteq Target
  BY CommandAssumption, Zenon DEF TypeOK, Command
<1>2. new = [t \in Target |-> IF t \in TargetIds(c) THEN Append(target_commands[t], c)
                                                    ELSE target_commands[t]]
  BY <1>1, Zenon DEF RegisterCommand
<1>3. \A q \in Seq(Own) : /\ Append(q, c) \in Seq(Own)
                          /\ c \in Range(Append(q, c))
                          /\ \A d : d \in Range(q) => d \in Range(Append(q, c))
  <2> SUFFICES ASSUME NEW q \in Seq(Own)
               PROVE  /\ Append(q, c) \in Seq(Own)
                      /\ c \in Range(Append(q, c))
                      /\ \A d : d \in Range(q) => d \in Range(Append(q, c))
    OBVIOUS
  <2>1. /\ Append(q, c) \in Seq(Own) /\ DOMAIN Append(q, c) = 1..(Len(q) + 1)
        /\ DOMAIN q = 1..Len(q) /\ Len(q) \in Nat
        /\ Append(q, c)[Len(q) + 1] = c
        /\ \A i \in 1..Len(q) : Append(q, c)[i] = q[i]
    OBVIOUS
  <2>2. \A i \in DOMAIN q : i \in DOMAIN Append(q, c) /\ Append(q, c)[i] = q[i]
    BY <2>1
  <2>3. Len(q) + 1 \in DOMAIN Append(q, c)
    BY <2>1
  <2>4. QED
    BY <2>1, <2>2, <2>3, Zenon DEF Range
<1>4. new \in [Target -> Seq(Own)]
  BY <1>1, <1>2, <1>3, Zenon
<1>5. \A t \in Target : target_commands[t] \in Seq(Own)
  BY <1>1, Zenon
<1>6. \A t \in Target : new[t] = IF t \in TargetIds(c) THEN Append(target_commands[t], c)
                                                    ELSE target_commands[t]
  BY <1>2, Zenon
<1> HIDE DEF new
<1>7. QED
  BY <1>1, <1>3, <1>4, <1>5, <1>6, Zenon DEF new

(* Types are kept by every step. *)
LEMMA TypesKept ==
    ASSUME TypeOK, CountsOK, CallsOK, Next
    PROVE  TypeOK' /\ CountsOK'
<1> USE DEF leader_vars, storage, bounds, history, CountsOK
<1>1. ASSUME NEW c \in Own, Issue(c)
      PROVE  TypeOK' /\ CountsOK'
  <2>1. calls' \in [Node -> [Slots -> Call \cup {None}]]
    <3>1. CASE Start(Leader, "expire", c)
      <4>1. "expire" \in Steps /\ c \in Command /\ Leader \in Node
        BY CommandAssumption, Zenon DEF Steps, IssueSteps, Command
      <4>2. QED
        BY <3>1, <4>1, CallStarts, CallsTyped, Zenon
    <3>2. QED
      BY <1>1, <3>1, CallsTyped, Zenon DEF Issue
  <2>2. overlapped' \subseteq SUBSET Own
    <3>1. Unregistered \subseteq Own
      <4>1. "expire" \in IssueSteps /\ "register" \in IssueSteps /\ Leader \in Node
        BY CommandAssumption, Zenon DEF IssueSteps
      <4>2. QED
        BY <4>1, IssuesOwn, Zenon DEF Unregistered
    <3>2. {{c, d} : d \in Unregistered} \subseteq SUBSET Own
      BY <3>1, Zenon
    <3>3. overlapped' = overlapped
          \/ overlapped' = overlapped \cup {{c, d} : d \in Unregistered}
      BY <1>1, Zenon DEF Issue
    <3>4. overlapped \subseteq SUBSET Own
      BY Zenon DEF TypeOK
    <3>5. QED
      BY <3>2, <3>3, <3>4, Zenon
  <2>3. QED
    BY <1>1, <2>1, <2>2, Zenon DEF Issue, TypeOK
<1>2. ASSUME NEW c \in Above, ReceiveFromAbove(c)
      PROVE  TypeOK' /\ CountsOK'
  <2>1. c \in Command /\ Leader \in Node
    BY CommandAssumption, Zenon DEF Command
  <2>2. calls' \in [Node -> [Slots -> Call \cup {None}]]
    BY <1>2, <2>1, Receives, CallsTyped, Zenon DEF ReceiveFromAbove
  <2>3. QED
    BY <1>2, <2>2, Zenon DEF ReceiveFromAbove, TypeOK
<1>3. ASSUME NEW n \in Node, NEW k \in Slots, CallStep(n, k)
      PROVE  TypeOK' /\ CountsOK'
  <2> DEFINE c == calls[n][k].command
  <2>0. calls[n][k] # None /\ c \in Command
    <3>1. calls[n][k] # None
      BY <1>3, Zenon DEF CallStep, RegisterExpiration, Register, Activate, CreateStatus,
                  RegisterAckTimeout, RouteCommand, BeginExecution, CompleteExecution,
                  PublishAck, CacheAck, RecordAck, At
    <3>2. QED
      BY <3>1, CallCarries, Zenon
  <2>a. \A s \in Steps : Goto(n, k, s) => calls' \in [Node -> [Slots -> Call \cup {None}]]
    BY <2>0, CallMoves, CallsTyped, Zenon
  <2>b. End(n, k) => calls' \in [Node -> [Slots -> Call \cup {None}]]
    BY CallEnds, CallsTyped, Zenon
  <2>c. IssueSteps \cup ReceiveSteps \cup {"route"} = Steps
    BY Zenon DEF Steps
  <2>d. \A s \in IssueSteps : At(n, k, s) => n = Leader /\ c \in Own
    BY IssuesOwn, Zenon
  <2> HIDE DEF c
  <2>1. CASE RegisterExpiration(n, k)
    <3>1. c \in Own /\ calls' \in [Node -> [Slots -> Call \cup {None}]]
      BY <2>1, <2>a, <2>c, <2>d, Zenon DEF RegisterExpiration, IssueSteps, c
    <3>2. QED
      BY <2>1, <3>1, Zenon DEF RegisterExpiration, TypeOK, c
  <2>2. CASE Register(n, k)
    <3>1. c \in Own /\ calls' \in [Node -> [Slots -> Call \cup {None}]]
      BY <2>2, <2>a, <2>c, <2>d, Zenon DEF Register, IssueSteps, c
    <3>2. target_commands' \in [Target -> Seq(Own)]
      BY <2>2, <3>1, IndexTyped, Zenon DEF Register, c
    <3>3. QED
      BY <2>2, <3>1, <3>2, Zenon DEF Register, TypeOK
  <2>3. CASE Activate(n, k)
    <3>1. c \in Own /\ calls' \in [Node -> [Slots -> Call \cup {None}]]
      BY <2>3, <2>a, <2>c, <2>d, Zenon DEF Activate, IssueSteps, c
    <3>2. QED
      BY <2>3, <3>1, Zenon DEF Activate, TypeOK, c
  <2>4. CASE CreateStatus(n, k)
    <3>1. calls' \in [Node -> [Slots -> Call \cup {None}]]
      BY <2>4, <2>a, <2>c, Zenon DEF CreateStatus, IssueSteps
    <3>2. command_status' \in [Node -> [Command -> {None, "Pending", "Executing", "Completed"}]]
      BY <2>4, <2>0, StatusTyped DEF CreateStatus, c
    <3>3. QED
      BY <2>4, <3>1, <3>2, Zenon DEF CreateStatus, TypeOK
  <2>5. CASE RegisterAckTimeout(n, k)
    <3>1. n = Leader /\ c \in Own /\ calls' \in [Node -> [Slots -> Call \cup {None}]]
      BY <2>5, <2>a, <2>c, <2>d, Zenon DEF RegisterAckTimeout, IssueSteps, c
    <3>2. GetRoutingTargets(n, c) \subseteq Node
      BY <2>0, Targets, Zenon
    <3>3. /\ DOMAIN ack_timeouts' \subseteq Own
          /\ \A d \in DOMAIN ack_timeouts' :
                ack_timeouts'[d] \in [expected : SUBSET Node, received : SUBSET Node]
      <4>1. CASE ack_timeouts' = ack_timeouts
        BY <4>1, Zenon DEF TypeOK
      <4>2. CASE ack_timeouts' = [d \in DOMAIN ack_timeouts \cup {c} |->
                    IF d = c THEN [expected |-> GetRoutingTargets(n, c), received |-> {}]
                             ELSE ack_timeouts[d]]
        <5>1. [expected |-> GetRoutingTargets(n, c), received |-> {}]
                 \in [expected : SUBSET Node, received : SUBSET Node]
          BY <3>2, Zenon
        <5>2. QED
          BY <4>2, <5>1, <3>1, Zenon DEF TypeOK
      <4>3. QED
        BY <2>5, <4>1, <4>2, Zenon DEF RegisterAckTimeout, c
    <3>4. QED
      BY <2>5, <3>1, <3>3, Zenon DEF RegisterAckTimeout, TypeOK
  <2>6. CASE RouteCommand(n, k)
    <3>1. calls' \in [Node -> [Slots -> Call \cup {None}]]
      BY <2>6, <2>b, Zenon DEF RouteCommand
    <3>2. docs' \in [Node -> SUBSET Command]
      BY <2>6, <2>0, Zenon DEF RouteCommand, TypeOK, c
    <3>3. QED
      BY <2>6, <3>1, <3>2, Zenon DEF RouteCommand, TypeOK
  <2>7. CASE BeginExecution(n, k)
    <3>1. calls' \in [Node -> [Slots -> Call \cup {None}]]
      BY <2>7, <2>a, <2>c, Zenon DEF BeginExecution, ReceiveSteps
    <3>2. command_status' \in [Node -> [Command -> {None, "Pending", "Executing", "Completed"}]]
      BY <2>7, <2>0, StatusTyped DEF BeginExecution, c
    <3>3. executions' \in [Node -> [Command -> Nat]]
      BY <2>7, <2>0, CountTyped DEF BeginExecution, c
    <3>4. status_lock' \in [Node -> Slots \cup {None}]
      BY <2>7, Zenon DEF BeginExecution, TypeOK
    <3>5. QED
      BY <2>7, <3>1, <3>2, <3>3, <3>4, Zenon DEF BeginExecution, TypeOK
  <2>8. CASE CompleteExecution(n, k)
    <3>1. calls' \in [Node -> [Slots -> Call \cup {None}]]
      BY <2>8, <2>a, <2>b, <2>c, Zenon DEF CompleteExecution, ReceiveSteps
    <3>2. command_status' \in [Node -> [Command -> {None, "Pending", "Executing", "Completed"}]]
      BY <2>8, <2>0, StatusTyped DEF CompleteExecution, c
    <3>3. status_lock' \in [Node -> Slots \cup {None}]
      BY <2>8, Zenon DEF CompleteExecution, TypeOK
    <3>4. QED
      BY <2>8, <3>1, <3>2, <3>3, Zenon DEF CompleteExecution, TypeOK
  <2>9. CASE PublishAck(n, k)
    <3>1. calls' \in [Node -> [Slots -> Call \cup {None}]]
      BY <2>9, <2>a, <2>c, Zenon DEF PublishAck, ReceiveSteps
    <3>2. QED
      BY <2>9, <2>0, <3>1 DEF PublishAck, TypeOK, c
  <2>10. CASE CacheAck(n, k)
    <3>1. calls' \in [Node -> [Slots -> Call \cup {None}]]
      BY <2>10, <2>a, <2>c, Zenon DEF CacheAck, ReceiveSteps
    <3>2. acknowledgments' \in [Node -> SUBSET Command]
      BY <2>10, <2>0, Zenon DEF CacheAck, TypeOK, c
    <3>3. QED
      BY <2>10, <3>1, <3>2, Zenon DEF CacheAck, TypeOK
  <2>11. CASE RecordAck(n, k)
    <3>1. calls' \in [Node -> [Slots -> Call \cup {None}]]
      BY <2>11, <2>b, Zenon DEF RecordAck
    <3>2. /\ DOMAIN ack_timeouts' \subseteq Own
          /\ \A d \in DOMAIN ack_timeouts' :
                ack_timeouts'[d] \in [expected : SUBSET Node, received : SUBSET Node]
      <4> DEFINE Entry == [expected : SUBSET Node, received : SUBSET Node]
                 received == ack_timeouts[c].received \cup {n}
      <4>0. /\ DOMAIN ack_timeouts \subseteq Own
            /\ \A d \in DOMAIN ack_timeouts : ack_timeouts[d] \in Entry
        BY Zenon DEF TypeOK
      <4>1. CASE ack_timeouts' = ack_timeouts
        BY <4>0, <4>1, Zenon
      <4>2. CASE ack_timeouts' = [d \in DOMAIN ack_timeouts \ {c} |-> ack_timeouts[d]]
        BY <4>0, <4>2, Zenon
      <4>3. CASE c \in DOMAIN ack_timeouts
                 /\ ack_timeouts' = [ack_timeouts EXCEPT ![c].received = received]
        <5>1. [ack_timeouts[c] EXCEPT !.received = received] \in Entry
          BY <4>0, <4>3, Zenon
        <5>2. QED
          BY <4>0, <4>3, <5>1, Zenon
      <4>4. QED
        BY <2>11, <4>1, <4>2, <4>3, Zenon DEF RecordAck, c
    <3>3. QED
      BY <2>11, <3>1, <3>2, Zenon DEF RecordAck, TypeOK
  <2>12. QED
    BY <1>3, <2>1, <2>2, <2>3, <2>4, <2>5, <2>6, <2>7, <2>8, <2>9, <2>10, <2>11, Zenon
       DEF CallStep
<1>4. ASSUME NEW m \in Node, NEW n \in Node, Sync(m, n)
      PROVE  TypeOK' /\ CountsOK'
  BY <1>4 DEF Sync, TypeOK
<1>5. ASSUME NEW n \in Node, NEW c \in Command, Observe(n, c)
      PROVE  TypeOK' /\ CountsOK'
  <2>1. calls' \in [Node -> [Slots -> Call \cup {None}]]
    BY <1>5, Receives, CallsTyped, Zenon DEF Observe
  <2>2. seen_commands' \in [Node -> SUBSET Command]
    BY <1>5, Zenon DEF Observe, TypeOK
  <2>3. QED
    BY <1>5, <2>1, <2>2, Zenon DEF Observe, TypeOK
<1>6. ASSUME NEW n \in Node, Restart(n)
      PROVE  TypeOK' /\ CountsOK'
  <2>1. calls' \in [Node -> [Slots -> Call \cup {None}]]
    BY <1>6, Zenon DEF Restart, TypeOK
  <2>2. command_status' \in [Node -> [Command -> {None, "Pending", "Executing", "Completed"}]]
    BY <1>6, Zenon DEF Restart, TypeOK
  <2>3. /\ acknowledgments' \in [Node -> SUBSET Command]
        /\ status_lock' \in [Node -> Slots \cup {None}]
        /\ seen_commands' \in [Node -> SUBSET Command]
        /\ restarts' \in [Node -> Nat]
    BY <1>6 DEF Restart, TypeOK
  <2>4. QED
    BY <1>6, <2>1, <2>2, <2>3, Zenon DEF Restart, TypeOK
<1>7. QED
  BY <1>1, <1>2, <1>3, <1>4, <1>5, <1>6, Zenon DEF Next

-----------------------------------------------------------------------------
(* What the leader has recorded of its own commands stays. *)
LEMMA RecordsStay ==
    ASSUME TypeOK, CallsOK, EntriesOK, Next, NEW c \in Own
    PROVE  /\ Registered(c) => Registered(c)'
           /\ c \in active_commands => c \in active_commands'
           /\ command_status[Leader][c] # None => command_status'[Leader][c] # None
           /\ Awaited(c) => Awaited(c)'
<1> USE DEF leader_vars, storage, bounds, history
<1>0. c \in Command /\ Leader \in Node /\ TargetIds(c) \subseteq Target
  BY CommandAssumption, Zenon DEF Command
<1> DEFINE Rest == \/ \E d \in Own : Issue(d)
                   \/ \E d \in Above : ReceiveFromAbove(d)
                   \/ \E m, n \in Node : Sync(m, n)
                   \/ \E n \in Node, d \in Command : Observe(n, d)
<1>1. CASE Rest
  <2>1. UNCHANGED <<target_commands, active_commands, command_status, ack_timeouts>>
    BY <1>1, Zenon DEF Issue, ReceiveFromAbove, Sync, Observe
  <2>2. QED
    BY <2>1, Zenon DEF Registered, Awaited
<1>2. ASSUME NEW n \in Node, Restart(n)
      PROVE  /\ Registered(c) => Registered(c)'
             /\ c \in active_commands => c \in active_commands'
             /\ command_status[Leader][c] # None => command_status'[Leader][c] # None
             /\ Awaited(c) => Awaited(c)'
  <2>1. UNCHANGED <<target_commands, active_commands, ack_timeouts>> /\ n # Leader
        /\ command_status' = [command_status EXCEPT ![n] = [d \in Command |-> None]]
    BY <1>2, Zenon DEF Restart
  <2>2. command_status'[Leader] = command_status[Leader]
    BY <1>0, <2>1, Zenon DEF TypeOK
  <2>3. QED
    BY <2>1, <2>2, Zenon DEF Registered, Awaited
<1>3. ASSUME NEW n \in Node, NEW k \in Slots, CallStep(n, k)
      PROVE  /\ Registered(c) => Registered(c)'
             /\ c \in active_commands => c \in active_commands'
             /\ command_status[Leader][c] # None => command_status'[Leader][c] # None
             /\ Awaited(c) => Awaited(c)'
  <2> DEFINE e == calls[n][k].command
  <2>0. calls[n][k] # None /\ e \in Command
    <3>1. calls[n][k] # None
      BY <1>3, Zenon DEF CallStep, RegisterExpiration, Register, Activate, CreateStatus,
                  RegisterAckTimeout, RouteCommand, BeginExecution, CompleteExecution,
                  PublishAck, CacheAck, RecordAck, At
    <3>2. QED
      BY <3>1, CallCarries, Zenon
  <2>a. \A s \in IssueSteps : At(n, k, s) => n = Leader /\ e \in Own
    BY IssuesOwn, Zenon
  <2> HIDE DEF e
  <2>1. Registered(c) => Registered(c)'
    <3>1. CASE Register(n, k)
      <4>1. e \in Own /\ target_commands' = RegisterCommand(target_commands, e)
        BY <3>1, <2>a, Zenon DEF Register, IssueSteps, e
      <4>2. QED
        BY <4>1, <1>0, IndexTyped, Zenon DEF Registered
    <3>2. CASE UNCHANGED target_commands
      BY <3>2, Zenon DEF Registered
    <3>3. QED
      BY <1>3, <3>1, <3>2, Zenon
         DEF CallStep, RegisterExpiration, Activate, CreateStatus,
             RegisterAckTimeout, RouteCommand, BeginExecution, CompleteExecution,
             PublishAck, CacheAck, RecordAck
  <2>2. c \in active_commands => c \in active_commands'
    BY <1>3, Zenon
       DEF CallStep, RegisterExpiration, Register, Activate, CreateStatus,
           RegisterAckTimeout, RouteCommand, BeginExecution, CompleteExecution,
           PublishAck, CacheAck, RecordAck
  <2>3. command_status[Leader][c] # None => command_status'[Leader][c] # None
    <3>1. \/ UNCHANGED command_status
          \/ \E v \in {"Pending", "Executing", "Completed"} :
                command_status' = [command_status EXCEPT ![n][e] = v]
      BY <1>3, Zenon
         DEF CallStep, RegisterExpiration, Register, Activate, CreateStatus,
             RegisterAckTimeout, RouteCommand, BeginExecution, CompleteExecution,
             PublishAck, CacheAck, RecordAck, e
    <3>2. ASSUME NEW v \in {"Pending", "Executing", "Completed"},
                 command_status' = [command_status EXCEPT ![n][e] = v]
          PROVE  command_status[Leader][c] # None => command_status'[Leader][c] # None
      <4>1. v # None
        BY CommandAssumption, Zenon
      <4>2. command_status'[Leader][c] = IF Leader = n /\ c = e THEN v
                                                    ELSE command_status[Leader][c]
        BY <3>2, <1>0, <2>0, StatusTyped
      <4>3. QED
        BY <4>1, <4>2, Zenon
    <3>3. QED
      BY <3>1, <3>2, Zenon
  <2>4. Awaited(c) => Awaited(c)'
    <3>1. DOMAIN ack_timeouts \subseteq DOMAIN ack_timeouts'
      <4>1. CASE RegisterAckTimeout(n, k)
        BY <4>1, Zenon DEF RegisterAckTimeout, e
      <4>2. CASE RecordAck(n, k)
        <5>1. n = Leader => e \in Above
          BY <4>2, Zenon DEF RecordAck, At, CallsOK, ReceiveCallOK, ReceiveSteps, e
        <5>2. n = Leader => e \notin DOMAIN ack_timeouts
          BY <5>1, CommandAssumption, Zenon DEF TypeOK
        <5>3. QED
          BY <4>2, <5>2, Zenon DEF RecordAck, e
      <4>3. QED
        BY <1>3, <4>1, <4>2, Zenon
           DEF CallStep, RegisterExpiration, Register, Activate, CreateStatus,
               RouteCommand, BeginExecution, CompleteExecution, PublishAck, CacheAck
    <3>2. QED
      BY <3>1, Zenon DEF Awaited
  <2>5. QED
    BY <2>1, <2>2, <2>3, <2>4, Zenon
<1>4. QED
  BY <1>1, <1>2, <1>3, Zenon DEF Next

(* Documents stay where they are, acknowledgments are kept and executions only
   add up. *)
LEMMA TracesStay ==
    ASSUME TypeOK, Next, NEW n \in Node, NEW c \in Command
    PROVE  /\ c \in docs[n] => c \in docs'[n]
           /\ executions[n][c] >= 1 => executions'[n][c] >= 1
<1> USE DEF leader_vars, storage, bounds, history
<1>1. docs' = docs \/ \E m \in Node, d \in Command : docs' = [docs EXCEPT ![m] = @ \cup {d}]
  <2>1. ASSUME NEW m \in Node, NEW k \in Slots, RouteCommand(m, k)
        PROVE  docs' = docs \/ \E d \in Command : docs' = [docs EXCEPT ![m] = @ \cup {d}]
    <3>1. calls[m][k].command \in Command
      BY <2>1, CallCarries, Zenon DEF RouteCommand, At
    <3>2. QED
      BY <2>1, <3>1, Zenon DEF RouteCommand
  <2>2. ASSUME NEW q \in Node, NEW m \in Node, Sync(q, m)
        PROVE  \E d \in Command : docs' = [docs EXCEPT ![m] = @ \cup {d}]
    BY <2>2, Zenon DEF Sync, TypeOK
  <2>3. ASSUME NEW m \in Node, NEW k \in Slots, CallStep(m, k), ~RouteCommand(m, k)
        PROVE  docs' = docs
    BY <2>3, Zenon
       DEF CallStep, RegisterExpiration, Register, Activate, CreateStatus,
           RegisterAckTimeout, BeginExecution, CompleteExecution, PublishAck,
           CacheAck, RecordAck
  <2>4. \A d \in Command, m \in Node :
           Issue(d) \/ ReceiveFromAbove(d) \/ Observe(m, d) \/ Restart(m) => docs' = docs
    <3>1. \A d \in Command : Issue(d) \/ ReceiveFromAbove(d) => docs' = docs
      BY Zenon DEF Issue, ReceiveFromAbove
    <3>2. \A d \in Command, m \in Node : Observe(m, d) \/ Restart(m) => docs' = docs
      BY Zenon DEF Observe, Restart
    <3>3. QED
      BY <3>1, <3>2, Zenon
  <2>5. \/ \E d \in Command, m \in Node :
              Issue(d) \/ ReceiveFromAbove(d) \/ Observe(m, d) \/ Restart(m)
        \/ \E m \in Node, k \in Slots : CallStep(m, k)
        \/ \E q, m \in Node : Sync(q, m)
    BY Zenon DEF Next, Command
  <2>6. QED
    BY <2>1, <2>2, <2>3, <2>4, <2>5, Zenon
<1>2. \/ executions' = executions
      \/ \E m \in Node, d \in Command : executions' = [executions EXCEPT ![m][d] = @ + 1]
  <2>1. ASSUME NEW m \in Node, NEW k \in Slots, BeginExecution(m, k)
        PROVE  \E d \in Command : executions' = [executions EXCEPT ![m][d] = @ + 1]
    <3>1. calls[m][k].command \in Command
      BY <2>1, CallCarries, Zenon DEF BeginExecution, At
    <3>2. QED
      BY <2>1, <3>1, Zenon DEF BeginExecution
  <2>2. ASSUME NEW m \in Node, NEW k \in Slots, CallStep(m, k), ~BeginExecution(m, k)
        PROVE  executions' = executions
    BY <2>2, Zenon
       DEF CallStep, RegisterExpiration, Register, Activate, CreateStatus,
           RegisterAckTimeout, RouteCommand, CompleteExecution, PublishAck,
           CacheAck, RecordAck
  <2>3. \A d \in Command, m, q \in Node :
           \/ Issue(d) \/ ReceiveFromAbove(d) \/ Observe(m, d) \/ Restart(m) \/ Sync(q, m)
           => executions' = executions
    <3>1. \A d \in Command : Issue(d) => executions' = executions
      BY Zenon DEF Issue
    <3>2. \A d \in Command, m \in Node :
             ReceiveFromAbove(d) \/ Observe(m, d) => executions' = executions
      BY Zenon DEF ReceiveFromAbove, Observe
    <3>3. \A m, q \in Node : Restart(m) \/ Sync(q, m) => executions' = executions
      BY Zenon DEF Restart, Sync
    <3>4. QED
      BY <3>1, <3>2, <3>3, Zenon
  <2>4. \/ \E d \in Command, m, q \in Node :
              Issue(d) \/ ReceiveFromAbove(d) \/ Observe(m, d) \/ Restart(m) \/ Sync(q, m)
        \/ \E m \in Node, k \in Slots : CallStep(m, k)
    BY Zenon DEF Next, Command
  <2>5. QED
    BY <2>1, <2>2, <2>3, <2>4, Zenon
<1>3. c \in docs[n] => c \in docs'[n]
  <2>1. docs \in [Node -> SUBSET Command]
    BY Zenon DEF TypeOK
  <2>2. QED
    BY <1>1, <2>1, Zenon
<1>4. executions[n][c] >= 1 => executions'[n][c] >= 1
  <2>1. executions[n][c] \in Nat
    BY Zenon DEF TypeOK
  <2>2. executions'[n][c] = executions[n][c] \/ executions'[n][c] = executions[n][c] + 1
    BY <1>2, CountTyped
  <2>3. QED
    BY <2>1, <2>2
<1>5. QED
  BY <1>3, <1>4, Zenon

-----------------------------------------------------------------------------
(* A call that does not move keeps what is known of it. *)
LEMMA UntouchedCall ==
    ASSUME TypeOK, CallsOK, EntriesOK, Next, NEW m \in Node, NEW j \in Slots,
           calls'[m][j] = calls[m][j]
    PROVE  IssueCallOK(m, j)' /\ ReceiveCallOK(m, j)'
<1>1. CASE calls[m][j] = None
  BY <1>1, Zenon DEF IssueCallOK, ReceiveCallOK
<1>2. CASE calls[m][j] # None
  <2> DEFINE c == calls[m][j].command
             step == calls[m][j].step
  <2>1. c \in Command /\ calls'[m][j].command = c /\ calls'[m][j].step = step
    BY <1>2, CallCarries, Zenon
  <2>2. IssueCallOK(m, j)'
    <3>1. CASE c \in Own
      <4>1. /\ Registered(c) => Registered(c)'
            /\ c \in active_commands => c \in active_commands'
            /\ command_status[Leader][c] # None => command_status'[Leader][c] # None
            /\ Awaited(c) => Awaited(c)'
        BY <3>1, RecordsStay, Zenon
      <4>2. IssueCallOK(m, j)
        BY Zenon DEF CallsOK
      <4>3. QED
        BY <1>2, <2>1, <4>1, <4>2, Zenon DEF IssueCallOK
    <3>2. CASE c \notin Own
      BY <1>2, <2>1, <3>2, Zenon DEF CallsOK, IssueCallOK, IssueSteps
    <3>3. QED
      BY <3>1, <3>2, Zenon
  <2>3. ReceiveCallOK(m, j)'
    BY <1>2, <2>1, TracesStay, Zenon DEF CallsOK, ReceiveCallOK
  <2>4. QED
    BY <2>2, <2>3, Zenon
<1>3. QED
  BY <1>1, <1>2, Zenon

(* Replacing one call leaves what is known of all others. *)
LEMMA CallReplaced ==
    ASSUME TypeOK, CallsOK, EntriesOK, Next, NEW n \in Node, NEW k \in Slots, NEW v,
           Replaced(n, k, v), IssueCallOK(n, k)', ReceiveCallOK(n, k)'
    PROVE  CallsOK'
  BY UntouchedCall, Zenon DEF Replaced, CallsOK

(* What is known of calls outlives a step that changes none. *)
LEMMA CallsUnchanged ==
    ASSUME TypeOK, CallsOK, EntriesOK, Next, UNCHANGED calls
    PROVE  CallsOK'
  BY UntouchedCall, Zenon DEF CallsOK

(* The steps of the calls keep what is known of the calls. *)
LEMMA CallsKept ==
    ASSUME TypeOK, CallsOK, EntriesOK, DocsOK, Next
    PROVE  CallsOK'
<1> USE DEF leader_vars, storage, bounds, history
<1>0. Leader \in Node /\ Own \subseteq Command /\ Above \subseteq Command
      /\ Own \cap Above = {}
  BY CommandAssumption, Zenon DEF Command
<1>1. ASSUME NEW c \in Own, Issue(c)
      PROVE  CallsOK'
  <2>1. CASE Start(Leader, "expire", c)
    <3>1. "expire" \in Steps
      BY Zenon DEF Steps, IssueSteps
    <3>2. PICK k \in Slots : Replaced(Leader, k, [step |-> "expire", command |-> c])
      BY <1>0, <2>1, <3>1, CallStarts, Zenon
    <3>3. calls'[Leader][k] = [step |-> "expire", command |-> c]
      BY <3>2, Zenon DEF Replaced
    <3>4. IssueCallOK(Leader, k)' /\ ReceiveCallOK(Leader, k)'
      BY <3>3 DEF IssueCallOK, ReceiveCallOK, ReceiveSteps
    <3>5. QED
      BY <1>0, <3>2, <3>4, CallReplaced, Zenon
  <2>2. QED
    BY <1>1, <2>1, CallsUnchanged, Zenon DEF Issue
<1>2. ASSUME NEW n \in Node, NEW c \in Command, ReceiveCommand(n, c), docs' = docs,
             \/ n = Leader /\ c \in Above
             \/ c \in docs[n] /\ n \in TargetIds(c)
      PROVE  CallsOK'
  <2>1. ASSUME ResolveTarget(n, c) = Self, NEW k \in Slots,
               Replaced(n, k, [step |-> "execute", command |-> c])
        PROVE  CallsOK'
    <3>1. calls'[n][k] = [step |-> "execute", command |-> c]
      BY <2>1, Zenon DEF Replaced
    <3>2. c \in docs[n] => n # Leader
      BY <2>1, Targets, Zenon DEF DocsOK
    <3>3. IssueCallOK(n, k)'
      BY <3>1 DEF IssueCallOK, IssueSteps
    <3>4. ReceiveCallOK(n, k)'
      BY <1>2, <2>1, <3>1, <3>2 DEF ReceiveCallOK
    <3>5. QED
      BY <2>1, <3>3, <3>4, CallReplaced, Zenon
  <2>2. ASSUME ShouldRoute(ResolveTarget(n, c)), n = Leader, NEW k \in Slots,
               Replaced(n, k, [step |-> "route", command |-> c])
        PROVE  CallsOK'
    <3>1. calls'[n][k] = [step |-> "route", command |-> c]
      BY <2>2, Zenon DEF Replaced
    <3>2. c \in Own => /\ Registered(c)' /\ c \in active_commands'
                       /\ command_status'[Leader][c] # None /\ Awaited(c)'
      <4>1. c \in Own => c \in docs[n]
        BY <1>0, <1>2, Zenon
      <4>2. QED
        BY <4>1, RecordsStay, Zenon DEF DocsOK
    <3>3. IssueCallOK(n, k)'
      BY <2>2, <3>1, <3>2 DEF IssueCallOK, IssueSteps
    <3>4. ReceiveCallOK(n, k)'
      BY <3>1 DEF ReceiveCallOK, ReceiveSteps
    <3>5. QED
      BY <2>2, <3>3, <3>4, CallReplaced, Zenon
  <2>3. QED
    BY <1>2, <2>1, <2>2, Receives, CallsUnchanged, Zenon
<1>3. ASSUME NEW n \in Node, NEW k \in Slots, CallStep(n, k)
      PROVE  CallsOK'
  <2>0. calls[n][k] # None /\ calls[n][k].command \in Command
    <3>1. calls[n][k] # None
      BY <1>3, Zenon DEF CallStep, RegisterExpiration, Register, Activate, CreateStatus,
                  RegisterAckTimeout, RouteCommand, BeginExecution, CompleteExecution,
                  PublishAck, CacheAck, RecordAck, At
    <3>2. QED
      BY <3>1, CallCarries, Zenon
  <2>p. PICK c \in Command : c = calls[n][k].command
    BY <2>0, Zenon
  <2>a. IssueCallOK(n, k) /\ ReceiveCallOK(n, k)
    BY Zenon DEF CallsOK
  <2>b. \A s \in Steps : Goto(n, k, s) => Replaced(n, k, [step |-> s, command |-> c])
    BY <2>0, <2>p, CallMoves, Zenon
  <2>c. End(n, k) => CallsOK'
    <3> HAVE End(n, k)
    <3>1. Replaced(n, k, None)
      BY CallEnds, Zenon
    <3>2. calls'[n][k] = None
      BY <3>1, Zenon DEF Replaced
    <3>3. IssueCallOK(n, k)' /\ ReceiveCallOK(n, k)'
      BY <3>2, Zenon DEF IssueCallOK, ReceiveCallOK
    <3>4. QED
      BY <3>1, <3>3, CallReplaced, Zenon
  <2>d. Steps = IssueSteps \cup ReceiveSteps \cup {"route"}
    BY Zenon DEF Steps
  <2>e. c \in Own => /\ Registered(c) => Registered(c)'
                     /\ c \in active_commands => c \in active_commands'
                     /\ command_status[Leader][c] # None => command_status'[Leader][c] # None
                     /\ Awaited(c) => Awaited(c)'
    BY RecordsStay, Zenon
  <2>f. /\ c \in docs[n] => c \in docs'[n]
        /\ executions[n][c] >= 1 => executions'[n][c] >= 1
    BY <2>0, <2>p, TracesStay, Zenon
  <2>1. ASSUME NEW s \in Steps, Goto(n, k, s), IssueCallOK(n, k)', ReceiveCallOK(n, k)'
        PROVE  CallsOK'
    BY <2>1, <2>p, <2>b, CallReplaced, Zenon
  <2>2. ASSUME NEW s \in Steps, Goto(n, k, s)
        PROVE  calls'[n][k] = [step |-> s, command |-> c]
    BY <2>2, <2>p, <2>b, Zenon DEF Replaced
  <2>3. CASE RegisterExpiration(n, k)
    <3>1. calls'[n][k] = [step |-> "register", command |-> c]
      BY <2>3, <2>p, <2>2, <2>d, Zenon DEF RegisterExpiration, IssueSteps
    <3>2. n = Leader /\ c \in Own
      BY <2>3, <2>p, <2>a, Zenon DEF RegisterExpiration, At, IssueCallOK, IssueSteps
    <3>3. IssueCallOK(n, k)' /\ ReceiveCallOK(n, k)'
      BY <3>1, <3>2 DEF IssueCallOK, ReceiveCallOK, ReceiveSteps
    <3>4. QED
      BY <2>3, <2>p, <2>1, <2>d, <3>3, Zenon DEF RegisterExpiration, IssueSteps
  <2>4. CASE Register(n, k)
    <3>1. calls'[n][k] = [step |-> "activate", command |-> c]
      BY <2>4, <2>p, <2>2, <2>d, Zenon DEF Register, IssueSteps
    <3>2. n = Leader /\ c \in Own
      BY <2>4, <2>p, <2>a, Zenon DEF Register, At, IssueCallOK, IssueSteps
    <3>3. Registered(c)'
      BY <2>4, <2>p, <3>2, IndexTyped, Zenon DEF Register, Registered
    <3>4. IssueCallOK(n, k)' /\ ReceiveCallOK(n, k)'
      BY <3>1, <3>2, <3>3 DEF IssueCallOK, ReceiveCallOK, ReceiveSteps
    <3>5. QED
      BY <2>4, <2>p, <2>1, <2>d, <3>4, Zenon DEF Register, IssueSteps
  <2>5. CASE Activate(n, k)
    <3>1. calls'[n][k] = [step |-> "status", command |-> c]
      BY <2>5, <2>p, <2>2, <2>d, Zenon DEF Activate, IssueSteps
    <3>2. n = Leader /\ c \in Own /\ Registered(c)
      BY <2>5, <2>p, <2>a, Zenon DEF Activate, At, IssueCallOK, IssueSteps
    <3>3. c \in active_commands' /\ Registered(c)'
      BY <2>5, <2>p, <2>e, <3>2, Zenon DEF Activate
    <3>4. IssueCallOK(n, k)' /\ ReceiveCallOK(n, k)'
      BY <3>1, <3>2, <3>3 DEF IssueCallOK, ReceiveCallOK, ReceiveSteps
    <3>5. QED
      BY <2>5, <2>p, <2>1, <2>d, <3>4, Zenon DEF Activate, IssueSteps
  <2>6. CASE CreateStatus(n, k)
    <3>1. calls'[n][k] = [step |-> "timeout", command |-> c]
      BY <2>6, <2>p, <2>2, <2>d, Zenon DEF CreateStatus, IssueSteps
    <3>2. n = Leader /\ c \in Own /\ Registered(c) /\ c \in active_commands
      BY <2>6, <2>p, <2>a, Zenon DEF CreateStatus, At, IssueCallOK, IssueSteps
    <3>3. command_status'[Leader][c] # None
      <4>1. command_status' = [command_status EXCEPT ![n][c] = "Pending"]
        BY <2>6, <2>p, Zenon DEF CreateStatus
      <4>2. command_status'[n][c] = "Pending"
        BY <4>1, <2>0, StatusTyped
      <4>3. QED
        BY <3>2, <4>2, CommandAssumption, Zenon
    <3>4. IssueCallOK(n, k)' /\ ReceiveCallOK(n, k)'
      BY <3>1, <3>2, <3>3, <2>e DEF IssueCallOK, ReceiveCallOK, ReceiveSteps
    <3>5. QED
      BY <2>6, <2>p, <2>1, <2>d, <3>4, Zenon DEF CreateStatus, IssueSteps
  <2>7. CASE RegisterAckTimeout(n, k)
    <3>1. calls'[n][k] = [step |-> "route", command |-> c]
      BY <2>7, <2>p, <2>2, <2>d, Zenon DEF RegisterAckTimeout
    <3>2. n = Leader /\ c \in Own /\ Registered(c) /\ c \in active_commands
          /\ command_status[Leader][c] # None
      BY <2>7, <2>p, <2>a, Zenon DEF RegisterAckTimeout, At, IssueCallOK, IssueSteps
    <3>3. Awaited(c)'
      BY <2>7, <2>p, <3>2, Zenon DEF RegisterAckTimeout, Awaited
    <3>4. IssueCallOK(n, k)' /\ ReceiveCallOK(n, k)'
      BY <3>1, <3>2, <3>3, <2>e DEF IssueCallOK, ReceiveCallOK, ReceiveSteps, IssueSteps
    <3>5. QED
      BY <2>7, <2>p, <2>1, <2>d, <3>4, Zenon DEF RegisterAckTimeout
  <2>8. CASE RouteCommand(n, k) \/ RecordAck(n, k)
    BY <2>8, <2>p, <2>c, Zenon DEF RouteCommand, RecordAck
  <2>9. ASSUME NEW s \in {"executing", "publish_ack", "cache_ack", "record_ack"},
               NEW r \in ReceiveSteps, At(n, k, r), Goto(n, k, s),
               executions'[n][c] >= 1, s # "executing" => c.acknowledge
        PROVE  CallsOK'
    <3>1. s \in Steps
      BY <2>d, Zenon DEF ReceiveSteps
    <3>2. calls'[n][k] = [step |-> s, command |-> c]
      BY <2>9, <2>p, <2>2, <3>1, Zenon
    <3>3. IssueCallOK(n, k)'
      BY <3>2 DEF IssueCallOK, IssueSteps
    <3>4. ReceiveCallOK(n, k)'
      BY <2>9, <2>p, <2>a, <2>f, <3>2 DEF At, ReceiveCallOK, ReceiveSteps
    <3>5. QED
      BY <2>9, <2>p, <2>1, <3>1, <3>3, <3>4, Zenon
  <2>10. CASE BeginExecution(n, k)
    <3>1. executions' = [executions EXCEPT ![n][c] = @ + 1]
      BY <2>10, <2>p, Zenon DEF BeginExecution
    <3>2. executions'[n][c] = executions[n][c] + 1 /\ executions[n][c] \in Nat
      BY <3>1, <2>0, CountTyped DEF TypeOK
    <3>3. executions'[n][c] >= 1
      BY <3>2
    <3>4. At(n, k, "execute") /\ Goto(n, k, "executing") /\ "execute" \in ReceiveSteps
      BY <2>10, Zenon DEF BeginExecution, ReceiveSteps
    <3>5. QED
      BY <2>9, <3>3, <3>4, Zenon
  <2>11. CASE CompleteExecution(n, k)
    <3>1. executions[n][c] >= 1
      BY <2>11, <2>p, <2>a, Zenon DEF CompleteExecution, At, ReceiveCallOK, ReceiveSteps
    <3>2. QED
      BY <2>11, <2>p, <2>9, <2>c, <2>f, <3>1, Zenon DEF CompleteExecution, ReceiveSteps
  <2>12. CASE PublishAck(n, k)
    <3>1. executions[n][c] >= 1 /\ c.acknowledge
      BY <2>12, <2>p, <2>a, Zenon DEF PublishAck, At, ReceiveCallOK, ReceiveSteps
    <3>2. QED
      BY <2>12, <2>p, <2>9, <2>f, <3>1, Zenon DEF PublishAck, ReceiveSteps
  <2>13. CASE CacheAck(n, k)
    <3>1. executions[n][c] >= 1 /\ c.acknowledge
      BY <2>13, <2>p, <2>a, Zenon DEF CacheAck, At, ReceiveCallOK, ReceiveSteps
    <3>2. QED
      BY <2>13, <2>p, <2>9, <2>f, <3>1, Zenon DEF CacheAck, ReceiveSteps
  <2>14. QED
    BY <1>3, <2>3, <2>4, <2>5, <2>6, <2>7, <2>8, <2>10, <2>11, <2>12, <2>13, Zenon DEF CallStep
<1>4. ASSUME NEW m \in Node, NEW n \in Node, Sync(m, n)
      PROVE  CallsOK'
  BY <1>4, CallsUnchanged, Zenon DEF Sync
<1>5. ASSUME NEW n \in Node, Restart(n)
      PROVE  CallsOK'
  <2>1. \A m \in Node, j \in Slots :
           calls'[m][j] = IF m = n THEN None ELSE calls[m][j]
    BY <1>5, Zenon DEF Restart, TypeOK
  <2>2. \A m \in Node, j \in Slots : IssueCallOK(m, j)' /\ ReceiveCallOK(m, j)'
    <3> SUFFICES ASSUME NEW m \in Node, NEW j \in Slots
                 PROVE  IssueCallOK(m, j)' /\ ReceiveCallOK(m, j)'
      OBVIOUS
    <3>1. CASE m = n
      <4>1. calls'[m][j] = None
        BY <2>1, <3>1, Zenon
      <4>2. QED
        BY <4>1, Zenon DEF IssueCallOK, ReceiveCallOK
    <3>2. CASE m # n
      BY <2>1, <3>2, UntouchedCall, Zenon
    <3>3. QED
      BY <3>1, <3>2, Zenon
  <2>3. QED
    BY <2>2, Zenon DEF CallsOK
<1>6. ASSUME NEW c \in Above, ReceiveFromAbove(c)
      PROVE  CallsOK'
  BY <1>0, <1>2, <1>6, Zenon DEF ReceiveFromAbove
<1>7. ASSUME NEW n \in Node, NEW c \in Command, Observe(n, c)
      PROVE  CallsOK'
  BY <1>2, <1>7, Zenon DEF Observe
<1>8. QED
  BY <1>1, <1>3, <1>4, <1>5, <1>6, <1>7, Zenon DEF Next

-----------------------------------------------------------------------------
(* A step of a call, or one of the others. *)
OtherStep ==
    \/ \E c \in Own : Issue(c)
    \/ \E c \in Above : ReceiveFromAbove(c)
    \/ \E m, n \in Node : Sync(m, n)
    \/ \E n \in Node, c \in Command : Observe(n, c)
    \/ \E n \in Node : Restart(n)

(* Every step is one of a call or leaves the calls alone. *)
LEMMA StepKinds == Next => OtherStep \/ \E n \in Node, k \in Slots : CallStep(n, k)
  BY Zenon DEF Next, OtherStep

(* Every step keeps the entries of the maps backed by their commands. *)
LEMMA EntriesKept ==
    ASSUME TypeOK, CallsOK, EntriesOK, Next
    PROVE  EntriesOK'
<1> USE DEF leader_vars, storage, bounds, history
<1>1. CASE UNCHANGED ack_timeouts
  BY <1>1, Zenon DEF EntriesOK
<1>2. ASSUME NEW n \in Node, NEW k \in Slots, RegisterAckTimeout(n, k)
      PROVE  EntriesOK'
  <2>1. n = Leader
    BY <1>2, IssuesOwn, Zenon DEF RegisterAckTimeout, IssueSteps
  <2>2. QED
    BY <1>2, <2>1, Zenon DEF RegisterAckTimeout, EntriesOK
<1>3. ASSUME NEW n \in Node, NEW k \in Slots, RecordAck(n, k)
      PROVE  EntriesOK'
  <2>1. n = Leader => calls[n][k].command \in Above
    BY <1>3, Zenon DEF RecordAck, At, CallsOK, ReceiveCallOK, ReceiveSteps
  <2>2. n = Leader => calls[n][k].command \notin DOMAIN ack_timeouts
    BY <2>1, CommandAssumption, Zenon DEF TypeOK
  <2>3. UNCHANGED ack_timeouts
    BY <1>3, <2>2, Zenon DEF RecordAck
  <2>4. QED
    BY <1>1, <2>3, Zenon
<1>4. ASSUME NEW n \in Node, NEW k \in Slots, CallStep(n, k)
      PROVE  EntriesOK'
  BY <1>1, <1>2, <1>3, <1>4, Zenon
     DEF CallStep, RegisterExpiration, Register, Activate, CreateStatus, RouteCommand,
         BeginExecution, CompleteExecution, PublishAck, CacheAck
<1>5. OtherStep => UNCHANGED ack_timeouts
  BY Zenon DEF OtherStep, Issue, ReceiveFromAbove, Observe, Restart, Sync
<1>6. QED
  BY <1>1, <1>4, <1>5, StepKinds, Zenon

(* A document that is new at a node comes from the leader, which tracks it, or
   from another node. *)
LEMMA DocsKept ==
    ASSUME TypeOK, CallsOK, EntriesOK, DocsOK, Next
    PROVE  DocsOK'
<1> USE DEF leader_vars, storage, bounds, history
<1> DEFINE Known(c) == /\ ShouldRoute(ResolveTarget(Leader, c))
                       /\ c \in Own => /\ Registered(c) /\ c \in active_commands
                                       /\ command_status[Leader][c] # None
                                       /\ Awaited(c)
<1>1. ASSUME NEW c \in Command, Known(c)
      PROVE  Known(c)'
  BY <1>1, RecordsStay, Zenon
<1>2. \A n \in Node : \A c \in docs[n] : Known(c) /\ c \in Command
  BY Zenon DEF DocsOK, TypeOK
<1>3. ASSUME NEW n \in Node, NEW k \in Slots, RouteCommand(n, k),
             ShouldRoute(ResolveTarget(n, calls[n][k].command))
      PROVE  Known(calls[n][k].command) /\ calls[n][k].command \in Command
  <2>1. calls[n][k] # None /\ calls[n][k].command \in Command
    BY <1>3, CallCarries, Zenon DEF RouteCommand, At
  <2>2. IssueCallOK(n, k)
    BY Zenon DEF CallsOK
  <2>3. QED
    BY <1>3, <2>1, <2>2, Zenon DEF RouteCommand, At, IssueCallOK
<1> HIDE DEF Known
<1>4. \A n \in Node : \A c \in docs'[n] : Known(c) /\ c \in Command
  <2>1. CASE docs' = docs
    BY <1>2, <2>1, Zenon
  <2>2. ASSUME NEW n \in Node, NEW c, docs' = [docs EXCEPT ![n] = @ \cup {c}],
               Known(c), c \in Command
        PROVE  \A m \in Node : \A d \in docs'[m] : Known(d) /\ d \in Command
    <3>1. docs \in [Node -> SUBSET Command]
      BY Zenon DEF TypeOK
    <3>2. QED
      BY <1>2, <2>2, <3>1, Zenon
  <2>3. ASSUME NEW n \in Node, NEW k \in Slots, RouteCommand(n, k)
        PROVE  \A m \in Node : \A d \in docs'[m] : Known(d) /\ d \in Command
    BY <1>3, <2>1, <2>2, <2>3, Zenon DEF RouteCommand
  <2>4. ASSUME NEW m \in Node, NEW n \in Node, Sync(m, n)
        PROVE  \A q \in Node : \A d \in docs'[q] : Known(d) /\ d \in Command
    BY <1>2, <2>2, <2>4, Zenon DEF Sync
  <2>5. ASSUME NEW m \in Node, NEW k \in Slots, CallStep(m, k), ~RouteCommand(m, k)
        PROVE  docs' = docs
    BY <2>5, Zenon
       DEF CallStep, RegisterExpiration, Register, Activate, CreateStatus,
           RegisterAckTimeout, BeginExecution, CompleteExecution, PublishAck,
           CacheAck, RecordAck
  <2>6. OtherStep /\ ~(\E m, n \in Node : Sync(m, n)) => docs' = docs
    BY Zenon DEF OtherStep, Issue, ReceiveFromAbove, Observe, Restart
  <2>7. QED
    BY <2>1, <2>3, <2>4, <2>5, <2>6, StepKinds, Zenon
<1>5. \A n \in Node : \A c \in docs'[n] : Known(c)'
  BY <1>1, <1>4, Zenon
<1>6. QED
  BY <1>5, Zenon DEF DocsOK, Known

(* An acknowledgment is published by a call that has executed the command. *)
LEMMA AcksKept ==
    ASSUME TypeOK, CallsOK, AcksOK, Next
    PROVE  AcksOK'
<1> USE DEF leader_vars, storage, bounds, history
<1> DEFINE Due(c, n) == /\ executions[n][c] >= 1
                        /\ ResolveTarget(n, c) = Self
                        /\ n = Leader => c \in Above
                        /\ n # Leader => n \in TargetIds(c) /\ c \in docs[n]
                        /\ c.acknowledge
<1>1. ASSUME NEW c \in Command, NEW n \in Node, Due(c, n)
      PROVE  Due(c, n)'
  BY <1>1, TracesStay, Zenon
<1>2. \A c \in Command, n \in Node : <<c, n>> \in ack_docs' => Due(c, n)
  <2>1. CASE ack_docs' = ack_docs
    BY <2>1, Zenon DEF AcksOK
  <2>2. ASSUME NEW n \in Node, NEW k \in Slots, PublishAck(n, k)
        PROVE  \A c \in Command, m \in Node : <<c, m>> \in ack_docs' => Due(c, m)
    <3>1. ReceiveCallOK(n, k)
      BY Zenon DEF CallsOK
    <3>2. Due(calls[n][k].command, n)
      BY <2>2, <3>1, Zenon DEF PublishAck, At, ReceiveCallOK, ReceiveSteps
    <3>3. QED
      BY <2>2, <3>2, Zenon DEF PublishAck, AcksOK
  <2>3. ASSUME NEW m \in Node, NEW k \in Slots, CallStep(m, k), ~PublishAck(m, k)
        PROVE  ack_docs' = ack_docs
    BY <2>3, Zenon
       DEF CallStep, RegisterExpiration, Register, Activate, CreateStatus,
           RegisterAckTimeout, RouteCommand, BeginExecution, CompleteExecution,
           CacheAck, RecordAck
  <2>4. OtherStep => ack_docs' = ack_docs
    BY Zenon DEF OtherStep, Issue, ReceiveFromAbove, Observe, Restart, Sync
  <2> HIDE DEF Due
  <2>5. QED
    BY <2>1, <2>2, <2>3, <2>4, StepKinds, Zenon
<1>3. \A c \in Command, n \in Node : <<c, n>> \in ack_docs' => Due(c, n)'
  BY <1>1, <1>2, Zenon
<1>4. QED
  BY <1>3, Zenon DEF AcksOK

(* While the calls that are about to execute are as they were or fewer, and the
   counts and the observer's memory stay, nothing changes for Once. *)
LEMMA OnceUntouched ==
    ASSUME NEW n \in Node, NEW c \in Command, Once(n, c),
           seen_commands'[n] = seen_commands[n], restarts'[n] = restarts[n],
           executions'[n][c] = executions[n][c],
           \A k \in Slots : ToExecute(n, k, c)' => ToExecute(n, k, c)
    PROVE  Once(n, c)'
  BY Zenon DEF Once

(* Every step keeps executions to one per command and node. *)
LEMMA OnceKept ==
    ASSUME TypeOK, CountsOK, CallsOK, OnceOK, Next
    PROVE  OnceOK'
<1> USE DEF leader_vars, storage, bounds, history
<1> SUFFICES ASSUME NEW n \in Node \ {Leader}, NEW c \in Command
             PROVE  Once(n, c)'
  BY Zenon DEF OnceOK
<1>0. Once(n, c) /\ n \in Node /\ executions[n][c] \in Nat /\ restarts[n] \in Nat
  BY DEF OnceOK, TypeOK, CountsOK
<1>a. ASSUME NEW m \in Node, NEW k \in Slots, NEW v, Replaced(m, k, v),
             v = None \/ v.step # "execute"
      PROVE  \A j \in Slots : ToExecute(n, j, c)' => ToExecute(n, j, c)
  BY <1>a, Zenon DEF Replaced, ToExecute, At
<1>b. ASSUME UNCHANGED calls
      PROVE  \A j \in Slots : ToExecute(n, j, c)' => ToExecute(n, j, c)
  BY <1>b, Zenon DEF ToExecute, At
<1>c. ASSUME NEW k \in Slots, NEW v, Replaced(Leader, k, v)
      PROVE  \A j \in Slots : ToExecute(n, j, c)' => ToExecute(n, j, c)
  BY <1>c, CommandAssumption, Zenon DEF Replaced, ToExecute, At
<1>1. ASSUME NEW d \in Own, Issue(d)
      PROVE  Once(n, c)'
  <2>1. CASE Start(Leader, "expire", d)
    <3>1. "expire" \in Steps /\ d \in Command /\ Leader \in Node
      BY CommandAssumption, Zenon DEF Steps, IssueSteps, Command
    <3>2. \E k \in Slots : Replaced(Leader, k, [step |-> "expire", command |-> d])
      BY <2>1, <3>1, CallStarts, Zenon
    <3>3. \A j \in Slots : ToExecute(n, j, c)' => ToExecute(n, j, c)
      BY <1>c, <3>2, Zenon
    <3>4. QED
      BY <1>0, <1>1, <3>3, OnceUntouched, Zenon DEF Issue
  <2>2. CASE UNCHANGED calls
    BY <1>0, <1>1, <1>b, <2>2, OnceUntouched, Zenon DEF Issue
  <2>3. QED
    BY <1>1, <2>1, <2>2, Zenon DEF Issue
<1>2. ASSUME NEW d \in Above, ReceiveFromAbove(d)
      PROVE  Once(n, c)'
  <2>1. d \in Command /\ Leader \in Node
    BY CommandAssumption, Zenon DEF Command
  <2>2. UNCHANGED calls \/ \E k \in Slots, v \in Call : Replaced(Leader, k, v)
    <3>1. ReceiveCommand(Leader, d)
      BY <1>2, Zenon DEF ReceiveFromAbove
    <3>2. \A s \in Steps : [step |-> s, command |-> d] \in Call
      BY <2>1, Zenon DEF Call, Steps
    <3>3. "execute" \in Steps /\ "route" \in Steps
      BY Zenon DEF Steps, ReceiveSteps
    <3>4. QED
      BY <2>1, <3>1, <3>2, <3>3, Receives, Zenon
  <2>3. \A j \in Slots : ToExecute(n, j, c)' => ToExecute(n, j, c)
    BY <1>b, <1>c, <2>2, Zenon
  <2>4. QED
    BY <1>0, <1>2, <2>3, OnceUntouched, Zenon DEF ReceiveFromAbove
<1>3. ASSUME NEW m \in Node, NEW k \in Slots, CallStep(m, k)
      PROVE  Once(n, c)'
  <2>0. calls[m][k] # None /\ calls[m][k].command \in Command
    <3>1. calls[m][k] # None
      BY <1>3, Zenon DEF CallStep, RegisterExpiration, Register, Activate, CreateStatus,
                  RegisterAckTimeout, RouteCommand, BeginExecution, CompleteExecution,
                  PublishAck, CacheAck, RecordAck, At
    <3>2. QED
      BY <3>1, CallCarries, Zenon
  <2>1. \A s \in Steps : Goto(m, k, s) =>
           Replaced(m, k, [step |-> s, command |-> calls[m][k].command])
    BY <2>0, CallMoves, Zenon
  <2>2. End(m, k) => Replaced(m, k, None)
    BY CallEnds, Zenon
  <2>3. \A s \in Steps \ {"execute"} : Goto(m, k, s) =>
           \A j \in Slots : ToExecute(n, j, c)' => ToExecute(n, j, c)
    BY <1>a, <2>1, Zenon
  <2>4. End(m, k) => \A j \in Slots : ToExecute(n, j, c)' => ToExecute(n, j, c)
    BY <1>a, <2>2, Zenon
  <2>5. Steps \ {"execute"} = {"expire", "register", "activate", "status", "timeout",
           "executing", "publish_ack", "cache_ack", "record_ack", "route"}
    BY Zenon DEF Steps, IssueSteps, ReceiveSteps
  <2>6. \A j \in Slots : ToExecute(n, j, c)' => ToExecute(n, j, c)
    <3>1. End(m, k) \/ \E s \in Steps \ {"execute"} : Goto(m, k, s)
      BY <1>3, <2>5, Zenon
         DEF CallStep, RegisterExpiration, Register, Activate, CreateStatus,
             RegisterAckTimeout, RouteCommand, BeginExecution, CompleteExecution,
             PublishAck, CacheAck, RecordAck
    <3>2. QED
      BY <2>3, <2>4, <3>1, Zenon
  <2>7. CASE BeginExecution(m, k)
    <3>1. executions' = [executions EXCEPT ![m][calls[m][k].command] = @ + 1]
          /\ UNCHANGED <<seen_commands, restarts>>
      BY <2>7, Zenon DEF BeginExecution
    <3>2. CASE m = n /\ calls[m][k].command = c
      <4>1. ToExecute(n, k, c)
        BY <2>7, <3>2, Zenon DEF BeginExecution, ToExecute
      <4>2. executions'[n][c] = executions[n][c] + 1
        BY <2>0, <3>1, <3>2, CountTyped
      <4>3. ~ToExecute(n, k, c)'
        <5>1. "executing" \in Steps
          BY Zenon DEF Steps, ReceiveSteps
        <5>2. calls'[n][k] = [step |-> "executing", command |-> calls[m][k].command]
          BY <2>1, <2>7, <3>2, <5>1, Zenon DEF BeginExecution, Replaced
        <5>3. QED
          BY <5>2 DEF ToExecute, At
      <4>4. \A j \in Slots : ~ToExecute(n, j, c)'
        BY <1>0, <2>6, <4>1, <4>3, Zenon DEF Once
      <4>5. c \in seen_commands'[n] /\ executions'[n][c] <= 1 + restarts'[n]
        BY <1>0, <3>1, <4>1, <4>2 DEF Once
      <4>6. QED
        BY <4>4, <4>5, Zenon DEF Once
    <3>3. CASE ~(m = n /\ calls[m][k].command = c)
      <4>1. executions'[n][c] = executions[n][c]
        BY <1>0, <2>0, <3>1, <3>3, CountTyped
      <4>2. QED
        BY <1>0, <2>6, <3>1, <4>1, OnceUntouched, Zenon
    <3>4. QED
      BY <3>2, <3>3, Zenon
  <2>8. CASE ~BeginExecution(m, k)
    <3>1. UNCHANGED <<executions, seen_commands, restarts>>
      BY <1>3, <2>8, Zenon
         DEF CallStep, RegisterExpiration, Register, Activate, CreateStatus,
             RegisterAckTimeout, RouteCommand, CompleteExecution,
             PublishAck, CacheAck, RecordAck
    <3>2. QED
      BY <1>0, <2>6, <3>1, OnceUntouched, Zenon
  <2>9. QED
    BY <2>7, <2>8, Zenon
<1>4. ASSUME NEW q \in Node, NEW m \in Node, Sync(q, m)
      PROVE  Once(n, c)'
  BY <1>0, <1>4, <1>b, OnceUntouched, Zenon DEF Sync
<1>5. ASSUME NEW m \in Node, NEW d \in Command, Observe(m, d)
      PROVE  Once(n, c)'
  <2>0. /\ seen_commands' = [seen_commands EXCEPT ![m] = @ \cup {d}]
        /\ UNCHANGED <<restarts, executions>> /\ ReceiveCommand(m, d)
        /\ d \notin seen_commands[m]
    BY <1>5, Zenon DEF Observe
  <2>1. seen_commands \in [Node -> SUBSET Command]
    BY Zenon DEF TypeOK
  <2>2. \/ UNCHANGED calls
        \/ \E k \in Slots, s \in {"execute", "route"} :
              Replaced(m, k, [step |-> s, command |-> d])
    BY <2>0, Receives, Zenon
  <2>3. CASE m = n /\ d = c
    <3>1. \A j \in Slots : ~ToExecute(n, j, c)
      BY <1>0, <2>0, <2>3, Zenon DEF Once
    <3>2. c \in seen_commands'[n] /\ executions'[n][c] <= restarts'[n]
      BY <1>0, <2>0, <2>1, <2>3, Zenon DEF Once
    <3>3. \A i, j \in Slots : ToExecute(n, i, c)' /\ ToExecute(n, j, c)' => j = i
      BY <2>2, <2>3, <3>1 DEF Replaced, ToExecute, At
    <3>4. executions'[n][c] <= 1 + restarts'[n]
      BY <1>0, <2>0, <3>2
    <3>5. QED
      BY <3>2, <3>3, <3>4, Zenon DEF Once
  <2>4. CASE ~(m = n /\ d = c)
    <3>1. \A j \in Slots : ToExecute(n, j, c)' => ToExecute(n, j, c)
      BY <2>2, <2>4, <1>b DEF Replaced, ToExecute, At
    <3>2. c \in seen_commands'[n] <=> c \in seen_commands[n]
      BY <1>0, <2>0, <2>1, <2>4, Zenon
    <3>3. QED
      BY <1>0, <2>0, <3>1, <3>2, Zenon DEF Once
  <2>5. QED
    BY <2>3, <2>4, Zenon
<1>6. ASSUME NEW m \in Node, Restart(m)
      PROVE  Once(n, c)'
  <2>0. /\ restarts' = [restarts EXCEPT ![m] = @ + 1]
        /\ calls' = [calls EXCEPT ![m] = [k \in Slots |-> None]]
        /\ seen_commands' = [seen_commands EXCEPT ![m] = {}]
        /\ UNCHANGED executions
    BY <1>6, Zenon DEF Restart
  <2>1. \A j \in Slots : ToExecute(n, j, c)' => ToExecute(n, j, c) /\ m # n
    BY <1>0, <2>0, Zenon DEF TypeOK, ToExecute, At
  <2>2. CASE m = n
    <3>1. restarts'[n] = restarts[n] + 1
      BY <1>0, <2>0, <2>2, Zenon DEF CountsOK
    <3>2. executions'[n][c] <= restarts'[n] /\ executions'[n][c] <= 1 + restarts'[n]
      BY <1>0, <2>0, <3>1 DEF Once
    <3>3. QED
      BY <2>1, <2>2, <3>2, Zenon DEF Once
  <2>3. CASE m # n
    <3>1. seen_commands'[n] = seen_commands[n] /\ restarts'[n] = restarts[n]
      BY <1>0, <2>0, <2>3, Zenon DEF TypeOK, CountsOK
    <3>2. QED
      BY <1>0, <2>0, <2>1, <3>1, OnceUntouched, Zenon
  <2>4. QED
    BY <2>2, <2>3, Zenon
<1>7. QED
  BY <1>1, <1>2, <1>3, <1>4, <1>5, <1>6, Zenon DEF Next

-----------------------------------------------------------------------------
(* Every step keeps the invariant of the coordinator. *)
LEMMA CommandInvKept == CommandInv /\ [Next]_vars => CommandInv'
<1> SUFFICES ASSUME CommandInv, [Next]_vars
             PROVE  CommandInv'
  OBVIOUS
<1>1. CASE Next
  BY <1>1, TypesKept, CallsKept, EntriesKept, DocsKept, AcksKept, OnceKept, Zenon DEF CommandInv
<1>2. CASE UNCHANGED vars
  <2> USE <1>2 DEF vars, leader_vars, storage, bounds, history
  <2>1. TypeOK' /\ CountsOK'
    BY Zenon DEF CommandInv, TypeOK, CountsOK
  <2>2. CallsOK'
    <3>1. \A n \in Node, k \in Slots : IssueCallOK(n, k)'
      BY DEF CommandInv, CallsOK, IssueCallOK, Registered, Awaited
    <3>2. \A n \in Node, k \in Slots : ReceiveCallOK(n, k)'
      BY Zenon DEF CommandInv, CallsOK, ReceiveCallOK
    <3>3. QED
      BY <3>1, <3>2, Zenon DEF CallsOK
  <2>3. EntriesOK' /\ AcksOK'
    BY Zenon DEF CommandInv, EntriesOK, AcksOK
  <2>4. DocsOK'
    BY Zenon DEF CommandInv, DocsOK, Registered, Awaited
  <2>5. OnceOK'
    BY DEF CommandInv, OnceOK, Once, ToExecute, At
  <2>6. QED
    BY <2>1, <2>2, <2>3, <2>4, <2>5, Zenon DEF CommandInv
<1>3. QED
  BY <1>1, <1>2, Zenon

(* Coordinators start with empty maps. *)
LEMMA CommandInvInitially == Init => CommandInv
<1> SUFFICES ASSUME Init PROVE CommandInv
  OBVIOUS
<1> USE DEF Init
<1>1. TypeOK /\ CountsOK
  BY DEF TypeOK, CountsOK
<1>2. CallsOK
  BY Zenon DEF CallsOK, IssueCallOK, ReceiveCallOK
<1>3. EntriesOK /\ DocsOK /\ AcksOK
  BY DEF EntriesOK, DocsOK, AcksOK
<1>4. OnceOK
  BY DEF OnceOK, Once, ToExecute, At
<1>5. QED
  BY <1>1, <1>2, <1>3, <1>4, Zenon DEF CommandInv

(* The invariant implies what the run checks. *)
LEMMA CommandInvSuffices == CommandInv => ExecutionIsTracked
<1> SUFFICES ASSUME CommandInv PROVE ExecutionIsTracked
  OBVIOUS
<1>0. Leader \in Node /\ \A n \in Node : docs[n] \subseteq Command
  BY CommandAssumption, Zenon DEF CommandInv, TypeOK
<1>1. RoutedIsTracked
  <2> SUFFICES ASSUME NEW n \in Node, NEW c \in docs[n] \cap Own
               PROVE  Tracked(c)
    BY Zenon DEF RoutedIsTracked
  <2>1. /\ ShouldRoute(ResolveTarget(Leader, c)) /\ Registered(c) /\ c \in active_commands
        /\ command_status[Leader][c] # None /\ Awaited(c)
    BY Zenon DEF CommandInv, DocsOK
  <2>2. GetRoutingTargets(Leader, c) # {}
    BY <1>0, <2>1, Targets, Zenon
  <2>3. QED
    BY <2>1, <2>2, Zenon DEF CommandInv, EntriesOK, Tracked, Registered, Awaited
<1>2. AcksAreExpected
  <2> SUFFICES ASSUME NEW c \in Command, NEW n \in Node, <<c, n>> \in ack_docs
               PROVE  /\ executions[n][c] >= 1 /\ ResolveTarget(n, c) = Self
                      /\ n # Leader => n \in TargetIds(c)
                      /\ c \in Own => n \in ack_timeouts[c].expected
    BY Zenon DEF AcksAreExpected
  <2>1. /\ executions[n][c] >= 1 /\ ResolveTarget(n, c) = Self
        /\ n = Leader => c \in Above
        /\ n # Leader => n \in TargetIds(c) /\ c \in docs[n]
        /\ c.acknowledge
    BY Zenon DEF CommandInv, AcksOK
  <2>2. ASSUME c \in Own PROVE n \in ack_timeouts[c].expected
    <3>1. n # Leader /\ n \in TargetIds(c) /\ c \in docs[n]
      BY <2>1, <2>2, CommandAssumption, Zenon
    <3>2. ShouldRoute(ResolveTarget(Leader, c))
      BY <3>1, Zenon DEF CommandInv, DocsOK
    <3>3. n \in GetRoutingTargets(Leader, c)
      BY <3>1, <3>2, Targets, Zenon
    <3>4. Tracked(c)
      BY <1>1, <2>2, <3>1, Zenon DEF RoutedIsTracked
    <3>5. QED
      BY <2>1, <3>3, <3>4, Zenon DEF Tracked
  <2>3. QED
    BY <2>1, <2>2, Zenon
<1>3. ExecutedOncePerRun
  BY Zenon DEF CommandInv, OnceOK, Once, ExecutedOncePerRun
<1>4. QED
  BY <1>1, <1>2, <1>3, Zenon DEF CommandInv, ExecutionIsTracked

(***************************************************************************)
(* Whatever calls, documents, acknowledgments and restarts interleave:     *)
(* before a node sees the document of a command that issue_command took,   *)
(* the leader has it in its conflict index, its active commands and a      *)
(* status and waits for every node it goes to; an acknowledgment comes     *)
(* from a node the command is for, after that node executed it, and the    *)
(* leader waits for it; a member executes a command once per run.          *)
(***************************************************************************)
THEOREM ExecutionIsTrackedHolds == Spec => []ExecutionIsTracked
<1>1. Spec => []CommandInv
  BY CommandInvInitially, CommandInvKept, PTL DEF Spec
<1>2. QED
  BY <1>1, CommandInvSuffices, PTL
=============================================================================
