------------------------- MODULE CommandCoordinator -------------------------
EXTENDS Naturals, Sequences, FiniteSets, Functions

(***************************************************************************)
(* Who a hierarchical command is for, and which of several commands on one *)
(* target wins: peat-protocol/src/command/routing.rs and                   *)
(* conflict_resolver.rs.  A command is a record of                         *)
(*   id, scope, target_ids (distinct ids), conflict_policy, priority,      *)
(*   issued_at, originator, acknowledge, expires                           *)
(* where originator is the prefix of the originator's id that the          *)
(* authority is derived from, acknowledge says whether the acknowledgment  *)
(* policy asks for an answer, and expires whether expires_at is set.       *)
(***************************************************************************)

CONSTANTS
    Node,
    Leader,     \* the node that knows the members of the cell
    Cell,       \* the id of the cell
    None

(* CommandRouter: only the leader has cell_members; the coordinator gives
   no cohort id to its router. *)
CellMembers(n) == IF n = Leader THEN Node \ {Leader} ELSE {}

TargetIds(c) == Range(c.target_ids)

Resolution(kind, nodes) == [kind |-> kind, nodes |-> nodes]
NotApplicable == Resolution("NotApplicable", {})
Self == Resolution("Self", {})

WholeCell(n) ==
    IF CellMembers(n) # {} THEN Resolution("AllCellMembers", CellMembers(n))
                           ELSE Self

Individuals(n, c) ==
    LET subordinates == CellMembers(n) \cap TargetIds(c) IN
    IF n \in TargetIds(c) THEN Self
    ELSE IF subordinates # {} THEN Resolution("Subordinates", subordinates)
    ELSE NotApplicable

ResolveTarget(n, c) ==
    IF c.scope = "Individual" THEN Individuals(n, c)
    ELSE IF c.scope = "Broadcast" \/ (c.scope = "Cell" /\ Cell \in TargetIds(c))
    THEN WholeCell(n)
    ELSE NotApplicable

ShouldRoute(resolution) ==
    resolution.kind \in {"Subordinates", "AllCellMembers"}

GetRoutingTargets(n, c) == ResolveTarget(n, c).nodes

-----------------------------------------------------------------------------
(* ConflictResolver *)

DeriveAuthorityLevel(originator) ==
    CASE originator = "zone" -> 3
      [] originator \in {"cohort", "cell"} -> 2
      [] OTHER -> 1

(* What the policies that order commands compare. *)
Ordered == {"LastWriteWins", "HighestPriorityWins", "HighestAuthorityWins"}

Rank(c, policy) ==
    CASE policy = "LastWriteWins" -> c.issued_at
      [] policy = "HighestPriorityWins" -> c.priority
      [] policy = "HighestAuthorityWins" -> DeriveAuthorityLevel(c.originator)

(* The head of the list after a stable sort, highest rank first. *)
First(commands, policy) ==
    commands[CHOOSE i \in DOMAIN commands : \A j \in DOMAIN commands :
        \/ Rank(commands[i], policy) > Rank(commands[j], policy)
        \/ Rank(commands[i], policy) = Rank(commands[j], policy) /\ i <= j]

(* Variant: of equal commands the last one is taken. *)
ResolveTiesToNew(commands, policy) ==
    IF policy \in Ordered
    THEN First([i \in DOMAIN commands |-> commands[Len(commands) + 1 - i]], policy)
    ELSE IF policy = "MergeCompatible" THEN commands[1] ELSE None

(* The winner, or None for an error; at least two commands are given. *)
Resolve(commands, policy) ==
    IF policy \in Ordered THEN First(commands, policy)
    ELSE IF policy = "MergeCompatible" THEN commands[1] ELSE None

(* index[t] lists the registered commands on target t; those on the targets of
   c are collected in the order of its targets. *)
CheckConflict(index, c) ==
    LET collected[i \in 0..Len(c.target_ids)] ==
          IF i = 0 THEN <<>> ELSE collected[i - 1] \o index[c.target_ids[i]]
    IN collected[Len(c.target_ids)]

RegisterCommand(index, c) ==
    [t \in DOMAIN index |->
        IF t \in TargetIds(c) THEN Append(index[t], c) ELSE index[t]]

-----------------------------------------------------------------------------
(* The generic policy engine (peat-protocol/src/policy) as commands use it
   (command/policy_impl.rs): a command's conflict keys are its targets, and a
   policy looks at its attributes.  Commands of the model have no version. *)

AttributeValue(type, value) == [type |-> type, value |-> value]

AsFloat(attribute) ==
    IF attribute.type \in {"Int", "Uint", "Float"} THEN attribute.value ELSE 0

ConflictPolicyNumber ==
    [LastWriteWins |-> 1, HighestPriorityWins |-> 2, HighestAuthorityWins |-> 3,
     MergeCompatible |-> 4, Reject |-> 5]

Attributes(c) ==
    [priority |-> AttributeValue("Int", c.priority),
     originator_id |-> AttributeValue("String", c.originator),
     authority_level |-> AttributeValue("Int", DeriveAuthorityLevel(c.originator)),
     conflict_policy |-> AttributeValue("Int", ConflictPolicyNumber[c.conflict_policy]),
     acknowledgment_policy |-> AttributeValue("Int", IF c.acknowledge THEN 4 ELSE 1)]

(* An item with the attribute comes before one without it; Figure is what
   two items that have it are compared by. *)
Has(item, name) == name \in DOMAIN Attributes(item)
Figure(item, name) == AsFloat(Attributes(item)[name])

HighestAttributeWinsPolicy(items, name) ==
    items[CHOOSE i \in DOMAIN items : \A j \in DOMAIN items :
        \/ Has(items[i], name) /\ ~Has(items[j], name)
        \/ /\ Has(items[i], name) /\ Has(items[j], name)
           /\ Figure(items[i], name) > Figure(items[j], name)
        \/ /\ Has(items[i], name) <=> Has(items[j], name)
           /\ Has(items[i], name) => Figure(items[i], name) = Figure(items[j], name)
           /\ i <= j]

LowestAttributeWinsPolicy(items, name) ==
    items[CHOOSE i \in DOMAIN items : \A j \in DOMAIN items :
        \/ Has(items[i], name) /\ ~Has(items[j], name)
        \/ /\ Has(items[i], name) /\ Has(items[j], name)
           /\ Figure(items[i], name) < Figure(items[j], name)
        \/ /\ Has(items[i], name) <=> Has(items[j], name)
           /\ Has(items[i], name) => Figure(items[i], name) = Figure(items[j], name)
           /\ i <= j]

LastWriteWinsPolicy(items) ==
    items[CHOOSE i \in DOMAIN items : \A j \in DOMAIN items :
        \/ items[i].issued_at > items[j].issued_at
        \/ items[i].issued_at = items[j].issued_at /\ i <= j]

RejectConflictPolicy(items) == IF Len(items) = 1 THEN items[1] ELSE None

(* The first of the items of one id. *)
Distinct(items) ==
    LET kept[i \in 0..Len(items)] ==
          IF i = 0 THEN <<>>
          ELSE IF \E j \in 1..(i - 1) : items[j].id = items[i].id THEN kept[i - 1]
          ELSE Append(kept[i - 1], items[i])
    IN kept[Len(items)]


(* GenericConflictResolver; index[k] lists the active items with key k. *)
CheckItemConflict(index, item) ==
    LET collected[i \in 0..Len(item.target_ids)] ==
          IF i = 0 THEN <<>>
          ELSE Distinct(collected[i - 1] \o index[item.target_ids[i]])
    IN collected[Len(item.target_ids)]

RegisterItem(index, item) ==
    [k \in DOMAIN index |->
        IF k \in Range(item.target_ids) THEN Append(index[k], item) ELSE index[k]]

UnregisterItem(index, id) ==
    [k \in DOMAIN index |-> SelectSeq(index[k], LAMBDA item : item.id # id)]

GetAllActive(index) == UNION {Range(index[k]) : k \in DOMAIN index}

-----------------------------------------------------------------------------
(***************************************************************************)
(* Commands in one cell: peat-protocol/src/command/coordinator.rs and      *)
(* timeout_manager.rs on every node, and the command documents and their   *)
(* observer, peat-protocol/src/storage/automerge_command_storage.rs.       *)
(*                                                                         *)
(* The leader issues the commands of Own and receives those of Above from  *)
(* a higher tier.  Several calls of one coordinator run at once; every     *)
(* lock and every storage call is a step.  Documents spread between the    *)
(* nodes, and each member's observer calls receive_command for every       *)
(* command document that names the node.                                   *)
(***************************************************************************)

CONSTANTS
    Own, Above,
    MaxCalls,       \* bound: calls of one coordinator at once
    MaxIssues,      \* bound: commands given to the leader
    MaxRestarts     \* bound: no restarts once a member had so many

Command == Own \cup Above
Target == Node \cup {Cell}

ASSUME CommandAssumption ==
    /\ Leader \in Node
    /\ Own \cap Above = {}
    /\ \A c, d \in Command : c.id = d.id => c = d
    /\ \A c \in Command : TargetIds(c) \subseteq Target
    /\ None \notin {"Pending", "Executing", "Completed"}

VARIABLES
    target_commands,    \* the leader's conflict index
    expiring_commands,  \* commands the leader tracks for expiration
    active_commands,    \* commands the leader stored
    ack_timeouts,       \* acknowledgments the leader waits for
    command_status,     \* command_status[n][c]
    acknowledgments,    \* acknowledgments[n]: commands n acknowledged itself
    calls,              \* calls[n][k]: the k-th call in progress
    status_lock,        \* status_lock[n]: the call that holds it across an await
    docs,               \* docs[n]: command documents n's store has
    ack_docs,           \* acknowledgment documents: <<command, node>>
    seen_commands,      \* seen_commands[n]: what n's observer has passed on
    issues,
    restarts,
    executions,         \* executions[n][c]: number of times n executed c
    overlapped          \* pairs of commands whose issue calls overlapped

leader_vars == <<target_commands, expiring_commands, active_commands,
                 ack_timeouts>>
storage == <<docs, ack_docs, seen_commands>>
bounds == <<issues, restarts>>
history == <<executions, overlapped>>
vars == <<leader_vars, command_status, acknowledgments, calls, status_lock,
          storage, bounds, history>>

Slots == 1..MaxCalls
IssueSteps == {"expire", "register", "activate", "status", "timeout"}
ReceiveSteps == {"execute", "executing", "publish_ack", "cache_ack",
                 "record_ack"}
Call == [step : IssueSteps \cup ReceiveSteps \cup {"route"}, command : Command]

TypeOK ==
    /\ target_commands \in [Target -> Seq(Own)]
    /\ expiring_commands \subseteq Own
    /\ active_commands \subseteq Own
    /\ DOMAIN ack_timeouts \subseteq Own
    /\ \A c \in DOMAIN ack_timeouts :
          ack_timeouts[c] \in [expected : SUBSET Node, received : SUBSET Node]
    /\ command_status \in
          [Node -> [Command -> {None, "Pending", "Executing", "Completed"}]]
    /\ acknowledgments \in [Node -> SUBSET Command]
    /\ calls \in [Node -> [Slots -> Call \cup {None}]]
    /\ status_lock \in [Node -> Slots \cup {None}]
    /\ docs \in [Node -> SUBSET Command]
    /\ ack_docs \subseteq Command \X Node
    /\ seen_commands \in [Node -> SUBSET Command]
    /\ executions \in [Node -> [Command -> Nat]]
    /\ overlapped \subseteq SUBSET Own

Init ==
    /\ target_commands = [t \in Target |-> <<>>]
    /\ expiring_commands = {}
    /\ active_commands = {}
    /\ ack_timeouts = <<>>
    /\ command_status = [n \in Node |-> [c \in Command |-> None]]
    /\ acknowledgments = [n \in Node |-> {}]
    /\ calls = [n \in Node |-> [k \in Slots |-> None]]
    /\ status_lock = [n \in Node |-> None]
    /\ docs = [n \in Node |-> {}]
    /\ ack_docs = {}
    /\ seen_commands = [n \in Node |-> {}]
    /\ issues = 0
    /\ restarts = [n \in Node |-> 0]
    /\ executions = [n \in Node |-> [c \in Command |-> 0]]
    /\ overlapped = {}

-----------------------------------------------------------------------------
(* Calls: a free slot takes a new one, and a call moves on or ends *)

At(n, k, step) == calls[n][k] # None /\ calls[n][k].step = step

Start(n, step, c) ==
    \E k \in Slots :
        /\ calls[n][k] = None
        /\ \A j \in 1..(k - 1) : calls[n][j] # None
        /\ calls' = [calls EXCEPT ![n][k] = [step |-> step, command |-> c]]

Goto(n, k, step) == calls' = [calls EXCEPT ![n][k].step = step]

End(n, k) == calls' = [calls EXCEPT ![n][k] = None]

-----------------------------------------------------------------------------
(* issue_command on the leader *)

Accepted(c) ==
    LET existing == CheckConflict(target_commands, c) IN
    existing = <<>> \/ Resolve(Append(existing, c), c.conflict_policy) = c

(* Issue calls that were checked but are not registered yet. *)
Unregistered ==
    {calls[Leader][k].command :
        k \in {j \in Slots : At(Leader, j, "expire") \/ At(Leader, j, "register")}}

(* A rejected command ends the call with an error. *)
Issue(c) ==
    /\ issues < MaxIssues
    /\ issues' = issues + 1
    /\ \/ /\ Accepted(c)
          /\ Start(Leader, "expire", c)
          /\ overlapped' = overlapped \cup {{c, d} : d \in Unregistered}
       \/ /\ ~Accepted(c)
          /\ UNCHANGED <<calls, overlapped>>
    /\ UNCHANGED <<leader_vars, command_status, acknowledgments, status_lock,
                   storage, restarts,
                   executions>>

RegisterExpiration(n, k) ==
    LET c == calls[n][k].command IN
    /\ At(n, k, "expire")
    /\ expiring_commands' = IF c.expires THEN expiring_commands \cup {c}
                                         ELSE expiring_commands
    /\ Goto(n, k, "register")
    /\ UNCHANGED <<target_commands, active_commands, ack_timeouts,
                   command_status, acknowledgments, status_lock, storage,
                   bounds, history>>

Register(n, k) ==
    /\ At(n, k, "register")
    /\ target_commands' = RegisterCommand(target_commands, calls[n][k].command)
    /\ Goto(n, k, "activate")
    /\ UNCHANGED <<expiring_commands, active_commands, ack_timeouts,
                   command_status, acknowledgments, status_lock, storage,
                   bounds, history>>

Activate(n, k) ==
    /\ At(n, k, "activate")
    /\ active_commands' = active_commands \cup {calls[n][k].command}
    /\ Goto(n, k, "status")
    /\ UNCHANGED <<target_commands, expiring_commands, ack_timeouts,
                   command_status, acknowledgments, status_lock, storage,
                   bounds, history>>

(* Variant: the command is routed before its acknowledgments are awaited. *)
CreateStatusAndRoute(n, k) ==
    /\ At(n, k, "status")
    /\ status_lock[n] = None
    /\ command_status' = [command_status EXCEPT
                            ![n][calls[n][k].command] = "Pending"]
    /\ Goto(n, k, "route")
    /\ UNCHANGED <<leader_vars, acknowledgments, status_lock, storage, bounds,
                   history>>

CreateStatus(n, k) ==
    /\ At(n, k, "status")
    /\ status_lock[n] = None
    /\ command_status' = [command_status EXCEPT
                            ![n][calls[n][k].command] = "Pending"]
    /\ Goto(n, k, "timeout")
    /\ UNCHANGED <<leader_vars, acknowledgments, status_lock, storage, bounds,
                   history>>

RegisterAckTimeout(n, k) ==
    LET c == calls[n][k].command
        targets == GetRoutingTargets(n, c)
    IN /\ At(n, k, "timeout")
       /\ ack_timeouts' =
            IF c.acknowledge /\ targets # {}
            THEN [d \in DOMAIN ack_timeouts \cup {c} |->
                    IF d = c THEN [expected |-> targets, received |-> {}]
                             ELSE ack_timeouts[d]]
            ELSE ack_timeouts
       /\ Goto(n, k, "route")
       /\ UNCHANGED <<target_commands, expiring_commands, active_commands,
                      command_status, acknowledgments, status_lock, storage,
                      bounds, history>>

(* route_command: the command is published when it has subordinate targets. *)
RouteCommand(n, k) ==
    LET c == calls[n][k].command IN
    /\ At(n, k, "route")
    /\ docs' = IF ShouldRoute(ResolveTarget(n, c))
               THEN [docs EXCEPT ![n] = @ \cup {c}] ELSE docs
    /\ End(n, k)
    /\ UNCHANGED <<leader_vars, command_status, acknowledgments, status_lock,
                   ack_docs, seen_commands, bounds, history>>

-----------------------------------------------------------------------------
(* receive_command, on any node *)

(* Variant: a command is acknowledged when it arrives. *)
ReceiveAcksFirst(n, c) ==
    \/ /\ ResolveTarget(n, c).kind = "Self"
       /\ Start(n, IF c.acknowledge THEN "publish_ack" ELSE "execute", c)
    \/ /\ ShouldRoute(ResolveTarget(n, c))
       /\ Start(n, "route", c)
    \/ /\ ResolveTarget(n, c) = NotApplicable
       /\ UNCHANGED calls

ReceiveCommand(n, c) ==
    \/ /\ ResolveTarget(n, c).kind = "Self"
       /\ Start(n, "execute", c)
    \/ /\ ShouldRoute(ResolveTarget(n, c))
       /\ Start(n, "route", c)
    \/ /\ ResolveTarget(n, c) = NotApplicable
       /\ UNCHANGED calls

(* The higher tier hands a command to the leader. *)
ReceiveFromAbove(c) ==
    /\ issues < MaxIssues
    /\ issues' = issues + 1
    /\ ReceiveCommand(Leader, c)
    /\ UNCHANGED <<leader_vars, command_status, acknowledgments, status_lock,
                   storage, restarts, history>>

(* execute_command holds the lock on command_status while it sleeps. *)
BeginExecution(n, k) ==
    LET c == calls[n][k].command IN
    /\ At(n, k, "execute")
    /\ status_lock[n] = None
    /\ status_lock' = [status_lock EXCEPT ![n] = k]
    /\ command_status' = [command_status EXCEPT ![n][c] = "Executing"]
    /\ executions' = [executions EXCEPT ![n][c] = @ + 1]
    /\ Goto(n, k, "executing")
    /\ UNCHANGED <<leader_vars, acknowledgments, storage, bounds, overlapped>>

CompleteExecution(n, k) ==
    LET c == calls[n][k].command IN
    /\ At(n, k, "executing")
    /\ status_lock' = [status_lock EXCEPT ![n] = None]
    /\ command_status' = [command_status EXCEPT ![n][c] = "Completed"]
    /\ IF c.acknowledge THEN Goto(n, k, "publish_ack") ELSE End(n, k)
    /\ UNCHANGED <<leader_vars, acknowledgments, storage, bounds, history>>

PublishAck(n, k) ==
    /\ At(n, k, "publish_ack")
    /\ ack_docs' = ack_docs \cup {<<calls[n][k].command, n>>}
    /\ Goto(n, k, "cache_ack")
    /\ UNCHANGED <<leader_vars, command_status, acknowledgments, status_lock,
                   docs, seen_commands, bounds, history>>

CacheAck(n, k) ==
    /\ At(n, k, "cache_ack")
    /\ acknowledgments' = [acknowledgments EXCEPT
                             ![n] = @ \cup {calls[n][k].command}]
    /\ Goto(n, k, "record_ack")
    /\ UNCHANGED <<leader_vars, command_status, status_lock, storage, bounds,
                   history>>

(* record_ack and, when nothing is missing, unregister_ack_timeout; a node
   without an entry for the command is told that acknowledgments miss. *)
RecordAck(n, k) ==
    LET c == calls[n][k].command
        received == ack_timeouts[c].received \cup {n}
    IN /\ At(n, k, "record_ack")
       /\ ack_timeouts' =
            IF n # Leader \/ c \notin DOMAIN ack_timeouts THEN ack_timeouts
            ELSE IF Cardinality(received) >= Cardinality(ack_timeouts[c].expected)
            THEN [d \in DOMAIN ack_timeouts \ {c} |-> ack_timeouts[d]]
            ELSE [ack_timeouts EXCEPT ![c].received = received]
       /\ End(n, k)
       /\ UNCHANGED <<target_commands, expiring_commands, active_commands,
                      command_status, acknowledgments, status_lock, storage,
                      bounds, history>>

-----------------------------------------------------------------------------
(* Command documents and their observers *)

(* A document reaches another store. *)
Sync(m, n) ==
    \E c \in docs[m] \ docs[n] :
        /\ docs' = [docs EXCEPT ![n] = @ \cup {c}]
        /\ UNCHANGED <<leader_vars, command_status, acknowledgments, calls,
                       status_lock, ack_docs, seen_commands, bounds, history>>

(* Variant: the observer does not record what it passed on. *)
ObserveForgets(n, c) ==
    /\ c \in docs[n] \ seen_commands[n]
    /\ n \in TargetIds(c)
    /\ ReceiveCommand(n, c)
    /\ UNCHANGED <<leader_vars, command_status, acknowledgments, status_lock,
                   docs, ack_docs, seen_commands, bounds, history>>

(* One document of a scan: the observer calls back for each unseen command
   that names the node among its targets. *)
Observe(n, c) ==
    /\ c \in docs[n] \ seen_commands[n]
    /\ n \in TargetIds(c)
    /\ seen_commands' = [seen_commands EXCEPT ![n] = @ \cup {c}]
    /\ ReceiveCommand(n, c)
    /\ UNCHANGED <<leader_vars, command_status, acknowledgments, status_lock,
                   docs, ack_docs, bounds, history>>

(* Variant: the new observer takes the documents it finds for old ones. *)
RestartSkips(n) ==
    /\ n # Leader
    /\ \A m \in Node : restarts[m] < MaxRestarts
    /\ restarts' = [restarts EXCEPT ![n] = @ + 1]
    /\ command_status' = [command_status EXCEPT ![n] = [c \in Command |-> None]]
    /\ acknowledgments' = [acknowledgments EXCEPT ![n] = {}]
    /\ calls' = [calls EXCEPT ![n] = [k \in Slots |-> None]]
    /\ status_lock' = [status_lock EXCEPT ![n] = None]
    /\ seen_commands' = [seen_commands EXCEPT ![n] = docs[n]]
    /\ UNCHANGED <<leader_vars, docs, ack_docs, issues, history>>

(* A member restarts: its stores remain, what it has in memory is lost, and
   its observer scans every document again. *)
Restart(n) ==
    /\ n # Leader
    /\ \A m \in Node : restarts[m] < MaxRestarts
    /\ restarts' = [restarts EXCEPT ![n] = @ + 1]
    /\ command_status' = [command_status EXCEPT ![n] = [c \in Command |-> None]]
    /\ acknowledgments' = [acknowledgments EXCEPT ![n] = {}]
    /\ calls' = [calls EXCEPT ![n] = [k \in Slots |-> None]]
    /\ status_lock' = [status_lock EXCEPT ![n] = None]
    /\ seen_commands' = [seen_commands EXCEPT ![n] = {}]
    /\ UNCHANGED <<leader_vars, docs, ack_docs, issues, history>>

CallStep(n, k) ==
    \/ RegisterExpiration(n, k) \/ Register(n, k) \/ Activate(n, k)
    \/ CreateStatus(n, k) \/ RegisterAckTimeout(n, k) \/ RouteCommand(n, k)
    \/ BeginExecution(n, k) \/ CompleteExecution(n, k)
    \/ PublishAck(n, k) \/ CacheAck(n, k) \/ RecordAck(n, k)

Next ==
    \/ \E c \in Own : Issue(c)
    \/ \E c \in Above : ReceiveFromAbove(c)
    \/ \E n \in Node, k \in Slots : CallStep(n, k)
    \/ \E m, n \in Node : Sync(m, n)
    \/ \E n \in Node, c \in Command : Observe(n, c)
    \/ \E n \in Node : Restart(n)

Spec == Init /\ [][Next]_vars

(* Started calls are driven to their end by the runtime, the stores keep
   synchronising and the observers keep polling. *)
FairSpec ==
    /\ Spec
    /\ \A n \in Node :
          /\ WF_vars(\E k \in Slots : CallStep(n, k))
          /\ WF_vars(\E m \in Node : Sync(m, n))
          /\ WF_vars(\E c \in Command : Observe(n, c))

-----------------------------------------------------------------------------
(* Properties *)

(* Of two commands on one target the later one won the conflict under its
   own policy when it was issued, or is issued again; only calls of
   issue_command that overlap escape the check. *)
WonItsConflicts ==
    \A t \in Target : \A j \in DOMAIN target_commands[t] : \A i \in 1..(j - 1) :
        LET a == target_commands[t][i]
            b == target_commands[t][j]
            again == \E h \in 1..(j - 1) : target_commands[t][h] = b
        IN \/ {a, b} \in overlapped
           \/ /\ b.conflict_policy \in Ordered
              /\ \/ Rank(b, b.conflict_policy) > Rank(a, b.conflict_policy)
                 \/ again /\ Rank(b, b.conflict_policy) = Rank(a, b.conflict_policy)
           \/ b.conflict_policy = "MergeCompatible" /\ again

(* The policy engine settles the conflicts of commands as the coordinator's
   own resolver does: it finds the same commands, each once whatever was issued
   again, and under each policy that both have the same one wins, though it
   compares attributes; unregistering a command takes it, and nothing else, out
   of every conflict, and it is active while it is in one (GenericConflictResolver
   and ConflictResolver).  The index changes only where a command is registered. *)
ResolversAgree ==
    (\E k \in Slots : At(Leader, k, "activate")) =>
    \A c \in Command :
        LET existing == CheckConflict(target_commands, c)
            items == CheckItemConflict(target_commands, c)
            all == Append(items, c)
        IN /\ Range(items) = Range(existing) /\ IsInjective(items)
           /\ RegisterItem(target_commands, c) = RegisterCommand(target_commands, c)
           /\ existing # <<>> =>
                /\ LastWriteWinsPolicy(all) = Resolve(Append(existing, c), "LastWriteWins")
                /\ HighestAttributeWinsPolicy(all, "priority")
                        = Resolve(Append(existing, c), "HighestPriorityWins")
                /\ HighestAttributeWinsPolicy(all, "authority_level")
                        = Resolve(Append(existing, c), "HighestAuthorityWins")
                /\ RejectConflictPolicy(all) = Resolve(Append(existing, c), "Reject")
                /\ LowestAttributeWinsPolicy(all, "priority").priority
                        <= HighestAttributeWinsPolicy(all, "priority").priority
           /\ \A d \in Command :
                LET rest == UnregisterItem(target_commands, d.id) IN
                /\ Range(CheckItemConflict(rest, c)) = Range(items) \ {d}
                /\ GetAllActive(rest) = GetAllActive(target_commands) \ {d}


(* The leader has the command in its conflict index, in its active commands
   and in a status, and waits for the acknowledgment of every node it goes to. *)
Tracked(c) ==
    /\ \A t \in TargetIds(c) : c \in Range(target_commands[t])
    /\ c \in active_commands
    /\ command_status[Leader][c] # None
    /\ c.acknowledge => /\ c \in DOMAIN ack_timeouts
                        /\ ack_timeouts[c].expected = GetRoutingTargets(Leader, c)

(* Before any node sees the document of a command the leader issued, the
   leader tracks it. *)
RoutedIsTracked == \A n \in Node : \A c \in docs[n] \cap Own : Tracked(c)

(* An acknowledgment that send_acknowledgment publishes comes from a node
   the command is for, after that node executed it; if the leader issued the
   command, it is one the leader waits for. *)
AcksAreExpected ==
    \A c \in Command, n \in Node : <<c, n>> \in ack_docs =>
        /\ executions[n][c] >= 1
        /\ ResolveTarget(n, c) = Self
        /\ n # Leader => n \in TargetIds(c)
        /\ c \in Own => n \in ack_timeouts[c].expected

(* A node executes a command once, and once more after each restart: its
   observer's seen_commands keeps the polls and repeated issues apart. *)
ExecutedOncePerRun ==
    \A n \in Node \ {Leader}, c \in Command : executions[n][c] <= 1 + restarts[n]

(* Every command out there is accounted for: before a node sees the document, the
   leader has it in its index, its active commands and a status, and waits for
   the acknowledgment of every node it goes to; a node executes it once, and once
   more after each restart; an acknowledgment comes from a node that executed it
   and that the leader waits for (issue_command, execute_command,
   send_acknowledgment). *)
ExecutionIsTracked == TypeOK /\ RoutedIsTracked /\ AcksAreExpected /\ ExecutedOncePerRun

(* In the end every member that a published command names has completed it
   and, if the policy asks for it, acknowledged it, whatever restarts. *)
RoutedIsExecuted ==
    <>[](\A n \in Node \ {Leader} : \A c \in docs[Leader] :
            n \in TargetIds(c) =>
                /\ command_status[n][c] = "Completed"
                /\ c.acknowledge => <<c, n>> \in ack_docs)

=============================================================================
