--------------------------- MODULE CellMessageBus ---------------------------
(***************************************************************************)
(* The intra-cell message bus, peat-protocol/src/cell/messaging.rs.  Every *)
(* node owns one bus; several tasks of the node may call publish, or       *)
(* deliver, at the same time.  The bus only queues and filters: the        *)
(* application drains the outbound queue, carries the messages over an     *)
(* unreliable medium (loss, duplication, reordering) and feeds what        *)
(* arrives into deliver.                                                   *)
(*                                                                         *)
(* A message is identified by its sender and sequence number.  Time is     *)
(* abstracted: a tracked message may be past its retry timeout whenever    *)
(* process_retransmissions runs, and a message may outlive its TTL at any  *)
(* moment after it was created.                                            *)
(***************************************************************************)
EXTENDS Naturals, Sequences, FiniteSets

CONSTANTS
    Node,           \* members of the cell
    Sender,         \* the members that publish
    MaxSeq,         \* bound: messages a node publishes
    MaxPublishers,  \* bound: tasks of one node inside publish at once
    MaxReceivers,   \* bound: tasks of one node inside deliver at once
    MaxRetries      \* max_retries of the bus (3 in the code)

ASSUME BusAssumption ==
    /\ Sender \subseteq Node
    /\ MaxSeq \in Nat \ {0}
    /\ MaxPublishers \in Nat \ {0}
    /\ MaxReceivers \in Nat \ {0}
    /\ MaxRetries \in Nat

VARIABLES
    next_seq,       \* next_seq[n]: next outbound sequence number
    publishing,     \* publishing[n]: numbers taken by publish calls that have
                    \* not yet reached the outbound queue
    outbound_queue, \* outbound_queue[n]: messages waiting to be transmitted
    tracked,        \* tracked[n]: seq -> [status, retry_count]
    received_seqs,  \* received_seqs[m][n]: highest seq of n accepted by m
    expired,        \* expired[n]: messages of n older than their TTL
    medium,         \* copies in flight, <<to, from, seq>>
    delivering,     \* delivering[m]: <<n, seq>> accepted by deliver calls of m
                    \* that have not yet reached the subscribers
    handled,        \* handled[m][n]: seqs of n given to m's subscribers
    copies          \* copies[n][s]: times message s left node n

vars == <<next_seq, publishing, outbound_queue, tracked, received_seqs,
          expired, medium, delivering, handled, copies>>

Seqs == 1..MaxSeq

(* MessagePriority: Low 0, Normal 1, High 2, Critical 3. *)
Priorities == 0..3

(* CellMessage::new gives every published message Normal priority. *)
NewMessage(s) == [seq |-> s, priority |-> 1]

(* Pushing to the back of a sorted queue and sorting it again, stably and
   highest priority first, puts the message behind all that are not lower. *)
PushSorted(q, msg) ==
    LET ahead == Cardinality({i \in DOMAIN q : q[i].priority >= msg.priority})
    IN  SubSeq(q, 1, ahead) \o <<msg>> \o SubSeq(q, ahead + 1, Len(q))

Queued(n) == {outbound_queue[n][i].seq : i \in DOMAIN outbound_queue[n]}

Statuses == {"Pending", "Delivered", "Acknowledged", "Failed"}
Tracking == [status : Statuses, retry_count : Nat]
NewTracking == [status |-> "Pending", retry_count |-> 0]

TypeOK ==
    /\ next_seq \in [Node -> 1..(MaxSeq + 1)]
    /\ publishing \in [Node -> SUBSET Seqs]
    /\ outbound_queue \in [Node -> Seq([seq : Seqs, priority : Priorities])]
    /\ DOMAIN tracked = Node
    /\ \A n \in Node : /\ DOMAIN tracked[n] \subseteq Seqs
                       /\ \A s \in DOMAIN tracked[n] : tracked[n][s] \in Tracking
    /\ received_seqs \in [Node -> [Node -> 0..MaxSeq]]
    /\ expired \in [Node -> SUBSET Seqs]
    /\ medium \subseteq Node \X Node \X Seqs
    /\ delivering \in [Node -> SUBSET (Node \X Seqs)]
    /\ handled \in [Node -> [Node -> Seq(Seqs)]]
    /\ copies \in [Node -> [Seqs -> Nat]]

(* Variant: sequence numbers start at 0. *)
InitFromZero ==
    /\ next_seq = [n \in Node |-> 0]
    /\ publishing = [n \in Node |-> {}]
    /\ outbound_queue = [n \in Node |-> <<>>]
    /\ tracked = [n \in Node |-> [s \in {} |-> NewTracking]]
    /\ received_seqs = [m \in Node |-> [n \in Node |-> 0]]
    /\ expired = [n \in Node |-> {}]
    /\ medium = {}
    /\ delivering = [m \in Node |-> {}]
    /\ handled = [m \in Node |-> [n \in Node |-> <<>>]]
    /\ copies = [n \in Node |-> [s \in Seqs |-> 0]]

Init ==
    /\ next_seq = [n \in Node |-> 1]
    /\ publishing = [n \in Node |-> {}]
    /\ outbound_queue = [n \in Node |-> <<>>]
    /\ tracked = [n \in Node |-> [s \in {} |-> NewTracking]]
    /\ received_seqs = [m \in Node |-> [n \in Node |-> 0]]
    /\ expired = [n \in Node |-> {}]
    /\ medium = {}
    /\ delivering = [m \in Node |-> {}]
    /\ handled = [m \in Node |-> [n \in Node |-> <<>>]]
    /\ copies = [n \in Node |-> [s \in Seqs |-> 0]]

(***************************************************************************)
(* publish, first critical section: take the next number and release the   *)
(* next_seq lock.                                                          *)
(***************************************************************************)
TakeSeq(n) ==
    /\ next_seq[n] <= MaxSeq
    /\ Cardinality(publishing[n]) < MaxPublishers
    /\ next_seq' = [next_seq EXCEPT ![n] = @ + 1]
    /\ publishing' = [publishing EXCEPT ![n] = @ \cup {next_seq[n]}]
    /\ UNCHANGED <<outbound_queue, tracked, received_seqs, expired, medium,
                   delivering, handled, copies>>

(***************************************************************************)
(* publish, second critical section: the queue lock is held until the      *)
(* message is tracked, so queueing, sorting and tracking are one step.     *)
(***************************************************************************)
Enqueue(n, s) ==
    /\ s \in publishing[n]
    /\ publishing' = [publishing EXCEPT ![n] = @ \ {s}]
    /\ outbound_queue' = [outbound_queue EXCEPT
                            ![n] = PushSorted(@, NewMessage(s))]
    /\ tracked' = [tracked EXCEPT ![n] =
                     [t \in DOMAIN @ \cup {s} |->
                        IF t = s THEN NewTracking ELSE @[t]]]
    /\ UNCHANGED <<next_seq, received_seqs, expired, medium, delivering,
                   handled, copies>>

(* The medium carries some of the copies handed to it and loses the rest. *)
Transmit(n, seqs) ==
    /\ copies' = [copies EXCEPT ![n] =
                    [s \in Seqs |-> IF s \in seqs THEN @[s] + 1 ELSE @[s]]]
    /\ \E arriving \in SUBSET ((Node \ {n}) \X {n} \X seqs) :
          medium' = medium \cup arriving

(* get_pending_messages drains the queue; the application transmits it. *)
GetPendingMessages(n) ==
    /\ outbound_queue[n] # <<>>
    /\ outbound_queue' = [outbound_queue EXCEPT ![n] = <<>>]
    /\ Transmit(n, Queued(n))
    /\ UNCHANGED <<next_seq, publishing, tracked, received_seqs, expired,
                   delivering, handled>>

(* Variant: the last accepted number itself passes. *)
IsDuplicateStrict(m, n, s) == s < received_seqs[m][n]

(* Variant: only the last accepted message counts as received. *)
IsDuplicateOfLast(m, n, s) == s = received_seqs[m][n]

(* deliver drops anything not above the last accepted number of the sender. *)
IsDuplicate(m, n, s) == s <= received_seqs[m][n]

(***************************************************************************)
(* deliver, up to the release of the received_seqs lock: expired messages  *)
(* and duplicates are dropped, otherwise the last accepted number moves.   *)
(* A copy may stay in the medium and arrive again.                         *)
(***************************************************************************)
Deliver(m, n, s) ==
    /\ <<m, n, s>> \in medium
    /\ Cardinality(delivering[m]) < MaxReceivers
    /\ \/ medium' = medium
       \/ medium' = medium \ {<<m, n, s>>}
    /\ \/ /\ s \in expired[n] \/ IsDuplicate(m, n, s)
          /\ UNCHANGED <<received_seqs, delivering>>
       \/ /\ s \notin expired[n]
          /\ ~IsDuplicate(m, n, s)
          /\ received_seqs' = [received_seqs EXCEPT ![m][n] = s]
          /\ delivering' = [delivering EXCEPT ![m] = @ \cup {<<n, s>>}]
    /\ UNCHANGED <<next_seq, publishing, outbound_queue, tracked, expired,
                   handled, copies>>

(* deliver, under the subscribers lock: every handler is called. *)
CallSubscribers(m, n, s) ==
    /\ <<n, s>> \in delivering[m]
    /\ delivering' = [delivering EXCEPT ![m] = @ \ {<<n, s>>}]
    /\ handled' = [handled EXCEPT ![m][n] = Append(@, s)]
    /\ UNCHANGED <<next_seq, publishing, outbound_queue, tracked, received_seqs,
                   expired, medium, copies>>

(* A message becomes older than its TTL; retransmissions keep its timestamp. *)
Expire(n, s) ==
    /\ s < next_seq[n]
    /\ s \notin expired[n]
    /\ expired' = [expired EXCEPT ![n] = @ \cup {s}]
    /\ UNCHANGED <<next_seq, publishing, outbound_queue, tracked, received_seqs,
                   medium, delivering, handled, copies>>

(***************************************************************************)
(* acknowledge, called by the application with the number of a message     *)
(* some receiver has handled; an unknown number is ignored.                *)
(***************************************************************************)
Acknowledge(n, s) ==
    /\ s \in DOMAIN tracked[n]
    /\ \E m \in Node : s \in {handled[m][n][i] : i \in DOMAIN handled[m][n]}
    /\ tracked[n][s].status # "Acknowledged"
    /\ tracked' = [tracked EXCEPT ![n][s].status = "Acknowledged"]
    /\ UNCHANGED <<next_seq, publishing, outbound_queue, received_seqs, expired,
                   medium, delivering, handled, copies>>

(* Variant: one attempt too many. *)
ExhaustedLate(n, s) == tracked[n][s].retry_count > MaxRetries

Exhausted(n, s) == tracked[n][s].retry_count >= MaxRetries

(* One message past its retry timeout: fail it or count one more attempt. *)
Retry(n, s) ==
    IF Exhausted(n, s)
    THEN [tracked[n][s] EXCEPT !.status = "Failed"]
    ELSE [status |-> "Delivered", retry_count |-> tracked[n][s].retry_count + 1]

(* Variant: messages given up stay in the table. *)
FinishedAcknowledged == {"Acknowledged"}

(* The states in which process_retransmissions forgets a message. *)
Finished == {"Acknowledged", "Failed"}

Waiting(n) == {s \in DOMAIN tracked[n] : tracked[n][s].status # "Acknowledged"}

(***************************************************************************)
(* process_retransmissions: the unacknowledged messages in due have        *)
(* reached the retry timeout; afterwards acknowledged and failed messages  *)
(* are forgotten.                                                          *)
(***************************************************************************)
ProcessRetransmissions(n, due) ==
    LET step == [s \in DOMAIN tracked[n] |->
                   IF s \in due THEN Retry(n, s) ELSE tracked[n][s]]
        keep == {s \in DOMAIN step :
                   step[s].status \notin Finished}
    IN  /\ tracked' = [tracked EXCEPT ![n] = [s \in keep |-> step[s]]]
        /\ Transmit(n, {s \in due : ~Exhausted(n, s)})
        /\ UNCHANGED <<next_seq, publishing, outbound_queue, received_seqs,
                       expired, delivering, handled>>

Next ==
    \E n \in Sender :
        \/ TakeSeq(n)
        \/ GetPendingMessages(n)
        \/ \E due \in SUBSET Waiting(n) : ProcessRetransmissions(n, due)
        \/ \E s \in Seqs : Enqueue(n, s) \/ Expire(n, s) \/ Acknowledge(n, s)
        \/ \E m \in Node, s \in Seqs : Deliver(m, n, s) \/ CallSubscribers(m, n, s)

Spec == Init /\ [][Next]_vars

(* The application calls process_retransmissions periodically, and a message
   nobody acknowledges does reach its retry timeout. *)
FairSpec ==
    Spec /\ \A n \in Sender : WF_vars(ProcessRetransmissions(n, Waiting(n)))

-----------------------------------------------------------------------------
(***************************************************************************)
(* deliver hands no message of a sender to the subscribers twice, whatever *)
(* the medium loses, repeats or reorders and however the calls of publish, *)
(* deliver and process_retransmissions overlap.                            *)
(***************************************************************************)
HandledOnce ==
    \A m, n \in Node : \A i, j \in DOMAIN handled[m][n] :
        i # j => handled[m][n][i] # handled[m][n][j]

(***************************************************************************)
(* "Message ordering via sequence numbers": the subscribers see the        *)
(* messages of one sender in the order of their sequence numbers.  It      *)
(* needs deliver calls that do not overlap: the received_seqs lock is      *)
(* released before the subscribers lock is taken.                          *)
(***************************************************************************)
HandledInOrder ==
    \A m, n \in Node : \A i, j \in DOMAIN handled[m][n] :
        i < j => handled[m][n][i] < handled[m][n][j]

(***************************************************************************)
(* Subscribers only see messages whose publish call has completed: a       *)
(* number still between the two critical sections of publish has not been  *)
(* handled anywhere.                                                       *)
(***************************************************************************)
HandledWasPublished ==
    \A m, n \in Node : \A i \in DOMAIN handled[m][n] :
        /\ handled[m][n][i] < next_seq[n]
        /\ handled[m][n][i] \notin publishing[n]

(***************************************************************************)
(* A message leaves its node at most 1 + max_retries times, counting the   *)
(* drain of the outbound queue and every retransmission.                   *)
(***************************************************************************)
CopiesBounded ==
    \A n \in Node, s \in Seqs : copies[n][s] <= 1 + MaxRetries

(***************************************************************************)
(* Every tracked message is eventually forgotten, acknowledged or failed:  *)
(* process_retransmissions cannot keep a message alive forever.            *)
(***************************************************************************)
TrackingEnds ==
    \A n \in Node, s \in Seqs :
        (s \in DOMAIN tracked[n]) ~> (s \notin DOMAIN tracked[n])

(* The bus seen by its users: how many numbers were handed out, and how far
   each receiver has read. *)
Abstract == INSTANCE CellBusAbstract
              WITH published <- [n \in Node |-> next_seq[n] - 1],
                   cursor <- received_seqs

(* The bus implements the skip-ahead streams of CellBusAbstract. *)
ImplementsAbstract == Abstract!Spec

=============================================================================
