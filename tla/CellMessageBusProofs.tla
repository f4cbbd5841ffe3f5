------------------------ MODULE CellMessageBusProofs ------------------------
(***************************************************************************)
(* Theorems about the intra-cell message bus for every set of nodes and    *)
(* every bound: ordered at-most-once delivery, the retransmission budget,  *)
(* and that the bus implements CellBusAbstract.                            *)
(***************************************************************************)
EXTENDS CellMessageBus, FiniteSetTheorems, SequenceTheorems, TLAPS

(* Message s of n has not reached the outbound queue: its number was not yet
   taken, or its publish call is between its two critical sections. *)
Unqueued(n, s) == s \in publishing[n] \/ s >= next_seq[n]

(* A publish call between its two critical sections holds a number that the
   counter has moved past. *)
PublishingWasTaken ==
    \A n \in Node : \A s \in publishing[n] : s < next_seq[n]

(***************************************************************************)
(* What deliver accepted is at most the last accepted number; a message on *)
(* its way to the subscribers has not been handled yet and, when deliver   *)
(* calls do not overlap, is behind everything handled so far.              *)
(***************************************************************************)
AcceptedBelowReceived ==
    /\ \A m, n \in Node : \A i \in DOMAIN handled[m][n] :
          handled[m][n][i] <= received_seqs[m][n]
    /\ \A m, n \in Node, s \in Seqs : <<n, s>> \in delivering[m] =>
          /\ s <= received_seqs[m][n]
          /\ \A i \in DOMAIN handled[m][n] : handled[m][n][i] # s
          /\ MaxReceivers = 1 =>
                \A i \in DOMAIN handled[m][n] : handled[m][n][i] < s

(* The deliver calls of a node are finitely many; alone, one at a time. *)
DeliveringBounded ==
    \A m \in Node :
        /\ IsFiniteSet(delivering[m])
        /\ MaxReceivers = 1 => \A x, y \in delivering[m] : x = y

ReceiverInv ==
    /\ HandledOnce
    /\ MaxReceivers = 1 => HandledInOrder
    /\ AcceptedBelowReceived
    /\ DeliveringBounded

(* Nothing is queued, tracked or transmitted before publish completes. *)
UnqueuedIsUnsent ==
    \A n \in Node, s \in Seqs : Unqueued(n, s) =>
        /\ s \notin Queued(n)
        /\ s \notin DOMAIN tracked[n]
        /\ copies[n][s] = 0

(* Copies in flight, and messages handled, have left their sender. *)
ArrivedWasSent ==
    /\ \A m, n \in Node, s \in Seqs : <<m, n, s>> \in medium => copies[n][s] > 0
    /\ \A m, n \in Node, s \in Seqs : <<n, s>> \in delivering[m] => copies[n][s] > 0
    /\ \A m, n \in Node : \A i \in DOMAIN handled[m][n] :
          copies[n][handled[m][n][i]] > 0

(* Attempts counted for a message: retries so far, or the whole budget once
   the message is no longer tracked. *)
Budget(n, s) == IF s \in DOMAIN tracked[n] THEN tracked[n][s].retry_count
                                           ELSE MaxRetries

(* The first transmission is still owed while the message is queued. *)
Account ==
    \A n \in Node, s \in Seqs :
        /\ Budget(n, s) <= MaxRetries
        /\ copies[n][s] <= 1 + Budget(n, s)
        /\ s \in Queued(n) => copies[n][s] <= Budget(n, s)

BusInv ==
    /\ TypeOK
    /\ ReceiverInv
    /\ PublishingWasTaken
    /\ UnqueuedIsUnsent
    /\ ArrivedWasSent
    /\ Account

-----------------------------------------------------------------------------
Message == [seq : Seqs, priority : Priorities]

(***************************************************************************)
(* Queueing a message neither loses nor invents one: the queue that        *)
(* publish leaves behind holds the old messages and the new one.           *)
(***************************************************************************)
LEMMA PushSortedRange ==
    ASSUME NEW q \in Seq(Message), NEW msg \in Message
    PROVE  /\ PushSorted(q, msg) \in Seq(Message)
           /\ \A s : (\E i \in DOMAIN PushSorted(q, msg) :
                         PushSorted(q, msg)[i].seq = s)
                    <=> (\E i \in DOMAIN q : q[i].seq = s) \/ s = msg.seq
<1> DEFINE A == {i \in DOMAIN q : q[i].priority >= msg.priority}
           k == Cardinality(A)
           front == SubSeq(q, 1, k)
           back == SubSeq(q, k + 1, Len(q))
           r == front \o <<msg>> \o back
<1>1. k \in 0..Len(q)
  <2>1. DOMAIN q = 1..Len(q) /\ Len(q) \in Nat
    OBVIOUS
  <2>2. IsFiniteSet(1..Len(q)) /\ Cardinality(1..Len(q)) = Len(q)
    <3> DEFINE N == Len(q)
    <3>1. N \in Nat /\ 1 \in Int /\ N \in Int
      BY <2>1
    <3> HIDE DEF N
    <3>2. IsFiniteSet(1..N) /\ Cardinality(1..N) = IF 1 > N THEN 0 ELSE N - 1 + 1
      BY <3>1, FS_Interval, Zenon
    <3>3. IsFiniteSet(1..N) /\ Cardinality(1..N) = N
      BY <3>1, <3>2
    <3> QED
      BY <3>3, Zenon DEF N
  <2>3. A \subseteq 1..Len(q)
    BY <2>1, Zenon
  <2>4. IsFiniteSet(A) /\ k <= Len(q)
    BY <2>2, <2>3, FS_Subset, Zenon
  <2> QED
    BY <2>1, <2>4, FS_CardinalityType
<1> HIDE DEF k
<1>2. /\ front \in Seq(Message) /\ Len(front) = k
      /\ \A i \in 1..k : front[i] = q[i]
  BY <1>1, SubSeqProperties
<1>3. /\ back \in Seq(Message) /\ Len(back) = Len(q) - k
      /\ \A i \in 1..(Len(q) - k) : back[i] = q[k + i]
  BY <1>1, SubSeqProperties
<1> HIDE DEF front, back
<1> DEFINE fm == front \o <<msg>>
<1>a. /\ fm \in Seq(Message) /\ Len(fm) = k + 1
      /\ \A i \in 1..k : fm[i] = front[i]
      /\ fm[k + 1] = msg
  BY <1>1, <1>2
<1> HIDE DEF fm
<1>b. /\ fm \o back \in Seq(Message) /\ Len(fm \o back) = Len(fm) + Len(back)
      /\ \A i \in 1..(Len(fm) + Len(back)) :
            (fm \o back)[i] = IF i <= Len(fm) THEN fm[i] ELSE back[i - Len(fm)]
  BY <1>a, <1>3, ConcatProperties, Zenon
<1>c. r = fm \o back
  BY Zenon DEF fm
<1>5. PushSorted(q, msg) = r
  BY Zenon DEF PushSorted, k, front, back
<1> HIDE DEF r
<1>4. /\ r \in Seq(Message) /\ Len(r) = Len(q) + 1
      /\ \A i \in 1..k : r[i] = q[i]
      /\ r[k + 1] = msg
      /\ \A i \in (k + 2)..(Len(q) + 1) : r[i] = q[i - 1]
  <2>0. Len(q) \in Nat
    OBVIOUS
  <2>1. r \in Seq(Message) /\ Len(r) = Len(q) + 1
    <3>1. Len(fm) + Len(back) = Len(q) + 1
      BY <2>0, <1>1, <1>a, <1>3
    <3> QED
      BY <3>1, <1>b, <1>c, Zenon
  <2>2. \A i \in 1..k : r[i] = q[i]
    BY <1>1, <1>2, <1>3, <1>a, <1>b, <1>c
  <2>3. r[k + 1] = msg
    BY <1>1, <1>3, <1>a, <1>b, <1>c
  <2>4. ASSUME NEW i \in (k + 2)..(Len(q) + 1)
        PROVE  r[i] = q[i - 1]
    <3>1. i \in 1..(Len(fm) + Len(back)) /\ ~(i <= Len(fm)) /\ Len(fm) = k + 1
      BY <1>1, <1>3, <1>a
    <3>2. r[i] = back[i - (k + 1)]
      BY <3>1, <1>b, <1>c, Zenon
    <3>3. i - (k + 1) \in 1..(Len(q) - k) /\ k + (i - (k + 1)) = i - 1
      BY <1>1
    <3> QED
      BY <3>2, <3>3, <1>3, Zenon
  <2> QED
    BY <2>1, <2>2, <2>3, <2>4, Zenon
<1>6. \A i \in 1..(Len(q) + 1) :
         r[i] = msg \/ \E j \in 1..Len(q) : r[i] = q[j]
  <2> SUFFICES ASSUME NEW i \in 1..(Len(q) + 1)
               PROVE  r[i] = msg \/ \E j \in 1..Len(q) : r[i] = q[j]
    BY Zenon
  <2>1. CASE i \in 1..k
    BY <2>1, <1>1, <1>4
  <2>2. CASE i = k + 1
    BY <2>2, <1>4, Zenon
  <2>3. CASE i \in (k + 2)..(Len(q) + 1)
    <3>1. i - 1 \in 1..Len(q)
      BY <2>3, <1>1
    <3> QED
      BY <2>3, <3>1, <1>4, Zenon
  <2> QED
    BY <2>1, <2>2, <2>3, <1>1
<1>7. \A j \in 1..Len(q) : \E i \in 1..(Len(q) + 1) : r[i] = q[j]
  <2> SUFFICES ASSUME NEW j \in 1..Len(q)
               PROVE  \E i \in 1..(Len(q) + 1) : r[i] = q[j]
    BY Zenon
  <2>1. CASE j <= k
    <3>1. j \in 1..k /\ j \in 1..(Len(q) + 1)
      BY <2>1, <1>1
    <3> QED
      BY <3>1, <1>4, Zenon
  <2>2. CASE j > k
    <3>1. j + 1 \in (k + 2)..(Len(q) + 1)
      BY <2>2, <1>1
    <3>2. r[j + 1] = q[j]
      BY <3>1, <1>4
    <3>3. j + 1 \in 1..(Len(q) + 1)
      BY <1>1
    <3> QED
      BY <3>2, <3>3, Zenon
  <2> QED
    BY <2>1, <2>2, <1>1
<1>8. k + 1 \in 1..(Len(q) + 1) /\ r[k + 1] = msg
  BY <1>1, <1>4
<1>9. \A s : (\E i \in DOMAIN r : r[i].seq = s)
                 <=> (\E i \in DOMAIN q : q[i].seq = s) \/ s = msg.seq
  <2>1. DOMAIN r = 1..(Len(q) + 1) /\ DOMAIN q = 1..Len(q)
    BY <1>4
  <2>2. ASSUME NEW i \in DOMAIN r
        PROVE  (\E j \in DOMAIN q : q[j].seq = r[i].seq) \/ r[i].seq = msg.seq
    BY <2>1, <1>6, Zenon
  <2>3. ASSUME NEW j \in DOMAIN q
        PROVE  \E i \in DOMAIN r : r[i].seq = q[j].seq
    BY <2>1, <1>7, Zenon
  <2>4. \E i \in DOMAIN r : r[i].seq = msg.seq
    BY <2>1, <1>8, Zenon
  <2> QED
    BY <2>2, <2>3, <2>4, Zenon
<1> QED
  BY <1>4, <1>5, <1>9

(* An empty bus satisfies the invariant. *)
LEMMA InitBusInv == Init => BusInv
<1> SUFFICES ASSUME Init PROVE BusInv
  BY Zenon
<1> USE BusAssumption
<1>1. TypeOK
  BY DEF Init, TypeOK, Seqs, Priorities, Tracking, Statuses
<1>2. ReceiverInv
  BY FS_EmptySet DEF Init, ReceiverInv, HandledOnce, HandledInOrder,
                     AcceptedBelowReceived, DeliveringBounded
<1>3. PublishingWasTaken /\ UnqueuedIsUnsent /\ ArrivedWasSent
  BY DEF Init, PublishingWasTaken, UnqueuedIsUnsent, ArrivedWasSent, Queued, Seqs
<1>4. Account
  BY DEF Init, Account, Budget, Queued, Seqs
<1> QED
  BY <1>1, <1>2, <1>3, <1>4, Zenon DEF BusInv

(* Steps that leave the receiving side alone keep what it was given. *)
LEMMA ReceiverUnchanged ==
    ASSUME ReceiverInv, UNCHANGED <<received_seqs, delivering, handled>>
    PROVE  ReceiverInv'
BY DEF ReceiverInv, HandledOnce, HandledInOrder, AcceptedBelowReceived,
       DeliveringBounded

(* What the medium does to the copy counts. *)
LEMMA TransmitCounts ==
    ASSUME TypeOK, NEW n \in Node, NEW seqs \in SUBSET Seqs, Transmit(n, seqs)
    PROVE  /\ copies' \in [Node -> [Seqs -> Nat]]
           /\ \A k \in Node, s \in Seqs :
                 copies'[k][s] = IF k = n /\ s \in seqs THEN copies[k][s] + 1
                                                        ELSE copies[k][s]
           /\ medium' \subseteq Node \X Node \X Seqs
           /\ \A m, k \in Node, s \in Seqs :
                 <<m, k, s>> \in medium' =>
                    <<m, k, s>> \in medium \/ (k = n /\ s \in seqs)
<1>1. /\ copies \in [Node -> [Seqs -> Nat]]
      /\ medium \subseteq Node \X Node \X Seqs
  BY Zenon DEF TypeOK
<1>2. copies' = [copies EXCEPT ![n] =
         [s \in Seqs |-> IF s \in seqs THEN copies[n][s] + 1 ELSE copies[n][s]]]
  BY Zenon DEF Transmit
<1>3. [s \in Seqs |-> IF s \in seqs THEN copies[n][s] + 1 ELSE copies[n][s]]
         \in [Seqs -> Nat]
  BY <1>1
<1>4. copies' \in [Node -> [Seqs -> Nat]]
  BY <1>1, <1>2, <1>3, Zenon
<1>5. \A k \in Node, s \in Seqs :
         copies'[k][s] = IF k = n /\ s \in seqs THEN copies[k][s] + 1
                                                ELSE copies[k][s]
  BY <1>1, <1>2, Zenon
<1>6. PICK arriving \in SUBSET ((Node \ {n}) \X {n} \X seqs) :
         medium' = medium \cup arriving
  BY Zenon DEF Transmit
<1>7. arriving \subseteq Node \X Node \X Seqs
  BY <1>6, Zenon
<1>8. \A m, k \in Node, s \in Seqs :
         <<m, k, s>> \in medium' =>
            <<m, k, s>> \in medium \/ (k = n /\ s \in seqs)
  BY <1>6, Zenon
<1> QED
  BY <1>1, <1>4, <1>5, <1>6, <1>7, <1>8, Zenon

(* fetch_add gives a number no message has. *)
LEMMA TakeSeqStep ==
    ASSUME BusInv, NEW n \in Node, TakeSeq(n)
    PROVE  BusInv'
<1> USE BusAssumption DEF BusInv
<1>0. next_seq[n] \in Seqs
  BY DEF TakeSeq, TypeOK, Seqs
<1>1. TypeOK'
  <2>1. next_seq' \in [Node -> 1..(MaxSeq + 1)]
    BY <1>0 DEF TakeSeq, TypeOK, Seqs
  <2>2. publishing' \in [Node -> SUBSET Seqs]
    BY <1>0, Zenon DEF TakeSeq, TypeOK
  <2> QED
    BY <2>1, <2>2, Zenon DEF TakeSeq, TypeOK
<1>7. PublishingWasTaken'
  <2> SUFFICES ASSUME NEW k \in Node, NEW s \in publishing'[k]
               PROVE  s < next_seq'[k]
    BY Zenon DEF PublishingWasTaken
  <2>1. /\ next_seq[k] \in 1..(MaxSeq + 1)
        /\ next_seq'[k] = IF k = n THEN next_seq[k] + 1 ELSE next_seq[k]
    BY Zenon DEF TakeSeq, TypeOK
  <2>3. s \in Seqs
    BY <1>1, Zenon DEF TypeOK
  <2>2. s \in publishing[k] \/ (k = n /\ s = next_seq[k])
    BY Zenon DEF TakeSeq, TypeOK
  <2> QED
    BY <2>1, <2>2, <2>3 DEF PublishingWasTaken, Seqs
<1>2. ReceiverInv'
  BY ReceiverUnchanged, Zenon DEF TakeSeq
<1>3. \A k \in Node, s \in Seqs : Unqueued(k, s)' => Unqueued(k, s)
  BY <1>0 DEF TakeSeq, TypeOK, Unqueued, Seqs
<1>4. UnqueuedIsUnsent'
  BY <1>3 DEF TakeSeq, UnqueuedIsUnsent, Queued
<1>5. ArrivedWasSent'
  BY Zenon DEF TakeSeq, ArrivedWasSent
<1>6. Account'
  BY Zenon DEF TakeSeq, Account, Budget, Queued
<1> QED
  BY <1>1, <1>2, <1>4, <1>5, <1>6, <1>7, Zenon

(* A message enters the queue under a number of its own. *)
LEMMA EnqueueStep ==
    ASSUME BusInv, NEW n \in Node, NEW t \in Seqs, Enqueue(n, t)
    PROVE  BusInv'
<1> USE BusAssumption DEF BusInv
<1>0. NewMessage(t) \in Message
  BY DEF NewMessage, Message, Priorities
<1>a. outbound_queue[n] \in Seq(Message)
  BY Zenon DEF TypeOK, Message
<1>b. /\ outbound_queue'[n] \in Seq(Message)
      /\ Queued(n)' = Queued(n) \cup {t}
      /\ \A k \in Node : k # n => outbound_queue'[k] = outbound_queue[k]
  <2>1. outbound_queue'[n] = PushSorted(outbound_queue[n], NewMessage(t))
    BY Zenon DEF Enqueue, TypeOK
  <2> DEFINE q == outbound_queue[n]
             p == PushSorted(q, NewMessage(t))
  <2>a. \A s : (\E i \in DOMAIN p : p[i].seq = s)
                 <=> (\E i \in DOMAIN q : q[i].seq = s) \/ s = NewMessage(t).seq
    <3> HIDE DEF q
    <3>1. q \in Seq(Message)
      BY <1>a, Zenon DEF q
    <3> QED
      BY <3>1, <1>0, PushSortedRange, Zenon DEF p
  <2> HIDE DEF p
  <2>2. \A s : (\E i \in DOMAIN outbound_queue'[n] : outbound_queue'[n][i].seq = s)
                 <=> \/ \E i \in DOMAIN outbound_queue[n] :
                           outbound_queue[n][i].seq = s
                     \/ s = NewMessage(t).seq
    BY <2>1, <2>a, Zenon DEF p
  <2>3. NewMessage(t).seq = t
    BY Zenon DEF NewMessage
  <2>4. Queued(n)' = Queued(n) \cup {t}
    <3>1. \A s : s \in Queued(n)' <=>
               \E i \in DOMAIN outbound_queue'[n] : outbound_queue'[n][i].seq = s
      BY Zenon DEF Queued
    <3>2. \A s : s \in Queued(n) <=>
               \E i \in DOMAIN outbound_queue[n] : outbound_queue[n][i].seq = s
      BY Zenon DEF Queued
    <3>3. \A s : s \in Queued(n)' <=> s \in Queued(n) \/ s = t
      BY <2>2, <2>3, <3>1, <3>2, Zenon
    <3> QED
      BY <3>3, Zenon
  <2>5. outbound_queue'[n] \in Seq(Message)
    <3>1. PushSorted(outbound_queue[n], NewMessage(t)) \in Seq(Message)
      <4> HIDE DEF q
      <4>1. q \in Seq(Message)
        BY <1>a, Zenon DEF q
      <4>2. PushSorted(q, NewMessage(t)) \in Seq(Message)
        BY <4>1, <1>0, PushSortedRange, Zenon
      <4> QED
        BY <4>2, Zenon DEF q
    <3> QED
      BY <2>1, <3>1, Zenon
  <2>6. \A k \in Node : k # n => outbound_queue'[k] = outbound_queue[k]
    BY Zenon DEF Enqueue, TypeOK
  <2> QED
    BY <2>4, <2>5, <2>6, Zenon
<1>c. \A k \in Node : k # n => Queued(k)' = Queued(k)
  BY <1>b, Zenon DEF Queued
<1>d. /\ DOMAIN tracked' = Node
      /\ \A k \in Node : k # n => tracked'[k] = tracked[k]
      /\ DOMAIN tracked'[n] = DOMAIN tracked[n] \cup {t}
      /\ tracked'[n][t] = NewTracking
      /\ \A s \in DOMAIN tracked[n] : s # t => tracked'[n][s] = tracked[n][s]
  BY Zenon DEF Enqueue, TypeOK
<1>e. t \notin DOMAIN tracked[n] /\ copies[n][t] = 0
  BY Zenon DEF Enqueue, UnqueuedIsUnsent, Unqueued
<1>1. TypeOK'
  <2>1. /\ next_seq' \in [Node -> 1..(MaxSeq + 1)]
        /\ publishing' \in [Node -> SUBSET Seqs]
        /\ received_seqs' \in [Node -> [Node -> 0..MaxSeq]]
        /\ expired' \in [Node -> SUBSET Seqs]
        /\ medium' \subseteq Node \X Node \X Seqs
        /\ delivering' \in [Node -> SUBSET (Node \X Seqs)]
        /\ handled' \in [Node -> [Node -> Seq(Seqs)]]
        /\ copies' \in [Node -> [Seqs -> Nat]]
    BY Zenon DEF Enqueue, TypeOK
  <2>2. outbound_queue' \in [Node -> Seq(Message)]
    BY <1>b, Zenon DEF Enqueue, TypeOK, Message
  <2>3. NewTracking \in Tracking
    BY Zenon DEF NewTracking, Tracking, Statuses
  <2>4. \A k \in Node : /\ DOMAIN tracked'[k] \subseteq Seqs
                        /\ \A s \in DOMAIN tracked'[k] : tracked'[k][s] \in Tracking
    <3> SUFFICES ASSUME NEW k \in Node
                 PROVE  /\ DOMAIN tracked'[k] \subseteq Seqs
                        /\ \A s \in DOMAIN tracked'[k] : tracked'[k][s] \in Tracking
      BY Zenon
    <3>1. /\ DOMAIN tracked[k] \subseteq Seqs
          /\ \A s \in DOMAIN tracked[k] : tracked[k][s] \in Tracking
      BY Zenon DEF TypeOK
    <3>2. CASE k # n
      BY <3>1, <3>2, <1>d, Zenon
    <3>3. CASE k = n
      BY <3>1, <3>3, <1>d, <2>3, Zenon
    <3> QED
      BY <3>2, <3>3, Zenon
  <2> QED
    BY <2>1, <2>2, <2>4, <1>d, Zenon DEF TypeOK, Message
<1>2. ReceiverInv'
  BY ReceiverUnchanged, Zenon DEF Enqueue
<1>3. UnqueuedIsUnsent'
  <2> SUFFICES ASSUME NEW k \in Node, NEW s \in Seqs, Unqueued(k, s)'
               PROVE  /\ s \notin Queued(k)'
                      /\ s \notin DOMAIN tracked'[k]
                      /\ copies'[k][s] = 0
    BY Zenon DEF UnqueuedIsUnsent
  <2>1. Unqueued(k, s) /\ ~(k = n /\ s = t)
    <3>2. CASE k = n /\ s = t
      <4>1. t \notin publishing'[n]
        BY Zenon DEF Enqueue, TypeOK
      <4>2. t < next_seq[n]
        BY Zenon DEF Enqueue, PublishingWasTaken
      <4> QED
        BY <3>2, <4>1, <4>2 DEF Enqueue, Unqueued, TypeOK, Seqs
    <3> QED
      BY <3>2, Zenon DEF Enqueue, Unqueued, TypeOK
  <2> QED
    BY <2>1, <1>b, <1>c, <1>d DEF UnqueuedIsUnsent, Enqueue
<1>4. ArrivedWasSent'
  BY Zenon DEF Enqueue, ArrivedWasSent
<1>5. Account'
  <2> SUFFICES ASSUME NEW k \in Node, NEW s \in Seqs
               PROVE  /\ Budget(k, s)' <= MaxRetries
                      /\ copies'[k][s] <= 1 + Budget(k, s)'
                      /\ s \in Queued(k)' => copies'[k][s] <= Budget(k, s)'
    BY Zenon DEF Account
  <2>0. copies' = copies
    BY Zenon DEF Enqueue
  <2>1. CASE k = n /\ s = t
    <3>1. Budget(k, s)' = 0
      BY <2>1, <1>d DEF Budget, NewTracking
    <3> QED
      BY <2>0, <2>1, <3>1, <1>e
  <2>2. CASE ~(k = n /\ s = t)
    <3>1. Budget(k, s)' = Budget(k, s)
      BY <2>2, <1>d, Zenon DEF Budget
    <3>2. s \in Queued(k)' <=> s \in Queued(k)
      BY <2>2, <1>b, <1>c, Zenon
    <3> QED
      BY <2>0, <3>1, <3>2, Zenon DEF Account
  <2> QED
    BY <2>1, <2>2, Zenon
<1>6. PublishingWasTaken'
  BY Zenon DEF Enqueue, PublishingWasTaken, TypeOK
<1> QED
  BY <1>1, <1>2, <1>3, <1>4, <1>5, <1>6, Zenon

(* Transmitting keeps the promise that what arrives was sent. *)
LEMMA ArrivedStaysSent ==
    ASSUME TypeOK, ArrivedWasSent, NEW n \in Node, NEW seqs \in SUBSET Seqs,
           Transmit(n, seqs), UNCHANGED <<delivering, handled>>
    PROVE  ArrivedWasSent'
<1>1. /\ \A k \in Node, s \in Seqs :
            copies'[k][s] = IF k = n /\ s \in seqs THEN copies[k][s] + 1
                                                   ELSE copies[k][s]
      /\ \A m, k \in Node, s \in Seqs :
            <<m, k, s>> \in medium' =>
               <<m, k, s>> \in medium \/ (k = n /\ s \in seqs)
  BY TransmitCounts, Zenon
<1>2. \A k \in Node, s \in Seqs : copies[k][s] \in Nat
  BY DEF TypeOK
<1>3. \A k \in Node, s \in Seqs : copies[k][s] > 0 => copies'[k][s] > 0
  BY <1>1, <1>2
<1>4. \A k \in Node, s \in Seqs : k = n /\ s \in seqs => copies'[k][s] > 0
  BY <1>1, <1>2
<1>5. \A m, k \in Node : \A i \in DOMAIN handled[m][k] : handled[m][k][i] \in Seqs
  <2> SUFFICES ASSUME NEW m \in Node, NEW k \in Node
               PROVE  \A i \in DOMAIN handled[m][k] : handled[m][k][i] \in Seqs
    BY Zenon
  <2>1. handled[m][k] \in Seq(Seqs)
    BY DEF TypeOK
  <2> QED
    BY <2>1
<1>6. \A m, k \in Node, s \in Seqs : <<m, k, s>> \in medium' => copies'[k][s] > 0
  BY <1>1, <1>3, <1>4, Zenon DEF ArrivedWasSent
<1>7. \A m, k \in Node : \A i \in DOMAIN handled'[m][k] :
         copies'[k][handled'[m][k][i]] > 0
  BY <1>3, <1>5, Zenon DEF ArrivedWasSent
<1>8. \A m, k \in Node, s \in Seqs :
         <<k, s>> \in delivering'[m] => copies'[k][s] > 0
  BY <1>3, Zenon DEF ArrivedWasSent
<1> QED
  BY <1>6, <1>7, <1>8, Zenon DEF ArrivedWasSent

(* get_pending_messages takes messages out of the queue. *)
LEMMA GetPendingStep ==
    ASSUME BusInv, NEW n \in Node, GetPendingMessages(n)
    PROVE  BusInv'
<1> USE BusAssumption DEF BusInv
<1>0. Queued(n) \in SUBSET Seqs
  <2>1. outbound_queue[n] \in Seq(Message)
    BY Zenon DEF TypeOK, Message
  <2>2. \A i \in DOMAIN outbound_queue[n] : outbound_queue[n][i] \in Message
    BY <2>1
  <2>3. \A i \in DOMAIN outbound_queue[n] : outbound_queue[n][i].seq \in Seqs
    BY <2>2, Zenon DEF Message
  <2> QED
    BY <2>3, Zenon DEF Queued
<1>a. Transmit(n, Queued(n))
  BY Zenon DEF GetPendingMessages
<1>b. /\ copies' \in [Node -> [Seqs -> Nat]]
      /\ \A k \in Node, s \in Seqs :
            copies'[k][s] = IF k = n /\ s \in Queued(n) THEN copies[k][s] + 1
                                                        ELSE copies[k][s]
      /\ medium' \subseteq Node \X Node \X Seqs
      /\ \A m, k \in Node, s \in Seqs :
            <<m, k, s>> \in medium' =>
               <<m, k, s>> \in medium \/ (k = n /\ s \in Queued(n))
  BY <1>0, <1>a, TransmitCounts, Zenon
<1>c. /\ Queued(n)' = {}
      /\ \A k \in Node : k # n => Queued(k)' = Queued(k)
  BY DEF GetPendingMessages, TypeOK, Queued
<1>d. \A k \in Node, s \in Seqs : copies[k][s] \in Nat /\ copies'[k][s] \in Nat
  BY <1>b DEF TypeOK
<1>1. TypeOK'
  <2>1. outbound_queue' \in [Node -> Seq([seq : Seqs, priority : Priorities])]
    <3> DEFINE Q == Seq([seq : Seqs, priority : Priorities])
    <3>1. <<>> \in Q
      OBVIOUS
    <3>2. outbound_queue \in [Node -> Q]
      BY Zenon DEF TypeOK
    <3> HIDE DEF Q
    <3>3. outbound_queue' \in [Node -> Q]
      BY <3>1, <3>2, Zenon DEF GetPendingMessages
    <3> QED
      BY <3>3, Zenon DEF Q
  <2> QED
    BY <2>1, <1>b, Zenon DEF GetPendingMessages, TypeOK
<1>2. ReceiverInv'
  BY ReceiverUnchanged, Zenon DEF GetPendingMessages
<1>3. PublishingWasTaken'
  BY Zenon DEF GetPendingMessages, PublishingWasTaken
<1>4. UnqueuedIsUnsent'
  <2> SUFFICES ASSUME NEW k \in Node, NEW s \in Seqs, Unqueued(k, s)'
               PROVE  /\ s \notin Queued(k)'
                      /\ s \notin DOMAIN tracked'[k]
                      /\ copies'[k][s] = 0
    BY Zenon DEF UnqueuedIsUnsent
  <2>1. Unqueued(k, s)
    BY Zenon DEF GetPendingMessages, Unqueued
  <2>2. s \notin Queued(k) /\ s \notin DOMAIN tracked[k] /\ copies[k][s] = 0
    BY <2>1, Zenon DEF UnqueuedIsUnsent
  <2> QED
    BY <2>2, <1>b, <1>c, Zenon DEF GetPendingMessages
<1>5. ArrivedWasSent'
  BY <1>0, <1>a, ArrivedStaysSent, Zenon DEF GetPendingMessages
<1>6. Account'
  <2> SUFFICES ASSUME NEW k \in Node, NEW s \in Seqs
               PROVE  /\ Budget(k, s)' <= MaxRetries
                      /\ copies'[k][s] <= 1 + Budget(k, s)'
                      /\ s \in Queued(k)' => copies'[k][s] <= Budget(k, s)'
    BY Zenon DEF Account
  <2>1. Budget(k, s)' = Budget(k, s) /\ Budget(k, s) \in Nat
    BY Zenon DEF GetPendingMessages, Budget, TypeOK, Tracking
  <2>2. /\ Budget(k, s) <= MaxRetries
        /\ copies[k][s] <= 1 + Budget(k, s)
        /\ s \in Queued(k) => copies[k][s] <= Budget(k, s)
    BY Zenon DEF Account
  <2>3. CASE k = n
    BY <2>1, <2>2, <2>3, <1>b, <1>c, <1>d
  <2>4. CASE k # n
    BY <2>1, <2>2, <2>4, <1>b, <1>c, <1>d, Zenon
  <2> QED
    BY <2>3, <2>4, Zenon
<1> QED
  BY <1>1, <1>2, <1>3, <1>4, <1>5, <1>6, Zenon

(***************************************************************************)
(* deliver accepts a number above everything accepted before, so the       *)
(* message is neither handled nor already on its way.                      *)
(***************************************************************************)
LEMMA DeliverStep ==
    ASSUME BusInv, NEW m \in Node, NEW n \in Node, NEW t \in Seqs, Deliver(m, n, t)
    PROVE  BusInv'
<1> USE BusAssumption DEF BusInv
<1>0. /\ medium' \subseteq medium
      /\ UNCHANGED <<next_seq, publishing, outbound_queue, tracked, expired,
                     handled, copies>>
      /\ copies[n][t] > 0
  BY Zenon DEF Deliver, ArrivedWasSent
<1>a. PublishingWasTaken' /\ UnqueuedIsUnsent' /\ Account'
  BY <1>0 DEF PublishingWasTaken, UnqueuedIsUnsent, Unqueued, Queued,
              Account, Budget
<1>1. CASE UNCHANGED <<received_seqs, delivering>>
  <2>1. TypeOK'
    BY <1>0, <1>1, Zenon DEF TypeOK
  <2>2. ReceiverInv'
    BY <1>0, <1>1, ReceiverUnchanged, Zenon
  <2>3. ArrivedWasSent'
    BY <1>0, <1>1, Zenon DEF ArrivedWasSent
  <2> QED
    BY <2>1, <2>2, <2>3, <1>a, Zenon
<1>2. CASE /\ ~IsDuplicate(m, n, t)
           /\ received_seqs' = [received_seqs EXCEPT ![m][n] = t]
           /\ delivering' = [delivering EXCEPT ![m] = @ \cup {<<n, t>>}]
  <2>b. /\ received_seqs[m][n] \in 0..MaxSeq
        /\ received_seqs'[m][n] = t
        /\ \A j, k \in Node : (j # m \/ k # n) =>
              received_seqs'[j][k] = received_seqs[j][k]
        /\ delivering'[m] = delivering[m] \cup {<<n, t>>}
        /\ \A j \in Node : j # m => delivering'[j] = delivering[j]
    BY <1>2 DEF TypeOK
  <2>c. t > received_seqs[m][n]
    BY <1>2, <2>b DEF IsDuplicate, Seqs
  <2>d. \A j, k \in Node : /\ handled[j][k] \in Seq(Seqs)
                           /\ received_seqs[j][k] \in Nat
                           /\ received_seqs'[j][k] \in Nat
                           /\ received_seqs[j][k] <= received_seqs'[j][k]
    <3>1. \A j, k \in Node : handled[j][k] \in Seq(Seqs)
      BY DEF TypeOK
    <3>2. \A j, k \in Node : received_seqs[j][k] \in 0..MaxSeq
      BY DEF TypeOK
    <3>3. \A j, k \in Node : /\ received_seqs'[j][k] \in Nat
                             /\ received_seqs[j][k] <= received_seqs'[j][k]
      BY <3>2, <2>b, <2>c DEF Seqs
    <3> QED
      BY <3>1, <3>2, <3>3
  <2>e. \A j, k \in Node : \A i \in DOMAIN handled[j][k] : handled[j][k][i] \in Seqs
    <3> SUFFICES ASSUME NEW j \in Node, NEW k \in Node
                 PROVE  \A i \in DOMAIN handled[j][k] : handled[j][k][i] \in Seqs
      BY Zenon
    <3>1. handled[j][k] \in Seq(Seqs)
      BY <2>d, Zenon
    <3> QED
      BY <3>1
  <2>1. TypeOK'
    <3>1. received_seqs' \in [Node -> [Node -> 0..MaxSeq]]
      <4>1. t \in 0..MaxSeq
        BY DEF Seqs
      <4>2. [received_seqs[m] EXCEPT ![n] = t] \in [Node -> 0..MaxSeq]
        BY <4>1, Zenon DEF TypeOK
      <4> QED
        BY <1>2, <4>2, Zenon DEF TypeOK
    <3>2. delivering' \in [Node -> SUBSET (Node \X Seqs)]
      <4>1. delivering \in [Node -> SUBSET (Node \X Seqs)]
        BY Zenon DEF TypeOK
      <4>2. delivering[m] \cup {<<n, t>>} \in SUBSET (Node \X Seqs)
        BY <4>1
      <4> QED
        BY <1>2, <4>1, <4>2, Zenon
    <3> QED
      BY <1>0, <1>2, <3>1, <3>2, Zenon DEF TypeOK
  <2>2. AcceptedBelowReceived'
    <3>1. \A j, k \in Node : \A i \in DOMAIN handled'[j][k] :
             handled'[j][k][i] <= received_seqs'[j][k]
      <4> SUFFICES ASSUME NEW j \in Node, NEW k \in Node,
                          NEW i \in DOMAIN handled[j][k]
                   PROVE  handled[j][k][i] <= received_seqs'[j][k]
        BY <1>0, Zenon
      <4>1. handled[j][k][i] <= received_seqs[j][k]
        BY Zenon DEF ReceiverInv, AcceptedBelowReceived
      <4>2. handled[j][k][i] \in Seqs
        BY <2>e, Zenon
      <4>3. /\ received_seqs[j][k] \in Nat
            /\ received_seqs'[j][k] \in Nat
            /\ received_seqs[j][k] <= received_seqs'[j][k]
        BY <2>d, Zenon
      <4> QED
        BY <4>1, <4>2, <4>3 DEF Seqs
    <3>2. ASSUME NEW j \in Node, NEW k \in Node, NEW s \in Seqs,
                 <<k, s>> \in delivering'[j]
          PROVE  /\ s <= received_seqs'[j][k]
                 /\ \A i \in DOMAIN handled'[j][k] : handled'[j][k][i] # s
                 /\ MaxReceivers = 1 =>
                       \A i \in DOMAIN handled'[j][k] : handled'[j][k][i] < s
      <4>1. CASE <<k, s>> \in delivering[j]
        <5>1. s <= received_seqs[j][k]
          BY <4>1, Zenon DEF ReceiverInv, AcceptedBelowReceived
        <5>2. s <= received_seqs'[j][k]
          <6>1. /\ s \in Nat
                /\ received_seqs[j][k] \in Nat
                /\ received_seqs'[j][k] \in Nat
                /\ received_seqs[j][k] <= received_seqs'[j][k]
            BY <2>d DEF Seqs
          <6> QED
            BY <5>1, <6>1
        <5> QED
          BY <4>1, <5>2, <1>0, Zenon DEF ReceiverInv, AcceptedBelowReceived
      <4>2. CASE j = m /\ k = n /\ s = t
        <5>1. \A i \in DOMAIN handled[m][n] : handled[m][n][i] < t
          <6> SUFFICES ASSUME NEW i \in DOMAIN handled[m][n]
                       PROVE  handled[m][n][i] < t
            BY Zenon
          <6>1. handled[m][n][i] <= received_seqs[m][n]
            BY Zenon DEF ReceiverInv, AcceptedBelowReceived
          <6>2. handled[m][n][i] \in Seqs
            BY <2>e, Zenon
          <6> QED
            BY <6>1, <6>2, <2>b, <2>c DEF Seqs
        <5>2. \A i \in DOMAIN handled[m][n] : handled[m][n][i] # t
          BY <5>1, <2>e DEF Seqs
        <5> QED
          BY <4>2, <5>1, <5>2, <1>0, <2>b DEF Seqs
      <4> QED
        BY <3>2, <4>1, <4>2, <2>b
    <3> QED
      BY <3>1, <3>2, Zenon DEF AcceptedBelowReceived
  <2>3. DeliveringBounded'
    <3> SUFFICES ASSUME NEW j \in Node
                 PROVE  /\ IsFiniteSet(delivering'[j])
                        /\ MaxReceivers = 1 => \A x, y \in delivering'[j] : x = y
      BY Zenon DEF DeliveringBounded
    <3>1. IsFiniteSet(delivering[j])
      BY Zenon DEF ReceiverInv, DeliveringBounded
    <3>2. CASE j # m
      BY <3>2, <2>b, Zenon DEF ReceiverInv, DeliveringBounded
    <3>3. CASE j = m
      <4>1. IsFiniteSet(delivering'[m])
        <5>1. IsFiniteSet(delivering[m])
          BY <3>1, <3>3, Zenon
        <5>2. IsFiniteSet(delivering[m] \cup {<<n, t>>})
          BY <5>1, FS_AddElement, Zenon
        <5> QED
          BY <5>2, <2>b, Zenon
      <4>2. ASSUME MaxReceivers = 1 PROVE delivering[m] = {}
        <5>1. Cardinality(delivering[m]) < 1
          BY <4>2, Zenon DEF Deliver
        <5>2. Cardinality(delivering[m]) \in Nat
          BY <3>1, <3>3, FS_CardinalityType, Zenon
        <5>3. Cardinality(delivering[m]) = 0
          BY <5>1, <5>2
        <5> QED
          BY <5>3, <3>1, <3>3, FS_EmptySet, Zenon
      <4> QED
        BY <3>3, <4>1, <4>2, <2>b, Zenon
    <3> QED
      BY <3>2, <3>3, Zenon
  <2>4. HandledOnce' /\ (MaxReceivers = 1 => HandledInOrder')
    BY <1>0 DEF ReceiverInv, HandledOnce, HandledInOrder
  <2>5. ArrivedWasSent'
    <3>1. \A j, k \in Node, s \in Seqs : <<k, s>> \in delivering'[j] => copies'[k][s] > 0
      BY <1>0, <2>b DEF ArrivedWasSent
    <3> QED
      BY <1>0, <3>1, Zenon DEF ArrivedWasSent
  <2> QED
    BY <2>1, <2>2, <2>3, <2>4, <2>5, <1>a, Zenon DEF ReceiverInv
<1> QED
  BY <1>1, <1>2, Zenon DEF Deliver

(* deliver calls the subscribers for a message it took. *)
LEMMA CallSubscribersStep ==
    ASSUME BusInv, NEW m \in Node, NEW n \in Node, NEW t \in Seqs,
           CallSubscribers(m, n, t)
    PROVE  BusInv'
<1> USE BusAssumption DEF BusInv
<1>0. /\ <<n, t>> \in delivering[m]
      /\ UNCHANGED <<next_seq, publishing, outbound_queue, tracked, received_seqs,
                     expired, medium, copies>>
  BY Zenon DEF CallSubscribers
<1>a. handled[m][n] \in Seq(Seqs) /\ received_seqs[m][n] \in 0..MaxSeq
  BY DEF TypeOK
<1>b. /\ handled'[m][n] = Append(handled[m][n], t)
      /\ \A j, k \in Node : (j # m \/ k # n) => handled'[j][k] = handled[j][k]
      /\ delivering'[m] = delivering[m] \ {<<n, t>>}
      /\ \A j \in Node : j # m => delivering'[j] = delivering[j]
  BY Zenon DEF CallSubscribers, TypeOK
<1>c. /\ t <= received_seqs[m][n]
      /\ \A i \in DOMAIN handled[m][n] : handled[m][n][i] # t
      /\ MaxReceivers = 1 => \A i \in DOMAIN handled[m][n] : handled[m][n][i] < t
      /\ copies[n][t] > 0
  BY <1>0, Zenon DEF ReceiverInv, AcceptedBelowReceived, ArrivedWasSent
<1>d. /\ DOMAIN handled'[m][n] = 1..(Len(handled[m][n]) + 1)
      /\ DOMAIN handled[m][n] = 1..Len(handled[m][n])
      /\ \A i \in 1..Len(handled[m][n]) : handled'[m][n][i] = handled[m][n][i]
      /\ handled'[m][n][Len(handled[m][n]) + 1] = t
      /\ Len(handled[m][n]) \in Nat
  BY <1>a, <1>b
<1>e. \A i \in DOMAIN handled'[m][n] :
         \/ i \in DOMAIN handled[m][n] /\ handled'[m][n][i] = handled[m][n][i]
         \/ i = Len(handled[m][n]) + 1 /\ handled'[m][n][i] = t
  <2>1. \A i \in DOMAIN handled'[m][n] :
           i \in 1..Len(handled[m][n]) \/ i = Len(handled[m][n]) + 1
    BY <1>d
  <2> QED
    BY <2>1, <1>d, Zenon
<1>1. TypeOK'
  <2>1. delivering' \in [Node -> SUBSET (Node \X Seqs)]
    BY Zenon DEF CallSubscribers, TypeOK
  <2>2. handled' \in [Node -> [Node -> Seq(Seqs)]]
    <3> DEFINE S == Seq(Seqs)
    <3>1. handled \in [Node -> [Node -> S]]
      BY Zenon DEF TypeOK
    <3>2. Append(handled[m][n], t) \in S
      BY <1>a
    <3> HIDE DEF S
    <3>3. [handled[m] EXCEPT ![n] = Append(handled[m][n], t)] \in [Node -> S]
      BY <3>1, <3>2, Zenon
    <3>4. handled' = [handled EXCEPT ![m] =
                        [handled[m] EXCEPT ![n] = Append(handled[m][n], t)]]
      BY Zenon DEF CallSubscribers
    <3>5. handled' \in [Node -> [Node -> S]]
      BY <3>1, <3>3, <3>4, Zenon
    <3> QED
      BY <3>5, Zenon DEF S
  <2> QED
    BY <1>0, <2>1, <2>2, Zenon DEF TypeOK
<1>2. AcceptedBelowReceived'
  <2>1. ASSUME NEW j \in Node, NEW k \in Node, NEW i \in DOMAIN handled'[j][k]
        PROVE  handled'[j][k][i] <= received_seqs'[j][k]
    <3>1. CASE j # m \/ k # n
      BY <3>1, <1>0, <1>b DEF ReceiverInv, AcceptedBelowReceived
    <3>2. CASE j = m /\ k = n
      BY <3>2, <1>0, <1>c, <1>e, Zenon DEF ReceiverInv, AcceptedBelowReceived
    <3> QED
      BY <3>1, <3>2, Zenon
  <2>2. ASSUME NEW j \in Node, NEW k \in Node, NEW s \in Seqs,
               <<k, s>> \in delivering'[j]
        PROVE  /\ s <= received_seqs'[j][k]
               /\ \A i \in DOMAIN handled'[j][k] : handled'[j][k][i] # s
               /\ MaxReceivers = 1 =>
                     \A i \in DOMAIN handled'[j][k] : handled'[j][k][i] < s
    <3>1. <<k, s>> \in delivering[j] /\ ~(j = m /\ k = n /\ s = t)
      BY <2>2, <1>b, Zenon
    <3>2. /\ s <= received_seqs[j][k]
          /\ \A i \in DOMAIN handled[j][k] : handled[j][k][i] # s
          /\ MaxReceivers = 1 => \A i \in DOMAIN handled[j][k] : handled[j][k][i] < s
      BY <3>1, Zenon DEF ReceiverInv, AcceptedBelowReceived
    <3>3. CASE j # m \/ k # n
      BY <3>2, <3>3, <1>0, <1>b, Zenon
    <3>4. CASE j = m /\ k = n
      <4>1. s # t
        BY <3>1, <3>4, Zenon
      <4>2. MaxReceivers # 1
        <5>1. <<n, s>> # <<n, t>> /\ <<n, s>> \in delivering[m]
          BY <3>1, <3>4, <4>1, Zenon
        <5> QED
          BY <5>1, <1>0, Zenon DEF ReceiverInv, DeliveringBounded
      <4>3. \A i \in DOMAIN handled'[m][n] : handled'[m][n][i] # s
        BY <3>2, <3>4, <4>1, <1>e, Zenon
      <4> QED
        BY <3>2, <3>4, <4>2, <4>3, <1>0, Zenon
    <3> QED
      BY <3>3, <3>4, Zenon
  <2> QED
    BY <2>1, <2>2, Zenon DEF AcceptedBelowReceived
<1>3. DeliveringBounded'
  <2>1. \A j \in Node : delivering'[j] \subseteq delivering[j]
    BY <1>b, Zenon
  <2> QED
    BY <2>1, FS_Subset, Zenon DEF ReceiverInv, DeliveringBounded
<1>4. HandledOnce'
  <2> SUFFICES ASSUME NEW j \in Node, NEW k \in Node,
                      NEW h \in DOMAIN handled'[j][k],
                      NEW i \in DOMAIN handled'[j][k], h # i
               PROVE  handled'[j][k][h] # handled'[j][k][i]
    BY Zenon DEF HandledOnce
  <2>1. CASE j # m \/ k # n
    BY <2>1, <1>b DEF ReceiverInv, HandledOnce
  <2>2. CASE j = m /\ k = n
    BY <2>2, <1>c, <1>e DEF ReceiverInv, HandledOnce
  <2> QED
    BY <2>1, <2>2, Zenon
<1>5. ASSUME MaxReceivers = 1 PROVE HandledInOrder'
  <2> SUFFICES ASSUME NEW j \in Node, NEW k \in Node,
                      NEW h \in DOMAIN handled'[j][k],
                      NEW i \in DOMAIN handled'[j][k], h < i
               PROVE  handled'[j][k][h] < handled'[j][k][i]
    BY Zenon DEF HandledInOrder
  <2>1. CASE j # m \/ k # n
    <3>1. handled'[j][k] = handled[j][k]
      BY <2>1, <1>b, Zenon
    <3> QED
      BY <3>1, <1>5 DEF ReceiverInv, HandledInOrder
  <2>2. CASE j = m /\ k = n
    <3>1. h \in DOMAIN handled[m][n] /\ handled'[m][n][h] = handled[m][n][h]
      <4>1. h \in 1..(Len(handled[m][n]) + 1) /\ i \in 1..(Len(handled[m][n]) + 1)
        BY <2>2, <1>d, Zenon
      <4>2. h \in 1..Len(handled[m][n])
        BY <4>1, <1>d
      <4> QED
        BY <4>2, <1>d, Zenon
    <3>2. CASE i \in DOMAIN handled[m][n] /\ handled'[m][n][i] = handled[m][n][i]
      BY <2>2, <3>1, <3>2, <1>5, Zenon DEF ReceiverInv, HandledInOrder
    <3>3. CASE handled'[m][n][i] = t
      BY <2>2, <3>1, <3>3, <1>5, <1>c, Zenon
    <3> QED
      BY <2>2, <3>2, <3>3, <1>e, Zenon
  <2> QED
    BY <2>1, <2>2, Zenon
<1>6. ArrivedWasSent'
  <2>1. ASSUME NEW j \in Node, NEW k \in Node, NEW i \in DOMAIN handled'[j][k]
        PROVE  copies'[k][handled'[j][k][i]] > 0
    <3>1. CASE j # m \/ k # n
      BY <3>1, <1>0, <1>b DEF ArrivedWasSent
    <3>2. CASE j = m /\ k = n
      BY <3>2, <1>0, <1>c, <1>e, Zenon DEF ArrivedWasSent
    <3> QED
      BY <3>1, <3>2, Zenon
  <2>2. \A j, k \in Node, s \in Seqs : <<k, s>> \in delivering'[j] => copies'[k][s] > 0
    BY <1>0, <1>b, Zenon DEF ArrivedWasSent
  <2> QED
    BY <2>1, <2>2, <1>0, Zenon DEF ArrivedWasSent
<1>7. PublishingWasTaken' /\ UnqueuedIsUnsent' /\ Account'
  BY <1>0 DEF PublishingWasTaken, UnqueuedIsUnsent, Unqueued, Queued,
              Account, Budget
<1> QED
  BY <1>1, <1>2, <1>3, <1>4, <1>5, <1>6, <1>7, Zenon DEF ReceiverInv

(* The invariant reads only the type of expired and does not mention time. *)
LEMMA RestUnchanged ==
    ASSUME BusInv, expired' \in [Node -> SUBSET Seqs],
           UNCHANGED <<next_seq, publishing, outbound_queue, tracked,
                       received_seqs, medium, delivering, handled, copies>>
    PROVE  BusInv'
<1>1. TypeOK'
  BY Zenon DEF BusInv, TypeOK
<1>2. ReceiverInv'
  BY ReceiverUnchanged, Zenon DEF BusInv
<1>3. PublishingWasTaken' /\ UnqueuedIsUnsent' /\ ArrivedWasSent'
  BY DEF BusInv, PublishingWasTaken, UnqueuedIsUnsent, Unqueued, Queued,
         ArrivedWasSent
<1>4. Account'
  BY Zenon DEF BusInv, Account, Budget, Queued
<1> QED
  BY <1>1, <1>2, <1>3, <1>4, Zenon DEF BusInv

(* cleanup_expired drops a message nobody waits for. *)
LEMMA ExpireStep ==
    ASSUME BusInv, NEW n \in Node, NEW t \in Seqs, Expire(n, t)
    PROVE  BusInv'
<1>1. expired' \in [Node -> SUBSET Seqs]
  BY Zenon DEF Expire, BusInv, TypeOK
<1>2. UNCHANGED <<next_seq, publishing, outbound_queue, tracked, received_seqs,
                  medium, delivering, handled, copies>>
  BY Zenon DEF Expire
<1> QED
  BY <1>1, <1>2, RestUnchanged, Zenon

(* acknowledge removes a message from the pending ones. *)
LEMMA AcknowledgeStep ==
    ASSUME BusInv, NEW n \in Node, NEW t \in Seqs, Acknowledge(n, t)
    PROVE  BusInv'
<1> USE DEF BusInv
<1>0. UNCHANGED <<next_seq, publishing, outbound_queue, received_seqs, expired,
                  medium, delivering, handled, copies>>
  BY Zenon DEF Acknowledge
<1>1. /\ DOMAIN tracked' = Node
      /\ \A k \in Node : k # n => tracked'[k] = tracked[k]
      /\ DOMAIN tracked'[n] = DOMAIN tracked[n]
      /\ \A s \in DOMAIN tracked[n] : s # t => tracked'[n][s] = tracked[n][s]
      /\ t \in DOMAIN tracked[n]
      /\ tracked'[n][t] = [tracked[n][t] EXCEPT !.status = "Acknowledged"]
  BY Zenon DEF Acknowledge, TypeOK
<1>2. /\ tracked'[n][t] \in Tracking
      /\ tracked'[n][t].retry_count = tracked[n][t].retry_count
  <2>1. tracked[n][t] \in [status : Statuses, retry_count : Nat]
    BY <1>1, Zenon DEF TypeOK, Tracking
  <2> QED
    BY <2>1, <1>1 DEF Tracking, Statuses
<1>3. \A k \in Node : DOMAIN tracked'[k] = DOMAIN tracked[k]
  BY <1>1, Zenon
<1>4. \A k \in Node, s \in Seqs : Budget(k, s)' = Budget(k, s)
  BY <1>1, <1>2, Zenon DEF Budget
<1>5. \A k \in Node : /\ DOMAIN tracked'[k] \subseteq Seqs
                      /\ \A s \in DOMAIN tracked'[k] : tracked'[k][s] \in Tracking
  BY <1>1, <1>2, Zenon DEF TypeOK
<1>6. TypeOK'
  BY <1>0, <1>1, <1>5, Zenon DEF TypeOK
<1>7. ReceiverInv'
  BY <1>0, ReceiverUnchanged, Zenon
<1>8. PublishingWasTaken' /\ UnqueuedIsUnsent' /\ ArrivedWasSent'
  BY <1>0, <1>3 DEF PublishingWasTaken, UnqueuedIsUnsent, Unqueued, Queued,
                    ArrivedWasSent
<1>9. Account'
  BY <1>0, <1>4, Zenon DEF Account, Queued
<1> QED
  BY <1>6, <1>7, <1>8, <1>9, Zenon

(***************************************************************************)
(* A retransmission costs one unit of the message's budget; a message that *)
(* is forgotten keeps the whole budget on its account.                     *)
(***************************************************************************)
LEMMA ProcessRetransmissionsStep ==
    ASSUME BusInv, NEW n \in Node, NEW due \in SUBSET Waiting(n),
           ProcessRetransmissions(n, due)
    PROVE  BusInv'
<1> USE BusAssumption DEF BusInv
<1> DEFINE sent == {s \in due : ~Exhausted(n, s)}
           step == [s \in DOMAIN tracked[n] |->
                      IF s \in due THEN Retry(n, s) ELSE tracked[n][s]]
<1>0. UNCHANGED <<next_seq, publishing, outbound_queue, received_seqs, expired,
                  delivering, handled>>
  BY Zenon DEF ProcessRetransmissions
<1>a. /\ DOMAIN tracked[n] \subseteq Seqs
      /\ due \subseteq DOMAIN tracked[n]
      /\ sent \in SUBSET Seqs
      /\ Transmit(n, sent)
  BY Zenon DEF ProcessRetransmissions, Finished, TypeOK, Waiting
<1>b. /\ copies' \in [Node -> [Seqs -> Nat]]
      /\ \A k \in Node, s \in Seqs :
            copies'[k][s] = IF k = n /\ s \in sent THEN copies[k][s] + 1
                                                   ELSE copies[k][s]
      /\ medium' \subseteq Node \X Node \X Seqs
  BY <1>a, TransmitCounts
<1>c. /\ DOMAIN tracked' = Node
      /\ \A k \in Node : k # n => tracked'[k] = tracked[k]
      /\ DOMAIN tracked'[n] \subseteq DOMAIN tracked[n]
      /\ \A s \in DOMAIN tracked'[n] : tracked'[n][s] = step[s]
  BY Zenon DEF ProcessRetransmissions, Finished, TypeOK
<1>d. ASSUME NEW s \in DOMAIN tracked'[n]
      PROVE  /\ s \in DOMAIN tracked[n]
             /\ tracked'[n][s] = IF s \in due THEN Retry(n, s) ELSE tracked[n][s]
             /\ tracked'[n][s].status # "Failed"
  <2>1. s \in DOMAIN tracked[n] /\ tracked'[n][s] = step[s]
    BY <1>c, Zenon
  <2>2. step[s].status \notin {"Acknowledged", "Failed"}
    BY Zenon DEF ProcessRetransmissions, Finished, TypeOK
  <2> QED
    BY <2>1, <2>2, Zenon
<1>e. ASSUME NEW s \in DOMAIN tracked'[n]
      PROVE  /\ tracked'[n][s] \in Tracking
             /\ s \in due => ~Exhausted(n, s)
             /\ tracked'[n][s].retry_count =
                   IF s \in due THEN tracked[n][s].retry_count + 1
                                ELSE tracked[n][s].retry_count
  <2>1. tracked[n][s] \in Tracking
    BY <1>d, Zenon DEF TypeOK
  <2>2. CASE s \notin due
    BY <2>1, <2>2, <1>d, Zenon
  <2>3. CASE s \in due
    <3>1. tracked'[n][s] = Retry(n, s) /\ tracked'[n][s].status # "Failed"
      BY <2>3, <1>d, Zenon
    <3>2. ~Exhausted(n, s)
      <4>1. CASE Exhausted(n, s)
        <5>1. Retry(n, s).status = "Failed"
          BY <4>1, <2>1, Zenon DEF Retry, Tracking
        <5> QED
          BY <3>1, <5>1, Zenon
      <4> QED
        BY <4>1, Zenon
    <3>3. tracked'[n][s] = [status |-> "Delivered",
                            retry_count |-> tracked[n][s].retry_count + 1]
      BY <3>1, <3>2, Zenon DEF Retry
    <3> QED
      BY <2>1, <2>3, <3>2, <3>3 DEF Tracking, Statuses
  <2> QED
    BY <2>2, <2>3, Zenon
<1>1. TypeOK'
  <2>1. \A k \in Node : /\ DOMAIN tracked'[k] \subseteq Seqs
                        /\ \A s \in DOMAIN tracked'[k] : tracked'[k][s] \in Tracking
    BY <1>c, <1>e, Zenon DEF TypeOK
  <2> QED
    BY <2>1, <1>0, <1>b, <1>c, Zenon DEF TypeOK
<1>2. ReceiverInv'
  BY <1>0, ReceiverUnchanged, Zenon
<1>3. PublishingWasTaken'
  BY <1>0, Zenon DEF PublishingWasTaken
<1>4. UnqueuedIsUnsent'
  <2> SUFFICES ASSUME NEW k \in Node, NEW s \in Seqs, Unqueued(k, s)'
               PROVE  /\ s \notin Queued(k)'
                      /\ s \notin DOMAIN tracked'[k]
                      /\ copies'[k][s] = 0
    BY Zenon DEF UnqueuedIsUnsent
  <2>1. s \notin Queued(k) /\ s \notin DOMAIN tracked[k] /\ copies[k][s] = 0
    BY <1>0, Zenon DEF UnqueuedIsUnsent, Unqueued
  <2>2. ~(k = n /\ s \in sent)
    BY <2>1, <1>a, Zenon
  <2> QED
    BY <2>1, <2>2, <1>0, <1>b, <1>c DEF Queued
<1>5. ArrivedWasSent'
  BY <1>0, <1>a, ArrivedStaysSent, Zenon
<1>6. Account'
  <2> SUFFICES ASSUME NEW k \in Node, NEW s \in Seqs
               PROVE  /\ Budget(k, s)' <= MaxRetries
                      /\ copies'[k][s] <= 1 + Budget(k, s)'
                      /\ s \in Queued(k)' => copies'[k][s] <= Budget(k, s)'
    BY Zenon DEF Account
  <2>1. /\ Budget(k, s) <= MaxRetries
        /\ copies[k][s] <= 1 + Budget(k, s)
        /\ s \in Queued(k) => copies[k][s] <= Budget(k, s)
        /\ copies[k][s] \in Nat
        /\ Budget(k, s) \in Nat
    BY DEF Account, Budget, TypeOK, Tracking
  <2>2. Queued(k)' = Queued(k)
    BY <1>0, Zenon DEF Queued
  <2>3. CASE k # n
    <3>1. Budget(k, s)' = Budget(k, s) /\ copies'[k][s] = copies[k][s]
      BY <2>3, <1>b, <1>c, Zenon DEF Budget
    <3> QED
      BY <2>1, <2>2, <3>1, Zenon
  <2>4. CASE k = n /\ s \in DOMAIN tracked'[n]
    <3>0. s \in DOMAIN tracked[n] /\ tracked[n][s].retry_count \in Nat
      BY <2>4, <1>d, Zenon DEF TypeOK, Tracking
    <3>1. Budget(k, s) = tracked[n][s].retry_count
      BY <2>4, <3>0, Zenon DEF Budget
    <3>2. Budget(k, s)' = tracked'[n][s].retry_count
      BY <2>4, Zenon DEF Budget
    <3>3. CASE s \in due
      <4>1. ~Exhausted(n, s) /\ Budget(k, s)' = Budget(k, s) + 1
        BY <2>4, <3>1, <3>2, <3>3, <1>e, Zenon
      <4>2. copies'[k][s] = copies[k][s] + 1
        BY <2>4, <3>3, <4>1, <1>b, Zenon
      <4>3. Budget(k, s) < MaxRetries
        BY <3>0, <3>1, <4>1 DEF Exhausted
      <4>4. /\ Budget(k, s)' <= MaxRetries
            /\ copies'[k][s] <= 1 + Budget(k, s)'
        BY <2>1, <4>1, <4>2, <4>3
      <4>5. s \in Queued(k)' => copies'[k][s] <= Budget(k, s)'
        BY <2>1, <2>2, <4>1, <4>2
      <4> QED
        BY <4>4, <4>5, Zenon
    <3>4. CASE s \notin due
      <4>1. Budget(k, s)' = Budget(k, s) /\ copies'[k][s] = copies[k][s]
        BY <2>4, <3>1, <3>2, <3>4, <1>b, <1>e
      <4> QED
        BY <2>1, <2>2, <4>1, Zenon
    <3> QED
      BY <3>3, <3>4, Zenon
  <2>5. CASE k = n /\ s \notin DOMAIN tracked'[n]
    <3>1. Budget(k, s)' = MaxRetries
      BY <2>5, Zenon DEF Budget
    <3>2. CASE s \in sent
      <4>1. s \in due /\ s \in DOMAIN tracked[n] /\ ~Exhausted(n, s)
        BY <3>2, <1>a, Zenon
      <4>2. step[s].status = "Delivered"
        BY <4>1, Zenon DEF Retry
      <4>3. s \in DOMAIN tracked'[n]
        BY <4>1, <4>2, Zenon DEF ProcessRetransmissions, Finished, TypeOK
      <4> QED
        BY <2>5, <4>3, Zenon
    <3>3. CASE s \notin sent
      <4>1. copies'[k][s] = copies[k][s]
        BY <3>3, <1>b, Zenon
      <4> QED
        BY <2>1, <2>2, <3>1, <4>1
    <3> QED
      BY <3>2, <3>3, Zenon
  <2> QED
    BY <2>3, <2>4, <2>5, Zenon
<1> QED
  BY <1>1, <1>2, <1>3, <1>4, <1>5, <1>6, Zenon

-----------------------------------------------------------------------------
(* Every step keeps the invariant of the bus. *)
LEMMA NextBusInv == BusInv /\ [Next]_vars => BusInv'
<1> SUFFICES ASSUME BusInv, [Next]_vars PROVE BusInv'
  BY Zenon
<1>1. CASE UNCHANGED vars
  <2>1. expired' \in [Node -> SUBSET Seqs]
    BY <1>1, Zenon DEF vars, BusInv, TypeOK
  <2> QED
    BY <1>1, <2>1, RestUnchanged, Zenon DEF vars
<1>2. CASE Next
  <2>1. PICK n \in Sender :
          \/ TakeSeq(n)
          \/ GetPendingMessages(n)
          \/ \E due \in SUBSET Waiting(n) : ProcessRetransmissions(n, due)
          \/ \E s \in Seqs : Enqueue(n, s) \/ Expire(n, s) \/ Acknowledge(n, s)
          \/ \E m \in Node, s \in Seqs : Deliver(m, n, s) \/ CallSubscribers(m, n, s)
    BY <1>2, Zenon DEF Next
  <2>2. n \in Node
    BY BusAssumption, Zenon
  <2> QED
    BY <2>1, <2>2, TakeSeqStep, EnqueueStep, GetPendingStep, DeliverStep,
       CallSubscribersStep, ExpireStep, AcknowledgeStep, ProcessRetransmissionsStep, Zenon
<1> QED
  BY <1>1, <1>2, Zenon

(* The invariant of the bus holds throughout. *)
THEOREM BusInvariant == Spec => []BusInv
BY InitBusInv, NextBusInv, PTL DEF Spec

(* Type correctness of the bus. *)
THEOREM BusTypeCorrect == Spec => []TypeOK
BY BusInvariant, PTL DEF BusInv

(***************************************************************************)
(* deliver never gives a subscriber a message twice, for any number of     *)
(* nodes, messages and overlapping calls.                                  *)
(***************************************************************************)
THEOREM AtMostOnce == Spec => []HandledOnce
BY BusInvariant, PTL DEF BusInv, ReceiverInv

(***************************************************************************)
(* When a node runs one deliver call at a time, its subscribers see the    *)
(* messages of every sender in the order of their numbers.                 *)
(***************************************************************************)
THEOREM OrderedWhenSerial ==
    ASSUME MaxReceivers = 1
    PROVE  Spec => []HandledInOrder
<1>1. BusInv => HandledInOrder
  BY Zenon DEF BusInv, ReceiverInv
<1> QED
  BY <1>1, BusInvariant, PTL

(***************************************************************************)
(* Subscribers only see messages whose publish call has completed.         *)
(***************************************************************************)
THEOREM DeliveryAfterPublish == Spec => []HandledWasPublished
<1>1. ASSUME BusInv PROVE HandledWasPublished
  <2> SUFFICES ASSUME NEW m \in Node, NEW n \in Node,
                      NEW i \in DOMAIN handled[m][n]
               PROVE  /\ handled[m][n][i] < next_seq[n]
                      /\ handled[m][n][i] \notin publishing[n]
    BY Zenon DEF HandledWasPublished
  <2>1. handled[m][n] \in Seq(Seqs) /\ next_seq[n] \in 1..(MaxSeq + 1)
    BY <1>1 DEF BusInv, TypeOK
  <2>2. handled[m][n][i] \in Seqs
    BY <2>1
  <2>3. copies[n][handled[m][n][i]] > 0
    BY <1>1, Zenon DEF BusInv, ArrivedWasSent
  <2>4. ~Unqueued(n, handled[m][n][i])
    BY <1>1, <2>2, <2>3 DEF BusInv, UnqueuedIsUnsent
  <2> QED
    BY <2>1, <2>2, <2>4, BusAssumption DEF Unqueued, Seqs
<1> QED
  BY <1>1, BusInvariant, PTL

(***************************************************************************)
(* process_retransmissions and the drain of the outbound queue together    *)
(* send a message at most 1 + max_retries times.                           *)
(***************************************************************************)
THEOREM RetransmissionBudget == Spec => []CopiesBounded
<1>1. BusInv => CopiesBounded
  <2> SUFFICES ASSUME BusInv, NEW n \in Node, NEW s \in Seqs
               PROVE  copies[n][s] <= 1 + MaxRetries
    BY Zenon DEF CopiesBounded
  <2>1. /\ Budget(n, s) <= MaxRetries /\ copies[n][s] <= 1 + Budget(n, s)
        /\ copies[n][s] \in Nat /\ Budget(n, s) \in Nat
    BY BusAssumption, Zenon DEF BusInv, Account, Budget, TypeOK, Tracking
  <2> QED
    BY <2>1, BusAssumption
<1> QED
  BY <1>1, BusInvariant, PTL

(***************************************************************************)
(* The bus implements the streams with forward-only cursors that the       *)
(* leader election relies on.                                              *)
(***************************************************************************)
THEOREM BusRefinement == Spec => ImplementsAbstract
<1>1. Init => Abstract!Init
  BY DEF Init, Abstract!Init
<1>2. BusInv /\ [Next]_vars => [Abstract!Next]_(Abstract!vars)
  <2> SUFFICES ASSUME BusInv, [Next]_vars
               PROVE  Abstract!Next \/ UNCHANGED Abstract!vars
    BY Zenon
  <2> USE DEF Abstract!vars
  <2>0. next_seq \in [Node -> 1..(MaxSeq + 1)] /\ MaxSeq \in Nat
    BY BusAssumption, Zenon DEF BusInv, TypeOK
  <2>1. CASE UNCHANGED <<next_seq, received_seqs>>
    BY <2>1, Zenon
  <2>2. ASSUME NEW n \in Node, TakeSeq(n) PROVE Abstract!Next
    <3>1. next_seq' = [next_seq EXCEPT ![n] = next_seq[n] + 1]
      BY <2>2, Zenon DEF TakeSeq
    <3>2. [k \in Node |-> next_seq'[k] - 1] =
             [[k \in Node |-> next_seq[k] - 1] EXCEPT ![n] = @ + 1]
      <4>1. \A k \in Node : next_seq'[k] - 1 =
               IF k = n THEN (next_seq[k] - 1) + 1 ELSE next_seq[k] - 1
        BY <2>0, <3>1
      <4> QED
        BY <4>1, Zenon
    <3>3. Abstract!Publish(n)
      BY <2>0, <2>2, <3>2 DEF TakeSeq, Abstract!Publish
    <3> QED
      BY <3>3, Zenon DEF Abstract!Next
  <2>3. ASSUME NEW m \in Node, NEW n \in Node, NEW s \in Seqs, Deliver(m, n, s),
               received_seqs' # received_seqs
        PROVE  Abstract!Next
    <3>1. /\ received_seqs' = [received_seqs EXCEPT ![m][n] = s]
          /\ ~(s <= received_seqs[m][n])
          /\ next_seq' = next_seq
      BY <2>3, Zenon DEF Deliver, IsDuplicate
    <3>2. ~Unqueued(n, s)
      <4>1. copies[n][s] > 0
        BY <2>3, Zenon DEF Deliver, BusInv, ArrivedWasSent
      <4> QED
        BY <4>1 DEF BusInv, UnqueuedIsUnsent
    <3>3. s < next_seq[n]
      BY <2>0, <3>2 DEF Unqueued, Seqs
    <3>4. received_seqs[m][n] \in Nat
      BY DEF BusInv, TypeOK
    <3>5. s \in (received_seqs[m][n] + 1)..(next_seq[n] - 1)
      BY <2>0, <3>1, <3>3, <3>4 DEF Seqs
    <3>6. Abstract!Deliver(m, n)
      BY <3>1, <3>5, Zenon DEF Abstract!Deliver
    <3> QED
      BY <3>6, Zenon DEF Abstract!Next
  <2>4. CASE Next
    <3>1. PICK n \in Sender :
            \/ TakeSeq(n)
            \/ GetPendingMessages(n)
            \/ \E due \in SUBSET Waiting(n) : ProcessRetransmissions(n, due)
            \/ \E s \in Seqs : Enqueue(n, s) \/ Expire(n, s) \/ Acknowledge(n, s)
            \/ \E m \in Node, s \in Seqs : Deliver(m, n, s) \/ CallSubscribers(m, n, s)
      BY <2>4, Zenon DEF Next
    <3>2. n \in Node
      BY BusAssumption, Zenon
    <3>3. CASE GetPendingMessages(n)
      BY <3>3, <2>1, Zenon DEF GetPendingMessages
    <3>4. CASE \E due \in SUBSET Waiting(n) : ProcessRetransmissions(n, due)
      BY <3>4, <2>1, Zenon DEF ProcessRetransmissions
    <3>5. CASE \E s \in Seqs : Enqueue(n, s) \/ Expire(n, s) \/ Acknowledge(n, s)
      BY <3>5, <2>1, Zenon DEF Enqueue, Expire, Acknowledge
    <3>6. CASE \E m \in Node, s \in Seqs : Deliver(m, n, s)
      <4>1. PICK m \in Node, s \in Seqs : Deliver(m, n, s)
        BY <3>6, Zenon
      <4>2. next_seq' = next_seq
        BY <4>1, Zenon DEF Deliver
      <4> QED
        BY <4>1, <4>2, <3>2, <2>1, <2>3, Zenon
    <3>7. CASE \E m \in Node, s \in Seqs : CallSubscribers(m, n, s)
      BY <3>7, <2>1, Zenon DEF CallSubscribers
    <3> QED
      BY <3>1, <3>2, <3>3, <3>4, <3>5, <3>6, <3>7, <2>2, Zenon
  <2> QED
    BY <2>1, <2>4, Zenon DEF vars
<1> QED
  BY <1>1, <1>2, BusInvariant, PTL DEF Spec, ImplementsAbstract, Abstract!Spec

=============================================================================
