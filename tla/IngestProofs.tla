---------------------------- MODULE IngestProofs ----------------------------
(***************************************************************************)
(* Theorems about Ingest, for any number of rows, attempts and faults and  *)
(* any capacity of the local queue.                                        *)
(***************************************************************************)
EXTENDS Ingest, FiniteSetTheorems, TLAPS

-----------------------------------------------------------------------------
(***************************************************************************)
(* Type correctness                                                        *)
(***************************************************************************)
\* The variables have their types in the initial state.
LEMMA InitType == Init => TypeOK
<1> SUFFICES ASSUME Init PROVE TypeOK
  OBVIOUS
<1>1. waiting \in BOOLEAN
  BY DEF Init
<1>2. /\ row \in 1 .. Rows + 1 /\ attempt \in 1 .. MaxAttempts
      /\ outcome \in [Row -> Outcome]
  BY RowsAssumption, AttemptsAssumption DEF Init, Outcome
<1>3. /\ queue \in Seq(Row) /\ Len(queue) <= QueueCap /\ topic \in Seq(Row)
  BY QueueAssumption DEF Init
<1>4. QED
  BY <1>1, <1>2, <1>3, FaultsAssumption DEF Init, TypeOK

\* After a request the client is at a row of the replay, or past the last.
LEMMA ConcludeType ==
    ASSUME TypeOK, row \in Row, NEW result \in Outcome, Conclude(result)
    PROVE  /\ row' \in 1 .. Rows + 1 /\ attempt' \in 1 .. MaxAttempts
           /\ waiting' \in BOOLEAN /\ outcome' \in [Row -> Outcome]
<1>1. waiting' \in BOOLEAN
  BY DEF Conclude
<1>2. row' \in 1 .. Rows + 1 /\ attempt' \in 1 .. MaxAttempts
  BY RowsAssumption, AttemptsAssumption DEF Conclude, Row
<1>3. outcome' \in [Row -> Outcome]
  BY DEF TypeOK, Conclude
<1>4. QED
  BY <1>1, <1>2, <1>3

\* The same after an attempt that failed in transport.
LEMMA TransportErrorType ==
    ASSUME TypeOK, row \in Row, TransportError
    PROVE  /\ row' \in 1 .. Rows + 1 /\ attempt' \in 1 .. MaxAttempts
           /\ waiting' \in BOOLEAN /\ outcome' \in [Row -> Outcome]
<1>1. CASE attempt < MaxAttempts
  <2>1. waiting' \in BOOLEAN
    BY <1>1 DEF TransportError
  <2>2. attempt' \in 1 .. MaxAttempts
    BY <1>1, AttemptsAssumption DEF TransportError, TypeOK
  <2>3. QED
    BY <1>1, <2>1, <2>2 DEF TransportError, TypeOK
<1>2. CASE ~(attempt < MaxAttempts)
  BY <1>2, ConcludeType DEF TransportError, Outcome
<1>3. QED
  BY <1>1, <1>2

\* A request that is answered or put off is still a request.
LEMMA BecomesType ==
    ASSUME requests \subseteq Request, NEW q \in requests,
           NEW s \in {"full", "202", "422", "500"}, Becomes(q, s)
    PROVE  requests' \subseteq Request
  BY DEF Becomes, Request

\* Enqueueing keeps the queue within its capacity.
LEMMA EnqueueType ==
    ASSUME TypeOK, NEW q \in requests, Enqueue(q)
    PROVE  /\ queue' \in Seq(Row) /\ Len(queue') <= QueueCap
           /\ requests' \subseteq Request
<1>1. q.row \in Row
  BY DEF TypeOK, Request
<1>2. queue' \in Seq(Row) /\ Len(queue') = Len(queue) + 1
  BY <1>1 DEF TypeOK, Enqueue
<1>3. requests' \subseteq Request
  BY BecomesType DEF TypeOK, Enqueue
<1>4. QED
  BY <1>2, <1>3, QueueAssumption DEF TypeOK, Enqueue

\* Taking the head of the queue leaves a queue within its capacity.
LEMMA TailType ==
    ASSUME TypeOK, queue # <<>>
    PROVE  /\ Tail(queue) \in Seq(Row) /\ Len(Tail(queue)) <= QueueCap
           /\ Head(queue) \in Row
  BY QueueAssumption DEF TypeOK

\* TypeOK is not inductive: it does not say that the client only waits for a
\* request while there is a row to send.
TypeInv == TypeOK /\ (waiting => row \in Row)

\* Every step keeps the types.
LEMMA NextType == TypeInv /\ [Next]_vars => TypeInv'
<1> SUFFICES ASSUME TypeInv, [Next]_vars
             PROVE  TypeInv'
  OBVIOUS
<1> DEFINE ClientType == /\ row \in 1 .. Rows + 1 /\ attempt \in 1 .. MaxAttempts
                         /\ waiting \in BOOLEAN /\ outcome \in [Row -> Outcome]
                         /\ waiting => row \in Row
           FaultsType == /\ timeouts \in 0 .. MaxTimeouts
                         /\ gracefulStops \in 0 .. MaxStops
                         /\ flushTimeouts \in 0 .. MaxFlushTimeouts
                         /\ undelivered \in 0 .. MaxUndelivered
                         /\ kills \in 0 .. MaxKills
           QueueType == queue \in Seq(Row) /\ Len(queue) <= QueueCap
           GatewayType == gateway \in {"up", "stopping", "down"}
<1>1. TypeOK /\ ClientType /\ FaultsType /\ QueueType /\ GatewayType
  BY DEF TypeInv, TypeOK
<1>2. ClientType'
  <2>1. CASE Post
    <3>1. waiting' \in BOOLEAN
      BY <2>1 DEF Post
    <3>2. row' \in Row /\ UNCHANGED <<attempt, outcome>>
      BY <1>1, <2>1 DEF Post, Row
    <3>3. QED
      BY <1>1, <3>1, <3>2, RowsAssumption DEF Row
  <2>2. CASE PostRefused \/ ConnectionLost \/ Timeout
    <3>1. row \in Row /\ TransportError
      BY <1>1, <2>2 DEF PostRefused, ConnectionLost, Timeout, Row
    <3>2. ~waiting'
      BY <3>1 DEF TransportError, Conclude
    <3>3. QED
      BY <1>1, <3>1, <3>2, TransportErrorType
  <2>3. CASE Respond
    <3>1. UNCHANGED client \/ \E q \in requests : Current(q) /\
            \E result \in Outcome : Conclude(result)
      BY <2>3 DEF Respond, Outcome
    <3>2. CASE UNCHANGED client
      BY <1>1, <3>2 DEF client
    <3>3. ASSUME NEW q \in requests, Current(q), NEW result \in Outcome, Conclude(result)
          PROVE  ClientType'
      <4>1. row \in Row
        BY <1>1, <3>3 DEF Current
      <4>2. ~waiting'
        BY <3>3 DEF Conclude
      <4>3. QED
        BY <1>1, <3>3, <4>1, <4>2, ConcludeType
    <3>4. QED
      BY <3>1, <3>2, <3>3
  <2>4. CASE UNCHANGED client
    BY <1>1, <2>4 DEF client
  <2>5. QED
    BY <2>1, <2>2, <2>3, <2>4
       DEF Next, Handle, RetryProduce, Deliver, DeliveryFails, Stop, Flushed,
           FlushTimesOut, Kill, Restart, vars, client
<1>3. requests' \subseteq Request /\ QueueType'
  <2>1. CASE Post
    <3>1. [row |-> row, attempt |-> attempt, state |-> "received"] \in Request
      BY <1>1, <2>1 DEF Post, Request, Row
    <3>2. QED
      BY <1>1, <2>1, <3>1 DEF Post, TypeOK
  <2>2. ASSUME NEW q \in requests, NEW s \in {"full", "422", "500"},
               Becomes(q, s), UNCHANGED queue
        PROVE  requests' \subseteq Request /\ QueueType'
    <3>1. requests' \subseteq Request
      BY <1>1, <2>2, BecomesType DEF TypeOK
    <3>2. QED
      BY <1>1, <2>2, <3>1
  <2>3. ASSUME NEW q \in requests, Enqueue(q)
        PROVE  requests' \subseteq Request /\ QueueType'
    BY <1>1, <2>3, EnqueueType
  <2>4. CASE Deliver \/ DeliveryFails
    BY <1>1, <2>4, TailType DEF Deliver, DeliveryFails, TypeOK
  <2>5. CASE FlushTimesOut \/ Kill
    <3>1. queue' = <<>> /\ (requests' = requests \/ requests' = {})
      BY <2>5 DEF FlushTimesOut, Kill
    <3>2. queue' \in Seq(Row) /\ Len(queue') <= QueueCap
      BY <3>1, QueueAssumption
    <3>3. QED
      BY <1>1, <3>1, <3>2 DEF TypeOK
  <2>6. CASE requests' \subseteq requests /\ UNCHANGED queue
    BY <1>1, <2>6 DEF TypeOK
  <2>7. Respond \/ PostRefused \/ ConnectionLost \/ Timeout \/ Stop \/ Flushed
          \/ Restart \/ UNCHANGED vars => requests' \subseteq requests /\ UNCHANGED queue
    BY DEF Respond, PostRefused, ConnectionLost, Timeout, Stop, Flushed, Restart, vars
  <2>8. Handle \/ RetryProduce =>
          \E q \in requests :
            \/ Enqueue(q)
            \/ \E s \in {"full", "422", "500"} : Becomes(q, s) /\ UNCHANGED queue
    BY DEF Handle, RetryProduce
  <2>9. QED
    BY <2>1, <2>2, <2>3, <2>4, <2>5, <2>6, <2>7, <2>8 DEF Next
<1>4. topic' \in Seq(Row)
  <2>1. CASE Deliver
    BY <1>1, <2>1, TailType DEF Deliver, TypeOK
  <2>2. CASE UNCHANGED topic
    BY <1>1, <2>2 DEF TypeOK
  <2>3. QED
    BY <2>1, <2>2 DEF Next, Post, PostRefused, ConnectionLost, Timeout, Respond,
       Handle, RetryProduce, DeliveryFails, Stop, Flushed, FlushTimesOut, Kill,
       Restart, vars
<1>5. GatewayType'
  <2>1. gateway' = gateway \/ gateway' \in {"up", "stopping", "down"}
    BY DEF Next, Post, PostRefused, ConnectionLost, Timeout, Respond, Handle,
           RetryProduce, Deliver, DeliveryFails, Stop, Flushed, FlushTimesOut,
           Kill, Restart, vars
  <2>2. QED
    BY <1>1, <2>1
<1>6. FaultsType'
  <2>1. CASE UNCHANGED faults
    BY <1>1, <2>1 DEF faults
  <2>2. CASE Timeout
    BY <1>1, <2>2, FaultsAssumption DEF Timeout
  <2>3. CASE DeliveryFails
    BY <1>1, <2>3, FaultsAssumption DEF DeliveryFails
  <2>4. CASE Stop
    BY <1>1, <2>4, FaultsAssumption DEF Stop
  <2>5. CASE FlushTimesOut
    BY <1>1, <2>5, FaultsAssumption DEF FlushTimesOut
  <2>6. CASE Kill
    BY <1>1, <2>6, FaultsAssumption DEF Kill
  <2>7. QED
    BY <2>1, <2>2, <2>3, <2>4, <2>5, <2>6
       DEF Next, Post, PostRefused, ConnectionLost, Respond, Handle,
           RetryProduce, Deliver, Flushed, Restart, vars, faults
<1>7. QED
  BY <1>2, <1>3, <1>4, <1>5, <1>6 DEF TypeInv, TypeOK

\* The client, the gateway, the queue and the topic keep their types, and the
\* local queue never holds more than its capacity.
THEOREM IngestTypes == Spec => []TypeOK
<1>1. Init => TypeInv
  BY InitType DEF TypeInv, Init
<1>2. TypeInv /\ [Next]_vars => TypeInv'
  BY NextType
<1>3. TypeInv => TypeOK
  BY DEF TypeInv
<1>4. QED
  BY <1>1, <1>2, <1>3, PTL DEF Spec

-----------------------------------------------------------------------------
(***************************************************************************)
(* What is published                                                       *)
(***************************************************************************)
IsPublished(r) == \E i \in DOMAIN Published : Published[i] = r

\* Published loses some of its rows, and keeps the order of the others.
Thinned ==
    /\ \A i \in DOMAIN Published' :
        \E k \in DOMAIN Published : Published'[i] = Published[k]
    /\ \A i, j \in DOMAIN Published' : i < j =>
        \E k, l \in DOMAIN Published :
            k < l /\ Published'[i] = Published[k] /\ Published'[j] = Published[l]

\* The rows published are the delivered ones and then the queued ones.
LEMMA PublishedType ==
    ASSUME TypeOK
    PROVE  /\ Published \in Seq(Row) /\ Len(Published) = Len(topic) + Len(queue)
           /\ \A i \in 1 .. Len(topic) + Len(queue) :
                Published[i] = IF i <= Len(topic) THEN topic[i]
                               ELSE queue[i - Len(topic)]
<1>1. topic \in Seq(Row) /\ queue \in Seq(Row)
  BY DEF TypeOK
<1>2. QED
  BY <1>1 DEF Published

\* Delivering the head of the queue publishes nothing new.
LEMMA DeliverPublished ==
    ASSUME TypeOK, Deliver
    PROVE  Published' = Published
<1>1. topic \in Seq(Row) /\ queue \in Seq(Row) /\ queue # <<>>
  BY DEF TypeOK, Deliver
<1>2. topic' = Append(topic, Head(queue)) /\ queue' = Tail(queue)
  BY DEF Deliver
<1>3. QED
  BY <1>1, <1>2 DEF Published

\* Enqueueing publishes the request's row, last.
LEMMA EnqueuePublished ==
    ASSUME TypeOK, NEW q \in requests, Enqueue(q), UNCHANGED topic
    PROVE  Published' = Append(Published, q.row)
<1>1. topic \in Seq(Row) /\ queue \in Seq(Row) /\ q.row \in Row
  BY DEF TypeOK, Request
<1>2. queue' = Append(queue, q.row)
  BY DEF Enqueue
<1>3. QED
  BY <1>1, <1>2 DEF Published

\* What is left of the queue after a message or all of it is lost was in it.
LEMMA LossThins ==
    ASSUME TypeOK, UNCHANGED topic,
           queue' = <<>> \/ (queue # <<>> /\ queue' = Tail(queue))
    PROVE  Thinned
<1>1. topic \in Seq(Row) /\ queue \in Seq(Row)
  BY DEF TypeOK
<1>2. queue' \in Seq(Row) /\ Len(queue') <= Len(queue)
  <2>1. CASE queue' = <<>>
    <3>1. Len(queue) \in Nat
      BY <1>1
    <3>2. <<>> \in Seq(Row) /\ Len(<<>>) = 0
      OBVIOUS
    <3>3. queue' \in Seq(Row) /\ Len(queue') = 0
      BY <2>1, <3>2, Zenon
    <3>4. QED
      BY <3>1, <3>3
  <2>2. CASE queue # <<>> /\ queue' = Tail(queue)
    BY <1>1, <2>2
  <2>3. QED
    BY <2>1, <2>2
<1> DEFINE d == IF queue' = <<>> THEN 0 ELSE 1
           from(i) == IF i <= Len(topic) THEN i ELSE i + 1
<1>3. /\ Len(topic) \in Nat /\ Len(queue) \in Nat /\ Len(queue') \in Nat
      /\ queue' = <<>> \/ Len(queue') = Len(queue) - 1
  BY <1>1, <1>2
<1>4. /\ DOMAIN Published = 1 .. Len(topic) + Len(queue)
      /\ DOMAIN Published' = 1 .. Len(topic) + Len(queue')
  BY <1>1, <1>2 DEF Published
<1>5. ASSUME NEW i \in DOMAIN Published'
      PROVE  from(i) \in DOMAIN Published /\ Published'[i] = Published[from(i)]
  <2>1. CASE i <= Len(topic)
    <3>1. Published'[i] = topic[i] /\ Published[i] = topic[i]
      BY <1>1, <1>2, <1>3, <1>4, <1>5, <2>1 DEF Published
    <3>2. QED
      BY <1>3, <1>4, <1>5, <2>1, <3>1
  <2>2. CASE ~(i <= Len(topic))
    <3>1. /\ i \in Int /\ i - Len(topic) \in 1 .. Len(queue')
          /\ queue # <<>> /\ queue' = Tail(queue) /\ Len(queue') = Len(queue) - 1
      BY <1>1, <1>2, <1>3, <1>4, <1>5, <2>2
    <3>2. Published'[i] = queue'[i - Len(topic)]
      BY <1>1, <1>2, <1>3, <1>4, <1>5, <2>2 DEF Published
    <3>3. i + 1 \in DOMAIN Published /\ Published[i + 1] = queue[i + 1 - Len(topic)]
      BY <1>1, <1>3, <1>4, <2>2, <3>1 DEF Published
    <3>4. queue'[i - Len(topic)] = queue[i - Len(topic) + 1]
      BY <1>1, <3>1
    <3>5. QED
      BY <1>3, <2>2, <3>1, <3>2, <3>3, <3>4
  <2>3. QED
    BY <2>1, <2>2
<1>6. \A i, j \in DOMAIN Published' : i < j => from(i) < from(j)
  BY <1>3, <1>4
<1> HIDE DEF from
<1>7. QED
  BY <1>5, <1>6 DEF Thinned

\* A step publishes nothing, or the row of a request, or loses something.
LEMMA PublishedSteps ==
    ASSUME TypeInv, [Next]_vars
    PROVE  \/ Published' = Published /\ (Lossless' <=> Lossless)
           \/ \E q \in requests :
                /\ q.state \in Unanswered
                /\ Enqueue(q) /\ UNCHANGED <<client, gateway, topic, faults>>
                /\ Published' = Append(Published, q.row)
           \/ Thinned /\ ~Lossless' /\ UNCHANGED <<client, timeouts>>
<1>1. TypeOK
  BY DEF TypeInv
<1>2. CASE Deliver
  BY <1>1, <1>2, DeliverPublished DEF Deliver, faults, Lossless
<1>3. CASE DeliveryFails \/ FlushTimesOut \/ Kill
  <2>1. ~Lossless'
    BY <1>1, <1>3, FaultsAssumption
       DEF DeliveryFails, FlushTimesOut, Kill, Lossless, TypeOK
  <2>2. /\ UNCHANGED topic
        /\ queue' = <<>> \/ (queue # <<>> /\ queue' = Tail(queue))
    BY <1>3 DEF DeliveryFails, FlushTimesOut, Kill
  <2>3. Thinned
    BY <1>1, <2>2, LossThins
  <2>4. QED
    BY <1>3, <2>1, <2>3 DEF DeliveryFails, FlushTimesOut, Kill
<1>4. CASE UNCHANGED <<queue, topic, flushTimeouts, undelivered, kills>>
  BY <1>4 DEF Published, Lossless
<1>5. ASSUME NEW q \in requests, q.state \in Unanswered,
             Enqueue(q), UNCHANGED <<client, gateway, topic, faults>>
      PROVE  Published' = Append(Published, q.row)
  BY <1>1, <1>5, EnqueuePublished
<1>6. CASE Handle \/ RetryProduce
  <2>1. \/ UNCHANGED <<queue, topic, faults>>
        \/ \E q \in requests :
             /\ q.state \in Unanswered
             /\ Enqueue(q) /\ UNCHANGED <<client, gateway, topic, faults>>
    BY <1>6 DEF Handle, RetryProduce, Unanswered
  <2>2. QED
    BY <1>4, <1>5, <2>1 DEF faults
<1>7. QED
  BY <1>2, <1>3, <1>4, <1>6
     DEF Next, Post, PostRefused, ConnectionLost, Timeout, Respond, Stop,
         Flushed, Restart, vars, faults

-----------------------------------------------------------------------------
(***************************************************************************)
(* Pickup order                                                            *)
(***************************************************************************)
\* OnlyTimeoutsReorder is not inductive: without timeouts there is one request
\* at a time, the one the client waits for, and no row after its own was
\* published yet.
OrderInv ==
    /\ TypeInv
    /\ timeouts = 0 =>
        /\ \A q \in requests : Current(q)
        /\ \A q, r \in requests : q = r
        /\ \A i \in DOMAIN Published : Published[i] <= row
        /\ TopicInPickupOrder

\* Requests of an untroubled client are answered one at a time.
LEMMA BecomesKeepsCurrent ==
    ASSUME \A q \in requests : Current(q), \A q, r \in requests : q = r,
           UNCHANGED client, NEW q \in requests, NEW s, q \in Request, Becomes(q, s)
    PROVE  /\ requests' = {[q EXCEPT !.state = s]}
           /\ \A r \in requests' : Current(r)'
<1>1. requests = {q}
  OBVIOUS
<1>2. requests' = {[q EXCEPT !.state = s]}
  BY <1>1 DEF Becomes
<1>3. [q EXCEPT !.state = s].row = q.row /\ [q EXCEPT !.state = s].attempt = q.attempt
  BY DEF Request
<1>4. QED
  BY <1>2, <1>3 DEF Current, client

\* Without timeouts the requests are the client's, in every step.
LEMMA OneRequest ==
    ASSUME TypeInv, [Next]_vars, timeouts' = 0, timeouts = 0,
           \A q \in requests : Current(q), \A q, r \in requests : q = r
    PROVE  /\ \A q \in requests' : Current(q)'
           /\ \A q, r \in requests' : q = r
           /\ row <= row'
<1> USE DEF Current
<1>1. row \in Nat
  BY DEF TypeInv, TypeOK
<1>2. CASE Post
  <2>1. requests = {}
    BY <1>2 DEF Post
  <2>2. requests' = {[row |-> row, attempt |-> attempt, state |-> "received"]}
    BY <1>2, <2>1 DEF Post
  <2>3. QED
    BY <1>1, <1>2, <2>2 DEF Post
<1>3. CASE PostRefused \/ ConnectionLost
  <2>1. requests' = {}
    BY <1>3 DEF PostRefused, ConnectionLost
  <2>2. row' = row \/ row' = row + 1
    BY <1>3 DEF PostRefused, ConnectionLost, TransportError, Conclude
  <2>3. QED
    BY <1>1, <2>1, <2>2
<1>4. CASE Timeout
  BY <1>4 DEF Timeout
<1>5. CASE Respond
  <2>1. PICK q \in requests : requests' = requests \ {q}
                              /\ (row' = row \/ row' = row + 1)
    BY <1>5 DEF Respond, Conclude, client
  <2>2. requests' = {}
    BY <2>1
  <2>3. QED
    BY <1>1, <2>1, <2>2
<1>6. CASE Handle \/ RetryProduce
  <2>1. PICK q \in requests : \E s : Becomes(q, s) /\ UNCHANGED client
    BY <1>6 DEF Handle, RetryProduce, Enqueue
  <2>2. q \in Request
    BY DEF TypeInv, TypeOK
  <2>3. QED
    BY <1>1, <2>1, <2>2, BecomesKeepsCurrent DEF client
<1>7. CASE requests' \subseteq requests /\ UNCHANGED client
  BY <1>1, <1>7 DEF client
<1>8. Deliver \/ DeliveryFails \/ Stop \/ Flushed \/ FlushTimesOut \/ Kill
        \/ Restart \/ UNCHANGED vars
          => requests' \subseteq requests /\ UNCHANGED client
  BY DEF Deliver, DeliveryFails, Stop, Flushed, FlushTimesOut, Kill, Restart,
         vars, client
<1>9. QED
  BY <1>2, <1>3, <1>4, <1>5, <1>6, <1>7, <1>8 DEF Next

\* Faults are counted and never forgotten.
LEMMA TimeoutsStay ==
    ASSUME TypeInv, [Next]_vars, timeouts' = 0
    PROVE  timeouts = 0
<1>1. timeouts \in Nat
  BY FaultsAssumption DEF TypeInv, TypeOK
<1>2. timeouts' = timeouts \/ timeouts' = timeouts + 1
  BY DEF Next, Post, PostRefused, ConnectionLost, Timeout, Respond, Handle,
         RetryProduce, Deliver, DeliveryFails, Stop, Flushed, FlushTimesOut,
         Kill, Restart, vars, faults
<1>3. QED
  BY <1>1, <1>2

\* Every step keeps the invariant.
LEMMA NextOrder == OrderInv /\ [Next]_vars => OrderInv'
<1> SUFFICES ASSUME OrderInv, [Next]_vars, timeouts' = 0
             PROVE  /\ \A q \in requests' : Current(q)'
                    /\ \A q, r \in requests' : q = r
                    /\ \A i \in DOMAIN Published' : Published'[i] <= row'
                    /\ TopicInPickupOrder'
  BY NextType DEF OrderInv
<1>1. TypeInv /\ TypeOK /\ TypeInv' /\ TypeOK' /\ timeouts = 0
  BY NextType, TimeoutsStay DEF OrderInv, TypeInv
<1>2. /\ \A q \in requests : Current(q)
      /\ \A q, r \in requests : q = r
      /\ \A i \in DOMAIN Published : Published[i] <= row
      /\ TopicInPickupOrder
  BY <1>1 DEF OrderInv
<1>3. /\ \A q \in requests' : Current(q)'
      /\ \A q, r \in requests' : q = r
      /\ row <= row'
  BY <1>1, <1>2, OneRequest
<1>4. /\ row \in Nat /\ row' \in Nat
      /\ Published \in Seq(Row) /\ Published' \in Seq(Row)
  BY <1>1 DEF TypeOK, Published
<1>5. \A i \in DOMAIN Published : Published[i] \in Nat /\ Published[i] <= row'
  <2> SUFFICES ASSUME NEW i \in DOMAIN Published
               PROVE  Published[i] \in Nat /\ Published[i] <= row'
    OBVIOUS
  <2>1. Published[i] \in Row
    BY <1>4
  <2>2. Published[i] \in Nat
    BY <2>1, RowsAssumption DEF Row
  <2>3. Published[i] <= row
    BY <1>2
  <2>4. QED
    BY <1>3, <1>4, <2>2, <2>3
<1>6. CASE Published' = Published
  BY <1>2, <1>3, <1>5, <1>6 DEF TopicInPickupOrder
<1>7. CASE Thinned
  BY <1>2, <1>3, <1>5, <1>7 DEF TopicInPickupOrder, Thinned
<1>8. ASSUME NEW q \in requests, Published' = Append(Published, q.row)
      PROVE  (\A i \in DOMAIN Published' : Published'[i] <= row') /\ TopicInPickupOrder'
  <2>1. q.row = row
    BY <1>2 DEF Current
  <2>2. PICK n \in Nat : n = Len(Published)
    BY <1>4
  <2>3. /\ DOMAIN Published = 1 .. n /\ DOMAIN Published' = 1 .. n + 1
        /\ \A i \in 1 .. n : Published'[i] = Published[i]
        /\ Published'[n + 1] = row
    BY <1>4, <1>8, <2>1, <2>2 DEF Row
  <2>4. \A i \in DOMAIN Published' : Published'[i] <= row'
    BY <1>3, <1>4, <1>5, <2>2, <2>3
  <2>5. ASSUME NEW i \in 1 .. n + 1, NEW j \in 1 .. n + 1, i < j
        PROVE  Published'[i] <= Published'[j]
    <3>1. i \in 1 .. n
      BY <2>2, <2>5
    <3>2. CASE j \in 1 .. n
      BY <1>2, <2>3, <2>5, <3>1, <3>2 DEF TopicInPickupOrder
    <3>3. CASE j = n + 1
      BY <1>2, <2>3, <3>1, <3>3
    <3>4. QED
      BY <2>2, <3>2, <3>3
  <2>6. QED
    BY <2>3, <2>4, <2>5 DEF TopicInPickupOrder
<1>9. QED
  BY <1>1, <1>3, <1>6, <1>7, <1>8, PublishedSteps

\* Kills, stops, failed deliveries, full queues and retries keep the topic in
\* pickup order as long as no request timed out; a row that a kill made the
\* simulator send again may be there twice, next to itself.
THEOREM OrderHolds == Spec => []OnlyTimeoutsReorder
<1>1. Init => OrderInv
  <2> SUFFICES ASSUME Init PROVE OrderInv
    OBVIOUS
  <2>1. TypeInv
    BY InitType DEF Init, TypeInv
  <2>2. DOMAIN Published = {} /\ requests = {}
    BY DEF Init, Published
  <2>3. QED
    BY <2>1, <2>2 DEF OrderInv, TopicInPickupOrder
<1>2. OrderInv /\ [Next]_vars => OrderInv'
  BY NextOrder
<1>3. OrderInv => OnlyTimeoutsReorder
  BY DEF OrderInv, OnlyTimeoutsReorder
<1>4. QED
  BY <1>1, <1>2, <1>3, PTL DEF Spec

-----------------------------------------------------------------------------
(***************************************************************************)
(* The simulator's verdict                                                 *)
(***************************************************************************)
\* The row the client is at has been accepted, and the answer is on its way.
Answered(r) == r = row /\ \E q \in requests : q.state = "202"

\* OutcomeIsTruth is not inductive: it says nothing of the row the client is at,
\* which is published from the moment the gateway decides to answer 202.
TruthInv ==
    /\ OrderInv
    /\ timeouts = 0 /\ Lossless =>
        /\ waiting => requests # {}
        /\ \A r \in Row :
            /\ r >= row => outcome[r] = "pending"
            /\ Copies(r) = IF outcome[r] = "sent" \/ Answered(r) THEN 1 ELSE 0

\* Publishing a row adds one copy of it and none of any other.
LEMMA CopiesAppend ==
    ASSUME Published \in Seq(Row), NEW x \in Row, Published' = Append(Published, x),
           NEW r \in Row
    PROVE  Copies(r) \in Nat /\ Copies(r)' = IF r = x THEN Copies(r) + 1 ELSE Copies(r)
<1> DEFINE C == {i \in DOMAIN Published : Published[i] = r}
           D == {i \in DOMAIN Published' : Published'[i] = r}
<1>1. PICK n \in Nat : n = Len(Published)
  OBVIOUS
<1>2. /\ DOMAIN Published = 1 .. n /\ DOMAIN Published' = 1 .. n + 1
      /\ \A i \in 1 .. n : Published'[i] = Published[i]
      /\ Published'[n + 1] = x
  BY <1>1
<1>3. IsFiniteSet(1 .. n) /\ C \subseteq 1 .. n
  BY <1>1, <1>2, FS_Interval
<1>4. IsFiniteSet(C) /\ Cardinality(C) \in Nat
  BY <1>3, FS_Subset, FS_CardinalityType
<1>5. D = IF r = x THEN C \cup {n + 1} ELSE C
  BY <1>1, <1>2
<1>6. n + 1 \notin C
  BY <1>1, <1>2
<1> HIDE DEF C, D
<1>7. Cardinality(C \cup {n + 1}) = Cardinality(C) + 1
  BY <1>4, <1>6, FS_AddElement
<1>8. Cardinality(D) = IF r = x THEN Cardinality(C) + 1 ELSE Cardinality(C)
  BY <1>5, <1>7
<1>9. Copies(r) = Cardinality(C) /\ Copies(r)' = Cardinality(D)
  BY DEF Copies, C, D
<1>10. QED
  BY <1>4, <1>8, <1>9

\* Losses are counted and never forgotten.
LEMMA LossesStay ==
    ASSUME TypeInv, [Next]_vars, Lossless'
    PROVE  Lossless /\ ~DeliveryFails /\ ~FlushTimesOut /\ ~Kill
<1>1. flushTimeouts \in Nat /\ undelivered \in Nat /\ kills \in Nat
  BY FaultsAssumption DEF TypeInv, TypeOK
<1>2. /\ flushTimeouts' = flushTimeouts \/ flushTimeouts' = flushTimeouts + 1
      /\ undelivered' = undelivered \/ undelivered' = undelivered + 1
      /\ kills' = kills \/ kills' = kills + 1
  BY DEF Next, Post, PostRefused, ConnectionLost, Timeout, Respond, Handle,
         RetryProduce, Deliver, DeliveryFails, Stop, Flushed, FlushTimesOut,
         Kill, Restart, vars, faults
<1>3. QED
  BY <1>1, <1>2 DEF Lossless, DeliveryFails, FlushTimesOut, Kill

\* A client that goes on with the next row, having heard a verdict that is true
\* of the row it leaves, keeps the account.
LEMMA ConcludeKeepsTruth ==
    ASSUME TypeOK, row \in Row, NEW result, Conclude(result),
           requests' = {}, Published' = Published,
           result = "sent" <=> \E q \in requests : q.state = "202",
           \A r \in Row :
              /\ r >= row => outcome[r] = "pending"
              /\ Copies(r) = IF outcome[r] = "sent" \/ Answered(r) THEN 1 ELSE 0
    PROVE  /\ waiting' => requests' # {}
           /\ \A r \in Row :
              /\ r >= row' => outcome'[r] = "pending"
              /\ Copies(r)' = IF outcome'[r] = "sent" \/ Answered(r)' THEN 1 ELSE 0
<1>1. ~waiting'
  BY DEF Conclude
<1> SUFFICES ASSUME NEW r \in Row
             PROVE  /\ r >= row' => outcome'[r] = "pending"
                    /\ Copies(r)' = IF outcome'[r] = "sent" \/ Answered(r)' THEN 1 ELSE 0
  BY <1>1
<1>2. row \in Int /\ r \in Int /\ row' = row + 1
  BY DEF Row, Conclude
<1>3. outcome'[r] = IF r = row THEN result ELSE outcome[r]
  BY DEF TypeOK, Conclude
<1>4. Copies(r)' = Copies(r) /\ ~Answered(r)'
  BY DEF Copies, Answered
<1>5. r = row => outcome[r] = "pending" /\ (Answered(r) <=> result = "sent")
  BY <1>2 DEF Answered
<1>6. r # row => ~Answered(r)
  BY DEF Answered
<1>7. QED
  BY <1>2, <1>3, <1>4, <1>5, <1>6

\* Every step keeps the invariant.
LEMMA NextTruth == TruthInv /\ [Next]_vars => TruthInv'
<1> DEFINE Account == \A r \in Row :
              /\ r >= row => outcome[r] = "pending"
              /\ Copies(r) = IF outcome[r] = "sent" \/ Answered(r) THEN 1 ELSE 0
           NoAnswer == \A q \in requests : q.state # "202"
<1> SUFFICES ASSUME TruthInv, [Next]_vars, timeouts' = 0, Lossless'
             PROVE  (waiting' => requests' # {}) /\ Account'
  BY NextOrder DEF TruthInv
<1>1. /\ TypeInv /\ TypeOK /\ timeouts = 0 /\ Lossless
      /\ ~DeliveryFails /\ ~FlushTimesOut /\ ~Kill
  BY TimeoutsStay, LossesStay DEF TruthInv, OrderInv, TypeInv
<1>2. /\ \A q \in requests : Current(q)
      /\ \A q, r \in requests : q = r
      /\ waiting => requests # {}
      /\ Account
  BY <1>1 DEF TruthInv, OrderInv
<1>3. waiting <=> requests # {}
  BY <1>2 DEF Current
<1>4. ~Timeout /\ ~ConnectionLost
  <2>1. timeouts' # timeouts + 1
    BY <1>1
  <2>2. QED
    BY <1>2, <2>1 DEF Timeout, ConnectionLost
<1>5. ASSUME UNCHANGED <<row, outcome>>, Published' = Published,
             (\E q \in requests' : q.state = "202") <=> (\E q \in requests : q.state = "202")
      PROVE  Account'
  BY <1>2, <1>5 DEF Copies, Answered
<1>6. CASE Post
  <2>1. requests = {}
    BY <1>3, <1>6 DEF Post
  <2>2. requests' = {[row |-> row, attempt |-> attempt, state |-> "received"]}
    BY <1>6, <2>1 DEF Post
  <2>3. UNCHANGED <<row, outcome>> /\ Published' = Published
    BY <1>6 DEF Post, Published
  <2>4. QED
    BY <1>5, <2>1, <2>2, <2>3
<1>7. CASE PostRefused
  <2>1. requests = {} /\ requests' = {} /\ row \in Row /\ Published' = Published
        /\ TransportError
    BY <1>1, <1>3, <1>7 DEF PostRefused, Published, TypeOK, Row
  <2>2. CASE attempt < MaxAttempts
    <3>1. UNCHANGED <<row, outcome>> /\ ~waiting'
      BY <2>1, <2>2 DEF TransportError
    <3>2. QED
      BY <1>5, <2>1, <3>1
  <2>3. CASE ~(attempt < MaxAttempts)
    <3>1. Conclude("error")
      BY <2>1, <2>3 DEF TransportError
    <3>2. "error" = "sent" <=> \E q \in requests : q.state = "202"
      BY <2>1
    <3>3. QED
      BY <1>1, <1>2, <2>1, <3>1, <3>2, ConcludeKeepsTruth
  <2>4. QED
    BY <2>2, <2>3
<1>8. CASE Respond
  <2>1. PICK q \in requests :
            /\ requests' = requests \ {q}
            /\ IF Current(q)
               THEN Conclude(CASE q.state = "202" -> "sent"
                               [] q.state = "422" -> "rejected"
                               [] OTHER -> "error")
               ELSE UNCHANGED client
            /\ UNCHANGED <<gateway, queue, topic, faults>>
    BY <1>8 DEF Respond
  <2>2. requests = {q} /\ requests' = {} /\ Current(q)
    BY <1>2, <2>1
  <2>3. row \in Row /\ Published' = Published
    BY <1>1, <2>1, <2>2 DEF Current, TypeOK, Request, Published
  <2> DEFINE result == CASE q.state = "202" -> "sent"
                         [] q.state = "422" -> "rejected"
                         [] OTHER -> "error"
  <2>4. Conclude(result)
    BY <2>1, <2>2
  <2>5. result = "sent" <=> q.state = "202"
    OBVIOUS
  <2> HIDE DEF result
  <2>6. result = "sent" <=> \E x \in requests : x.state = "202"
    BY <2>2, <2>5
  <2>7. QED
    BY <1>1, <1>2, <2>2, <2>3, <2>4, <2>6, ConcludeKeepsTruth
<1>9. CASE Handle \/ RetryProduce
  <2>1. PICK q \in requests :
          /\ q.state \in Unanswered
          /\ UNCHANGED <<client, gateway, topic, faults>>
          /\ \/ Enqueue(q)
             \/ \E s \in {"full", "422", "500"} : Becomes(q, s) /\ UNCHANGED queue
    BY <1>9 DEF Handle, RetryProduce, Unanswered
  <2>2. requests = {q} /\ q.row = row /\ q \in Request /\ q.state # "202"
    BY <1>1, <1>2, <2>1 DEF Current, TypeOK, Unanswered
  <2>3. UNCHANGED <<row, outcome, waiting>> /\ row \in Row
    BY <2>1, <2>2 DEF client, Request
  <2>4. ASSUME NEW s \in {"full", "202", "422", "500"}, Becomes(q, s)
        PROVE  requests' # {} /\ ((\E x \in requests' : x.state = "202") <=> s = "202")
    <3>1. requests' = {[q EXCEPT !.state = s]}
      BY <2>2, <2>4 DEF Becomes
    <3>2. [q EXCEPT !.state = s].state = s
      BY <2>2 DEF Request
    <3>3. QED
      BY <3>1, <3>2
  <2>5. ASSUME NEW s \in {"full", "422", "500"}, Becomes(q, s), UNCHANGED queue
        PROVE  (waiting' => requests' # {}) /\ Account'
    <3>1. Published' = Published
      BY <2>1, <2>5 DEF Published
    <3>2. requests' # {} /\ ~ \E x \in requests' : x.state = "202"
      BY <2>4, <2>5
    <3>3. ~ \E x \in requests : x.state = "202"
      BY <2>2
    <3>4. QED
      BY <1>5, <2>3, <3>1, <3>2, <3>3
  <2>6. CASE Enqueue(q)
    <3>1. requests' # {} /\ \E x \in requests' : x.state = "202"
      BY <2>4, <2>6 DEF Enqueue
    <3>2. Published \in Seq(Row)
      BY <1>1, PublishedType
    <3>3. Published' = Append(Published, row)
      BY <1>1, <2>1, <2>2, <2>6, EnqueuePublished
    <3> SUFFICES ASSUME NEW r \in Row
                 PROVE  /\ r >= row' => outcome'[r] = "pending"
                        /\ Copies(r)' = IF outcome'[r] = "sent" \/ Answered(r)'
                                        THEN 1 ELSE 0
      BY <3>1
    <3>4. /\ Copies(r) \in Nat
          /\ Copies(r)' = IF r = row THEN Copies(r) + 1 ELSE Copies(r)
      BY <2>3, <3>2, <3>3, CopiesAppend
    <3>5. /\ r >= row => outcome[r] = "pending"
          /\ Copies(r) = IF outcome[r] = "sent" THEN 1 ELSE 0
      BY <1>2, <2>2 DEF Answered
    <3>6. Answered(r)' <=> r = row
      BY <2>3, <3>1 DEF Answered
    <3>7. row \in Int
      BY <2>3 DEF Row
    <3>8. QED
      BY <2>3, <3>4, <3>5, <3>6, <3>7
  <2>7. QED
    BY <2>1, <2>5, <2>6
<1>10. CASE Deliver
  BY <1>1, <1>2, <1>5, <1>10, DeliverPublished DEF Deliver, client
<1>11. CASE Stop \/ Flushed \/ Restart \/ UNCHANGED vars
  <2>1. UNCHANGED <<row, outcome, waiting, requests, queue, topic>>
    BY <1>11 DEF Stop, Flushed, Restart, vars, client
  <2>2. QED
    BY <1>2, <1>5, <2>1 DEF Published
<1>12. QED
  BY <1>1, <1>4, <1>6, <1>7, <1>8, <1>9, <1>10, <1>11 DEF Next

\* Without timeouts and losses, a row the simulator counts as sent is published
\* exactly once, and any other it is done with not at all.
THEOREM VerdictIsTrue == Spec => []OutcomeIsTruth
<1>1. Init => TruthInv
  <2> SUFFICES ASSUME Init PROVE TruthInv
    OBVIOUS
  <2>1. TypeInv /\ ~waiting
    BY InitType DEF Init, TypeInv
  <2>2. DOMAIN Published = {} /\ requests = {} /\ \A r \in Row : outcome[r] = "pending"
    BY DEF Init, Published
  <2>3. OrderInv
    BY <2>1, <2>2 DEF OrderInv, TopicInPickupOrder
  <2>4. ASSUME NEW r \in Row
        PROVE  Copies(r) = 0
    <3>1. {i \in DOMAIN Published : Published[i] = r} = {}
      BY <2>2
    <3>2. QED
      BY <3>1, FS_EmptySet DEF Copies
  <2>5. QED
    BY <2>1, <2>2, <2>3, <2>4 DEF TruthInv, Answered
<1>2. TruthInv /\ [Next]_vars => TruthInv'
  BY NextTruth
<1>3. TruthInv => OutcomeIsTruth
  <2> SUFFICES ASSUME TruthInv, timeouts = 0, Lossless, NEW r \in Row,
                      outcome[r] # "pending"
               PROVE  Copies(r) = IF outcome[r] = "sent" THEN 1 ELSE 0
    BY DEF OutcomeIsTruth
  <2>1. row \in Int /\ r \in Int
    BY DEF TruthInv, OrderInv, TypeInv, TypeOK, Row
  <2>2. ~Answered(r)
    BY <2>1 DEF TruthInv, Answered
  <2>3. QED
    BY <2>2 DEF TruthInv
<1>4. QED
  BY <1>1, <1>2, <1>3, PTL DEF Spec

-----------------------------------------------------------------------------
(***************************************************************************)
(* The safety half of SentIsDelivered: with timeouts too                   *)
(***************************************************************************)
\* A row that was counted as sent is in the topic, or in the local queue.
SentIsPublished ==
    \A r \in Row : outcome[r] = "sent" => IsPublished(r) \/ ~Lossless

\* It is not inductive: the verdict is an answer given before.
SentInv ==
    /\ TypeInv
    /\ Lossless =>
        /\ \A q \in requests : q.state = "202" => IsPublished(q.row)
        /\ \A r \in Row : outcome[r] = "sent" => IsPublished(r)

\* Every step keeps the invariant.
LEMMA NextSent == SentInv /\ [Next]_vars => SentInv'
<1> SUFFICES ASSUME SentInv, [Next]_vars, Lossless'
             PROVE  /\ \A q \in requests' : q.state = "202" => IsPublished(q.row)'
                    /\ \A r \in Row : outcome'[r] = "sent" => IsPublished(r)'
  BY NextType DEF SentInv
<1>1. /\ TypeInv /\ TypeOK /\ Lossless
      /\ \A q \in requests : q.state = "202" => IsPublished(q.row)
      /\ \A r \in Row : outcome[r] = "sent" => IsPublished(r)
  BY LossesStay DEF SentInv, TypeInv
<1>2. \A r \in Row : IsPublished(r) => IsPublished(r)'
  <2>1. CASE Published' = Published
    BY <2>1 DEF IsPublished
  <2>2. ASSUME NEW q \in requests, Published' = Append(Published, q.row)
        PROVE  \A r \in Row : IsPublished(r) => IsPublished(r)'
    <3>1. Published \in Seq(Row) /\ q.row \in Row
      BY <1>1, PublishedType DEF TypeOK, Request
    <3>2. \A i \in DOMAIN Published :
            i \in DOMAIN Published' /\ Published'[i] = Published[i]
      BY <2>2, <3>1
    <3>3. QED
      BY <3>2 DEF IsPublished
  <2>3. QED
    BY <1>1, <2>1, <2>2, PublishedSteps
<1>3. ASSUME NEW q \in requests, Enqueue(q), UNCHANGED topic
      PROVE  IsPublished(q.row)'
  <2>1. Published \in Seq(Row) /\ q.row \in Row /\ Published' = Append(Published, q.row)
    BY <1>1, <1>3, PublishedType, EnqueuePublished DEF TypeOK, Request
  <2>2. /\ Len(Published) + 1 \in DOMAIN Published'
        /\ Published'[Len(Published) + 1] = q.row
    BY <2>1
  <2>3. QED
    BY <2>2 DEF IsPublished
<1>4. \A q \in requests' : q.state = "202" => IsPublished(q.row)'
  <2>1. ASSUME NEW q \in requests, q.state = "202"
        PROVE  IsPublished(q.row)'
    BY <1>1, <1>2, <2>1 DEF TypeOK, Request
  <2>2. CASE Handle \/ RetryProduce
    <3>1. PICK q \in requests :
            /\ UNCHANGED topic
            /\ \/ Enqueue(q)
               \/ \E s \in {"full", "422", "500"} : Becomes(q, s)
      BY <2>2 DEF Handle, RetryProduce
    <3>2. PICK s \in {"full", "202", "422", "500"} :
            Becomes(q, s) /\ (s = "202" => Enqueue(q))
      BY <3>1 DEF Enqueue
    <3>3. requests' = (requests \ {q}) \cup {[q EXCEPT !.state = s]}
      BY <3>2 DEF Becomes
    <3>4. [q EXCEPT !.state = s].row = q.row /\ [q EXCEPT !.state = s].state = s
      BY <1>1 DEF TypeOK, Request
    <3>5. QED
      BY <1>3, <2>1, <3>1, <3>2, <3>3, <3>4
  <2>3. CASE Post
    BY <2>1, <2>3 DEF Post
  <2>4. CASE requests' \subseteq requests
    BY <2>1, <2>4
  <2>5. QED
    BY <2>2, <2>3, <2>4
       DEF Next, PostRefused, ConnectionLost, Timeout, Respond, Deliver,
           DeliveryFails, Stop, Flushed, FlushTimesOut, Kill, Restart, vars
<1>5. ASSUME NEW r \in Row, outcome'[r] = "sent"
      PROVE  IsPublished(r)'
  <2>1. CASE outcome'[r] = outcome[r]
    BY <1>1, <1>2, <1>5, <2>1
  <2>2. CASE Respond
    <3>1. PICK q \in requests :
            \/ UNCHANGED client
            \/ /\ q.row = row
               /\ outcome' = [outcome EXCEPT ![row] =
                                CASE q.state = "202" -> "sent"
                                  [] q.state = "422" -> "rejected"
                                  [] OTHER -> "error"]
      BY <2>2 DEF Respond, Conclude, Current
    <3>2. outcome'[r] = outcome[r] \/ (r = q.row /\ q.state = "202")
      BY <1>1, <1>5, <3>1 DEF TypeOK, client
    <3>3. QED
      BY <1>1, <1>2, <2>1, <3>2
  <2>3. CASE PostRefused \/ ConnectionLost \/ Timeout
    <3>1. outcome' = outcome \/ outcome' = [outcome EXCEPT ![row] = "error"]
      BY <2>3 DEF PostRefused, ConnectionLost, Timeout, TransportError, Conclude
    <3>2. outcome'[r] = outcome[r]
      BY <1>1, <1>5, <3>1 DEF TypeOK
    <3>3. QED
      BY <2>1, <3>2
  <2>4. CASE UNCHANGED outcome
    BY <2>1, <2>4
  <2>5. QED
    BY <2>2, <2>3, <2>4
       DEF Next, Post, Handle, RetryProduce, Deliver, DeliveryFails, Stop,
           Flushed, FlushTimesOut, Kill, Restart, vars, client
<1>6. QED
  BY <1>4, <1>5

\* Whatever times out or stops, a row that was answered 202 is in the topic or on
\* its way there, unless the local queue itself was lost (main.py answers once
\* publish returned).
THEOREM SentRowsArePublished == Spec => []SentIsPublished
<1>1. Init => SentInv
  <2> SUFFICES ASSUME Init PROVE SentInv
    OBVIOUS
  <2>1. TypeInv
    BY InitType DEF Init, TypeInv
  <2>2. requests = {} /\ \A r \in Row : outcome[r] = "pending"
    BY DEF Init
  <2>3. QED
    BY <2>1, <2>2 DEF SentInv
<1>2. SentInv /\ [Next]_vars => SentInv'
  BY NextSent
<1>3. SentInv => SentIsPublished
  BY DEF SentInv, SentIsPublished
<1>4. QED
  BY <1>1, <1>2, <1>3, PTL DEF Spec
=============================================================================
