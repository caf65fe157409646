------------------------------- MODULE Ingest -------------------------------
(***************************************************************************)
(* The way of a row from the replay to the topic: the simulator POSTs one  *)
(* row at a time and retries transport errors (simulator/replay.py), the   *)
(* gateway adapts it and enqueues it on the Kafka client's local queue     *)
(* (gateway/main.py, producer.py), whose background thread delivers it.    *)
(*                                                                         *)
(* Rows are numbered in the order the replay yields them, which is pickup  *)
(* order.  The HTTP handler is a plain `def', so requests run on a thread  *)
(* pool: one the client has given up on is still processed, at any time.   *)
(***************************************************************************)
EXTENDS Integers, Sequences, FiniteSets

CONSTANTS
    Rows,              \* bound: number of rows replayed
    Invalid,           \* the rows adapt_tlc refuses (422)
    MaxAttempts,       \* post_row's max_attempts
    QueueCap,          \* capacity of the Kafka client's local queue
    MaxTimeouts,       \* bound: requests the client gives up on
    MaxStops,          \* bound: graceful stops of the gateway
    MaxFlushTimeouts,  \* bound: shutdown flushes that run out of time
    MaxUndelivered,    \* bound: messages the client library gives up on
    MaxKills           \* bound: gateway processes killed

ASSUME RowsAssumption == Rows \in Nat /\ Invalid \subseteq 1 .. Rows
ASSUME AttemptsAssumption == MaxAttempts \in Nat \ {0}
ASSUME QueueAssumption == QueueCap \in Nat \ {0}
ASSUME FaultsAssumption ==
    /\ MaxTimeouts \in Nat
    /\ MaxStops \in Nat
    /\ MaxFlushTimeouts \in Nat
    /\ MaxUndelivered \in Nat
    /\ MaxKills \in Nat

Row == 1 .. Rows
Outcome == {"pending", "sent", "rejected", "error"}

\* A request: which row and attempt, and how far the gateway is with it.
\* "full" is between the two produce() calls, the last three are responses.
Request == [row : Row, attempt : 1 .. MaxAttempts,
            state : {"received", "full", "202", "422", "500"}]
Unanswered == {"received", "full"}

VARIABLES
    row,           \* the row main() is at; Rows + 1 when the replay is over
    attempt,       \* post_row's loop variable
    waiting,       \* the client waits for the response to this attempt
    outcome,       \* what post_row returned for each row
    requests,      \* the requests in the network or the gateway
    gateway,       \* "up", "stopping" (draining, then flushing) or "down"
    queue,         \* the producer's local queue
    topic,         \* tlc-raw-events
    timeouts, gracefulStops, flushTimeouts, undelivered, kills \* faults so far

client == <<row, attempt, waiting, outcome>>
faults == <<timeouts, gracefulStops, flushTimeouts, undelivered, kills>>
vars == <<row, attempt, waiting, outcome, requests, gateway, queue, topic,
          timeouts, gracefulStops, flushTimeouts, undelivered, kills>>

Init ==
    /\ row = 1
    /\ attempt = 1
    /\ waiting = FALSE
    /\ outcome = [r \in Row |-> "pending"]
    /\ requests = {}
    /\ gateway = "up"
    /\ queue = <<>>
    /\ topic = <<>>
    /\ timeouts = 0
    /\ gracefulStops = 0
    /\ flushTimeouts = 0
    /\ undelivered = 0
    /\ kills = 0

-----------------------------------------------------------------------------
(***************************************************************************)
(* The simulator                                                           *)
(***************************************************************************)
\* The attempt the client is waiting for.
Current(q) == waiting /\ q.row = row /\ q.attempt = attempt

Post ==
    /\ row <= Rows
    /\ ~waiting
    /\ gateway = "up"
    /\ waiting' = TRUE
    /\ requests' = requests \cup
                    {[row |-> row, attempt |-> attempt, state |-> "received"]}
    /\ UNCHANGED <<row, attempt, outcome, gateway, queue, topic, faults>>

\* post_row returns and main() goes on to the next record.
Conclude(result) ==
    /\ outcome' = [outcome EXCEPT ![row] = result]
    /\ row' = row + 1
    /\ attempt' = 1
    /\ waiting' = FALSE

\* httpx.HTTPError: the next attempt after a delay, or "error" after the last.
TransportError ==
    IF attempt < MaxAttempts
    THEN /\ attempt' = attempt + 1
         /\ waiting' = FALSE
         /\ UNCHANGED <<row, outcome>>
    ELSE Conclude("error")

\* The connection is refused, or was cut by the end of the gateway.
PostRefused ==
    /\ row <= Rows
    /\ ~waiting
    /\ gateway # "up"
    /\ TransportError
    /\ UNCHANGED <<requests, gateway, queue, topic, faults>>

ConnectionLost ==
    /\ waiting
    /\ ~ \E q \in requests : Current(q)
    /\ TransportError
    /\ UNCHANGED <<requests, gateway, queue, topic, faults>>

\* No response within 10 seconds; the gateway still has the request.
Timeout ==
    /\ waiting
    /\ \E q \in requests : Current(q)
    /\ timeouts < MaxTimeouts
    /\ timeouts' = timeouts + 1
    /\ TransportError
    /\ UNCHANGED <<requests, gateway, queue, topic, gracefulStops,
                   flushTimeouts, undelivered, kills>>

\* A response nobody waits for any more goes nowhere.
Respond ==
    \E q \in requests :
        /\ q.state \notin Unanswered
        /\ requests' = requests \ {q}
        /\ IF Current(q)
           THEN Conclude(CASE q.state = "202" -> "sent"
                           [] q.state = "422" -> "rejected"
                           [] OTHER -> "error")
           ELSE UNCHANGED client
        /\ UNCHANGED <<gateway, queue, topic, faults>>

-----------------------------------------------------------------------------
(***************************************************************************)
(* The gateway                                                             *)
(***************************************************************************)
Becomes(q, s) == requests' = (requests \ {q}) \cup {[q EXCEPT !.state = s]}

\* Mutant: the local queue has no bound.
EnqueueUnbounded(q) ==
    /\ queue' = Append(queue, q.row)
    /\ Becomes(q, "202")

Enqueue(q) ==
    /\ Len(queue) < QueueCap
    /\ queue' = Append(queue, q.row)
    /\ Becomes(q, "202")

\* ingest_trip: adapt, then publish; BufferError when the local queue is full.
Handle ==
    \E q \in requests :
        /\ q.state = "received"
        /\ \/ q.row \in Invalid /\ Becomes(q, "422") /\ UNCHANGED queue
           \/ q.row \notin Invalid /\ Enqueue(q)
           \/ /\ q.row \notin Invalid /\ Len(queue) = QueueCap
              /\ Becomes(q, "full")
              /\ UNCHANGED queue
        /\ UNCHANGED <<client, gateway, topic, faults>>

\* Mutant: the second BufferError is swallowed and the row answered 202.
RetryProduceQuietly ==
    \E q \in requests :
        /\ q.state = "full"
        /\ \/ Enqueue(q)
           \/ Len(queue) = QueueCap /\ Becomes(q, "202") /\ UNCHANGED queue
        /\ UNCHANGED <<client, gateway, topic, faults>>

\* After poll(1) produce() is tried once more; its BufferError becomes a 500.
RetryProduce ==
    \E q \in requests :
        /\ q.state = "full"
        /\ \/ Enqueue(q)
           \/ Len(queue) = QueueCap /\ Becomes(q, "500") /\ UNCHANGED queue
        /\ UNCHANGED <<client, gateway, topic, faults>>

DeliverAny ==
    /\ \E i \in DOMAIN queue :
        /\ topic' = Append(topic, queue[i])
        /\ queue' = SubSeq(queue, 1, i - 1) \o SubSeq(queue, i + 1, Len(queue))
    /\ UNCHANGED <<client, requests, gateway, faults>>

\* The idempotent producer appends what is queued once and in order.
Deliver ==
    /\ queue # <<>>
    /\ topic' = Append(topic, Head(queue))
    /\ queue' = Tail(queue)
    /\ UNCHANGED <<client, requests, gateway, faults>>

\* The client gives a message up after its retries; _on_delivery only logs it.
DeliveryFails ==
    /\ queue # <<>>
    /\ undelivered < MaxUndelivered
    /\ undelivered' = undelivered + 1
    /\ queue' = Tail(queue)
    /\ UNCHANGED <<client, requests, gateway, topic, timeouts, gracefulStops,
                   flushTimeouts, kills>>

Stop ==
    /\ gateway = "up"
    /\ gracefulStops < MaxStops
    /\ gracefulStops' = gracefulStops + 1
    /\ gateway' = "stopping"
    /\ UNCHANGED <<client, requests, queue, topic, timeouts, flushTimeouts,
                   undelivered, kills>>

\* The server has answered what it had accepted before lifespan flushes.
Drained == \A q \in requests : q.state \notin Unanswered

\* Mutant: the process exits without flushing.
ExitUnflushed ==
    /\ gateway = "stopping"
    /\ Drained
    /\ gateway' = "down"
    /\ queue' = <<>>
    /\ UNCHANGED <<client, requests, topic, faults>>

Flushed ==
    /\ gateway = "stopping"
    /\ Drained
    /\ queue = <<>>
    /\ gateway' = "down"
    /\ UNCHANGED <<client, requests, queue, topic, faults>>

\* flush(10.0) returns with messages remaining: they are logged and gone.
FlushTimesOut ==
    /\ gateway = "stopping"
    /\ Drained
    /\ queue # <<>>
    /\ flushTimeouts < MaxFlushTimeouts
    /\ flushTimeouts' = flushTimeouts + 1
    /\ queue' = <<>>
    /\ gateway' = "down"
    /\ UNCHANGED <<client, requests, topic, timeouts, gracefulStops,
                   undelivered, kills>>

Kill ==
    /\ gateway # "down"
    /\ kills < MaxKills
    /\ kills' = kills + 1
    /\ gateway' = "down"
    /\ queue' = <<>>
    /\ requests' = {}
    /\ UNCHANGED <<client, topic, timeouts, gracefulStops, flushTimeouts,
                   undelivered>>

\* wait_for_broker, then serving again.
Restart ==
    /\ gateway = "down"
    /\ gateway' = "up"
    /\ UNCHANGED <<client, requests, queue, topic, faults>>

-----------------------------------------------------------------------------
Next ==
    \/ Post \/ PostRefused \/ ConnectionLost \/ Timeout \/ Respond
    \/ Handle \/ RetryProduce \/ Deliver \/ DeliveryFails
    \/ Stop \/ Flushed \/ FlushTimesOut \/ Kill \/ Restart

Spec == Init /\ [][Next]_vars

(***************************************************************************)
(* Requests are handled and answered, the client goes on, the background   *)
(* thread delivers, and `restart: unless-stopped' restarts the gateway.    *)
(***************************************************************************)
Fairness ==
    /\ WF_vars(Post) /\ WF_vars(PostRefused) /\ WF_vars(ConnectionLost)
    /\ WF_vars(Respond) /\ WF_vars(Handle) /\ WF_vars(RetryProduce)
    /\ WF_vars(Deliver) /\ WF_vars(Flushed) /\ WF_vars(Restart)

FairSpec == Spec /\ Fairness

-----------------------------------------------------------------------------
(***************************************************************************)
(* Properties                                                              *)
(***************************************************************************)
\* Every variable has its type, and the local queue respects its capacity.
TypeOK ==
    /\ row \in 1 .. Rows + 1
    /\ attempt \in 1 .. MaxAttempts
    /\ waiting \in BOOLEAN
    /\ outcome \in [Row -> Outcome]
    /\ requests \subseteq Request
    /\ gateway \in {"up", "stopping", "down"}
    /\ queue \in Seq(Row) /\ Len(queue) <= QueueCap
    /\ topic \in Seq(Row)
    /\ timeouts \in 0 .. MaxTimeouts
    /\ gracefulStops \in 0 .. MaxStops
    /\ flushTimeouts \in 0 .. MaxFlushTimeouts
    /\ undelivered \in 0 .. MaxUndelivered
    /\ kills \in 0 .. MaxKills

Published == topic \o queue
Copies(r) == Cardinality({i \in DOMAIN Published : Published[i] = r})

\* The topic is in pickup order, which the hot path's windows rely on
\* (producer.py:88-90, "the simulator's global pickup_datetime order is
\* preserved").  A row may be there twice, next to itself.
TopicInPickupOrder ==
    \A i, j \in DOMAIN Published : i < j => Published[i] <= Published[j]

\* Only an abandoned request disturbs the order: stops, kills, failed
\* deliveries and retries after them never do.
OnlyTimeoutsReorder == timeouts = 0 => TopicInPickupOrder

\* The local queue has never been lost, in whole or in part.
Lossless == flushTimeouts = 0 /\ undelivered = 0 /\ kills = 0

\* Without timeouts and losses the simulator's verdict is the truth: a row it
\* counts as sent is published exactly once, any other not at all.
OutcomeIsTruth ==
    timeouts = 0 /\ Lossless =>
        \A r \in Row : outcome[r] # "pending" =>
            Copies(r) = IF outcome[r] = "sent" THEN 1 ELSE 0

\* A row counted as sent reaches the topic, across stops of the gateway.
InTopic(r) == \E i \in DOMAIN topic : topic[i] = r

SentIsDelivered ==
    \A r \in Row : outcome[r] = "sent" ~> (InTopic(r) \/ ~Lossless)
=============================================================================
