------------------------------- MODULE Bridge -------------------------------
(***************************************************************************)
(* The MQTT to Kafka bridge: mqttadapter.Subscriber and                    *)
(* kafkaadapter.Producer.  The clients of the two brokers are libraries:   *)
(* the paho client connects again by itself and calls the message handler  *)
(* for one message after the other; the kafka-go writer keeps a queue of   *)
(* batches per partition and makes WriteMessages wait for its own batch.   *)
(***************************************************************************)
EXTENDS Topic

CONSTANT NoPartition

ASSUME BridgeAssumption == NoPartition \notin Partitions

VARIABLES
  sent,     \* readings sent over MQTT so far
  link,     \* the paho client and its subscription
  starter,  \* where Subscriber.Start is
  inbox,    \* messages received; the first one is the handler's
  waiting,  \* the partition whose batch WriteMessages waits for
  queue,    \* partition -> messages handed to the writer, not written yet
  writer    \* the kafka-go writer: "open" or "closed"

bridgeVars == <<sent, link, starter, inbox, waiting, queue, writer>>

BridgeTypeOK ==
  /\ TopicTypeOK
  /\ sent \in 0..MaxMessages
  /\ link \in {"connecting", "connected", "subscribed", "deaf", "off"}
  /\ starter \in {"waiting", "serving", "failed", "ended"}
  /\ inbox \in Seq(Message)
  /\ waiting \in Partitions \cup {NoPartition}
  /\ waiting # NoPartition => inbox # << >> /\ queue[waiting] # << >>
  /\ queue \in [Partitions -> Seq(Message)]
  /\ writer \in {"open", "closed"}

(* NewProducer, NewSubscriber and the beginning of Subscriber.Start.       *)
BridgeStarted ==
  /\ link = "connecting"
  /\ starter = "waiting"
  /\ inbox = << >>
  /\ waiting = NoPartition
  /\ queue = [p \in Partitions |-> << >>]
  /\ writer = "open"

BridgeInit == TopicInit /\ sent = 0 /\ BridgeStarted

-----------------------------------------------------------------------------
(***************************************************************************)
(* Subscriber.Start and the handlers it gives to the client.               *)
(***************************************************************************)

(* With ConnectRetry and AutoReconnect the client tries until it succeeds, *)
(* also when Start has given up waiting for it.                            *)
Connect ==
  /\ link = "connecting"
  /\ link' = "connected"
  /\ starter' = IF starter = "waiting" THEN "serving" ELSE starter
  /\ UNCHANGED <<topicVars, sent, inbox, waiting, queue, writer>>

(* Start returns an error; nobody disconnects the client. *)
ConnectTimesOut ==
  /\ link = "connecting"
  /\ starter = "waiting"
  /\ starter' = "failed"
  /\ UNCHANGED <<topicVars, sent, link, inbox, waiting, queue, writer>>

(* A faulty variant for the checks: Start subscribes, once it is connected. *)
SubscribeInStart ==
  /\ link = "connected"
  /\ starter = "serving"
  /\ link' = "subscribed"
  /\ UNCHANGED <<topicVars, sent, starter, inbox, waiting, queue, writer>>

(* The OnConnect handler, after the first connection and every later one.  *)
Subscribe ==
  /\ link = "connected"
  /\ link' = "subscribed"
  /\ UNCHANGED <<topicVars, sent, starter, inbox, waiting, queue, writer>>

(* It gives up: a timeout or a refusal, logged.  The client is connected   *)
(* and receives nothing until its next reconnection.                       *)
SubscribeFails ==
  /\ link = "connected"
  /\ Fault
  /\ link' = "deaf"
  /\ UNCHANGED <<log, server, sent, starter, inbox, waiting, queue, writer>>

(* Of the messages received, those not yet handled may go with the         *)
(* connection; a session is clean, so the broker keeps none.               *)
Keep(n) ==
  /\ n \in 0..Len(inbox)
  /\ waiting # NoPartition => n > 0
  /\ inbox' = SubSeq(inbox, 1, n)

ConnectionLost(n) ==
  /\ link \in {"connected", "subscribed", "deaf"}
  /\ Fault
  /\ link' = "connecting"
  /\ Keep(n)
  /\ UNCHANGED <<log, server, sent, starter, waiting, queue, writer>>

(* The end of Start, when the context is done. *)
Disconnect(n) ==
  /\ server = "stopping"
  /\ starter = "serving"
  /\ starter' = "ended"
  /\ link' = "off"
  /\ Keep(n)
  /\ UNCHANGED <<topicVars, sent, waiting, queue, writer>>

-----------------------------------------------------------------------------
(***************************************************************************)
(* handleMessage and PublishTelemetry.                                     *)
(***************************************************************************)

(* A reading is sent over MQTT: it is received, or nobody listens. *)
SendReading(payload) ==
  /\ sent < MaxMessages
  /\ sent' = sent + 1
  /\ inbox' = IF link = "subscribed"
              THEN Append(inbox, [number |-> sent', payload |-> payload])
              ELSE inbox
  /\ UNCHANGED <<topicVars, link, starter, waiting, queue, writer>>

(* The handler has its next message. *)
Handling == inbox # << >> /\ waiting = NoPartition

(* A faulty variant: the handler publishes in a goroutine of its own. *)
PublishInBackground(p) ==
  /\ Handling
  /\ Head(inbox).payload # "empty"
  /\ writer = "open"
  /\ queue' = [queue EXCEPT ![p] = Append(@, Head(inbox))]
  /\ waiting' = p
  /\ inbox' = Tail(inbox)
  /\ UNCHANGED <<topicVars, sent, link, starter, writer>>

(* WriteMessages puts it into a batch of the partition that LeastBytes     *)
(* picks, whatever the key, and waits.                                     *)
Publish(p) ==
  /\ Handling
  /\ Head(inbox).payload # "empty"
  /\ writer = "open"
  /\ queue' = [queue EXCEPT ![p] = Append(@, Head(inbox))]
  /\ waiting' = p
  /\ UNCHANGED <<topicVars, sent, link, starter, inbox, writer>>

(* PublishTelemetry refuses an empty payload, a closed writer everything;  *)
(* the handler logs the error and the message is gone.                     *)
PublishFails ==
  /\ Handling
  /\ Head(inbox).payload = "empty" \/ writer = "closed"
  /\ inbox' = Tail(inbox)
  /\ UNCHANGED <<topicVars, sent, link, starter, waiting, queue, writer>>

(* The first batch of p leaves the queue; the handler returns if it waits  *)
(* for that batch.                                                         *)
BatchDone(p) ==
  /\ queue[p] # << >>
  /\ queue' = [queue EXCEPT ![p] = Tail(@)]
  /\ IF waiting = p /\ Len(queue[p]) = 1
     THEN waiting' = NoPartition /\ inbox' = Tail(inbox)
     ELSE UNCHANGED <<waiting, inbox>>

WriteBatch(p) ==
  /\ BatchDone(p)
  /\ log' = [log EXCEPT ![p] = Append(@, Head(queue[p]))]
  /\ UNCHANGED <<server, faults, sent, link, starter, writer>>

(* The broker does not keep it, or the writer gives up.  RequiredAcks is   *)
(* none, so the handler need not hear of it, and does not try again.       *)
LoseBatch(p) ==
  /\ BatchDone(p)
  /\ Fault
  /\ UNCHANGED <<log, server, sent, link, starter, writer>>

(* Faulty variants: the handler tries again, at once or later. *)
PublishAgain ==
  /\ waiting # NoPartition
  /\ Fault
  /\ waiting' = NoPartition
  /\ UNCHANGED <<log, server, sent, link, starter, inbox, queue, writer>>

PublishLater ==
  /\ waiting # NoPartition
  /\ Fault
  /\ waiting' = NoPartition
  /\ inbox' = Append(Tail(inbox), Head(inbox))
  /\ UNCHANGED <<log, server, sent, link, starter, queue, writer>>

(* The context of the message ends before its batch is written.  The batch *)
(* stays in the writer and may be written later.                           *)
PublishTimesOut ==
  /\ waiting # NoPartition
  /\ Fault
  /\ waiting' = NoPartition
  /\ inbox' = Tail(inbox)
  /\ UNCHANGED <<log, server, sent, link, starter, queue, writer>>

(* Producer.Close: no more messages; those in the queues are flushed. *)
CloseProducer ==
  /\ server = "stopping"
  /\ writer = "open"
  /\ writer' = "closed"
  /\ UNCHANGED <<topicVars, sent, link, starter, inbox, waiting, queue>>

-----------------------------------------------------------------------------
ClientStep == Connect \/ Subscribe \/ SubscribeFails

HandlerStep == PublishFails \/ \E p \in Partitions : Publish(p)

WriterStep == \E p \in Partitions : WriteBatch(p) \/ LoseBatch(p)

BridgeStep ==
  \/ ClientStep
  \/ ConnectTimesOut
  \/ \E n \in 0..MaxMessages : ConnectionLost(n) \/ Disconnect(n)
  \/ \E payload \in Payloads : SendReading(payload)
  \/ HandlerStep
  \/ WriterStep
  \/ PublishTimesOut
  \/ CloseProducer

BridgeNext ==
  \/ BridgeStep
  \/ Cancel /\ UNCHANGED bridgeVars

(* The MQTT broker can be reached, the writer and the handlers run.        *)
BridgeFairness ==
  /\ WF_<<topicVars, bridgeVars>>(ClientStep)
  /\ WF_<<topicVars, bridgeVars>>(HandlerStep)
  /\ WF_<<topicVars, bridgeVars>>(WriterStep)

BridgeSpec ==
  /\ BridgeInit
  /\ [][BridgeNext]_<<topicVars, bridgeVars>>
  /\ BridgeFairness

-----------------------------------------------------------------------------
(* Messages received and not handed to the writer yet. *)
Unpublished == IF waiting = NoPartition THEN inbox ELSE Tail(inbox)

Increasing(s) == \A i, j \in 1..Len(s) : i < j => s[i].number < s[j].number

Before(s, t) ==
  \A i \in 1..Len(s), j \in 1..Len(t) : s[i].number < t[j].number

Disjoint(s, t) ==
  \A i \in 1..Len(s), j \in 1..Len(t) : s[i].number # t[j].number

(* Whatever connection is lost, batch times out or is lost: no reading is  *)
(* forwarded twice, and those that meet in a partition are in the order in *)
(* which they were sent.  Over several partitions there is no order.       *)
BridgeKeepsOrder ==
  \A p \in Partitions :
    /\ Increasing(log[p]) /\ Increasing(queue[p])
    /\ Before(log[p], queue[p])
    /\ Before(log[p], Unpublished) /\ Before(queue[p], Unpublished)
    /\ \A q \in Partitions \ {p} :
         /\ Disjoint(log[p], log[q])
         /\ Disjoint(log[p], queue[q])
         /\ Disjoint(queue[p], queue[q])

(* However the connection fails, and although Start may have given up, the *)
(* client subscribes again: it may be left deaf by a refused subscription, *)
(* but not without having tried.                                           *)
LinkRecovers ==
  <>[](server = "running") => []<>(link \in {"subscribed", "deaf"})
=============================================================================
