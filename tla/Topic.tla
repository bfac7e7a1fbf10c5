-------------------------------- MODULE Topic -------------------------------
(***************************************************************************)
(* What the two halves of the telemetry pipeline share: the Kafka topic    *)
(* between them and the context they run under (internal/app/server).      *)
(* Kafka itself is external; a partition keeps what was appended to it.    *)
(***************************************************************************)
EXTENDS Integers, Sequences

CONSTANTS
  Partitions,    \* the partitions of the telemetry topic
  Payloads,      \* what is sent over MQTT
  MaxMessages,   \* bound on the readings sent over MQTT
  MaxFaults      \* bound on the faults of networks, brokers and the database

(* A payload is a reading that passes the validation of Process, one that  *)
(* is refused by it, one that is not JSON, or empty.                       *)
ASSUME TopicAssumption ==
  /\ Payloads \subseteq {"reading", "refused", "malformed", "empty"}
  /\ MaxMessages \in Nat
  /\ MaxFaults \in Nat

Message == [number : 1..MaxMessages, payload : Payloads]

VARIABLES
  log,      \* partition -> the messages appended to it
  server,   \* the process: "running", "stopping" (context cancelled), "down"
  faults    \* faults so far

topicVars == <<log, server, faults>>

Offsets(p) == 1..Len(log[p])

TopicTypeOK ==
  /\ log \in [Partitions -> Seq(Message)]
  /\ server \in {"running", "stopping", "down"}
  /\ faults \in 0..MaxFaults

TopicInit ==
  /\ log = [p \in Partitions |-> << >>]
  /\ server = "running"
  /\ faults = 0

(* Something outside the process goes wrong. *)
Fault ==
  /\ faults < MaxFaults
  /\ faults' = faults + 1

(* So it does for a call whose context is cancelled, whatever is outside.  *)
FaultOrStopping ==
  IF server = "stopping" THEN UNCHANGED faults ELSE Fault

(* SIGINT or SIGTERM: signal.NotifyContext cancels the context of Run. *)
Cancel ==
  /\ server = "running"
  /\ server' = "stopping"
  /\ UNCHANGED <<log, faults>>
=============================================================================
