------------------------------ MODULE MCAlerts ------------------------------
(***************************************************************************)
(* Instances of Alerts for TLC.                                            *)
(***************************************************************************)
EXTENDS Alerts

CONSTANTS pressure, moisture, http, kafka, operator, technologist

(* The Kafka consumer handles every parameter alone. *)
OneConsumer == [w \in Workers |-> Parameters]

(* Two workers, each with parameters of its own. *)
SplitParameters ==
  [w \in Workers |-> IF w = kafka THEN {pressure} ELSE {moisture}]

(* The Kafka consumer and a POST /api/telemetry handler: both receive      *)
(* readings of every parameter.                                            *)
SharedParameters == [w \in Workers |-> Parameters]
=============================================================================
