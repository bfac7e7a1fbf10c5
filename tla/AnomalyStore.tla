---------------------------- MODULE AnomalyStore ----------------------------
(***************************************************************************)
(* The anomaly_events table and the SQL statements of                      *)
(* internal/adapters/postgres/anomaly_repository.go, one atomic operation  *)
(* per statement.  An anomaly is identified by its key: type and parameter.*)
(* Message and values of a row are the number of the reading they describe.*)
(*                                                                         *)
(* No operation acknowledges an anomaly: a row is active or resolved.       *)
(* updated_at is left out: Create writes the application's clock into it   *)
(* and UpdateOpen the database's, so the order of two rows of one key that *)
(* are open at once is nobody's promise, and any of them may come first.   *)
(***************************************************************************)
EXTENDS Integers, Sequences

CONSTANT KnownParameters   \* the codes in the table process_parameters

Jump(p) == [type |-> "jump", parameter |-> p]

Drift(p) == [type |-> "drift", parameter |-> p]

(* Stored under a parameter of its own, domain.ParameterProcessRisk. *)
CombinedRisk == [type |-> "combined_risk", parameter |-> "process"]

OpenAnomalies(table, key) ==
  {i \in DOMAIN table : table[i].key = key /\ table[i].status = "active"}

(* Foreign key anomaly_events.parameter_type -> process_parameters.code. *)
CreateIsAccepted(key) == key.parameter \in KnownParameters

CreateAnomalyRow(table, key, reading) ==
  Append(table, [key |-> key, status |-> "active", reading |-> reading])

UpdateOpenAnomalyHits(table, i) == table[i].status = "active"

UpdateOpenAnomaly(table, i, reading) == [table EXCEPT ![i].reading = reading]

ResolveOpenByTypeAndParameter(table, key) ==
  [i \in DOMAIN table |->
     IF i \in OpenAnomalies(table, key)
     THEN [table[i] EXCEPT !.status = "resolved"]
     ELSE table[i]]

(* A faulty variant for the checks: DISTINCT ON (type). *)
ActiveAnomaliesOfAType(table) ==
  LET open == {k \in DOMAIN table : table[k].status = "active"} IN
  {table[i].key : i \in
     {k \in open : \A j \in open : table[j].key.type = table[k].key.type => j <= k}}

(* DISTINCT ON (type, parameter_type): one entry per open key. *)
ActiveAnomalies(table) ==
  {table[i].key : i \in {k \in DOMAIN table : table[k].status = "active"}}
=============================================================================
