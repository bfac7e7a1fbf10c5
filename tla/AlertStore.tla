----------------------------- MODULE AlertStore -----------------------------
(***************************************************************************)
(* The alert_events table and the SQL statements of                        *)
(* internal/adapters/postgres/alert_repository.go.  Every repository       *)
(* method is one statement, hence atomic; a table is a sequence of rows    *)
(* and a row's id (BIGSERIAL) is its position.  Rows are never deleted.    *)
(*                                                                         *)
(* Data that no property distinguishes is abstracted: value, unit, source  *)
(* and message of a row are the number of the telemetry reading they were  *)
(* copied from; created_at is a logical time; the two nullable timestamps  *)
(* are "null" or "set".                                                    *)
(***************************************************************************)
EXTENDS Integers, Sequences

CONSTANTS
  Parameters,   \* the technological parameters
  Users,        \* the accounts that may be stored in acknowledged_by
  NoUser        \* SQL NULL in acknowledged_by

ASSUME NoUserAssumption == NoUser \notin Users

AlertLevels == {"warning", "critical"}

AlertStatuses == {"active", "acknowledged", "resolved"}

(* The statuses every "open" query of the repositories selects. *)
OpenStatuses == {"active", "acknowledged"}

Timestamps == {"null", "set"}

AlertRow ==
  [ parameter      : Parameters,
    level          : AlertLevels,
    status         : AlertStatuses,
    reading        : Nat,
    createdAt      : Nat,
    acknowledgedAt : Timestamps,
    acknowledgedBy : Users \cup {NoUser},
    resolvedAt     : Timestamps ]

NoAlert == 0

(***************************************************************************)
(* Queries.                                                                *)
(***************************************************************************)

OpenAlerts(table, p) ==
  {i \in DOMAIN table : /\ table[i].parameter = p
                        /\ table[i].status \in OpenStatuses}

(* ORDER BY created_at DESC, id DESC *)
ListedBefore(table, i, j) ==
  \/ table[i].createdAt > table[j].createdAt
  \/ table[i].createdAt = table[j].createdAt /\ i > j

(* The row that FindOpenByParameter returns and that Active keeps for p:   *)
(* a singleton, or empty when no alert of p is open.                       *)
LatestOpenAlert(table, p) ==
  {i \in OpenAlerts(table, p) :
     \A j \in OpenAlerts(table, p) \ {i} : ListedBefore(table, i, j)}

Active(table) == UNION {LatestOpenAlert(table, p) : p \in Parameters}

(***************************************************************************)
(* Statements that write.                                                  *)
(***************************************************************************)

NewAlert(p, level, reading) ==
  [ parameter      |-> p,
    level          |-> level,
    status         |-> "active",
    reading        |-> reading,
    createdAt      |-> reading,
    acknowledgedAt |-> "null",
    acknowledgedBy |-> NoUser,
    resolvedAt     |-> "null" ]

Create(table, row) == Append(table, row)

(* A faulty variant for the checks: the status condition is forgotten. *)
UpdateOpenHitsAnyRow(table, i) == i \in DOMAIN table

(* WHERE id = $1 AND status IN (open): does UpdateOpen find its row? *)
UpdateOpenHits(table, i) == table[i].status \in OpenStatuses

(* A faulty variant: the update reactivates the alert. *)
UpdateOpenReactivates(table, i, level, reading) ==
  [table EXCEPT ![i] = [@ EXCEPT !.level = level, !.reading = reading,
                                 !.status = "active"]]

(* Status, created_at and the acknowledgement keep their values. *)
UpdateOpen(table, i, level, reading) ==
  [table EXCEPT ![i] = [@ EXCEPT !.level = level, !.reading = reading]]

(* A faulty variant: acknowledged alerts are not counted as open. *)
ResolveActiveByParameter(table, p) ==
  [i \in DOMAIN table |->
     IF i \in OpenAlerts(table, p) /\ table[i].status = "active"
     THEN [table[i] EXCEPT !.status = "resolved", !.resolvedAt = "set"]
     ELSE table[i]]

ResolveOpenByParameter(table, p) ==
  [i \in DOMAIN table |->
     IF i \in OpenAlerts(table, p)
     THEN [table[i] EXCEPT !.status = "resolved", !.resolvedAt = "set"]
     ELSE table[i]]

(* WHERE id = $1 only: the row's present status is not looked at, and      *)
(* resolved_at keeps its value.                                            *)
Acknowledge(table, i, user) ==
  [table EXCEPT ![i] = [@ EXCEPT !.status = "acknowledged",
                                 !.acknowledgedAt = "set",
                                 !.acknowledgedBy = user]]

(* A faulty variant: resolved_at is not stamped. *)
ResolveUnstamped(table, i) == [table EXCEPT ![i].status = "resolved"]

(* WHERE id = $1 only. *)
Resolve(table, i) ==
  [table EXCEPT ![i] = [@ EXCEPT !.status = "resolved", !.resolvedAt = "set"]]

=============================================================================
