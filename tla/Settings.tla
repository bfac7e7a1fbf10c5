------------------------------- MODULE Settings -----------------------------
(***************************************************************************)
(* The setpoints and quality_weights tables: what the handlers accept,     *)
(* what the statements of the two repositories do, and what the CHECK      *)
(* constraints of the migrations refuse.  A table maps a parameter to its  *)
(* row; parameters are unique, and no code inserts or deletes a row.       *)
(***************************************************************************)
EXTENDS Integers

Setpoint ==
  [ criticalMin : Int, warningMin : Int, normalMin : Int,
    normalMax : Int, warningMax : Int, criticalMax : Int ]

(* Setpoint.Evaluate: the critical bounds play no part in it. *)
Evaluate(setpoint, value) ==
  IF value < setpoint.warningMin \/ value > setpoint.warningMax THEN "critical"
  ELSE IF value < setpoint.normalMin \/ value > setpoint.normalMax THEN "warning"
  ELSE "normal"

(* ValidateSetpointUpdate; the CHECK setpoints_ranges_valid says the same. *)
ValidSetpoint(setpoint) ==
  /\ setpoint.criticalMin <= setpoint.warningMin
  /\ setpoint.warningMin <= setpoint.normalMin
  /\ setpoint.normalMin <= setpoint.normalMax
  /\ setpoint.normalMax <= setpoint.warningMax
  /\ setpoint.warningMax <= setpoint.criticalMax

(* SELECT ... WHERE parameter_type = $1 *)
GetByParameter(setpoints, p) == setpoints[p]

(* UPDATE setpoints: all six bounds are replaced, whatever they were. *)
UpdateSetpointRow(setpoints, p, setpoint) == [setpoints EXCEPT ![p] = setpoint]

-----------------------------------------------------------------------------
(* ValidateQualityWeightUpdate, of a weight in ten-thousandths. *)
ValidWeight(weight) == weight > 0 /\ weight <= 100000

(* NUMERIC(8, 3) rounds it to thousandths. *)
Stored(weight) == (weight + 5) \div 10

(* CHECK (weight > 0), of the rounded value: a weight may pass the         *)
(* validation and be refused here.                                         *)
WeightCheck(stored) == stored > 0

(* UPDATE quality_weights *)
UpdateWeightRow(weights, p, stored) == [weights EXCEPT ![p] = stored]
=============================================================================
