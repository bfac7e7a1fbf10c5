-------------------------- MODULE AnomalyDetection --------------------------
(***************************************************************************)
(* The anomaly detectors of internal/usecase/anomalies, as predicates on   *)
(* the values of the latest readings of a parameter.  A history is what    *)
(* HistoryByParameter returns: at most DriftWindow values, oldest          *)
(* measurement first.  Values are integers, in halves of the parameter's   *)
(* unit, so that every threshold of the code is an integer.                *)
(***************************************************************************)
EXTENDS Integers, Sequences

Temperatures == { "barrel_temperature_zone_1", "barrel_temperature_zone_2",
                  "barrel_temperature_zone_3", "outlet_temperature" }

ParameterTypes ==
  {"pressure", "moisture", "screw_speed", "drive_load"} \cup Temperatures

AnomalyTypes == {"jump", "drift", "combined_risk"}

DriftWindow == 5

(* A higher value is the dangerous one for these. *)
RisingParameters == {"pressure", "drive_load"} \cup Temperatures

-----------------------------------------------------------------------------
JumpThreshold(p) ==
  CASE p = "pressure"       -> 20
    [] p = "moisture"       -> 6
    [] p = "drive_load"     -> 30
    [] p = "screw_speed"    -> 160
    [] p \in Temperatures   -> 30

IsJumpInExpectedDirection(p, delta) ==
  \/ p \in RisingParameters /\ delta >= JumpThreshold(p)
  \/ p = "moisture" /\ -delta >= JumpThreshold(p)
  \/ p = "screw_speed" /\ (delta >= JumpThreshold(p) \/ -delta >= JumpThreshold(p))

(* The reading in hand is compared with the last but one of the history:   *)
(* with its predecessor, when it is the latest measurement itself.         *)
DetectJump(p, current, history) ==
  /\ Len(history) >= 2
  /\ IsJumpInExpectedDirection(p, current - history[Len(history) - 1])

-----------------------------------------------------------------------------
IsNonDecreasing(history) ==
  \A i \in 2..Len(history) : history[i] >= history[i - 1]

IsNonIncreasing(history) ==
  \A i \in 2..Len(history) : history[i] <= history[i - 1]

TotalDelta(history) == history[Len(history)] - history[1]

Rises(history, threshold) ==
  /\ Len(history) >= DriftWindow
  /\ IsNonDecreasing(history)
  /\ TotalDelta(history) >= threshold

Falls(history, threshold) ==
  /\ Len(history) >= DriftWindow
  /\ IsNonIncreasing(history)
  /\ -TotalDelta(history) >= threshold

DriftThreshold(p) ==
  CASE p = "pressure"     -> 12
    [] p = "moisture"     -> 3
    [] p = "drive_load"   -> 10
    [] p \in Temperatures -> 16

(* Screw speed has no expected trend. *)
DetectDrift(p, history) ==
  \/ p \in RisingParameters /\ Rises(history, DriftThreshold(p))
  \/ p = "moisture" /\ Falls(history, DriftThreshold(p))

-----------------------------------------------------------------------------
(* The part each of the three parameters has in detectCombinedRisk, with   *)
(* its own thresholds: pressure counts as rising at 5 bar, before its      *)
(* drift is detected at 6.                                                 *)

(* A faulty variant for the checks: drive load is not asked. *)
SupportsRiskWithoutDrive(p, history) ==
  \/ p = "pressure" /\ Rises(history, 10)
  \/ p = "moisture" /\ Falls(history, 3)
  \/ p = "drive_load"

SupportsRisk(p, history) ==
  \/ p = "pressure" /\ Rises(history, 10)
  \/ p = "moisture" /\ Falls(history, 3)
  \/ p = "drive_load" /\ Rises(history, 10)

-----------------------------------------------------------------------------
(* telemetry_readings as the detectors see it: the latest DriftWindow      *)
(* values by measured_at, id.  `newer' recorded readings carry a later     *)
(* measured_at than the one that is saved.                                 *)
SaveReading(history, value, newer) ==
  LET at  == Len(history) - newer
      all == SubSeq(history, 1, at) \o <<value>> \o SubSeq(history, at + 1, Len(history))
  IN  IF Len(all) > DriftWindow THEN Tail(all) ELSE all
=============================================================================
