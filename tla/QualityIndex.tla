---------------------------- MODULE QualityIndex ----------------------------
(***************************************************************************)
(* The quality index of internal/usecase/quality, in thousandths of a      *)
(* point: weights are NUMERIC(8, 3) in the quality_weights table.          *)
(***************************************************************************)
EXTENDS Integers, FiniteSetsExt

BaseQualityIndex == 100000

WarningAlertPenalty == 15

CriticalAlertPenalty == 30

DefaultWeight == 1000

(* WeightsFromDomain followed by WeightFor: a parameter without a positive *)
(* weight counts once.                                                     *)
WeightFor(weights, p) ==
  IF p \in DOMAIN weights /\ weights[p] > 0 THEN weights[p] ELSE DefaultWeight

AlertPenalty(alert, weights) ==
  WeightFor(weights, alert.parameter) *
    (IF alert.level = "critical" THEN CriticalAlertPenalty ELSE WarningAlertPenalty)

AnomalyPenalty(anomaly) ==
  CASE anomaly.type = "jump"          -> 10000
    [] anomaly.type = "drift"         -> 15000
    [] anomaly.type = "combined_risk" -> 25000

QualityStateFromValue(value) ==
  CASE value >= 80000                    -> "stable"
    [] value < 80000 /\ value >= 60000   -> "warning"
    [] value < 60000 /\ value >= 40000   -> "unstable"
    [] value < 40000                     -> "critical"

(* A faulty variant for the checks: nothing stops the index at zero. *)
ClampAbove(value) == IF value > BaseQualityIndex THEN BaseQualityIndex ELSE value

Clamp(value) ==
  IF value < 0 THEN 0
  ELSE IF value > BaseQualityIndex THEN BaseQualityIndex ELSE value

(* Both arguments hold open events only, and at most one per key: they are *)
(* what the two Active queries return.                                     *)
CalculateIndex(activeAlerts, weights, activeAnomalies) ==
  LET parameterPenalty ==
        MapThenSumSet(LAMBDA alert : AlertPenalty(alert, weights), activeAlerts)
      anomalyPenalty == MapThenSumSet(AnomalyPenalty, activeAnomalies)
      value == Clamp(BaseQualityIndex - parameterPenalty - anomalyPenalty)
  IN  [ value            |-> value,
        state            |-> QualityStateFromValue(value),
        parameterPenalty |-> parameterPenalty,
        anomalyPenalty   |-> anomalyPenalty ]
=============================================================================
