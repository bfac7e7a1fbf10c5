----------------------------- MODULE MCTelemetry ----------------------------
(***************************************************************************)
(* Instances of Telemetry for TLC: the parameters of the combined risk,    *)
(* with the ranges of migrations/002 and the weights of migrations/005.    *)
(* Values and ranges are in halves of a unit, weights that are asked for   *)
(* in ten-thousandths.                                                     *)
(***************************************************************************)
EXTENDS Telemetry

CONSTANTS kafka, http, technologist

OneConsumer == [w \in Workers |-> Parameters]

Range6(a, b, c, d, e, f) ==
  [ criticalMin |-> a, warningMin |-> b, normalMin |-> c,
    normalMax |-> d, warningMax |-> e, criticalMax |-> f ]

(* Kafka brings the drive load, POST /api/telemetry the moisture; pressure *)
(* is not measured for now.                                                *)
SplitParameters ==
  [w \in Workers |-> IF w = kafka THEN {"drive_load"} ELSE {"moisture"}]

(* Pressure may be given a wider normal range, up to 88 bar instead of 75, *)
(* and moisture a narrower one, from 23 % instead of 22.                   *)
SeededSetpoints ==
  [p \in Parameters |->
     CASE p = "pressure"   -> <<Range6(60, 70, 80, 150, 180, 190),
                                Range6(60, 70, 80, 176, 180, 190)>>
       [] p = "moisture"   -> <<Range6(30, 40, 44, 56, 60, 70),
                                Range6(30, 40, 46, 56, 60, 70)>>
       [] p = "drive_load" -> <<Range6(40, 60, 80, 160, 180, 200)>>]

(* Moisture has been given the narrower range already: 22.5 % is a warning. *)
NarrowedSetpoints == [SeededSetpoints EXCEPT !["moisture"] = Tail(@)]

(* Pressure may be given the weight 0.5; 0.0004 would be rounded to zero.  *)
SeededWeights ==
  [p \in Parameters |->
     CASE p = "pressure"   -> <<20000, 5000, 4>>
       [] p = "moisture"   -> <<15000>>
       [] p = "drive_load" -> <<17000>>]

(* Five calm readings of each parameter: 60 bar, 25 %, 45 %. *)
CalmLine ==
  [p \in Parameters |->
     CASE p = "pressure"   -> <<120, 120, 120, 120, 120>>
       [] p = "moisture"   -> <<50, 50, 50, 50, 50>>
       [] p = "drive_load" -> <<90, 90, 90, 90, 90>>]

(* The combined risk is in the saved readings, but the calls that saved    *)
(* them failed before they stored an event.                                *)
UnnoticedRisk ==
  [p \in Parameters |->
     CASE p = "pressure"   -> <<120, 120, 120, 120, 131>>
       [] p = "moisture"   -> <<50, 50, 50, 50, 45>>
       [] p = "drive_load" -> <<90, 90, 90, 90, 104>>]

(* Calm, or the beginning of a combined risk.  65.5 bar are a rise without *)
(* a drift, 88 bar a warning, a jump and a drift; 22.5 % and 52 % drift.   *)
SomeValues ==
  [p \in Parameters |->
     CASE p = "pressure"   -> {120, 131, 176}
       [] p = "moisture"   -> {50, 45}
       [] p = "drive_load" -> {90, 104}]

FewerValues == [SomeValues EXCEPT !["pressure"] = {120, 176}]

(* The codes of migrations/006, and those of a database in which a         *)
(* combined risk had been stored before it was migrated.                   *)
FreshDatabase == ParameterTypes \cup {"process_risk"}

MigratedDatabase == FreshDatabase \cup {"process"}
=============================================================================
