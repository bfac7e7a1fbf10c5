--------------------------- MODULE TelemetryProofs ---------------------------
(***************************************************************************)
(* Service.Process as a whole does to alerts what processAlerts alone      *)
(* does: every step of Telemetry is a step of Alerts or leaves its         *)
(* variables alone.  What AlertsProofs shows for the readings that arrive  *)
(* out of nowhere then holds for those that Process validates, saves and   *)
(* judges, for every value of the constants of both modules; so does what  *)
(* AlarmPanelProofs shows of the alarm panel.                              *)
(***************************************************************************)
EXTENDS Telemetry, AlarmPanelProofs

(* A reading that is about to be saved has been judged by a setpoint.      *)
CallsAreJudged ==
  /\ stage = [w \in Workers |-> stage[w]]
  /\ call = [w \in Workers |-> call[w]]
  /\ \A w \in Workers : stage[w] = "save" => call[w].state \in ParameterStates

LEMMA EvaluateType ==
  \A setpoint, value : Evaluate(setpoint, value) \in ParameterStates
  BY DEF Evaluate, ParameterStates

(* A worker that goes to another stage than "save" keeps the calls judged. *)
LEMMA MoveOn ==
  ASSUME CallsAreJudged, NEW w \in Workers, NEW to, to # "save", NEW locals,
         stage' = [stage EXCEPT ![w] = to],
         call' = [call EXCEPT ![w] = locals]
  PROVE  CallsAreJudged'
<1>1. /\ stage' = [v \in Workers |-> IF v = w THEN to ELSE stage[v]]
      /\ call' = [v \in Workers |-> IF v = w THEN locals ELSE call[v]]
  BY DEF CallsAreJudged
<1> QED
  BY <1>1 DEF CallsAreJudged

LEMMA EndKeepsCallsJudged ==
  ASSUME CallsAreJudged, NEW w \in Workers, End(w)
  PROVE  CallsAreJudged'
  BY MoveOn DEF End

LEMMA ExecutedKeepsCallsJudged ==
  ASSUME CallsAreJudged, NEW w \in Workers, NEW from, NEW to, to # "save",
         NEW locals, Executed(w, from, to, locals)
  PROVE  CallsAreJudged'
<1>1. CASE Fail(w)
  BY <1>1, EndKeepsCallsJudged DEF Fail
<1>2. CASE /\ stage' = [stage EXCEPT ![w] = to]
           /\ call' = [call EXCEPT ![w] = locals]
  BY <1>2, MoveOn
<1> QED
  BY <1>1, <1>2 DEF Executed

-----------------------------------------------------------------------------
(***************************************************************************)
(* One step of a worker.                                                   *)
(***************************************************************************)

LEMMA ValidateIsInvisible ==
  ASSUME CallsAreJudged, NEW w \in Workers, NEW p \in Parameters, NEW value,
         Validate(w, p, value)
  PROVE  UNCHANGED vars /\ CallsAreJudged'
<1> DEFINE record ==
       [ parameter |-> p, value |-> value,
         state |-> Evaluate(GetByParameter(setpoints, p), value),
         reading |-> 0, newest |-> FALSE, alerts |-> {}, detected |-> {},
         todo |-> {}, found |-> 0, anomalies |-> {}, weights |-> << >> ]
<1>1. record.state \in ParameterStates
  BY EvaluateType
<1> HIDE DEF record
<1>2. stage' = [stage EXCEPT ![w] = "save"] /\ call' = [call EXCEPT ![w] = record]
  BY DEF Validate, record
<1>3. /\ stage' = [v \in Workers |-> IF v = w THEN "save" ELSE stage[v]]
      /\ call' = [v \in Workers |-> IF v = w THEN record ELSE call[v]]
  BY <1>2 DEF CallsAreJudged
<1>4. CallsAreJudged'
  BY <1>1, <1>3 DEF CallsAreJudged
<1> QED
  BY <1>4 DEF Validate

(* The insert of the reading, and with it the entry into processAlerts.    *)
LEMMA SaveEntersProcessAlerts ==
  ASSUME CallsAreJudged, NEW w \in Workers, NEW newer,
         SaveTelemetryReading(w, newer)
  PROVE  [Next]_vars /\ CallsAreJudged'
<1> DEFINE p == call[w].parameter
<1>1. CASE Fail(w) /\ UNCHANGED vars
  BY <1>1, EndKeepsCallsJudged DEF Fail
<1>2. CASE /\ ProcessAlerts(w, p, call[w].state)
           /\ stage' = [stage EXCEPT ![w] = "alerts"]
           /\ call' = [call EXCEPT ![w].reading = clock', ![w].newest = newer = 0]
  <2>1. call[w].state \in ParameterStates
    BY DEF SaveTelemetryReading, CallsAreJudged
  <2>2. p \in Parameters
    BY <1>2, AlertsAssumption DEF ProcessAlerts
  <2>3. Next
    BY <1>2, <2>1, <2>2 DEF Next
  <2>4. stage' = [v \in Workers |-> IF v = w THEN "alerts" ELSE stage[v]]
    BY <1>2 DEF CallsAreJudged
  <2>5. /\ call' = [v \in Workers |-> call'[v]]
        /\ \A v \in Workers \ {w} : call'[v] = call[v]
    BY <1>2 DEF CallsAreJudged
  <2> QED
    BY <2>3, <2>4, <2>5 DEF CallsAreJudged
<1> QED
  BY <1>1, <1>2 DEF SaveTelemetryReading

LEMMA AlertStatementIsWorkerStep ==
  ASSUME CallsAreJudged, NEW w \in Workers, AlertStatement(w)
  PROVE  [Next]_vars /\ CallsAreJudged'
<1>1. Next
  BY DEF AlertStatement, Next
<1>2. CASE UNCHANGED <<stage, call>>
  BY <1>1, <1>2 DEF CallsAreJudged
<1>3. CASE stage' = [stage EXCEPT ![w] = "active"] /\ UNCHANGED call
  <2>1. stage' = [v \in Workers |-> IF v = w THEN "active" ELSE stage[v]]
    BY <1>3 DEF CallsAreJudged
  <2> QED
    BY <1>1, <1>3, <2>1 DEF CallsAreJudged
<1>4. CASE Fail(w)
  BY <1>1, <1>4, EndKeepsCallsJudged DEF Fail
<1> QED
  BY <1>2, <1>3, <1>4 DEF AlertStatement

LEMMA LaterStepsAreInvisible ==
  ASSUME CallsAreJudged, NEW w \in Workers,
         \/ LoadActiveAlerts(w)
         \/ LoadParameterHistory(w)
         \/ LoadRiskHistory(w, "pressure", "moisture")
         \/ LoadRiskHistory(w, "moisture", "drive_load")
         \/ LoadRiskHistory(w, "drive_load", "sync")
         \/ FindOpenAnomaly(w)
         \/ UpdateAnomaly(w)
         \/ UpdateAnomalyMisses(w)
         \/ CreateAnomaly(w)
         \/ CreateAnomalyIsRefused(w)
         \/ ResolveAnomaly(w)
         \/ LoadActiveAnomalies(w)
         \/ LoadQualityWeights(w)
         \/ SaveQualityIndex(w)
         \/ WriteFails(w)
  PROVE  UNCHANGED vars /\ CallsAreJudged'
<1>1. CASE LoadActiveAlerts(w)
  BY <1>1, ExecutedKeepsCallsJudged DEF LoadActiveAlerts
<1>2. CASE LoadParameterHistory(w)
  BY <1>2, ExecutedKeepsCallsJudged DEF LoadParameterHistory
<1>3. CASE LoadRiskHistory(w, "pressure", "moisture")
  BY <1>3, ExecutedKeepsCallsJudged DEF LoadRiskHistory
<1>4. CASE LoadRiskHistory(w, "moisture", "drive_load")
  BY <1>4, ExecutedKeepsCallsJudged DEF LoadRiskHistory
<1>5. CASE LoadRiskHistory(w, "drive_load", "sync")
  BY <1>5, ExecutedKeepsCallsJudged DEF LoadRiskHistory
<1>6. CASE FindOpenAnomaly(w)
  BY <1>6, ExecutedKeepsCallsJudged DEF FindOpenAnomaly
<1>7. CASE UpdateAnomaly(w)
  BY <1>7, ExecutedKeepsCallsJudged DEF UpdateAnomaly
<1>8. CASE UpdateAnomalyMisses(w)
  BY <1>8, ExecutedKeepsCallsJudged DEF UpdateAnomalyMisses
<1>9. CASE CreateAnomaly(w)
  BY <1>9, ExecutedKeepsCallsJudged DEF CreateAnomaly
<1>10. CASE CreateAnomalyIsRefused(w)
  BY <1>10, EndKeepsCallsJudged DEF CreateAnomalyIsRefused
<1>11. CASE ResolveAnomaly(w)
  BY <1>11, ExecutedKeepsCallsJudged DEF ResolveAnomaly
<1>12. CASE LoadActiveAnomalies(w)
  BY <1>12, ExecutedKeepsCallsJudged DEF LoadActiveAnomalies
<1>13. CASE LoadQualityWeights(w)
  BY <1>13, ExecutedKeepsCallsJudged DEF LoadQualityWeights
<1>14. CASE SaveQualityIndex(w)
  BY <1>14, ExecutedKeepsCallsJudged DEF SaveQualityIndex
<1>15. CASE WriteFails(w)
  BY <1>15, EndKeepsCallsJudged DEF WriteFails, Fail
<1> QED
  BY <1>1, <1>2, <1>3, <1>4, <1>5, <1>6, <1>7, <1>8, <1>9, <1>10, <1>11, <1>12,
     <1>13, <1>14, <1>15

LEMMA ProcessStepIsAlertsStep ==
  ASSUME CallsAreJudged, NEW w \in Workers, ProcessStep(w)
  PROVE  [Next]_vars /\ CallsAreJudged'
<1>1. CASE \E newer \in 0..MaxNewer : SaveTelemetryReading(w, newer)
  BY <1>1, SaveEntersProcessAlerts
<1>2. CASE AlertStatement(w)
  BY <1>2, AlertStatementIsWorkerStep
<1> QED
  BY <1>1, <1>2, LaterStepsAreInvisible DEF ProcessStep

-----------------------------------------------------------------------------
LEMMA ProcessNextIsAlertsStep ==
  ASSUME CallsAreJudged, [ProcessNext]_allVars
  PROVE  [Next]_vars /\ CallsAreJudged'
<1>1. CASE UNCHANGED allVars
  BY <1>1 DEF allVars, processVars, CallsAreJudged
<1>2. CASE \E w \in Workers, p \in Parameters : \E value \in Values[p] :
             Validate(w, p, value)
  BY <1>2, ValidateIsInvisible
<1>3. CASE \E w \in Workers : ProcessStep(w)
  BY <1>3, ProcessStepIsAlertsStep
<1>4. CASE \E user \in Users, i \in DOMAIN alerts : OperatorActs(user, i)
  <2>1. Next
    BY <1>4 DEF OperatorActs, Next
  <2>2. UNCHANGED <<stage, call>>
    BY <1>4 DEF OperatorActs
  <2> QED
    BY <2>1, <2>2 DEF CallsAreJudged
<1>5. CASE \E p \in Parameters :
             \/ \E k \in DOMAIN Setpoints[p] : UpdateSetpoint(p, Setpoints[p][k])
             \/ \E k \in DOMAIN Weights[p] : UpdateWeight(p, Weights[p][k])
  <2>1. UNCHANGED <<vars, stage, call>>
    BY <1>5 DEF UpdateSetpoint, UpdateWeight
  <2> QED
    BY <2>1 DEF CallsAreJudged
<1> QED
  BY <1>1, <1>2, <1>3, <1>4, <1>5 DEF ProcessNext

(* Process implements Alerts: around processAlerts nothing is done to an   *)
(* alert, and processAlerts is given readings of the worker's parameters   *)
(* with a state that Setpoint.Evaluate can return.                         *)
THEOREM ProcessImplementsAlerts == ProcessSpec => Spec
<1>1. ProcessInit => Init /\ CallsAreJudged
  BY DEF ProcessInit, CallsAreJudged
<1>2. CallsAreJudged /\ [ProcessNext]_allVars => [Next]_vars /\ CallsAreJudged'
  BY ProcessNextIsAlertsStep
<1> QED
  BY <1>1, <1>2, PTL DEF ProcessSpec, Spec

(* "It also prevents duplicate active alerts for the same parameter"       *)
(* (process.go:12), of the whole of Process: one writer per parameter      *)
(* given, whatever operators, failing statements and changes of setpoints  *)
(* do between its statements, no parameter has two alerts that are open    *)
(* and were never resolved.                                                *)
THEOREM ProcessPreventsDuplicates ==
  ASSUME SingleWriter
  PROVE  ProcessSpec => []AtMostOneUnresolved
  BY ProcessImplementsAlerts, NoDuplicateUnresolvedAlerts, PTL

(* What an operator sees of Process is an alarm panel: with one writer per *)
(* parameter, every statement of Process, also those that fail, every      *)
(* operator's action and every change of a setpoint raises, reassesses,    *)
(* acknowledges or clears one alarm, or does not show.                     *)
THEOREM ProcessImplementsAlarmPanel ==
  ASSUME SingleWriter
  PROVE  ProcessSpec => ImplementsAlarmPanel
  BY ProcessImplementsAlerts, AlertsImplementAlarmPanel, PTL

-----------------------------------------------------------------------------
(***************************************************************************)
(* Types and control of a call.                                            *)
(*                                                                         *)
(* The record of a call: what one assignment to it leaves alone.           *)
(***************************************************************************)

AnomalyKey == [type : AnomalyTypes, parameter : Parameters \cup {"process"}]
AnomalyRow == [key : AnomalyKey, status : {"active", "resolved"}, reading : Nat]

(* Everything but the two reads, the search and the sync. *)
SameReading(c, d) ==
  /\ d.parameter = c.parameter /\ d.value = c.value /\ d.state = c.state
  /\ d.reading = c.reading /\ d.newest = c.newest

LEMMA CallAlerts ==
  ASSUME NEW c \in CallRecord,
         NEW x \in SUBSET [parameter : Parameters, level : AlertLevels]
  PROVE  LET d == [c EXCEPT !.alerts = x]
         IN  /\ d \in CallRecord /\ SameReading(c, d)
             /\ d.alerts = x
             /\ d.detected = c.detected /\ d.todo = c.todo
  BY DEF CallRecord, SameReading

WithPlan(c, detected, todo) == [c EXCEPT !.detected = detected, !.todo = todo]

LEMMA CallPlan ==
  ASSUME NEW c \in CallRecord, NEW x \in SUBSET AnomalyKey,
         NEW y \in SUBSET AnomalyKey
  PROVE  LET d == WithPlan(c, x, y)
         IN  /\ d \in CallRecord /\ SameReading(c, d)
             /\ d.alerts = c.alerts
             /\ d.detected = x /\ d.todo = y
  BY DEF CallRecord, SameReading, AnomalyKey, WithPlan

WithoutKey(c, key) == [c EXCEPT !.todo = @ \ {key}, !.found = 0]

LEMMA CallTodo ==
  ASSUME NEW c \in CallRecord, NEW k
  PROVE  LET d == WithoutKey(c, k)
         IN  /\ d \in CallRecord /\ SameReading(c, d)
             /\ d.alerts = c.alerts
             /\ d.detected = c.detected /\ d.todo = c.todo \ {k}
  BY DEF CallRecord, SameReading, AnomalyKey, WithoutKey

LEMMA CallFound ==
  ASSUME NEW c \in CallRecord, NEW n \in Nat
  PROVE  LET d == [c EXCEPT !.found = n]
         IN  /\ d \in CallRecord /\ SameReading(c, d)
             /\ d.alerts = c.alerts
             /\ d.detected = c.detected /\ d.todo = c.todo /\ d.found = n
  BY DEF CallRecord, SameReading, AnomalyKey

LEMMA NoCallIsNoRecord == NoCall \notin CallRecord
  BY DEF NoCall, CallRecord

-----------------------------------------------------------------------------
(***************************************************************************)
(* The anomaly table: what its statements do to the rows.                  *)
(***************************************************************************)

LEMMA UpdateOpenAnomalyRows ==
  ASSUME NEW table \in Seq(AnomalyRow), NEW i \in DOMAIN table, NEW n \in Nat
  PROVE  LET new == UpdateOpenAnomaly(table, i, n)
         IN  /\ new \in Seq(AnomalyRow)
             /\ DOMAIN new = DOMAIN table
             /\ \A k \in DOMAIN table : /\ new[k].key = table[k].key
                                        /\ new[k].status = table[k].status
<1> DEFINE row == [table[i] EXCEPT !.reading = n]
           new == UpdateOpenAnomaly(table, i, n)
<1>1. table[i] \in AnomalyRow
  OBVIOUS
<1>2. row \in AnomalyRow /\ row.key = table[i].key /\ row.status = table[i].status
  BY <1>1 DEF AnomalyRow
<1>3. new = [table EXCEPT ![i] = row]
  BY DEF UpdateOpenAnomaly
<1> HIDE DEF row
<1>4. /\ new \in Seq(AnomalyRow)
      /\ DOMAIN new = DOMAIN table
      /\ new[i] = row
      /\ \A k \in DOMAIN table \ {i} : new[k] = table[k]
  BY <1>2, <1>3
<1> QED
  BY <1>2, <1>4

LEMMA CreateAnomalyRows ==
  ASSUME NEW table \in Seq(AnomalyRow), NEW key \in AnomalyKey, NEW n \in Nat
  PROVE  LET new == CreateAnomalyRow(table, key, n)
             id == Len(table) + 1
         IN  /\ new \in Seq(AnomalyRow)
             /\ DOMAIN new = DOMAIN table \cup {id}
             /\ id \notin DOMAIN table
             /\ \A k \in DOMAIN table : new[k] = table[k]
             /\ new[id].key = key
             /\ new[id].status = "active"
<1> DEFINE row == [key |-> key, status |-> "active", reading |-> n]
<1>1. row \in AnomalyRow /\ row.key = key /\ row.status = "active"
  BY DEF AnomalyRow
<1>2. CreateAnomalyRow(table, key, n) = Append(table, row)
  BY DEF CreateAnomalyRow
<1> HIDE DEF row
<1> QED
  BY <1>1, <1>2

LEMMA ResolveAnomalyRows ==
  ASSUME NEW table \in Seq(AnomalyRow), NEW key
  PROVE  LET new == ResolveOpenByTypeAndParameter(table, key)
         IN  /\ new \in Seq(AnomalyRow)
             /\ DOMAIN new = DOMAIN table
             /\ \A k \in DOMAIN table :
                  /\ new[k].key = table[k].key
                  /\ k \in OpenAnomalies(table, key) => new[k].status = "resolved"
                  /\ k \notin OpenAnomalies(table, key) => new[k] = table[k]
<1> DEFINE new == ResolveOpenByTypeAndParameter(table, key)
           resolved(i) == [table[i] EXCEPT !.status = "resolved"]
<1>1. /\ Len(table) \in Nat
      /\ DOMAIN table = 1 .. Len(table)
  OBVIOUS
<1>2. /\ DOMAIN new = DOMAIN table
      /\ \A i \in DOMAIN table :
           new[i] = IF i \in OpenAnomalies(table, key) THEN resolved(i) ELSE table[i]
  BY DEF ResolveOpenByTypeAndParameter
<1>3. \A i \in DOMAIN table : table[i] \in AnomalyRow
  OBVIOUS
<1>4. ASSUME NEW i \in DOMAIN table
      PROVE  /\ resolved(i) \in AnomalyRow
             /\ resolved(i).key = table[i].key
             /\ resolved(i).status = "resolved"
  BY <1>3 DEF AnomalyRow
<1> HIDE DEF resolved
<1>5. new \in [1 .. Len(table) -> AnomalyRow]
  BY <1>1, <1>2, <1>3, <1>4 DEF ResolveOpenByTypeAndParameter
<1> HIDE DEF new
<1>6. new \in Seq(AnomalyRow)
  BY <1>1, <1>5, SeqDef
<1> QED
  BY <1>2, <1>4, <1>6 DEF new

(***************************************************************************)
(* The window of the latest readings.                                      *)
(***************************************************************************)

LEMMA SaveReadingType ==
  ASSUME NEW history \in Seq(Int), Len(history) <= DriftWindow,
         NEW value \in Int, NEW newer \in 0 .. Len(history)
  PROVE  LET new == SaveReading(history, value, newer)
         IN  /\ new \in Seq(Int)
             /\ 1 <= Len(new) /\ Len(new) <= DriftWindow
             /\ newer = 0 => new[Len(new)] = value
<1> DEFINE at == Len(history) - newer
           before == SubSeq(history, 1, at)
           after == SubSeq(history, at + 1, Len(history))
           all == (before \o <<value>>) \o after
           new == SaveReading(history, value, newer)
<1>1. /\ Len(history) \in Nat /\ at \in 0 .. Len(history)
      /\ \A i \in 1 .. Len(history) : history[i] \in Int
  OBVIOUS
<1>2. before \in Seq(Int) /\ Len(before) = at
  BY <1>1, SubSeqProperties
<1>3. after \in Seq(Int) /\ Len(after) = newer
  BY <1>1, SubSeqProperties
<1>4. <<value>> \in Seq(Int) /\ Len(<<value>>) = 1 /\ <<value>>[1] = value
  OBVIOUS
<1> HIDE DEF before, after
<1>5. /\ before \o <<value>> \in Seq(Int)
      /\ Len(before \o <<value>>) = at + 1
      /\ (before \o <<value>>)[at + 1] = value
  BY <1>1, <1>2, <1>4, ConcatProperties
<1>6. /\ all \in Seq(Int)
      /\ Len(all) = Len(history) + 1
      /\ newer = 0 => all[Len(all)] = value
  <2> DEFINE front == before \o <<value>>
  <2>1. front \in Seq(Int) /\ Len(front) = at + 1 /\ front[at + 1] = value
    BY <1>5
  <2> HIDE DEF front
  <2>2. /\ front \o after \in Seq(Int)
        /\ Len(front \o after) = Len(front) + Len(after)
        /\ \A i \in 1 .. Len(front) : (front \o after)[i] = front[i]
    <3>1. front \in Seq(Int) /\ after \in Seq(Int)
      BY <1>3, <2>1
    <3> QED
      BY <3>1, ConcatProperties
  <2>3. at + 1 \in 1 .. Len(front)
    BY <1>1, <2>1
  <2>4. (front \o after)[at + 1] = value
    BY <2>1, <2>2, <2>3
  <2>5. all = front \o after
    BY DEF front
  <2> HIDE DEF all
  <2> QED
    BY <1>1, <1>3, <2>1, <2>2, <2>4, <2>5
<1>7. new = IF Len(all) > DriftWindow THEN Tail(all) ELSE all
  BY DEF SaveReading, before, after
<1> HIDE DEF all, new
<1>8. PICK n \in Nat : n = Len(history)
  BY <1>1
<1>9. n <= DriftWindow /\ Len(all) = n + 1
  BY <1>6, <1>8
<1>10. CASE n + 1 > DriftWindow
  <2> DEFINE rest == Tail(all)
  <2>1. all # << >>
    BY <1>6, <1>9, EmptySeq
  <2>2. /\ rest \in Seq(Int)
        /\ Len(rest) = Len(all) - 1
        /\ \A i \in 1 .. Len(rest) : rest[i] = all[i + 1]
    BY <1>6, <2>1, HeadTailProperties
  <2>3. new = rest
    BY <1>7, <1>9, <1>10
  <2> HIDE DEF rest
  <2>4. Len(rest) = n /\ n >= 1
    BY <1>9, <1>10, <2>2 DEF DriftWindow
  <2>5. rest[n] = all[n + 1]
    BY <2>2, <2>4
  <2> QED
    BY <1>6, <1>9, <2>2, <2>3, <2>4, <2>5 DEF new
<1>11. CASE ~ (n + 1 > DriftWindow)
  <2>1. new = all
    BY <1>7, <1>9, <1>11
  <2>2. Len(all) <= DriftWindow /\ 1 <= Len(all)
    BY <1>9, <1>11 DEF DriftWindow
  <2> QED
    BY <1>6, <2>1, <2>2 DEF new
<1> QED
  BY <1>10, <1>11

-----------------------------------------------------------------------------
(* Further assignments to the record.                                      *)
LEMMA CallDetectedOnly ==
  ASSUME NEW c \in CallRecord, NEW x \in SUBSET AnomalyKey
  PROVE  LET d == [c EXCEPT !.detected = x]
         IN  /\ d \in CallRecord /\ SameReading(c, d)
             /\ d.alerts = c.alerts
             /\ d.detected = x /\ d.todo = c.todo
  BY DEF CallRecord, SameReading, AnomalyKey

LEMMA CallAnomalies ==
  ASSUME NEW c \in CallRecord, NEW x \in SUBSET AnomalyKey
  PROVE  LET d == [c EXCEPT !.anomalies = x]
         IN  /\ d \in CallRecord /\ SameReading(c, d)
             /\ d.alerts = c.alerts /\ d.anomalies = x
             /\ d.detected = c.detected /\ d.todo = c.todo
  BY DEF CallRecord, SameReading, AnomalyKey

LEMMA CallWeights ==
  ASSUME NEW c \in CallRecord, NEW x \in [Parameters -> Nat]
  PROVE  LET d == [c EXCEPT !.weights = x]
         IN  /\ d \in CallRecord /\ SameReading(c, d)
             /\ d.alerts = c.alerts /\ d.anomalies = c.anomalies /\ d.weights = x
             /\ d.detected = c.detected /\ d.todo = c.todo
  BY DEF CallRecord, SameReading, AnomalyKey

AsSaved(c, reading, newest) == [c EXCEPT !.reading = reading, !.newest = newest]

LEMMA CallReading ==
  ASSUME NEW c \in CallRecord, NEW n \in Nat, NEW b \in BOOLEAN
  PROVE  LET d == AsSaved(c, n, b)
         IN  /\ d \in CallRecord
             /\ d.parameter = c.parameter /\ d.value = c.value /\ d.state = c.state
             /\ d.reading = n /\ d.newest = b
             /\ d.detected = c.detected /\ d.todo = c.todo
  BY DEF CallRecord, AsSaved

-----------------------------------------------------------------------------
(***************************************************************************)
(* The two levels of control and the local variables of a call.            *)
(***************************************************************************)

Stages ==
  { "idle", "save", "alerts", "active", "history", "pressure", "moisture",
    "drive_load", "sync", "update anomaly", "create anomaly", "weights", "index" }

TablesFit ==
  /\ anomalies \in Seq(AnomalyRow)
  /\ \A i \in DOMAIN anomalies : CreateIsAccepted(anomalies[i].key)
  /\ windows \in [Parameters -> Seq(Int)]
  /\ \A p \in Parameters : Len(windows[p]) <= DriftWindow
  /\ setpoints \in [Parameters -> Setpoint]
  /\ \A p \in Parameters : ValidSetpoint(setpoints[p])
  /\ weights \in [Parameters -> Nat]
  /\ \A p \in Parameters : 0 < weights[p] /\ weights[p] <= 10000
  /\ failures \in Nat
  /\ overtaken \subseteq Workers

RecordFits(w, c) ==
  /\ c \in CallRecord
  /\ c.parameter \in Handles[w]
  /\ c.detected \subseteq Plan(c.parameter)
  /\ c.todo \subseteq Plan(c.parameter)

(* What a worker that stores an anomaly knows of it. *)
AnomalyInHand(w) ==
  /\ call[w].todo # {}
  /\ Key(w) \in call[w].detected
  /\ stage[w] = "update anomaly" =>
       /\ call[w].found \in DOMAIN anomalies
       /\ anomalies[call[w].found].key = Key(w)

CallFits(w) ==
  /\ stage[w] \in Stages
  /\ stage[w] = "idle" => call[w] = NoCall
  /\ stage[w] # "idle" => RecordFits(w, call[w])
  /\ pc[w] # "idle" <=> stage[w] = "alerts"
  /\ stage[w] = "alerts" =>
       job[w] = [parameter |-> call[w].parameter, state |-> call[w].state,
                 reading |-> call[w].reading]
  /\ stage[w] \in {"update anomaly", "create anomaly"} => AnomalyInHand(w)

TypeInv ==
  /\ TypeOK
  /\ CallsAreJudged
  /\ TablesFit
  /\ \A w \in Workers : CallFits(w)

LEMMA PlanType ==
  ASSUME NEW p \in Parameters
  PROVE  Plan(p) \subseteq AnomalyKey
  BY DEF Plan, Jump, Drift, CombinedRisk, AnomalyKey, AnomalyTypes

LEMMA KeyIsPlanned ==
  ASSUME NEW w, call[w].todo \subseteq Plan(call[w].parameter), call[w].todo # {}
  PROVE  Key(w) \in call[w].todo
  BY DEF Key, Plan

(* One step of worker w from one stage to another, or to the end. *)
OthersStay(w) ==
  \A v \in Workers \ {w} : stage'[v] = stage[v] /\ call'[v] = call[v]

Ends(w) ==
  stage'[w] = "idle" /\ call'[w] = NoCall /\ failures' = failures + 1

Moves(w, from, to, locals) ==
  /\ stage[w] = from
  /\ OthersStay(w)
  /\ \/ stage'[w] = to /\ call'[w] = locals /\ failures' = failures
     \/ Ends(w)

LEMMA Moved ==
  ASSUME CallsAreJudged, NEW w \in Workers, NEW to, NEW locals,
         stage' = [stage EXCEPT ![w] = to], call' = [call EXCEPT ![w] = locals]
  PROVE  stage'[w] = to /\ call'[w] = locals /\ OthersStay(w)
  BY DEF CallsAreJudged, OthersStay

LEMMA EndMoves ==
  ASSUME CallsAreJudged, NEW w \in Workers, End(w)
  PROVE  stage'[w] = "idle" /\ call'[w] = NoCall /\ OthersStay(w)
  BY Moved DEF End

LEMMA FailMoves ==
  ASSUME CallsAreJudged, NEW w \in Workers, Fail(w)
  PROVE  Ends(w) /\ OthersStay(w)
  BY EndMoves DEF Fail, Ends

LEMMA ExecutedMoves ==
  ASSUME CallsAreJudged, NEW w \in Workers, NEW from, NEW to, NEW locals,
         Executed(w, from, to, locals)
  PROVE  Moves(w, from, to, locals)
<1>1. CASE Fail(w)
  BY <1>1, FailMoves DEF Moves, Executed
<1>2. CASE /\ stage' = [stage EXCEPT ![w] = to]
           /\ call' = [call EXCEPT ![w] = locals]
           /\ UNCHANGED failures
  BY <1>2, Moved DEF Moves, Executed
<1> QED
  BY <1>1, <1>2 DEF Executed

(* No statement deletes an anomaly or changes its key. *)
KeysAreKept ==
  \A i \in DOMAIN anomalies :
    i \in DOMAIN anomalies' /\ anomalies'[i].key = anomalies[i].key

LEMMA OtherCallFits ==
  ASSUME NEW v \in Workers, CallFits(v), KeysAreKept,
         UNCHANGED <<stage[v], call[v], pc[v], job[v]>>
  PROVE  CallFits(v)'
<1>1. Key(v)' = Key(v)
  BY DEF Key
<1> QED
  BY <1>1 DEF CallFits, AnomalyInHand, KeysAreKept

LEMMA MovedCallFits ==
  ASSUME TypeInv, NEW w \in Workers, NEW from, NEW to, NEW locals,
         Moves(w, from, to, locals), KeysAreKept, UNCHANGED <<pc, job>>,
         from # "alerts",
         to \in Stages \ {"alerts", "update anomaly", "create anomaly"},
         to = "idle" => locals = NoCall,
         to # "idle" => RecordFits(w, locals),
         NEW v \in Workers
  PROVE  CallFits(v)'
<1>1. CASE v # w
  BY <1>1, OtherCallFits DEF TypeInv, Moves, OthersStay
<1>2. CASE v = w
  BY <1>2 DEF TypeInv, CallFits, Moves, Ends, RecordFits, Stages
<1> QED
  BY <1>1, <1>2

(* The same for a call that takes an anomaly in hand. *)
LEMMA TakenInHand ==
  ASSUME TypeInv, NEW w \in Workers, NEW from, NEW to, NEW locals,
         Moves(w, from, to, locals), UNCHANGED <<pc, job, anomalies>>,
         from # "alerts", to \in {"update anomaly", "create anomaly"},
         RecordFits(w, locals),
         locals.parameter = call[w].parameter, locals.todo = call[w].todo,
         locals.detected = call[w].detected,
         call[w].todo # {}, Key(w) \in call[w].detected,
         to = "update anomaly" => /\ locals.found \in DOMAIN anomalies
                                  /\ anomalies[locals.found].key = Key(w),
         NEW v \in Workers
  PROVE  CallFits(v)'
<1>1. CASE v # w
  BY <1>1, OtherCallFits DEF TypeInv, Moves, OthersStay, KeysAreKept
<1>2. CASE v = w /\ Ends(w)
  BY <1>2 DEF TypeInv, CallFits, Moves, Ends, Stages
<1>3. CASE v = w /\ stage'[w] = to /\ call'[w] = locals
  <2>1. Key(w)' = Key(w)
    BY <1>3 DEF Key
  <2> QED
    BY <1>3, <2>1 DEF TypeInv, CallFits, AnomalyInHand, Moves, RecordFits, Stages
<1> QED
  BY <1>1, <1>2, <1>3 DEF Moves

LEMMA TablesStay ==
  ASSUME TypeInv, NEW w \in Workers,
         UNCHANGED <<windows, setpoints, weights, anomalies>>,
         overtaken' \subseteq Workers,
         failures' \in Nat
  PROVE  TablesFit'
  BY DEF TypeInv, TablesFit

-----------------------------------------------------------------------------
(***************************************************************************)
(* Every action keeps TablesFit and CallFits.                              *)
(***************************************************************************)

CallsFitNext == TablesFit' /\ \A w \in Workers : CallFits(w)'

LEMMA WorkerStepFrame ==
  ASSUME TypeOK, NEW w \in Workers, WorkerStep(w)
  PROVE  /\ pc[w] # "idle"
         /\ pc'[w] # "idle" => job'[w] = job[w]
         /\ \A v \in Workers \ {w} : UNCHANGED <<pc[v], job[v]>>
  BY DEF TypeOK, WorkerStep, FindFinds, FindMisses, UpdateFindsOpen, UpdateMisses,
         CreateAlert, ResolveOpen, StatementFails, AnswerLost, Return, Goto

LEMMA ProcessAlertsFrame ==
  ASSUME TypeOK, NEW w \in Workers, NEW p, NEW state, ProcessAlerts(w, p, state)
  PROVE  /\ pc'[w] # "idle"
         /\ job'[w] = [parameter |-> p, state |-> state, reading |-> clock']
         /\ clock' \in Nat /\ clock' = clock + 1
         /\ \A v \in Workers \ {w} : UNCHANGED <<pc[v], job[v]>>
  BY DEF TypeOK, ProcessAlerts, Goto

LEMMA ValidateFits ==
  ASSUME TypeInv, NEW w \in Workers, NEW p \in Parameters, NEW value \in Values[p],
         Validate(w, p, value)
  PROVE  CallsFitNext
<1> DEFINE record ==
       [ parameter |-> p, value |-> value,
         state |-> Evaluate(GetByParameter(setpoints, p), value),
         reading |-> 0, newest |-> FALSE, alerts |-> {}, detected |-> {},
         todo |-> {}, found |-> 0, anomalies |-> {}, weights |-> << >> ]
<1>1. /\ stage[w] = "idle" /\ p \in Handles[w]
      /\ stage' = [stage EXCEPT ![w] = "save"]
      /\ call' = [call EXCEPT ![w] = record]
      /\ UNCHANGED <<vars, windows, setpoints, weights, anomalies, failures,
                     overtaken>>
  BY DEF Validate
<1>2. RecordFits(w, record)
  <2>1. record.state \in ParameterStates /\ value \in Int
    BY EvaluateType, TelemetryAssumption
  <2>2. record \in CallRecord
    BY <2>1 DEF CallRecord
  <2> QED
    BY <1>1, <2>2 DEF RecordFits
<1> HIDE DEF record
<1>3. Moves(w, "idle", "save", record)
  BY <1>1, Moved DEF TypeInv, Moves
<1>4. KeysAreKept /\ UNCHANGED <<pc, job>>
  BY <1>1 DEF KeysAreKept, vars
<1>5. "save" \in Stages \ {"alerts", "update anomaly", "create anomaly"}
  BY DEF Stages
<1>6. \A v \in Workers : CallFits(v)'
  BY <1>2, <1>3, <1>4, <1>5, MovedCallFits
<1>7. TablesFit'
  BY <1>1, TablesStay DEF TypeInv, TablesFit
<1> QED
  BY <1>6, <1>7 DEF CallsFitNext

LEMMA FailuresAreCounted ==
  ASSUME TypeInv, NEW w, NEW from, NEW to, NEW locals, Moves(w, from, to, locals)
  PROVE  failures' \in Nat
<1>1. failures \in Nat
  BY DEF TypeInv, TablesFit
<1> QED
  BY <1>1 DEF Moves, Ends

(* The step of a worker that does not touch the tables. *)
LEMMA ReadFits ==
  ASSUME TypeInv, NEW w \in Workers, NEW from, NEW to, NEW locals,
         Executed(w, from, to, locals),
         from # "alerts",
         to \in Stages \ {"alerts", "update anomaly", "create anomaly"},
         to = "idle" => locals = NoCall,
         to # "idle" => RecordFits(w, locals),
         UNCHANGED <<vars, windows, setpoints, weights, anomalies>>,
         overtaken' \subseteq Workers
  PROVE  CallsFitNext
<1>1. Moves(w, from, to, locals)
  BY ExecutedMoves DEF TypeInv
<1>2. KeysAreKept /\ UNCHANGED <<pc, job>>
  BY DEF KeysAreKept, vars
<1>3. \A v \in Workers : CallFits(v)'
  BY <1>1, <1>2, MovedCallFits
<1>4. failures' \in Nat
  BY <1>1, FailuresAreCounted
<1>5. TablesFit'
  BY <1>4, TablesStay
<1> QED
  BY <1>3, <1>5 DEF CallsFitNext

(* The record of a running call. *)
LEMMA RunningCall ==
  ASSUME TypeInv, NEW w \in Workers, stage[w] # "idle"
  PROVE  /\ RecordFits(w, call[w])
         /\ call[w].parameter \in Parameters
         /\ Plan(call[w].parameter) \subseteq AnomalyKey
<1>1. RecordFits(w, call[w])
  BY DEF TypeInv, CallFits
<1>2. call[w].parameter \in Parameters
  BY <1>1 DEF RecordFits, CallRecord
<1> QED
  BY <1>1, <1>2, PlanType

LEMMA ActiveAlertsType ==
  ASSUME TypeOK
  PROVE  ActiveAlerts(alerts) \subseteq [parameter : Parameters, level : AlertLevels]
<1>1. \A i \in Active(alerts) : i \in DOMAIN alerts
  BY DEF Active, LatestOpenAlert, OpenAlerts
<1>2. \A i \in DOMAIN alerts : alerts[i] \in AlertRow
  BY DEF TypeOK
<1> QED
  BY <1>1, <1>2 DEF ActiveAlerts, AlertRow

LEMMA LoadActiveAlertsFits ==
  ASSUME TypeInv, NEW w \in Workers, LoadActiveAlerts(w)
  PROVE  CallsFitNext
<1> DEFINE locals == [call[w] EXCEPT !.alerts = ActiveAlerts(alerts)]
<1>1. stage[w] = "active"
  BY DEF LoadActiveAlerts, Executed
<1>2. RecordFits(w, call[w])
  BY <1>1, RunningCall
<1>3. RecordFits(w, locals)
  BY <1>2, ActiveAlertsType, CallAlerts DEF TypeInv, RecordFits, SameReading
<1>4. /\ Executed(w, "active", "history", locals)
      /\ UNCHANGED <<vars, windows, setpoints, weights, anomalies>>
      /\ overtaken' = overtaken \ {w}
  BY DEF LoadActiveAlerts
<1> HIDE DEF locals
<1>5. overtaken' \subseteq Workers
  BY <1>4 DEF TypeInv, TablesFit
<1> QED
  BY <1>3, <1>4, <1>5, ReadFits DEF Stages

LEMMA LoadParameterHistoryFits ==
  ASSUME TypeInv, NEW w \in Workers, LoadParameterHistory(w)
  PROVE  CallsFitNext
<1> DEFINE detected == DetectedIn(call[w].parameter, call[w].value,
                                  HistoryByParameter(call[w].parameter))
           locals == [call[w] EXCEPT !.detected = detected]
<1>1. stage[w] = "history"
  BY DEF LoadParameterHistory, Executed
<1>2. /\ RecordFits(w, call[w])
      /\ Plan(call[w].parameter) \subseteq AnomalyKey
  BY <1>1, RunningCall
<1>3. detected \subseteq Plan(call[w].parameter)
  BY DEF DetectedIn
<1>4. /\ Executed(w, "history", "pressure", locals)
      /\ UNCHANGED <<vars, windows, setpoints, weights, anomalies, overtaken>>
  BY DEF LoadParameterHistory
<1> HIDE DEF detected
<1>5. RecordFits(w, locals)
  BY <1>2, <1>3, CallDetectedOnly DEF RecordFits, SameReading
<1> HIDE DEF locals
<1>6. overtaken' \subseteq Workers
  BY <1>4 DEF TypeInv, TablesFit
<1> QED
  BY <1>4, <1>5, <1>6, ReadFits DEF Stages

LEMMA LoadRiskHistoryFits ==
  ASSUME TypeInv, NEW w \in Workers, NEW p, NEW next,
         p \in {"pressure", "moisture", "drive_load"},
         next \in {"moisture", "drive_load", "sync"},
         LoadRiskHistory(w, p, next)
  PROVE  CallsFitNext
<1> DEFINE detected == IF SupportsRisk(p, HistoryByParameter(p))
                       THEN call[w].detected
                       ELSE call[w].detected \ {CombinedRisk}
           todo == IF next = "sync" THEN Plan(call[w].parameter) ELSE {}
           locals == [call[w] EXCEPT !.detected = detected, !.todo = todo]
<1>1. stage[w] = p
  BY DEF LoadRiskHistory, Executed
<1>2. /\ RecordFits(w, call[w])
      /\ Plan(call[w].parameter) \subseteq AnomalyKey
  BY <1>1, RunningCall
<1>3. /\ detected \subseteq Plan(call[w].parameter)
      /\ todo \subseteq Plan(call[w].parameter)
  BY <1>2 DEF RecordFits
<1>4. /\ Executed(w, p, next, locals)
      /\ UNCHANGED <<vars, windows, setpoints, weights, anomalies, overtaken>>
  BY DEF LoadRiskHistory
<1> HIDE DEF detected, todo
<1>5. RecordFits(w, locals)
  <2>1. /\ call[w] \in CallRecord
        /\ detected \in SUBSET AnomalyKey /\ todo \in SUBSET AnomalyKey
    BY <1>2, <1>3 DEF RecordFits
  <2>2. /\ locals \in CallRecord
        /\ locals.parameter = call[w].parameter
        /\ locals.detected = detected /\ locals.todo = todo
    <3>1. locals = WithPlan(call[w], detected, todo)
      BY DEF WithPlan
    <3> HIDE DEF locals
    <3> QED
      BY <2>1, <3>1, CallPlan DEF SameReading
  <2> QED
    BY <1>2, <1>3, <2>2 DEF RecordFits
<1> HIDE DEF locals
<1>6. overtaken' \subseteq Workers
  BY <1>4 DEF TypeInv, TablesFit
<1>7. p # "alerts" /\ next # "idle"
      /\ next \in Stages \ {"alerts", "update anomaly", "create anomaly"}
  BY DEF Stages
<1> QED
  BY <1>4, <1>5, <1>6, <1>7, ReadFits

LEMMA ActiveAnomaliesType ==
  ASSUME TablesFit
  PROVE  ActiveAnomalies(anomalies) \subseteq AnomalyKey
<1>1. \A i \in DOMAIN anomalies : anomalies[i] \in AnomalyRow
  BY DEF TablesFit
<1> QED
  BY <1>1 DEF ActiveAnomalies, AnomalyRow

LEMMA LoadActiveAnomaliesFits ==
  ASSUME TypeInv, NEW w \in Workers, LoadActiveAnomalies(w)
  PROVE  CallsFitNext
<1> DEFINE locals == [call[w] EXCEPT !.anomalies = ActiveAnomalies(anomalies)]
<1>1. stage[w] = "sync"
  BY DEF LoadActiveAnomalies
<1>2. RecordFits(w, call[w])
  BY <1>1, RunningCall
<1>3. RecordFits(w, locals)
  BY <1>2, ActiveAnomaliesType, CallAnomalies DEF TypeInv, RecordFits, SameReading
<1>4. /\ Executed(w, "sync", "weights", locals)
      /\ UNCHANGED <<vars, windows, setpoints, weights, anomalies, overtaken>>
  BY DEF LoadActiveAnomalies
<1> HIDE DEF locals
<1>5. overtaken' \subseteq Workers
  BY <1>4 DEF TypeInv, TablesFit
<1> QED
  BY <1>3, <1>4, <1>5, ReadFits DEF Stages

LEMMA LoadQualityWeightsFits ==
  ASSUME TypeInv, NEW w \in Workers, LoadQualityWeights(w)
  PROVE  CallsFitNext
<1> DEFINE locals == [call[w] EXCEPT !.weights = weights]
<1>1. stage[w] = "weights"
  BY DEF LoadQualityWeights, Executed
<1>2. RecordFits(w, call[w])
  BY <1>1, RunningCall
<1>3. RecordFits(w, locals)
  BY <1>2, CallWeights DEF TypeInv, TablesFit, RecordFits, SameReading
<1>4. /\ Executed(w, "weights", "index", locals)
      /\ UNCHANGED <<vars, windows, setpoints, weights, anomalies, overtaken>>
  BY DEF LoadQualityWeights
<1> HIDE DEF locals
<1>5. overtaken' \subseteq Workers
  BY <1>4 DEF TypeInv, TablesFit
<1> QED
  BY <1>3, <1>4, <1>5, ReadFits DEF Stages

LEMMA SaveQualityIndexFits ==
  ASSUME TypeInv, NEW w \in Workers, SaveQualityIndex(w)
  PROVE  CallsFitNext
<1>1. /\ Executed(w, "index", "idle", NoCall)
      /\ UNCHANGED <<vars, windows, setpoints, weights, anomalies, overtaken>>
  BY DEF SaveQualityIndex
<1>2. overtaken' \subseteq Workers
  BY <1>1 DEF TypeInv, TablesFit
<1> QED
  BY <1>1, <1>2, ReadFits DEF Stages

-----------------------------------------------------------------------------
(***************************************************************************)
(* The statements on anomalies.                                            *)
(***************************************************************************)

LEMMA OvertakenStaysTyped ==
  ASSUME TypeInv, NEW w \in Workers, Overtake(w)
  PROVE  overtaken' \subseteq Workers
  BY DEF Overtake, TypeInv, TablesFit

LEMMA FindOpenAnomalyFits ==
  ASSUME TypeInv, NEW w \in Workers, FindOpenAnomaly(w)
  PROVE  CallsFitNext
<1>1. /\ stage[w] = "sync" /\ call[w].todo # {} /\ Key(w) \in call[w].detected
      /\ UNCHANGED <<vars, windows, setpoints, weights, anomalies, overtaken>>
  BY DEF FindOpenAnomaly
<1>2. RecordFits(w, call[w])
  BY <1>1, RunningCall
<1>3. UNCHANGED <<pc, job, anomalies>> /\ overtaken' \subseteq Workers
  BY <1>1 DEF vars, TypeInv, TablesFit
<1>4. ASSUME NEW i \in OpenAnomalies(anomalies, Key(w)),
             Executed(w, "sync", "update anomaly", [call[w] EXCEPT !.found = i])
      PROVE  CallsFitNext
  <2> DEFINE locals == [call[w] EXCEPT !.found = i]
  <2>1. i \in DOMAIN anomalies /\ anomalies[i].key = Key(w) /\ i \in Nat
    BY DEF OpenAnomalies, TypeInv, TablesFit
  <2>2. /\ locals \in CallRecord /\ SameReading(call[w], locals)
        /\ locals.detected = call[w].detected /\ locals.todo = call[w].todo
        /\ locals.found = i
    BY <1>2, <2>1, CallFound DEF RecordFits
  <2>3. Moves(w, "sync", "update anomaly", locals)
    BY <1>4, ExecutedMoves DEF TypeInv
  <2> HIDE DEF locals
  <2>4. RecordFits(w, locals) /\ locals.parameter = call[w].parameter
    BY <1>2, <2>2 DEF RecordFits, SameReading
  <2>5. \A v \in Workers : CallFits(v)'
    BY <1>1, <1>3, <2>1, <2>2, <2>3, <2>4, TakenInHand
  <2>6. TablesFit'
    BY <1>1, <1>3, <2>3, FailuresAreCounted, TablesStay
  <2> QED
    BY <2>5, <2>6 DEF CallsFitNext
<1>5. ASSUME Executed(w, "sync", "create anomaly", call[w])
      PROVE  CallsFitNext
  <2>1. Moves(w, "sync", "create anomaly", call[w])
    BY <1>5, ExecutedMoves DEF TypeInv
  <2>2. \A v \in Workers : CallFits(v)'
    BY <1>1, <1>2, <1>3, <2>1, TakenInHand
  <2>3. TablesFit'
    BY <1>1, <1>3, <2>1, FailuresAreCounted, TablesStay
  <2> QED
    BY <2>2, <2>3 DEF CallsFitNext
<1> QED
  BY <1>4, <1>5 DEF FindOpenAnomaly

(* A call that has taken an anomaly in hand, and its place in the plan.    *)
LEMMA InHand ==
  ASSUME TypeInv, NEW w \in Workers,
         stage[w] \in {"update anomaly", "create anomaly"}
  PROVE  /\ AnomalyInHand(w)
         /\ RecordFits(w, call[w])
         /\ Key(w) \in AnomalyKey /\ Key(w) \in call[w].todo
         /\ call[w].reading \in Nat
<1>1. AnomalyInHand(w) /\ RecordFits(w, call[w])
  BY DEF TypeInv, CallFits
<1>2. Key(w) \in call[w].todo
  BY <1>1, KeyIsPlanned DEF AnomalyInHand, RecordFits
<1>3. Plan(call[w].parameter) \subseteq AnomalyKey
  BY RunningCall
<1>4. call[w].reading \in Nat
  BY <1>1 DEF RecordFits, CallRecord
<1> QED
  BY <1>1, <1>2, <1>3, <1>4 DEF RecordFits

LEMMA UpdateAnomalyMissesFits ==
  ASSUME TypeInv, NEW w \in Workers, UpdateAnomalyMisses(w)
  PROVE  CallsFitNext
<1> DEFINE locals == [call[w] EXCEPT !.found = 0]
<1>1. /\ Executed(w, "update anomaly", "create anomaly", locals)
      /\ UNCHANGED <<vars, windows, setpoints, weights, anomalies, overtaken>>
  BY DEF UpdateAnomalyMisses
<1>2. AnomalyInHand(w) /\ RecordFits(w, call[w])
  BY <1>1, InHand DEF Executed
<1>3. UNCHANGED <<pc, job, anomalies>> /\ overtaken' \subseteq Workers
  <2>1. overtaken \subseteq Workers
    BY DEF TypeInv, TablesFit
  <2> QED
    BY <1>1, <2>1 DEF vars
<1>4. /\ locals \in CallRecord /\ SameReading(call[w], locals)
      /\ locals.detected = call[w].detected /\ locals.todo = call[w].todo
  BY <1>2, CallFound DEF RecordFits
<1>5. Moves(w, "update anomaly", "create anomaly", locals)
  BY <1>1, ExecutedMoves DEF TypeInv
<1> HIDE DEF locals
<1>6. RecordFits(w, locals) /\ locals.parameter = call[w].parameter
  BY <1>2, <1>4 DEF RecordFits, SameReading
<1>7. \A v \in Workers : CallFits(v)'
  BY <1>2, <1>3, <1>4, <1>5, <1>6, TakenInHand DEF AnomalyInHand
<1>8. TablesFit'
  BY <1>1, <1>3, <1>5, FailuresAreCounted, TablesStay
<1> QED
  BY <1>7, <1>8 DEF CallsFitNext

LEMMA RowsChange ==
  ASSUME TypeInv, anomalies' \in Seq(AnomalyRow),
         \A i \in DOMAIN anomalies' : CreateIsAccepted(anomalies'[i].key),
         UNCHANGED <<windows, setpoints, weights>>,
         failures' \in Nat, overtaken' \subseteq Workers
  PROVE  TablesFit'
  BY DEF TypeInv, TablesFit

(* A statement that writes an anomaly and goes on with the next key. *)
LEMMA AnomalyWritten ==
  ASSUME TypeInv, NEW w \in Workers, NEW from,
         from \in {"sync", "update anomaly", "create anomaly"},
         Executed(w, from, "sync", NextKey(w)),
         anomalies' \in Seq(AnomalyRow), KeysAreKept,
         \A i \in DOMAIN anomalies' : CreateIsAccepted(anomalies'[i].key),
         UNCHANGED <<vars, windows, setpoints, weights>>, Overtake(w)
  PROVE  CallsFitNext
<1> DEFINE locals == NextKey(w)
<1>1. stage[w] = from
  BY DEF Executed
<1>2. RecordFits(w, call[w])
  BY <1>1, RunningCall
<1>3. locals = WithoutKey(call[w], Key(w))
  BY DEF NextKey, WithoutKey
<1>4. Moves(w, from, "sync", locals)
  BY ExecutedMoves DEF TypeInv
<1> HIDE DEF locals
<1>5. RecordFits(w, locals)
  <2>1. /\ locals \in CallRecord /\ locals.parameter = call[w].parameter
        /\ locals.detected = call[w].detected
        /\ locals.todo = call[w].todo \ {Key(w)}
    BY <1>2, <1>3, CallTodo DEF RecordFits, SameReading
  <2> QED
    BY <1>2, <2>1 DEF RecordFits
<1>6. UNCHANGED <<pc, job>> /\ overtaken' \subseteq Workers
  BY OvertakenStaysTyped DEF vars
<1>7. \A v \in Workers : CallFits(v)'
  BY <1>4, <1>5, <1>6, MovedCallFits DEF Stages
<1>8. failures' \in Nat
  BY <1>4, FailuresAreCounted
<1>9. TablesFit'
  BY <1>6, <1>8, RowsChange
<1> QED
  BY <1>7, <1>9 DEF CallsFitNext

LEMMA UpdateAnomalyFits ==
  ASSUME TypeInv, NEW w \in Workers, UpdateAnomaly(w)
  PROVE  CallsFitNext
<1>1. stage[w] = "update anomaly"
  BY DEF UpdateAnomaly, Executed
<1>2. call[w].found \in DOMAIN anomalies /\ call[w].reading \in Nat
  BY <1>1, InHand DEF AnomalyInHand
<1>3. /\ anomalies \in Seq(AnomalyRow)
      /\ anomalies' = UpdateOpenAnomaly(anomalies, call[w].found, call[w].reading)
      /\ \A i \in DOMAIN anomalies : CreateIsAccepted(anomalies[i].key)
  <2>1. anomalies' = UpdateOpenAnomaly(anomalies, call[w].found, call[w].reading)
    BY DEF UpdateAnomaly
  <2>2. /\ anomalies \in Seq(AnomalyRow)
        /\ \A i \in DOMAIN anomalies : CreateIsAccepted(anomalies[i].key)
    BY DEF TypeInv, TablesFit
  <2> QED
    BY <2>1, <2>2
<1>4. /\ anomalies' \in Seq(AnomalyRow) /\ DOMAIN anomalies' = DOMAIN anomalies
      /\ \A k \in DOMAIN anomalies : anomalies'[k].key = anomalies[k].key
  BY <1>2, <1>3, UpdateOpenAnomalyRows
<1> QED
  BY <1>3, <1>4, AnomalyWritten DEF UpdateAnomaly, KeysAreKept

LEMMA CreateAnomalyFits ==
  ASSUME TypeInv, NEW w \in Workers, CreateAnomaly(w)
  PROVE  CallsFitNext
<1>1. stage[w] = "create anomaly"
  BY DEF CreateAnomaly, Executed
<1>2. Key(w) \in AnomalyKey /\ call[w].reading \in Nat
  BY <1>1, InHand
<1>3. /\ anomalies \in Seq(AnomalyRow)
      /\ anomalies' = CreateAnomalyRow(anomalies, Key(w), call[w].reading)
      /\ \A i \in DOMAIN anomalies : CreateIsAccepted(anomalies[i].key)
      /\ CreateIsAccepted(Key(w))
  <2>1. /\ anomalies' = CreateAnomalyRow(anomalies, Key(w), call[w].reading)
        /\ CreateIsAccepted(Key(w))
    BY DEF CreateAnomaly
  <2>2. /\ anomalies \in Seq(AnomalyRow)
        /\ \A i \in DOMAIN anomalies : CreateIsAccepted(anomalies[i].key)
    BY DEF TypeInv, TablesFit
  <2> QED
    BY <2>1, <2>2
<1>4. /\ anomalies' \in Seq(AnomalyRow)
      /\ DOMAIN anomalies' = DOMAIN anomalies \cup {Len(anomalies) + 1}
      /\ \A k \in DOMAIN anomalies : anomalies'[k] = anomalies[k]
      /\ anomalies'[Len(anomalies) + 1].key = Key(w)
  <2>1. PICK key \in AnomalyKey : key = Key(w)
    BY <1>2
  <2>2. PICK n \in Nat : n = call[w].reading
    BY <1>2
  <2>3. anomalies' = CreateAnomalyRow(anomalies, key, n)
    BY <1>3, <2>1, <2>2
  <2> QED
    <3> DEFINE new == CreateAnomalyRow(anomalies, key, n)
    <3>1. /\ new \in Seq(AnomalyRow)
          /\ DOMAIN new = DOMAIN anomalies \cup {Len(anomalies) + 1}
          /\ \A k \in DOMAIN anomalies : new[k] = anomalies[k]
          /\ new[Len(anomalies) + 1].key = key
      BY <1>3, CreateAnomalyRows
    <3> HIDE DEF new
    <3> QED
      BY <2>1, <2>3, <3>1 DEF new
<1> QED
  BY <1>3, <1>4, AnomalyWritten DEF CreateAnomaly, KeysAreKept

LEMMA ResolveAnomalyFits ==
  ASSUME TypeInv, NEW w \in Workers, ResolveAnomaly(w)
  PROVE  CallsFitNext
<1>1. /\ anomalies \in Seq(AnomalyRow)
      /\ anomalies' = ResolveOpenByTypeAndParameter(anomalies, Key(w))
      /\ \A i \in DOMAIN anomalies : CreateIsAccepted(anomalies[i].key)
  <2>1. anomalies' = ResolveOpenByTypeAndParameter(anomalies, Key(w))
    BY DEF ResolveAnomaly
  <2>2. /\ anomalies \in Seq(AnomalyRow)
        /\ \A i \in DOMAIN anomalies : CreateIsAccepted(anomalies[i].key)
    BY DEF TypeInv, TablesFit
  <2> QED
    BY <2>1, <2>2
<1>2. /\ anomalies' \in Seq(AnomalyRow) /\ DOMAIN anomalies' = DOMAIN anomalies
      /\ \A k \in DOMAIN anomalies : anomalies'[k].key = anomalies[k].key
  BY <1>1, ResolveAnomalyRows
<1> QED
  BY <1>1, <1>2, AnomalyWritten DEF ResolveAnomaly, KeysAreKept

(* The call ends before its time. *)
LEMMA EndFits ==
  ASSUME TypeInv, NEW w \in Workers, stage[w] # "alerts", End(w),
         UNCHANGED <<pc, job, setpoints, weights, anomalies, overtaken>>,
         failures' \in Nat, windows' \in [Parameters -> Seq(Int)],
         \A p \in Parameters : Len(windows'[p]) <= DriftWindow
  PROVE  CallsFitNext
<1>1. stage'[w] = "idle" /\ call'[w] = NoCall /\ OthersStay(w)
  BY EndMoves DEF TypeInv
<1>2. KeysAreKept
  BY DEF KeysAreKept
<1>3. ASSUME NEW v \in Workers PROVE CallFits(v)'
  <2>1. CASE v # w
    BY <1>1, <1>2, <2>1, OtherCallFits DEF TypeInv, OthersStay
  <2>2. CASE v = w
    BY <1>1, <2>2 DEF TypeInv, CallFits, Stages
  <2> QED
    BY <2>1, <2>2
<1>4. TablesFit'
  BY DEF TypeInv, TablesFit
<1> QED
  BY <1>3, <1>4 DEF CallsFitNext

LEMMA WriteFailsFits ==
  ASSUME TypeInv, NEW w \in Workers,
         WriteFails(w) \/ CreateAnomalyIsRefused(w)
  PROVE  CallsFitNext
<1>1. /\ stage[w] # "alerts" /\ End(w)
      /\ UNCHANGED <<vars, windows, setpoints, weights, anomalies, overtaken>>
      /\ failures' = failures \/ failures' = failures + 1
  BY DEF WriteFails, CreateAnomalyIsRefused, Fail
<1>2. failures' \in Nat
  <2>1. failures \in Nat
    BY DEF TypeInv, TablesFit
  <2> QED
    BY <1>1, <2>1
<1>3. /\ windows' \in [Parameters -> Seq(Int)]
      /\ \A p \in Parameters : Len(windows'[p]) <= DriftWindow
  BY <1>1 DEF TypeInv, TablesFit
<1> QED
  BY <1>1, <1>2, <1>3, EndFits DEF vars

-----------------------------------------------------------------------------
(***************************************************************************)
(* The insert of the reading, and the statements of processAlerts.         *)
(***************************************************************************)

LEMMA WindowsStayTyped ==
  ASSUME TypeInv, NEW w \in Workers, NEW newer \in 0 .. MaxNewer,
         SaveTelemetryReading(w, newer)
  PROVE  /\ windows' \in [Parameters -> Seq(Int)]
         /\ \A p \in Parameters : Len(windows'[p]) <= DriftWindow
         /\ \A p \in Parameters \ {call[w].parameter} : windows'[p] = windows[p]
         /\ LET h == windows'[call[w].parameter]
            IN  Len(h) >= 1 /\ (newer = 0 => h[Len(h)] = call[w].value)
<1>1. stage[w] = "save"
  BY DEF SaveTelemetryReading
<1>2. PICK p \in Parameters : p = call[w].parameter
  BY <1>1, RunningCall
<1>3. PICK value \in Int : value = call[w].value
  <2>1. call[w] \in CallRecord
    BY <1>1, RunningCall DEF RecordFits
  <2> QED
    BY <2>1 DEF CallRecord
<1>4. PICK history \in Seq(Int) : history = windows[p]
  BY DEF TypeInv, TablesFit
<1>5. Len(history) <= DriftWindow
  BY <1>4 DEF TypeInv, TablesFit
<1>6. newer \in 0 .. Len(history)
  <2>1. newer <= Len(history) /\ MaxNewer \in Nat
    BY <1>2, <1>4, TelemetryAssumption DEF SaveTelemetryReading
  <2> QED
    BY <2>1
<1> DEFINE new == SaveReading(history, value, newer)
<1>7. /\ new \in Seq(Int)
      /\ 1 <= Len(new) /\ Len(new) <= DriftWindow
      /\ newer = 0 => new[Len(new)] = value
  BY <1>5, <1>6, SaveReadingType
<1>8. /\ windows \in [Parameters -> Seq(Int)]
      /\ \A q \in Parameters : Len(windows[q]) <= DriftWindow
      /\ windows' = [windows EXCEPT ![p] = new]
  BY <1>2, <1>3, <1>4 DEF SaveTelemetryReading, TypeInv, TablesFit
<1> HIDE DEF new
<1>9. /\ windows' \in [Parameters -> Seq(Int)]
      /\ windows'[p] = new
      /\ \A q \in Parameters \ {p} : windows'[q] = windows[q]
  BY <1>7, <1>8
<1> QED
  BY <1>2, <1>3, <1>7, <1>8, <1>9

LEMMA SaveTelemetryReadingFits ==
  ASSUME TypeInv, NEW w \in Workers, NEW newer \in 0 .. MaxNewer,
         SaveTelemetryReading(w, newer)
  PROVE  CallsFitNext
<1>1. /\ stage[w] = "save"
      /\ UNCHANGED <<setpoints, weights, anomalies, overtaken>>
  BY DEF SaveTelemetryReading
<1>2. RecordFits(w, call[w])
  BY <1>1, RunningCall
<1>3. /\ windows' \in [Parameters -> Seq(Int)]
      /\ \A p \in Parameters : Len(windows'[p]) <= DriftWindow
  BY WindowsStayTyped
<1>4. failures \in Nat
  BY DEF TypeInv, TablesFit
<1>5. CASE Fail(w) /\ UNCHANGED vars
  BY <1>1, <1>3, <1>4, <1>5, EndFits DEF Fail, vars
<1>6. CASE /\ ProcessAlerts(w, call[w].parameter, call[w].state)
           /\ stage' = [stage EXCEPT ![w] = "alerts"]
           /\ call' = [call EXCEPT ![w].reading = clock', ![w].newest = newer = 0]
           /\ UNCHANGED failures
  <2>1. /\ pc'[w] # "idle"
        /\ job'[w] = [parameter |-> call[w].parameter, state |-> call[w].state,
                      reading |-> clock']
        /\ clock' \in Nat
        /\ \A v \in Workers \ {w} : UNCHANGED <<pc[v], job[v]>>
    BY <1>6, ProcessAlertsFrame DEF TypeInv
  <2> DEFINE locals == AsSaved(call[w], clock', newer = 0)
  <2>2. call' = [call EXCEPT ![w] = locals]
    BY <1>6 DEF AsSaved, TypeInv, CallsAreJudged
  <2> HIDE DEF locals
  <2>3. stage'[w] = "alerts" /\ call'[w] = locals /\ OthersStay(w)
    BY <1>6, <2>2, Moved DEF TypeInv
  <2>4. /\ locals \in CallRecord
        /\ locals.parameter = call[w].parameter /\ locals.state = call[w].state
        /\ locals.reading = clock'
        /\ locals.detected = call[w].detected /\ locals.todo = call[w].todo
    BY <1>2, <2>1, CallReading DEF RecordFits, locals
  <2>5. KeysAreKept
    BY <1>1 DEF KeysAreKept
  <2>6. ASSUME NEW v \in Workers PROVE CallFits(v)'
    <3>1. CASE v # w
      BY <2>1, <2>3, <2>5, <3>1, OtherCallFits DEF TypeInv, OthersStay
    <3>2. CASE v = w
      BY <1>2, <2>1, <2>3, <2>4, <3>2 DEF CallFits, RecordFits, Stages
    <3> QED
      BY <3>1, <3>2
  <2>7. TablesFit'
    BY <1>1, <1>3, <1>6 DEF TypeInv, TablesFit
  <2> QED
    BY <2>6, <2>7 DEF CallsFitNext
<1> QED
  BY <1>5, <1>6 DEF SaveTelemetryReading

LEMMA AlertStatementFits ==
  ASSUME TypeInv, NEW w \in Workers, AlertStatement(w)
  PROVE  CallsFitNext
<1>1. /\ stage[w] = "alerts" /\ WorkerStep(w)
      /\ UNCHANGED <<windows, setpoints, weights, anomalies>>
      /\ Overtake(w)
  BY DEF AlertStatement
<1>2. /\ pc'[w] # "idle" => job'[w] = job[w]
      /\ \A v \in Workers \ {w} : UNCHANGED <<pc[v], job[v]>>
  BY <1>1, WorkerStepFrame DEF TypeInv
<1>3. KeysAreKept /\ overtaken' \subseteq Workers
  BY <1>1, OvertakenStaysTyped DEF KeysAreKept
<1>4. RecordFits(w, call[w])
  BY <1>1, RunningCall
<1>5. /\ OthersStay(w)
      /\ \/ pc'[w] # "idle" /\ UNCHANGED <<stage[w], call[w], failures>>
         \/ /\ pc'[w] = "idle" /\ stage'[w] = "active"
            /\ UNCHANGED <<call[w], failures>>
         \/ pc'[w] = "idle" /\ Ends(w)
  <2>1. CASE pc'[w] # "idle" /\ UNCHANGED <<stage, call, failures>>
    BY <2>1 DEF OthersStay
  <2>2. CASE /\ pc'[w] = "idle"
             /\ stage' = [stage EXCEPT ![w] = "active"]
             /\ UNCHANGED <<call, failures>>
    BY <2>2 DEF OthersStay, TypeInv, CallsAreJudged
  <2>3. CASE pc'[w] = "idle" /\ Fail(w)
    BY <2>3, FailMoves DEF TypeInv
  <2> QED
    BY <2>1, <2>2, <2>3 DEF AlertStatement
<1>6. ASSUME NEW v \in Workers PROVE CallFits(v)'
  <2>1. CASE v # w
    BY <1>2, <1>3, <1>5, <2>1, OtherCallFits DEF TypeInv, OthersStay
  <2>2. CASE v = w
    BY <1>1, <1>2, <1>4, <1>5, <2>2
       DEF TypeInv, CallFits, RecordFits, Ends, Stages
  <2> QED
    BY <2>1, <2>2
<1>7. failures' \in Nat
  <2>1. failures \in Nat
    BY DEF TypeInv, TablesFit
  <2> QED
    BY <1>5, <2>1 DEF Ends
<1>8. TablesFit'
  BY <1>1, <1>3, <1>7, TablesStay
<1> QED
  BY <1>6, <1>8 DEF CallsFitNext

-----------------------------------------------------------------------------
(* What the column holds after a weight was accepted.                      *)
LEMMA StoredWeight ==
  ASSUME NEW weight \in Int, ValidWeight(weight), WeightCheck(Stored(weight))
  PROVE  Stored(weight) \in Nat /\ 0 < Stored(weight) /\ Stored(weight) <= 10000
  BY DEF ValidWeight, WeightCheck, Stored

(* Operators, technologists: the workers are not touched.                  *)
LEMMA WorkersStay ==
  ASSUME TypeInv, UNCHANGED <<stage, call, pc, job, anomalies>>, NEW v \in Workers
  PROVE  CallFits(v)'
  BY OtherCallFits DEF TypeInv, KeysAreKept

LEMMA OperatorActsFits ==
  ASSUME TypeInv, NEW user, NEW i, OperatorActs(user, i)
  PROVE  CallsFitNext
<1>1. /\ UNCHANGED <<stage, call, pc, job, anomalies, windows, setpoints, weights,
                     failures>>
      /\ overtaken' = Workers
  BY DEF OperatorActs, AcknowledgeEvent, ResolveEvent
<1>2. failures \in Nat
  BY DEF TypeInv, TablesFit
<1>3. /\ anomalies' \in Seq(AnomalyRow)
      /\ \A k \in DOMAIN anomalies' : CreateIsAccepted(anomalies'[k].key)
  BY <1>1 DEF TypeInv, TablesFit
<1>4. TablesFit'
  BY <1>1, <1>2, <1>3, RowsChange
<1> QED
  BY <1>1, <1>4, WorkersStay DEF CallsFitNext

LEMMA UpdateSetpointFits ==
  ASSUME TypeInv, NEW p \in Parameters, NEW k \in DOMAIN Setpoints[p],
         UpdateSetpoint(p, Setpoints[p][k])
  PROVE  CallsFitNext
<1>1. /\ UNCHANGED <<vars, windows, weights, anomalies, stage, call, failures,
                     overtaken>>
      /\ ValidSetpoint(Setpoints[p][k])
      /\ setpoints' = [setpoints EXCEPT ![p] = Setpoints[p][k]]
  BY DEF UpdateSetpoint, UpdateSetpointRow
<1>2. Setpoints[p][k] \in Setpoint
  BY TelemetryAssumption
<1>3. /\ setpoints' \in [Parameters -> Setpoint]
      /\ \A q \in Parameters : ValidSetpoint(setpoints'[q])
  BY <1>1, <1>2 DEF TypeInv, TablesFit
<1>4. TablesFit'
  BY <1>1, <1>3 DEF TypeInv, TablesFit
<1> QED
  BY <1>1, <1>4, WorkersStay DEF CallsFitNext, vars

LEMMA UpdateWeightFits ==
  ASSUME TypeInv, NEW p \in Parameters, NEW k \in DOMAIN Weights[p],
         UpdateWeight(p, Weights[p][k])
  PROVE  CallsFitNext
<1> DEFINE weight == Weights[p][k]
           stored == Stored(weight)
<1>1. /\ UNCHANGED <<vars, windows, setpoints, anomalies, stage, call, failures>>
      /\ overtaken' = Workers
      /\ ValidWeight(weight) /\ WeightCheck(stored)
      /\ weights' = [weights EXCEPT ![p] = stored]
  BY DEF UpdateWeight, UpdateWeightRow
<1>2. weight \in Int
  BY TelemetryAssumption
<1>3. stored \in Nat /\ 0 < stored /\ stored <= 10000
  BY <1>1, <1>2, StoredWeight
<1> HIDE DEF stored
<1>4. /\ weights' \in [Parameters -> Nat]
      /\ \A q \in Parameters : 0 < weights'[q] /\ weights'[q] <= 10000
  BY <1>1, <1>3 DEF TypeInv, TablesFit
<1>5. TablesFit'
  BY <1>1, <1>4 DEF TypeInv, TablesFit
<1> QED
  BY <1>1, <1>5, WorkersStay DEF CallsFitNext, vars

-----------------------------------------------------------------------------
LEMMA ProcessStepFits ==
  ASSUME TypeInv, NEW w \in Workers, ProcessStep(w)
  PROVE  CallsFitNext
<1>1. CASE \E newer \in 0..MaxNewer : SaveTelemetryReading(w, newer)
  BY <1>1, SaveTelemetryReadingFits
<1>2. CASE \/ LoadRiskHistory(w, "pressure", "moisture")
           \/ LoadRiskHistory(w, "moisture", "drive_load")
           \/ LoadRiskHistory(w, "drive_load", "sync")
  BY <1>2, LoadRiskHistoryFits
<1>3. CASE \/ AlertStatement(w) \/ LoadActiveAlerts(w) \/ LoadParameterHistory(w)
           \/ LoadActiveAnomalies(w) \/ LoadQualityWeights(w) \/ SaveQualityIndex(w)
  BY <1>3, AlertStatementFits, LoadActiveAlertsFits, LoadParameterHistoryFits,
     LoadActiveAnomaliesFits, LoadQualityWeightsFits, SaveQualityIndexFits
<1>4. CASE \/ FindOpenAnomaly(w) \/ UpdateAnomaly(w) \/ UpdateAnomalyMisses(w)
           \/ CreateAnomaly(w) \/ CreateAnomalyIsRefused(w) \/ ResolveAnomaly(w)
           \/ WriteFails(w)
  BY <1>4, FindOpenAnomalyFits, UpdateAnomalyFits, UpdateAnomalyMissesFits,
     CreateAnomalyFits, ResolveAnomalyFits, WriteFailsFits
<1> QED
  BY <1>1, <1>2, <1>3, <1>4 DEF ProcessStep

LEMMA ProcessNextFits ==
  ASSUME TypeInv, [ProcessNext]_allVars
  PROVE  TypeInv'
<1>1. TypeOK' /\ CallsAreJudged'
  BY ProcessNextIsAlertsStep, NextTypeOK DEF TypeInv
<1>2. ASSUME UNCHANGED allVars
      PROVE  CallsFitNext
  <2>1. UNCHANGED <<stage, call, pc, job, anomalies, windows, setpoints, weights,
                    failures, overtaken>>
    BY <1>2 DEF allVars, processVars, vars
  <2>2. TablesFit'
    BY <2>1 DEF TypeInv, TablesFit
  <2> QED
    BY <2>1, <2>2, WorkersStay DEF CallsFitNext
<1>3. ASSUME NEW w \in Workers, NEW p \in Parameters, NEW value \in Values[p],
             Validate(w, p, value)
      PROVE  CallsFitNext
  BY <1>3, ValidateFits
<1>4. ASSUME NEW w \in Workers, ProcessStep(w)
      PROVE  CallsFitNext
  BY <1>4, ProcessStepFits
<1>5. ASSUME NEW user \in Users, NEW i \in DOMAIN alerts, OperatorActs(user, i)
      PROVE  CallsFitNext
  BY <1>5, OperatorActsFits
<1>6. ASSUME NEW p \in Parameters,
             \/ \E k \in DOMAIN Setpoints[p] : UpdateSetpoint(p, Setpoints[p][k])
             \/ \E k \in DOMAIN Weights[p] : UpdateWeight(p, Weights[p][k])
      PROVE  CallsFitNext
  BY <1>6, UpdateSetpointFits, UpdateWeightFits
<1>7. CallsFitNext
  BY <1>2, <1>3, <1>4, <1>5, <1>6 DEF ProcessNext
<1> QED
  BY <1>1, <1>7 DEF TypeInv, CallsFitNext

LEMMA ProcessInitFits == ProcessInit => TypeInv
<1> SUFFICES ASSUME ProcessInit PROVE TypeInv
  OBVIOUS
<1>1. TypeOK /\ CallsAreJudged
  BY InitTypeOK DEF ProcessInit, CallsAreJudged
<1>2. /\ setpoints \in [Parameters -> Setpoint]
      /\ \A p \in Parameters : ValidSetpoint(setpoints[p])
  BY TelemetryAssumption DEF ProcessInit
<1>3. /\ weights \in [Parameters -> Nat]
      /\ \A p \in Parameters : 0 < weights[p] /\ weights[p] <= 10000
  <2>1. ASSUME NEW p \in Parameters
        PROVE  LET n == Stored(Head(Weights[p]))
               IN  n \in Nat /\ 0 < n /\ n <= 10000
    <3>1. /\ Weights[p] \in Seq(Int) /\ Weights[p] # << >>
          /\ ValidWeight(Head(Weights[p])) /\ WeightCheck(Stored(Head(Weights[p])))
      BY TelemetryAssumption
    <3>2. Head(Weights[p]) \in Int
      BY <3>1, HeadTailProperties
    <3> QED
      BY <3>1, <3>2, StoredWeight
  <2> QED
    BY <2>1 DEF ProcessInit
<1>4. TablesFit
  BY <1>2, <1>3, TelemetryAssumption, EmptySeq DEF ProcessInit, TablesFit
<1>5. \A w \in Workers : CallFits(w)
  BY DEF ProcessInit, Init, CallFits, Stages
<1> QED
  BY <1>1, <1>4, <1>5 DEF TypeInv

LEMMA CallsAlwaysFitted == ProcessSpec => []TypeInv
  BY ProcessInitFits, ProcessNextFits, PTL DEF ProcessSpec

(* Every reachable state of Process is well typed; the two levels of       *)
(* control fit together, and the anomaly a call is about to update exists, *)
(* whatever other calls, failing statements and technologists do.          *)
THEOREM ProcessTypeCorrectness == ProcessSpec => []ProcessTypeOK
<1>1. TypeInv => ProcessTypeOK
  <2> SUFFICES ASSUME TypeInv PROVE ProcessTypeOK
    OBVIOUS
  <2>1. ASSUME NEW w \in Workers PROVE CallOK(w)
    BY NoCallIsNoRecord DEF TypeInv, CallFits, RecordFits, AnomalyInHand, CallOK
  <2>2. ASSUME NEW p \in Parameters PROVE ParameterOK(p)
    BY DEF TypeInv, TablesFit, ParameterOK
  <2>3. /\ \A i \in DOMAIN anomalies : CreateIsAccepted(anomalies[i].key)
        /\ overtaken \subseteq Workers
    BY DEF TypeInv, TablesFit
  <2> QED
    BY <2>1, <2>2, <2>3 DEF ProcessTypeOK
<1> QED
  BY <1>1, CallsAlwaysFitted, PTL

=============================================================================
